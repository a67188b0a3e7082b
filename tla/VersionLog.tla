----------------------------- MODULE VersionLog -----------------------------
(***************************************************************************)
(* What the raw object ledger (raw_objects/ledger) promises to the         *)
(* pipelines: for each object a log of versions that only grows, one       *)
(* version at a time, and a set of publication markers that only grows.    *)
(***************************************************************************)
EXTENDS Sequences

CONSTANTS
  Object,   \* raw objects
  Content   \* what a version may hold, by checksum

VARIABLES
  log,      \* log[o]: contents of the versions of o, by version number
  marked    \* publication markers, as pairs of object and content

Init == log = [o \in Object |-> <<>>] /\ marked = {}

\* rotate_version: one object gets its next version.
AppendVersion(o, c) ==
  /\ log' = [log EXCEPT ![o] = Append(@, c)]
  /\ UNCHANGED marked

\* mark_published_many: markers of contents that are versions, all or none.
Mark(S) ==
  /\ \A m \in S : \E i \in DOMAIN log[m[1]] : log[m[1]][i] = m[2]
  /\ marked' = marked \cup S
  /\ UNCHANGED log

Next ==
  \/ \E o \in Object, c \in Content : AppendVersion(o, c)
  \/ \E S \in SUBSET (Object \X Content) : Mark(S)

Spec == Init /\ [][Next]_<<log, marked>>
=============================================================================
