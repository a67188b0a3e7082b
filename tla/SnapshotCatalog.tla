--------------------------- MODULE SnapshotCatalog ---------------------------
(***************************************************************************)
(* What publishing a snapshot dataset promises: every source object is     *)
(* ingested at most once, its rows and its provenance appear together, in  *)
(* one commit with other objects of its scope, and an object is marked     *)
(* published in the ledger only once it is there, with the checksum the    *)
(* catalog has for it.  Nothing is ever taken back.                        *)
(***************************************************************************)
EXTENDS Naturals

CONSTANTS Object, Content, None

VARIABLES ingested,  \* ingested[o]: the checksum the provenance row of o has
          copies,    \* copies[o]: how many times the rows of o are in the table
          marked     \* the <<o, checksum>> pairs marked published

vars == <<ingested, copies, marked>>

Init ==
  /\ ingested = [o \in Object |-> None]
  /\ copies = [o \in Object |-> 0]
  /\ marked = {}

\* One commit: the objects of S, none of them ingested before, with checksums sha.
Append(S, sha) ==
  /\ \A o \in S : ingested[o] = None
  /\ ingested' = [o \in Object |-> IF o \in S THEN sha[o] ELSE ingested[o]]
  /\ copies' = [o \in Object |-> IF o \in S THEN copies[o] + 1 ELSE copies[o]]
  /\ UNCHANGED marked

\* One ledger transaction: pairs the catalog agrees with.
Mark(M) ==
  /\ \A m \in M : ingested[m[1]] = m[2]
  /\ marked' = marked \cup M
  /\ UNCHANGED <<ingested, copies>>

Next ==
  \/ \E S \in SUBSET Object : \E sha \in [S -> Content] : Append(S, sha)
  \/ \E M \in SUBSET (Object \X Content) : Mark(M)

Spec == Init /\ [][Next]_vars
=============================================================================
