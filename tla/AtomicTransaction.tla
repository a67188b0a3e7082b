------------------------- MODULE AtomicTransaction -------------------------
(***************************************************************************)
(* What a DuckLakeSession.transaction() block promises: the writes made in *)
(* one outermost block become durable together when it ends, or never, and *)
(* never when anything inside it has failed.                               *)
(***************************************************************************)
CONSTANT Write

VARIABLES durable,  \* the writes every reader sees
          open,     \* is an outermost block open?
          work,     \* what it has written so far
          doomed    \* has something inside it failed?

vars == <<durable, open, work, doomed>>

Init == durable = {} /\ open = FALSE /\ work = {} /\ doomed = FALSE

Open ==
  /\ ~open
  /\ open' = TRUE
  /\ UNCHANGED <<durable, work, doomed>>

Do(w) ==
  /\ open
  /\ work' = work \cup {w}
  /\ UNCHANGED <<durable, open, doomed>>

Doom ==
  /\ open
  /\ doomed' = TRUE
  /\ UNCHANGED <<durable, open, work>>

Close == open /\ open' = FALSE /\ work' = {} /\ doomed' = FALSE

Commit == Close /\ ~doomed /\ durable' = durable \cup work

Abort == Close /\ UNCHANGED durable

Next == Open \/ Doom \/ Commit \/ Abort \/ \E w \in Write : Do(w)

Spec == Init /\ [][Next]_vars
============================================================================
