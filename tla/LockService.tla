---------------------------- MODULE LockService ----------------------------
(***************************************************************************)
(* What DuckLake publication is promised by its locks, whatever the way    *)
(* they are obtained: a process takes a whole set of domains in one step,  *)
(* only when nobody else has a token for any of them, and gives the whole  *)
(* set back in one step.  DuckLakeLocks implements it with one PostgreSQL  *)
(* advisory lock per domain, taken one statement at a time.                *)
(***************************************************************************)
CONSTANTS Process,   \* the processes that publish or bootstrap
          Domain     \* the lock domains

VARIABLE covered     \* covered[p]: the domains p has an active token for

TypeOK == covered \in [Process -> SUBSET Domain]

Init == covered = [p \in Process |-> {}]

\* p is handed a token for the domains in S.
Grant(p, S) ==
  /\ covered[p] = {}
  /\ \A q \in Process \ {p} : covered[q] \cap S = {}
  /\ covered' = [covered EXCEPT ![p] = S]

\* p's token is deactivated.
Revoke(p) == covered' = [covered EXCEPT ![p] = {}]

Next == \E p \in Process : Revoke(p) \/ \E S \in SUBSET Domain : Grant(p, S)

Spec == Init /\ [][Next]_covered

(***************************************************************************)
(* Two processes never have active tokens for the same domain: the tables  *)
(* a token covers have one writer.                                         *)
(***************************************************************************)
MutualExclusion ==
  \A p, q \in Process : p # q => covered[p] \cap covered[q] = {}
============================================================================
