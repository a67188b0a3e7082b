------------------------ MODULE DuckLakeLocksProofs ------------------------
(***************************************************************************)
(* Theorems about DuckLakeLocks for any processes, tables and scopes.      *)
(***************************************************************************)
EXTENDS DuckLakeLocks, FiniteSetTheorems, WellFoundedInduction, TLAPS

(***************************************************************************)
(* Whatever a caller of hold_ducklake_lock_domains asks for is made of     *)
(* lock domains the module defines.                                        *)
(***************************************************************************)
LEMMA RequestsAreDomains == \A S \in Requests : S \subseteq Domain
<1>1. SUFFICES ASSUME NEW s \in Scope PROVE DomainsForPublicationScope(s) \subseteq Domain
  BY DEF Requests, Domain
<1>2. ScopeData[s] \subseteq DataTable /\ ScopeProvenance[s] \subseteq ProvenanceTable
  BY ScopeAssumption
<1>3. QED
  BY <1>2 DEF DomainsForPublicationScope, Domain, RawBootstrapLockDomains,
     AllRawPublicationLockDomains, LockDomains

(***************************************************************************)
(* The states of hold_ducklake_lock_domains are well typed.                *)
(***************************************************************************)
THEOREM TypeCorrect == Spec => []TypeOK
<1>1. Init => TypeOK
  BY DEF Init, TypeOK, Phases
<1>2. TypeOK /\ [Next]_vars => TypeOK'
  <2> SUFFICES ASSUME TypeOK, [Next]_vars PROVE TypeOK'
    OBVIOUS
  <2> USE DEF TypeOK, Phases
  <2>1. ASSUME NEW p \in Process, Enter(p) PROVE TypeOK'
    BY <2>1, RequestsAreDomains DEF Enter
  <2>2. ASSUME NEW p \in Process, EnterUnlocked(p) PROVE TypeOK'
    BY <2>2 DEF EnterUnlocked
  <2>3. ASSUME NEW p \in Process, Acquire(p) PROVE TypeOK'
    BY <2>3 DEF Acquire
  <2>4. ASSUME NEW p \in Process, Activate(p) PROVE TypeOK'
    BY <2>4 DEF Activate
  <2>5. ASSUME NEW p \in Process, AcquireFails(p) PROVE TypeOK'
    BY <2>5 DEF AcquireFails
  <2>6. ASSUME NEW p \in Process, Exit(p) PROVE TypeOK'
    BY <2>6 DEF Exit
  <2>7. ASSUME NEW p \in Process, Crash(p) PROVE TypeOK'
    BY <2>7 DEF Crash
  <2>8. ASSUME NEW p \in Process, CloseSession(p) PROVE TypeOK'
    BY <2>8 DEF CloseSession
  <2>9. ASSUME NEW p \in Process, DropSession(p) PROVE TypeOK'
    BY <2>9 DEF DropSession
  <2>10. CASE UNCHANGED vars
    BY <2>10 DEF vars
  <2>11. QED
    BY <2>1, <2>2, <2>3, <2>4, <2>5, <2>6, <2>7, <2>8, <2>9, <2>10 DEF Next
<1>3. QED
  BY <1>1, <1>2, PTL DEF Spec

----------------------------------------------------------------------------
(* The inductive invariant behind the safety properties.                   *)

\* The session of a process outside the block holds nothing.
OutsideIsClean ==
  \A p \in Process : phase[p] = "outside" => request[p] = {} /\ held[p] = {}

\* PostgreSQL grants a lock to one session, and only what was asked for.
HeldOnce ==
  /\ \A p \in Process : held[p] \subseteq request[p]
  /\ \A p, q \in Process : \A d \in Domain : d \in held[p] /\ d \in held[q] => p = q

\* A token is active exactly inside the block, where the session has it all.
TokenInside ==
  \A p \in Process :
    /\ token[p] => phase[p] = "inside"
    /\ phase[p] = "inside" /\ p \in Connected => held[p] = request[p]

LockInv == OutsideIsClean /\ HeldOnce /\ TokenInside

LEMMA LockInvInit == Init => LockInv
BY DEF Init, LockInv, OutsideIsClean, HeldOnce, TokenInside

LEMMA LockInvStep == TypeOK /\ LockInv /\ [Next]_vars => LockInv'
<1> SUFFICES ASSUME TypeOK, LockInv, [Next]_vars PROVE LockInv'
  OBVIOUS
<1> USE DEF TypeOK, Phases, LockInv, OutsideIsClean, HeldOnce, TokenInside
<1>1. ASSUME NEW p \in Process, Enter(p) PROVE LockInv'
  <2>1. PICK S \in Requests : request' = [request EXCEPT ![p] = S]
    BY <1>1 DEF Enter
  <2>2. held[p] = {} /\ ~token[p]
    BY <1>1 DEF Enter
  <2>3. QED
    BY <1>1, <2>1, <2>2 DEF Enter
<1>2. ASSUME NEW p \in Process, EnterUnlocked(p) PROVE LockInv'
  BY <1>2 DEF EnterUnlocked
<1>3. ASSUME NEW p \in Process, Acquire(p) PROVE LockInv'
  <2>1. PICK d \in Domain : d \in Remaining(p) /\ Free(d) /\ held' = [held EXCEPT ![p] = @ \cup {d}]
    BY <1>3 DEF Acquire, NextDomain
  <2>2. HeldOnce'
    BY <1>3, <2>1 DEF Acquire, Remaining, Free
  <2>3. OutsideIsClean' /\ TokenInside'
    BY <1>3, <2>1 DEF Acquire
  <2>4. QED
    BY <2>2, <2>3
<1>4. ASSUME NEW p \in Process, Activate(p) PROVE LockInv'
  BY <1>4 DEF Activate, Remaining
<1>5. ASSUME NEW p \in Process, AcquireFails(p) PROVE LockInv'
  BY <1>5 DEF AcquireFails
<1>6. ASSUME NEW p \in Process, Exit(p) PROVE LockInv'
  BY <1>6 DEF Exit
<1>7. ASSUME NEW p \in Process, Crash(p) PROVE LockInv'
  BY <1>7 DEF Crash
<1>8. ASSUME NEW p \in Process, CloseSession(p) PROVE LockInv'
  BY <1>8 DEF CloseSession
<1>9. ASSUME NEW p \in Process, DropSession(p) PROVE LockInv'
  BY <1>9 DEF DropSession, Connected
<1>10. CASE UNCHANGED vars
  BY <1>10 DEF vars
<1>11. QED
  BY <1>1, <1>2, <1>3, <1>4, <1>5, <1>6, <1>7, <1>8, <1>9, <1>10 DEF Next

LEMMA LockInvariant == Spec => [](TypeOK /\ LockInv)
BY TypeCorrect, LockInvInit, LockInvStep, PTL DEF Spec

(***************************************************************************)
(* As long as PostgreSQL keeps its session, a process whose token is       *)
(* active holds the locks the token names (locks.py:135).                  *)
(***************************************************************************)
THEOREM TokenTheorem == Spec => []TokenProvesLocks
<1>1. TypeOK /\ LockInv => TokenProvesLocks
  BY DEF TypeOK, LockInv, TokenInside, TokenProvesLocks, TokenIsProof, Covers, Connected
<1>2. QED
  BY <1>1, LockInvariant, PTL

(***************************************************************************)
(* No two processes whose sessions last may mutate the tables of one       *)
(* domain at the same time.                                                *)
(***************************************************************************)
THEOREM ExclusiveCoverTheorem == Spec => []ExclusiveCover
<1>1. TypeOK /\ LockInv => ExclusiveCover
  BY DEF TypeOK, LockInv, TokenInside, HeldOnce, ExclusiveCover, Covers, Connected
<1>2. QED
  BY <1>1, LockInvariant, PTL

----------------------------------------------------------------------------
(* Deadlock freedom.                                                       *)

(***************************************************************************)
(* ordered_ducklake_lock_domains sorts by a strict total order of domains. *)
(***************************************************************************)
LEMMA BeforeIsTotalOrder ==
  /\ \A d \in Domain : ~Before(d, d)
  /\ \A d, e \in Domain : d = e \/ Before(d, e) \/ Before(e, d)
  /\ \A d, e, f \in Domain : Before(d, e) /\ Before(e, f) => Before(d, f)
<1>1. \A d \in Domain : LockDomainRank(d) \in 0..2 /\ NameOrder[d[2]] \in Nat
  BY NameOrderAssumption, FS_CardinalityType DEF Domain, RawBootstrapLockDomains,
     AllRawPublicationLockDomains, LockDomains, MigrationLockDomain,
     RawTableLockDomain, ProvenanceTableLockDomain, LockDomainRank, Name
<1>2. \A d, e \in Domain :
        LockDomainRank(d) = LockDomainRank(e) /\ NameOrder[d[2]] = NameOrder[e[2]] => d = e
  BY NameOrderAssumption DEF Domain, RawBootstrapLockDomains,
     AllRawPublicationLockDomains, LockDomains, MigrationLockDomain,
     RawTableLockDomain, ProvenanceTableLockDomain, LockDomainRank, Name
<1>3. QED
  BY <1>1, <1>2 DEF Before

(***************************************************************************)
(* Whatever a process waits for comes after everything it has.             *)
(***************************************************************************)
THEOREM OrderedWaitsTheorem == Spec => []OrderedWaits
<1>1. Init => OrderedWaits
  BY DEF Init, OrderedWaits
<1>2. TypeOK /\ LockInv /\ OrderedWaits /\ [Next]_vars => OrderedWaits'
  <2> SUFFICES ASSUME TypeOK, LockInv, OrderedWaits, [Next]_vars PROVE OrderedWaits'
    OBVIOUS
  <2> USE DEF TypeOK, OrderedWaits, Remaining
  <2>1. ASSUME NEW p \in Process, Enter(p) PROVE OrderedWaits'
    BY <2>1 DEF Enter, LockInv, OutsideIsClean
  <2>2. ASSUME NEW p \in Process, Acquire(p) PROVE OrderedWaits'
    <3>1. PICK d \in Domain : NextDomain(p, d) /\ held' = [held EXCEPT ![p] = @ \cup {d}]
      BY <2>2 DEF Acquire
    <3>2. ASSUME NEW b \in held'[p], NEW e \in request[p] \ held'[p], phase[p] = "acquiring"
          PROVE  Before(b, e)
      BY <3>1, <3>2 DEF NextDomain
    <3>3. QED
      BY <2>2, <3>1, <3>2 DEF Acquire
  <2>3. ASSUME NEW p \in Process,
               EnterUnlocked(p) \/ Activate(p) \/ AcquireFails(p) \/ Exit(p)
                 \/ Crash(p) \/ CloseSession(p) \/ DropSession(p)
        PROVE  OrderedWaits'
    BY <2>3 DEF EnterUnlocked, Activate, AcquireFails, Exit, Crash, CloseSession, DropSession
  <2>4. CASE UNCHANGED vars
    BY <2>4 DEF vars
  <2>5. QED
    BY <2>1, <2>2, <2>3, <2>4 DEF Next
<1>3. QED
  BY <1>1, <1>2, LockInvariant, PTL DEF Spec

(***************************************************************************)
(* A set of domains that is not empty has a last one: the tables, hence    *)
(* the positions in the order, are finitely many.                          *)
(***************************************************************************)
LEMMA LastDomain ==
  ASSUME NEW D \in SUBSET Domain, D # {}
  PROVE  \E d \in D : \A e \in D : ~Before(d, e)
<1> DEFINE N == Cardinality(Name)
           Depth(d) == (2 - LockDomainRank(d)) * (N + 1) + (N - NameOrder[d[2]])
           M == {Depth(d) : d \in D}
           R == OpToRel(<, Nat)
<1>1. N \in Nat
  BY NameOrderAssumption, FS_CardinalityType
<1>2. \A d \in D : LockDomainRank(d) \in 0..2 /\ NameOrder[d[2]] \in 1..N
  BY NameOrderAssumption DEF Domain, RawBootstrapLockDomains,
     AllRawPublicationLockDomains, LockDomains, MigrationLockDomain,
     RawTableLockDomain, ProvenanceTableLockDomain, LockDomainRank, Name
<1> HIDE DEF N
<1>3. \A d \in D : Depth(d) \in Nat
  <2> SUFFICES ASSUME NEW d \in D PROVE Depth(d) \in Nat
    OBVIOUS
  <2>1. LockDomainRank(d) = 0 \/ LockDomainRank(d) = 1 \/ LockDomainRank(d) = 2
    BY <1>2
  <2>2. QED
    BY <1>1, <1>2, <2>1
<1>4. \A d, e \in D : Before(d, e) => Depth(e) < Depth(d)
  <2> SUFFICES ASSUME NEW d \in D, NEW e \in D, Before(d, e) PROVE Depth(e) < Depth(d)
    OBVIOUS
  <2>1. LockDomainRank(d) = 0 \/ LockDomainRank(d) = 1 \/ LockDomainRank(d) = 2
    BY <1>2
  <2>2. LockDomainRank(e) = 0 \/ LockDomainRank(e) = 1 \/ LockDomainRank(e) = 2
    BY <1>2
  <2>3. QED
    BY <1>1, <1>2, <2>1, <2>2 DEF Before
<1>5. M \subseteq Nat /\ M # {}
  BY <1>3
<1>6. PICK m \in M : \A k \in M : <<k, m>> \notin R
  <2> HIDE DEF M, R
  <2>1. IsWellFoundedOn(R, Nat)
    BY NatLessThanWellFounded DEF R
  <2>2. QED
    BY <1>5, <2>1, WFMin
<1>7. \A k \in M : ~(k < m)
  BY <1>5, <1>6 DEF OpToRel
<1>8. PICK d \in D : m = Depth(d)
  BY <1>6
<1>9. \A e \in D : ~Before(d, e)
  BY <1>4, <1>7, <1>8
<1>10. QED
  BY <1>9

(***************************************************************************)
(* Processes that wait, however many, never wait only on each other: the   *)
(* holder of the last domain they wait for is not one of them.             *)
(***************************************************************************)
THEOREM NoWaitCycleTheorem == Spec => []NoWaitCycle
<1>1. TypeOK /\ LockInv /\ OrderedWaits => NoWaitCycle
  <2> SUFFICES ASSUME TypeOK, LockInv, OrderedWaits,
                      NEW P \in SUBSET {p \in Process : Waiting(p)}, P # {},
                      \A p \in P : \E d \in Domain :
                         NextDomain(p, d) /\ \E q \in P : d \in held[q]
               PROVE  FALSE
    BY DEF NoWaitCycle
  <2> DEFINE D == {d \in Domain : \E p \in P : NextDomain(p, d)}
  <2>1. D # {}
    OBVIOUS
  <2>2. PICK d \in D : \A e \in D : ~Before(d, e)
    BY <2>1, LastDomain
  <2>3. PICK q \in P : d \in held[q]
    <3>1. PICK p \in P : NextDomain(p, d)
      BY <2>2
    <3>2. PICK e \in Domain : NextDomain(p, e) /\ \E q \in P : e \in held[q]
      OBVIOUS
    <3>3. d = e
      BY <3>1, <3>2, <2>2, BeforeIsTotalOrder DEF NextDomain
    <3>4. QED
      BY <3>2, <3>3
  <2>4. PICK e \in Domain : NextDomain(q, e)
    OBVIOUS
  <2>5. Before(d, e)
    BY <2>2, <2>3, <2>4 DEF OrderedWaits, Waiting, NextDomain
  <2>6. QED
    BY <2>2, <2>4, <2>5
<1>2. QED
  BY <1>1, LockInvariant, OrderedWaitsTheorem, PTL

----------------------------------------------------------------------------
(* Refinement.                                                             *)

(***************************************************************************)
(* Taking the locks one statement at a time looks, to those who ask for    *)
(* tokens, like taking them all at once.                                   *)
(***************************************************************************)
THEOREM Refinement == Spec => ImplementsLockService
<1> DEFINE C == [p \in Connected |-> IF token[p] THEN request[p] ELSE {}]
<1>1. Init => Service!Init
  BY DEF Init, Service!Init, Connected
<1>2. TypeOK /\ LockInv /\ [Next]_vars => [Service!Next]_C
  <2> SUFFICES ASSUME TypeOK, LockInv, [Next]_vars PROVE Service!Next \/ C' = C
    OBVIOUS
  <2> USE DEF TypeOK, LockInv, TokenInside, Connected
  <2>1. ASSUME NEW p \in Process, Activate(p) PROVE Service!Next \/ C' = C
    <3>1. CASE p \notin Connected
      BY <2>1, <3>1 DEF Activate
    <3>2. CASE p \in Connected
      <4>1. ~token[p] /\ request[p] \in SUBSET Domain
        BY <2>1 DEF Activate
      <4>2. \A q \in Connected \ {p} : C[q] \cap request[p] = {}
        BY <2>1 DEF Activate, HeldOnce, Remaining
      <4>3. C' = [C EXCEPT ![p] = request[p]]
        BY <2>1 DEF Activate
      <4>4. \E S \in SUBSET Domain : Service!Grant(p, S)
        BY <3>2, <4>1, <4>2, <4>3 DEF Service!Grant
      <4>5. QED
        BY <3>2, <4>4 DEF Service!Next
    <3>3. QED
      BY <3>1, <3>2
  <2>2. ASSUME NEW p \in Process, Exit(p) \/ Crash(p) PROVE Service!Next \/ C' = C
    <3>1. CASE p \notin Connected
      BY <2>2, <3>1 DEF Exit, Crash
    <3>2. CASE p \in Connected
      <4>1. C' = [C EXCEPT ![p] = {}]
        BY <2>2 DEF Exit, Crash
      <4>2. QED
        BY <3>2, <4>1 DEF Service!Next, Service!Revoke
    <3>3. QED
      BY <3>1, <3>2
  <2>3. CASE ~\E p \in Process : Activate(p) \/ Exit(p) \/ Crash(p)
    \* What is asked for changes without a token only, and tokens do not change.
    <3>1. ASSUME NEW p \in Process, Enter(p) \/ EnterUnlocked(p) \/ CloseSession(p)
          PROVE  C' = C
      BY <3>1 DEF Enter, EnterUnlocked, CloseSession, OutsideIsClean
    <3>2. ASSUME NEW p \in Process, Acquire(p) \/ AcquireFails(p) \/ DropSession(p)
          PROVE  UNCHANGED <<token, request>>
      BY <3>2 DEF Acquire, AcquireFails, DropSession
    <3>3. UNCHANGED vars => UNCHANGED <<token, request>>
      BY DEF vars
    <3>4. QED
      BY <2>3, <3>1, <3>2, <3>3 DEF Next
  <2>4. QED
    BY <2>1, <2>2, <2>3
<1>3. QED
  BY <1>1, <1>2, LockInvariant, PTL DEF Spec, ImplementsLockService, Service!Spec
============================================================================
