--------------------------- MODULE DuckLakeLocks ---------------------------
(***************************************************************************)
(* ducklake/locks.py: hold_ducklake_lock_domains and the token it yields.  *)
(*                                                                         *)
(* A caller asks for a set of lock domains.  The context manager opens a   *)
(* PostgreSQL session, takes one advisory lock per domain in a fixed       *)
(* order, activates the token only when it has them all, deactivates it    *)
(* when the block ends and then closes the session, which is what releases *)
(* the locks.  PostgreSQL's side (held) and the caller's side (phase,      *)
(* request, token) are separate state: they disagree while a session is    *)
(* being closed, after a crash and, for the processes of MayDrop, after    *)
(* the server ends a session that its client still believes in.            *)
(***************************************************************************)
EXTENDS Naturals, FiniteSets

CONSTANTS
  Process,            \* publishers and bootstraps, one per Python process
  DataTable,          \* RawDuckLakeTable
  ProvenanceTable,    \* RawDuckLakeProvenanceTable
  Scope,              \* the prefixes of _PUBLICATION_SCOPE_TABLES
  ScopeData,          \* the data tables of a scope
  ScopeProvenance,    \* the provenance tables of a scope
  Migration,          \* the name of the migration domain
  NameOrder,          \* position of a name in string order
  MayDrop             \* processes whose session the server may end under them

Name == DataTable \cup ProvenanceTable \cup {Migration}

ASSUME ScopeAssumption ==
  /\ ScopeData \in [Scope -> SUBSET DataTable]
  /\ ScopeProvenance \in [Scope -> SUBSET ProvenanceTable]

ASSUME NameOrderAssumption ==
  /\ IsFiniteSet(Name)
  /\ NameOrder \in [Name -> 1..Cardinality(Name)]
  /\ \A t, u \in Name : NameOrder[t] = NameOrder[u] => t = u

ASSUME MayDropAssumption == MayDrop \subseteq Process

\* The processes whose connection lasts as long as they use it.
Connected == Process \ MayDrop

----------------------------------------------------------------------------
(* Lock domains: a prefix, which gives the rank, and a name.               *)

RawTableLockDomain(t) == <<"raw", t>>
ProvenanceTableLockDomain(t) == <<"support", t>>
MigrationLockDomain == <<"migration", Migration>>

LockDomains(dataTables, provenanceTables) ==
  {RawTableLockDomain(t) : t \in dataTables}
    \cup {ProvenanceTableLockDomain(t) : t \in provenanceTables}

AllRawPublicationLockDomains == LockDomains(DataTable, ProvenanceTable)

RawBootstrapLockDomains == {MigrationLockDomain} \cup AllRawPublicationLockDomains

\* Mutant: the provenance tables of a scope are locked as data tables.
DomainsForPublicationScopeRaw(s) == LockDomains(ScopeData[s] \cup ScopeProvenance[s], {})

DomainsForPublicationScope(s) == LockDomains(ScopeData[s], ScopeProvenance[s])

Domain == RawBootstrapLockDomains

LockDomainRank(d) ==
  CASE d[1] = "migration" -> 0
    [] d[1] = "raw"       -> 1
    [] d[1] = "support"   -> 2

\* d comes before e in ordered_ducklake_lock_domains.
Before(d, e) ==
  \/ LockDomainRank(d) < LockDomainRank(e)
  \/ LockDomainRank(d) = LockDomainRank(e) /\ NameOrder[d[2]] < NameOrder[e[2]]

\* What the code's callers ask for; the empty request takes no lock at all.
Requests ==
  {{}, RawBootstrapLockDomains} \cup {DomainsForPublicationScope(s) : s \in Scope}

----------------------------------------------------------------------------
VARIABLES
  phase,    \* where each process is in hold_ducklake_lock_domains
  request,  \* its ordered_domains, which are also its token's held_domains
  token,    \* is its token active?
  held      \* PostgreSQL: the advisory locks of its session

vars == <<phase, request, token, held>>

Phases == {"outside", "acquiring", "inside", "closing"}

TypeOK ==
  /\ phase \in [Process -> Phases]
  /\ request \in [Process -> SUBSET Domain]
  /\ token \in [Process -> BOOLEAN]
  /\ held \in [Process -> SUBSET Domain]

Init ==
  /\ phase = [p \in Process |-> "outside"]
  /\ request = [p \in Process |-> {}]
  /\ token = [p \in Process |-> FALSE]
  /\ held = [p \in Process |-> {}]

\* The domains p's loop has not reached, and the one its statement asks for.
Remaining(p) == request[p] \ held[p]

NextDomain(p, d) ==
  /\ d \in Remaining(p)
  /\ \A e \in Remaining(p) : e = d \/ Before(d, e)

Free(d) == \A q \in Process : d \notin held[q]

\* An empty request: the token is active with no session behind it.
EnterUnlocked(p) ==
  /\ phase[p] = "outside"
  /\ phase' = [phase EXCEPT ![p] = "inside"]
  /\ token' = [token EXCEPT ![p] = TRUE]
  /\ UNCHANGED <<request, held>>

\* psycopg.connect, and the loop over the ordered domains begins.
Enter(p) ==
  /\ phase[p] = "outside"
  /\ \E S \in Requests \ {{}} : request' = [request EXCEPT ![p] = S]
  /\ phase' = [phase EXCEPT ![p] = "acquiring"]
  /\ UNCHANGED <<token, held>>

\* Mutant: the loop takes the domains in the order the caller lists them.
AcquireUnordered(p) ==
  /\ phase[p] = "acquiring"
  /\ \E d \in Remaining(p) :
       /\ Free(d)
       /\ held' = [held EXCEPT ![p] = @ \cup {d}]
  /\ UNCHANGED <<phase, request, token>>

\* pg_advisory_lock returns for the next domain of the loop.
Acquire(p) ==
  /\ phase[p] = "acquiring"
  /\ \E d \in Domain :
       /\ NextDomain(p, d)
       /\ Free(d)
       /\ held' = [held EXCEPT ![p] = @ \cup {d}]
  /\ UNCHANGED <<phase, request, token>>

\* Mutant: the token is active as soon as one lock was granted.
ActivateEarly(p) ==
  /\ phase[p] = "acquiring"
  /\ held[p] # {}
  /\ phase' = [phase EXCEPT ![p] = "inside"]
  /\ token' = [token EXCEPT ![p] = TRUE]
  /\ UNCHANGED <<request, held>>

\* The loop is over: the token becomes active and the block is entered.
Activate(p) ==
  /\ phase[p] = "acquiring"
  /\ Remaining(p) = {}
  /\ phase' = [phase EXCEPT ![p] = "inside"]
  /\ token' = [token EXCEPT ![p] = TRUE]
  /\ UNCHANGED <<request, held>>

\* statement_timeout cancels a pg_advisory_lock that is still waiting, or a
\* statement of the loop, or the reset of the timeout after it, finds the
\* session lost: the exception leaves the block with what it had so far.
AcquireFails(p) ==
  /\ phase[p] = "acquiring"
  /\ phase' = [phase EXCEPT ![p] = "closing"]
  /\ UNCHANGED <<request, token, held>>

\* Mutant: the session is closed before the token is deactivated.
ExitClosingFirst(p) ==
  /\ phase[p] = "inside"
  /\ held' = [held EXCEPT ![p] = {}]
  /\ phase' = [phase EXCEPT ![p] = "closing"]
  /\ UNCHANGED <<request, token>>

\* The block ends, normally or by an exception: the token first.
Exit(p) ==
  /\ phase[p] = "inside"
  /\ token' = [token EXCEPT ![p] = FALSE]
  /\ phase' = [phase EXCEPT ![p] = IF request[p] = {} THEN "outside" ELSE "closing"]
  /\ UNCHANGED <<request, held>>

\* The process dies: its memory goes, its session lasts until it is noticed.
Crash(p) ==
  /\ phase[p] \in {"acquiring", "inside"}
  /\ token' = [token EXCEPT ![p] = FALSE]
  /\ phase' = [phase EXCEPT ![p] = "closing"]
  /\ UNCHANGED <<request, held>>

\* The session is closed, and PostgreSQL releases every lock it holds.
CloseSession(p) ==
  /\ phase[p] = "closing"
  /\ phase' = [phase EXCEPT ![p] = "outside"]
  /\ request' = [request EXCEPT ![p] = {}]
  /\ held' = [held EXCEPT ![p] = {}]
  /\ UNCHANGED token

\* The server ends the session while its client is inside the block, which
\* runs no statement on it and so does not notice.
DropSession(p) ==
  /\ p \in MayDrop
  /\ phase[p] = "inside"
  /\ held' = [held EXCEPT ![p] = {}]
  /\ UNCHANGED <<phase, request, token>>

Next ==
  \E p \in Process :
    \/ EnterUnlocked(p) \/ Enter(p) \/ Acquire(p) \/ Activate(p)
    \/ AcquireFails(p) \/ Exit(p) \/ Crash(p) \/ CloseSession(p)
    \/ DropSession(p)

Spec == Init /\ [][Next]_vars

(***************************************************************************)
(* Fairness.  A running process goes on (WF): a block ends, a session is   *)
(* closed or reaped.  PostgreSQL queues the waiters of a lock, so a lock   *)
(* released again and again is eventually granted (SF).  Nothing obliges a *)
(* process to enter, a wait to be cancelled or a process to crash.         *)
(***************************************************************************)
Fairness ==
  \A p \in Process :
    /\ SF_vars(Acquire(p))
    /\ WF_vars(Activate(p))
    /\ WF_vars(Exit(p))
    /\ WF_vars(CloseSession(p))

FairSpec == Spec /\ Fairness

----------------------------------------------------------------------------
(* Properties.                                                             *)

\* require_domain lets p mutate what d protects.
Covers(p, d) == token[p] /\ d \in request[p]

\* A token that is active is the proof it says it is (locks.py:135).
TokenIsProof(p) == \A d \in Domain : Covers(p, d) => d \in held[p]

(***************************************************************************)
(* At every step of entering, leaving, failing and crashing, the token of  *)
(* a process whose connection lasts is that proof: its session holds the   *)
(* lock of every domain the token names.                                   *)
(***************************************************************************)
TokenProvesLocks == \A p \in Connected : TokenIsProof(p)

(***************************************************************************)
(* Two processes are never both allowed to mutate the tables of a domain,  *)
(* whatever becomes of the connections of third parties.                   *)
(***************************************************************************)
ExclusiveCover ==
  \A p, q \in Connected : \A d \in Domain : Covers(p, d) /\ Covers(q, d) => p = q

(***************************************************************************)
(* Locks are taken in one global order: whatever a process still waits for *)
(* comes after everything it has.                                          *)
(***************************************************************************)
OrderedWaits ==
  \A p \in Process : phase[p] = "acquiring" =>
    \A d \in held[p], e \in Remaining(p) : Before(d, e)

(***************************************************************************)
(* No set of processes waits only on itself: of those that wait, one waits *)
(* for a domain that none of them holds.  Publishers of any datasets and a *)
(* bootstrap, started in any order, do not deadlock.                       *)
(***************************************************************************)
Waiting(p) == phase[p] = "acquiring" /\ Remaining(p) # {}

NoWaitCycle ==
  \A P \in SUBSET {p \in Process : Waiting(p)} : P # {} =>
    \E p \in P : \A d \in Domain : NextDomain(p, d) => \A q \in P : d \notin held[q]

(***************************************************************************)
(* Nobody waits for ever: while holders leave their blocks, a process that *)
(* asked is let in, or is cancelled, or crashes.                           *)
(***************************************************************************)
WaitsEnd == \A p \in Process : phase[p] = "acquiring" ~> phase[p] # "acquiring"

(***************************************************************************)
(* The loop of advisory locks implements the one-step service, for the     *)
(* processes whose connection lasts.                                       *)
(***************************************************************************)
Service == INSTANCE LockService
             WITH Process <- Connected,
                  covered <- [p \in Connected |-> IF token[p] THEN request[p] ELSE {}]

ImplementsLockService == Service!Spec
============================================================================
