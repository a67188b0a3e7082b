------------------------------ MODULE RawFiles ------------------------------
(***************************************************************************)
(* The files under the raw root and the ledger rows that name them:        *)
(* raw_objects/downloader.py stores a file, and                            *)
(* raw_objects/reconciliation.py deletes the files no row names.           *)
(*                                                                         *)
(* The downloaders and the reconciler share the raw root and the ledger    *)
(* and no lock.  A file is renamed into place before the transaction that  *)
(* names it, and unlinked when that transaction raises.  A mutable object  *)
(* gets a path of its own every time; a snapshot has one path, whoever     *)
(* downloads it (raw_objects/paths.py).                                    *)
(*                                                                         *)
(* Time is one bit of a file: its mtime is beyond the retention window.    *)
(* Temporary files are private to a download, under .tmp, which the        *)
(* reconciler skips; they are left out.                                    *)
(***************************************************************************)
EXTENDS Naturals, Sequences, SequencesExt

CONSTANTS
  Downloader,  \* threads, of any run, that acquire one object at a time
  Object,
  Content,     \* what the source may serve
  None,
  Snapshot,    \* the update mode: SNAPSHOT, else MUTABLE
  Retention,   \* delete_orphans is given older_than
  MaxStores,   \* bound on the files renamed into place
  MaxFaults    \* bound on failed transactions and crashes

ASSUME ModeAssumption == Snapshot \in BOOLEAN /\ Retention \in BOOLEAN
ASSUME NoneAssumption == None \notin Content
ASSUME BoundsAssumption == MaxStores \in Nat /\ MaxFaults \in Nat

Path == Object \X (IF Snapshot THEN {0} ELSE 1..MaxStores)

VARIABLES
  disk,     \* disk[f]: content of the file at f
  aged,     \* paths whose file's mtime is beyond the retention window
  rows,     \* rows[o]: local_path of the versions of o, by number
  stores,   \* files renamed into place so far
  faults,
  \* a downloader
  pc,
  obj,      \* the object it acquires
  known,    \* path of the newest version when it loaded the ledger's state
  body,     \* what it read
  dest,     \* final_path
  \* the reconciler
  rpc,
  listed,   \* ledger_paths
  expired,  \* paths whose file was beyond the window at "now"
  found,    \* files on disk it has yet to look at
  orphans   \* files it has yet to delete

store == <<disk, aged, rows, stores>>
download == <<pc, obj, known, body, dest>>
reconciler == <<rpc, listed, expired, found, orphans>>
vars == <<store, faults, download, reconciler>>

Tracked == UNION {ToSet(rows[o]) : o \in Object}

TypeOK ==
  /\ disk \in [Path -> Content \cup {None}]
  /\ aged \subseteq {f \in Path : disk[f] # None}
  /\ rows \in [Object -> Seq(Path)]
  /\ stores \in 0..MaxStores
  /\ faults \in 0..MaxFaults
  /\ pc \in [Downloader -> {"idle", "loaded", "read", "renamed", "failed", "using"}]
  /\ obj \in [Downloader -> Object \cup {None}]
  /\ known \in [Downloader -> Path \cup {None}]
  /\ body \in [Downloader -> Content \cup {None}]
  /\ \A p \in Downloader : pc[p] \in {"idle", "loaded"} <=> body[p] = None
  /\ dest \in [Downloader -> Path \cup {None}]
  /\ rpc \in {"idle", "listed", "examining", "deleting"}
  /\ listed \subseteq Path /\ expired \subseteq Path
  /\ found \subseteq Path /\ orphans \subseteq Path

Init ==
  /\ disk = [f \in Path |-> None] /\ aged = {}
  /\ rows = [o \in Object |-> <<>>]
  /\ stores = 0 /\ faults = 0
  /\ pc = [p \in Downloader |-> "idle"]
  /\ obj = [p \in Downloader |-> None]
  /\ known = [p \in Downloader |-> None]
  /\ body = [p \in Downloader |-> None]
  /\ dest = [p \in Downloader |-> None]
  /\ rpc = "idle"
  /\ listed = {} /\ expired = {} /\ found = {} /\ orphans = {}

----------------------------------------------------------------------------
(* A downloader: RawObjectRepository.get_from_plan.                        *)

Forget(p) ==
  /\ pc' = [pc EXCEPT ![p] = "idle"]
  /\ obj' = [obj EXCEPT ![p] = None]
  /\ known' = [known EXCEPT ![p] = None]
  /\ body' = [body EXCEPT ![p] = None]
  /\ dest' = [dest EXCEPT ![p] = None]

\* load_current_states: the newest version, if there is one.
Load(p, o) ==
  /\ pc[p] = "idle"
  /\ obj' = [obj EXCEPT ![p] = o]
  /\ known' = [known EXCEPT ![p] = IF rows[o] = <<>> THEN None ELSE Last(rows[o])]
  /\ pc' = [pc EXCEPT ![p] = "loaded"]
  /\ UNCHANGED <<store, faults, body, dest, reconciler>>

KnownFileExists(p) == known[p] # None /\ disk[known[p]] # None

\* A snapshot that is here, or a mutable object that the source says has not
\* changed: nothing is downloaded.
Hit(p) ==
  /\ pc[p] = "loaded"
  /\ KnownFileExists(p)
  /\ Forget(p)
  /\ UNCHANGED <<store, faults, reconciler>>

\* Mutant: a 304 whose file is gone is not read again.
ReadNotModified(p) ==
  /\ pc[p] = "loaded"
  /\ ~(Snapshot /\ KnownFileExists(p))
  /\ IF known[p] = None THEN \E c \in Content : body' = [body EXCEPT ![p] = c]
                       ELSE UNCHANGED body
  /\ pc' = [pc EXCEPT ![p] = "read"]
  /\ UNCHANGED <<store, faults, obj, known, dest, reconciler>>

\* The body is in the temporary file.
Read(p) ==
  /\ pc[p] = "loaded"
  /\ ~(Snapshot /\ KnownFileExists(p))
  /\ \E c \in Content : body' = [body EXCEPT ![p] = c]
  /\ pc' = [pc EXCEPT ![p] = "read"]
  /\ UNCHANGED <<store, faults, obj, known, dest, reconciler>>

\* build_final_path: a uuid makes the path of a mutable object new.
FinalPath(o) == <<o, IF Snapshot THEN 0 ELSE stores + 1>>

\* replace(final_path): the mtime is that of the download.
Rename(p) ==
  /\ pc[p] = "read" /\ stores < MaxStores
  /\ LET f == FinalPath(obj[p])
     IN  /\ disk' = [disk EXCEPT ![f] = body[p]]
         /\ aged' = aged \ {f}
         /\ expired' = expired \ {f}
         /\ dest' = [dest EXCEPT ![p] = f]
  /\ stores' = stores + 1
  /\ pc' = [pc EXCEPT ![p] = "renamed"]
  /\ UNCHANGED <<rows, faults, obj, known, body, rpc, listed, found, orphans>>

AddVersion(p) == rows' = [rows EXCEPT ![obj[p]] = Append(@, dest[p])]

\* rotate_version commits: the run goes on with the file.
Record(p) ==
  /\ pc[p] = "renamed"
  /\ AddVersion(p)
  /\ pc' = [pc EXCEPT ![p] = "using"]
  /\ UNCHANGED <<disk, aged, stores, faults, obj, known, body, dest, reconciler>>

\* The transaction raises, whether or not its COMMIT reached the server.
RecordFails(p) ==
  /\ pc[p] = "renamed" /\ faults < MaxFaults
  /\ AddVersion(p) \/ UNCHANGED rows
  /\ faults' = faults + 1
  /\ pc' = [pc EXCEPT ![p] = "failed"]
  /\ UNCHANGED <<disk, aged, stores, obj, known, body, dest, reconciler>>

\* Mutant: the version known before the download is cleaned up.
UnlinkKnown(p) ==
  /\ pc[p] = "failed"
  /\ LET f == IF known[p] = None THEN dest[p] ELSE known[p]
     IN  /\ disk' = [disk EXCEPT ![f] = None]
         /\ aged' = aged \ {f}
  /\ Forget(p)
  /\ UNCHANGED <<rows, stores, faults, reconciler>>

\* final_path.unlink(missing_ok=True), and the exception goes on.
Unlink(p) ==
  /\ pc[p] = "failed"
  /\ disk' = [disk EXCEPT ![dest[p]] = None]
  /\ aged' = aged \ {dest[p]}
  /\ Forget(p)
  /\ UNCHANGED <<rows, stores, faults, reconciler>>

\* The run is done with the file it stored.
Release(p) ==
  /\ pc[p] = "using"
  /\ Forget(p)
  /\ UNCHANGED <<store, faults, reconciler>>

\* The process dies, or the download raises and only its temporary file goes.
Crash(p) ==
  /\ pc[p] # "idle" /\ faults < MaxFaults
  /\ faults' = faults + 1
  /\ Forget(p)
  /\ UNCHANGED <<store, reconciler>>

Storing(f) == \E p \in Downloader : pc[p] = "renamed" /\ dest[p] = f

\* Time passes.  The window is longer than a download takes from the last byte
\* to the end of its ledger transaction.
Age(f) ==
  /\ disk[f] # None /\ f \notin aged
  /\ ~Storing(f)
  /\ aged' = aged \cup {f}
  /\ UNCHANGED <<disk, rows, stores, faults, download, reconciler>>

----------------------------------------------------------------------------
(* The reconciler: RawFileReconciler.delete_orphans.                       *)

EndReconciliation ==
  /\ rpc' = "idle"
  /\ listed' = {} /\ expired' = {} /\ found' = {} /\ orphans' = {}

\* list_ledger_paths, and the time the ages are counted to.
ListLedger ==
  /\ rpc = "idle"
  /\ listed' = Tracked
  /\ expired' = aged
  /\ rpc' = "listed"
  /\ UNCHANGED <<store, faults, download, found, orphans>>

\* list_files_on_disk.
Walk ==
  /\ rpc = "listed"
  /\ found' = {f \in Path : disk[f] # None}
  /\ rpc' = "examining"
  /\ UNCHANGED <<store, faults, download, listed, expired, orphans>>

\* stat() of a file that is gone since the walk raises.
StatRaises(f) == Retention /\ f \notin listed /\ disk[f] = None

\* Mutant: the age of a file is counted to the moment it is looked at.
ExamineAgedByNow(f) ==
  /\ rpc = "examining" /\ f \in found
  /\ ~StatRaises(f)
  /\ found' = found \ {f}
  /\ orphans' = IF f \notin listed /\ (Retention => f \in aged)
                THEN orphans \cup {f} ELSE orphans
  /\ UNCHANGED <<store, faults, download, rpc, listed, expired>>

\* Mutant: a tracked file ends the search.
ExamineStopsEarly(f) ==
  /\ rpc = "examining" /\ f \in found
  /\ ~StatRaises(f)
  /\ found' = IF f \in listed THEN {} ELSE found \ {f}
  /\ orphans' = IF f \notin listed /\ (Retention => f \in expired)
                THEN orphans \cup {f} ELSE orphans
  /\ UNCHANGED <<store, faults, download, rpc, listed, expired>>

\* One file of find_orphans.
Examine(f) ==
  /\ rpc = "examining" /\ f \in found
  /\ ~StatRaises(f)
  /\ found' = found \ {f}
  /\ orphans' = IF f \notin listed /\ (Retention => f \in expired)
                THEN orphans \cup {f} ELSE orphans
  /\ UNCHANGED <<store, faults, download, rpc, listed, expired>>

ExamineRaises(f) ==
  /\ rpc = "examining" /\ f \in found
  /\ StatRaises(f)
  /\ EndReconciliation
  /\ UNCHANGED <<store, faults, download>>

Examined ==
  /\ rpc = "examining" /\ found = {}
  /\ rpc' = "deleting"
  /\ UNCHANGED <<store, faults, download, listed, expired, found, orphans>>

\* orphan.unlink()
Delete(f) ==
  /\ rpc = "deleting" /\ f \in orphans
  /\ disk[f] # None
  /\ disk' = [disk EXCEPT ![f] = None]
  /\ aged' = aged \ {f}
  /\ orphans' = orphans \ {f}
  /\ UNCHANGED <<rows, stores, faults, download, rpc, listed, expired, found>>

\* Somebody else unlinked it: the exception leaves the other orphans for later.
DeleteRaises(f) ==
  /\ rpc = "deleting" /\ f \in orphans
  /\ disk[f] = None
  /\ EndReconciliation
  /\ UNCHANGED <<store, faults, download>>

Deleted ==
  /\ rpc = "deleting" /\ orphans = {}
  /\ EndReconciliation
  /\ UNCHANGED <<store, faults, download>>

ReconcileFile(f) == Examine(f) \/ ExamineRaises(f) \/ Delete(f) \/ DeleteRaises(f)

----------------------------------------------------------------------------
Next ==
  \/ \E p \in Downloader :
       \/ \E o \in Object : Load(p, o)
       \/ Hit(p) \/ Read(p) \/ Rename(p) \/ Record(p) \/ RecordFails(p)
       \/ Unlink(p) \/ Release(p) \/ Crash(p)
  \/ ListLedger \/ Walk \/ Examined \/ Deleted
  \/ \E f \in Path :
       Age(f) \/ Examine(f) \/ ExamineRaises(f) \/ Delete(f) \/ DeleteRaises(f)

Spec == Init /\ [][Next]_vars

(***************************************************************************)
(* Fairness: time passes, and the reconciler is run again and again.  The  *)
(* pipelines never call it, so this is an assumption on who operates them. *)
(* The downloaders need do nothing.                                        *)
(***************************************************************************)
FairSpec ==
  /\ Spec
  /\ WF_vars(ListLedger \/ Walk \/ Examined \/ Deleted)
  /\ \A f \in Path : WF_vars(Age(f)) /\ WF_vars(ReconcileFile(f))

----------------------------------------------------------------------------
(* Properties.                                                             *)

(***************************************************************************)
(* RawFileReconciler finds "orphaned files (on disk but not tracked by the *)
(* ledger)" (reconciliation.py:14) and deletes nothing else: a file a row  *)
(* names goes only with the store whose transaction raised, its own.       *)
(***************************************************************************)
TrackedGoesWithItsStore ==
  \A f \in Path :
    f \in Tracked /\ disk[f] # None /\ disk'[f] = None
      => \E p \in Downloader : pc[p] = "failed" /\ dest[p] = f

OnlyOrphansGo == [][TrackedGoesWithItsStore]_vars

(***************************************************************************)
(* A run reads, from the file it stored, what it downloaded: neither the   *)
(* reconciler nor another run touches it meanwhile.                        *)
(***************************************************************************)
StoredFileStays ==
  \A p \in Downloader : pc[p] = "using" => disk[dest[p]] = body[p]

Orphan(f) ==
  /\ disk[f] # None /\ f \notin Tracked
  /\ \A p \in Downloader : pc[p] \in {"renamed", "failed"} => dest[p] # f

(***************************************************************************)
(* What a crash between the rename and the ledger leaves behind does not   *)
(* stay: the reconciler comes to it, also when one of its passes raises.   *)
(***************************************************************************)
OrphansGo == \A f \in Path : Orphan(f) ~> ~Orphan(f)
=============================================================================
