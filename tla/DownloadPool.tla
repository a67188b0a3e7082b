----------------------------- MODULE DownloadPool -----------------------------
(***************************************************************************)
(* raw_objects/downloader: get_many_from_plans, and what its threads do.   *)
(*                                                                         *)
(* The main thread submits a job for every plan and takes the results in   *)
(* the order of the plans.  The first job, in that order, that raised is   *)
(* what get_many raises; the jobs nobody has begun are cancelled, and      *)
(* those that run are waited for.  With one worker there is no pool, and   *)
(* the main thread does one plan after the other.  A job looks at the      *)
(* state of its object, asks the server, streams the answer to a temporary *)
(* file, renames it and records it.                                        *)
(*                                                                         *)
(* What the source serves does not change here (AuthoritativePublication   *)
(* and SnapshotPublication have it change), so a version is only there or  *)
(* not, and so is the file of the newest one.                              *)
(***************************************************************************)
EXTENDS SourceSteps, FiniteSets

CONSTANT Workers   \* values of raw_download_workers

VARIABLES
  workers,   \* raw_download_workers of this deployment
  objects,   \* objects the run has discovered: 1..n
  stored,    \* objects with a version in the ledger
  file,      \* objects whose newest version, or snapshot path, has its file
  temp,      \* temp[o]: the last temporary file of o: none, one that is being
             \* written, or one that nobody is going to rename or remove
  job,       \* job[o]: how far the thread of o is
  next,      \* the plan whose result the main thread takes next
  pool       \* what the main thread is about

poolVars == <<workers, objects, stored, file, temp, job, next, pool>>

Running == {"reading", "rereading", "streaming", "moving", "recording", "hitting"}
Jobs == Running \cup {"idle", "queued", "done", "raised", "cancelled"}

PoolOK ==
  /\ workers \in Workers
  /\ objects \in {1..n : n \in 0..N}
  /\ stored \subseteq Object /\ file \subseteq Object
  /\ temp \in [Object -> {"none", "body", "left"}]
  /\ job \in [Object -> Jobs]
  /\ next \in 1..N + 1
  /\ pool \in {"closed", "collecting", "draining", "acquired"}

NoJobs == [o \in Object |-> "idle"]

\* A store is made with the settings of its deployment, and knows no objects.
PoolInit ==
  /\ workers \in Workers
  /\ objects = {} /\ stored = {} /\ file = {}
  /\ temp = [o \in Object |-> "none"] /\ job = NoJobs
  /\ next = 1 /\ pool = "closed"

Job(o, j) == job' = [job EXCEPT ![o] = j]

\* load_current_states, and executor.map submits every plan.
Submit(n) ==
  /\ pool = "closed"
  /\ objects' = 1..n
  /\ job' = [o \in Object |-> IF o <= n THEN "queued" ELSE "idle"]
  /\ next' = 1
  /\ pool' = "collecting"
  /\ UNCHANGED <<workers, stored, file, temp>>

\* A thread is free, and takes the first job of the queue.
Free(o) ==
  /\ job[o] = "queued"
  /\ \A other \in Object : other < o => job[other] # "queued"
  /\ Cardinality({other \in Object : job[other] \in Running}) < workers
  /\ workers = 1 => pool = "collecting" /\ next = o

\* get_from_plan: a snapshot with its file is a hit without asking.
GetFromPlan(o) ==
  /\ Free(o)
  /\ Job(o, IF o \in stored /\ o \in file /\ Snapshot THEN "hitting" ELSE "reading")
  /\ UNCHANGED <<workers, objects, stored, file, temp, next, pool>>

\* The server answers 304.  Without a file, or without a version, there is a
\* second request with no conditional headers, to which 304 is an error.
NotModified(o) ==
  /\ job[o] \in {"reading", "rereading"}
  /\ Job(o, IF job[o] = "rereading" THEN "raised"
            ELSE IF o \in stored /\ o \in file THEN "hitting" ELSE "rereading")
  /\ UNCHANGED <<workers, objects, stored, file, temp, next, pool>>

\* The server answers 200, and the body goes to a temporary file.
Respond(o) ==
  /\ job[o] \in {"reading", "rereading"}
  /\ temp' = [temp EXCEPT ![o] = "body"]
  /\ Job(o, "streaming")
  /\ UNCHANGED <<workers, objects, stored, file, next, pool>>

Streamed(o) ==
  /\ job[o] = "streaming"
  /\ Job(o, "moving")
  /\ UNCHANGED <<workers, objects, stored, file, temp, next, pool>>

\* After urllib3's retries the request fails, with 4xx or 5xx or in the middle
\* of the body; HttpRawObjectClient.read removes what it has written.
ReadFails(o) ==
  /\ job[o] \in {"reading", "rereading", "streaming"}
  /\ temp' = [temp EXCEPT ![o] = "none"]
  /\ Job(o, "raised")
  /\ UNCHANGED <<workers, objects, stored, file, next, pool>>

\* _record_store renames.  The path of a snapshot is always the same; that of a
\* mutable object is new, and counts once it is recorded.
Move(o) ==
  /\ job[o] = "moving"
  /\ temp' = [temp EXCEPT ![o] = "none"]
  /\ file' = IF Snapshot THEN file \cup {o} ELSE file
  /\ Job(o, "recording")
  /\ UNCHANGED <<workers, objects, stored, next, pool>>

\* mkdir or the rename raises: nobody removes the temporary file.
MoveFails(o) ==
  /\ job[o] = "moving"
  /\ temp' = [temp EXCEPT ![o] = "left"]
  /\ Job(o, "raised")
  /\ UNCHANGED <<workers, objects, stored, file, next, pool>>

RecordStore(o) ==
  /\ job[o] = "recording"
  /\ stored' = stored \cup {o} /\ file' = file \cup {o}
  /\ Job(o, "done")
  /\ UNCHANGED <<workers, objects, temp, next, pool>>

\* The ledger's transaction raises, committed or not, and the final path is unlinked.
RecordFails(o) ==
  /\ job[o] = "recording"
  /\ \/ stored' = stored /\ file' = IF Snapshot THEN file \ {o} ELSE file
     \/ stored' = stored \cup {o} /\ file' = file \ {o}
  /\ Job(o, "raised")
  /\ UNCHANGED <<workers, objects, temp, next, pool>>

RecordHit(o) ==
  /\ job[o] = "hitting"
  /\ Job(o, "done")
  /\ UNCHANGED <<workers, objects, stored, file, temp, next, pool>>

RecordHitFails(o) ==
  /\ job[o] = "hitting"
  /\ Job(o, "raised")
  /\ UNCHANGED <<workers, objects, stored, file, temp, next, pool>>

----------------------------------------------------------------------------
(* The main thread.                                                        *)

Collect ==
  /\ pool = "collecting" /\ next \in objects /\ job[next] = "done"
  /\ next' = next + 1
  /\ UNCHANGED <<workers, objects, stored, file, temp, job, pool>>

\* A result raises: the jobs still in the queue are cancelled.
CollectRaises ==
  /\ pool = "collecting" /\ next \in objects /\ job[next] = "raised"
  /\ job' = [o \in Object |-> IF job[o] = "queued" THEN "cancelled" ELSE job[o]]
  /\ pool' = "draining"
  /\ UNCHANGED <<workers, objects, stored, file, temp, next>>

Acquired ==
  /\ pool = "collecting" /\ next \notin objects
  /\ pool' = "acquired"
  /\ job' = NoJobs
  /\ UNCHANGED <<workers, objects, stored, file, temp, next>>

\* The executor has waited for its threads, get_many raises, and the store
\* closes its client and its ledger.
Drained ==
  /\ pool = "draining"
  /\ \A o \in Object : job[o] \notin Running
  /\ pool' = "closed" /\ next' = 1 /\ job' = NoJobs /\ objects' = {}
  /\ UNCHANGED <<workers, stored, file, temp>>

ThreadStep(o) ==
  \/ GetFromPlan(o) \/ NotModified(o) \/ Respond(o) \/ Streamed(o) \/ ReadFails(o)
  \/ Move(o) \/ RecordStore(o) \/ RecordHit(o)

ThreadFault(o) == MoveFails(o) \/ RecordFails(o) \/ RecordHitFails(o)

PoolStep == Collect \/ CollectRaises \/ Acquired \/ Drained
=============================================================================
