-------------------------- MODULE SourcePublication --------------------------
(***************************************************************************)
(* publication/runner and publication/service: the objects of one scope    *)
(* are published in one DuckLake session.  A snapshot dataset has all of   *)
(* them in one transaction, and the transactions of append_snapshot are    *)
(* nested in it; otherwise every object has its own, and its exception     *)
(* does not keep the next one from being published.                        *)
(*                                                                         *)
(* "stack" is the with blocks the process is in, the innermost last.  An   *)
(* exception leaves them one by one.                                       *)
(***************************************************************************)
EXTENDS DownloadPool

VARIABLES
  db,        \* db[o]: rows of o in its raw table, and the status of its provenance
  work,      \* what the transaction that is open has made of db
  batch,     \* objects of the scope still to publish, in their order
  step,      \* the step of the first one that comes next; 0 if it is not begun
  stack,
  raising,   \* an exception is on its way
  tmp,       \* objects with a decompressed copy or an extracted archive
  good       \* objects published with success

publicationVars == <<db, work, batch, step, stack, raising, tmp, good>>

Blocks == {"csv", "tarball", "view", "tx"}
\* No row is there twice, whatever is open.
Published == [rows : 0..1, status : {"none", "downloaded", "parsed", "ingested"}]

PublicationOK ==
  /\ db \in [Object -> Published] /\ work \in [Object -> Published]
  /\ batch \subseteq Object
  /\ step \in 0..20
  /\ stack \in Seq(Blocks)
  /\ raising \in BOOLEAN
  /\ tmp \subseteq Object /\ good \subseteq Object

Absent == [rows |-> 0, status |-> "none"]

PublicationInit ==
  /\ db = [o \in Object |-> Absent] /\ work = db
  /\ batch = {} /\ step = 0 /\ stack = <<>>
  /\ raising = FALSE /\ tmp = {} /\ good = {}

cur == CHOOSE o \in batch : \A other \in batch : o <= other   \* the one in work
Top == stack[Len(stack)]
Pop == SubSeq(stack, 1, Len(stack) - 1)

\* Around the innermost block there is no transaction scope.
Outermost == \A i \in 1..Len(stack) - 1 : stack[i] # "tx"

\* The session is over: what is not committed is lost.
Closed == work = db /\ batch = {} /\ step = 0 /\ stack = <<>> /\ ~raising

\* DuckLakeSession is entered, and so is the transaction of a batch.
OpenSession(objs) ==
  /\ batch' = objs
  /\ stack' = IF Snapshot THEN <<"tx">> ELSE <<>>
  /\ good' = {}
  /\ UNCHANGED <<db, work, step, raising, tmp>>

\* publish_one is called.
PublishOne ==
  /\ batch # {} /\ step = 0
  /\ step' = 1
  /\ UNCHANGED <<db, work, batch, stack, raising, tmp, good>>

----------------------------------------------------------------------------
(* One step of the object in work.                                         *)

At(s) ==
  /\ batch # {} /\ step \in DOMAIN Steps(cur) /\ ~raising
  /\ Steps(cur)[step] = s

Fine(s) == At(s) /\ ~Raises(s, cur, cur \in file)

\* Mutant: the temporary file is removed only when nothing raises.
LeaveBlockUnguarded ==
  /\ stack' = Pop
  /\ tmp' = IF Top \in {"csv", "tarball"} /\ ~raising THEN tmp \ {cur} ELSE tmp

\* The finally of _decompressed_snapshot_csv, ExtractedTarball.__exit__, and
\* prepare_sql_source's, whose temporary view is of no account here.
LeaveBlock ==
  /\ stack' = Pop
  /\ tmp' = IF Top \in {"csv", "tarball"} THEN tmp \ {cur} ELSE tmp

\* _decompressed_snapshot_csv has its file before it reads; ExtractedTarball
\* removes the directory itself when extracting raises.
Open(s) ==
  /\ s \in {"csv", "tarball", "view", "begin"} /\ Fine(s)
  /\ stack' = Append(stack, IF s = "begin" THEN "tx" ELSE s)
  /\ tmp' = IF s \in {"csv", "tarball"} THEN tmp \cup {cur} ELSE tmp
  /\ step' = step + 1
  /\ UNCHANGED <<db, work, batch, raising, good>>

Close(s) ==
  /\ s \in {"unlink", "cleanup", "drop"} /\ Fine(s)
  /\ LeaveBlock
  /\ step' = step + 1
  /\ UNCHANGED <<db, work, batch, raising, good>>

\* append_snapshot's look at the provenance of the source object.
Check ==
  /\ Fine("check")
  /\ step' = IF work[cur].status = "ingested" THEN AfterSkip(cur) ELSE step + 1
  /\ UNCHANGED <<db, work, batch, stack, raising, tmp, good>>

\* What a statement makes of the rows and the provenance of the object.
Written(s, r) ==
  CASE s = "record" -> [r EXCEPT !.status = "downloaded"]
    [] s = "parsed" -> [r EXCEPT !.status = "parsed"]
    [] s = "delete" -> [r EXCEPT !.rows = 0]
    [] s = "insert" -> [r EXCEPT !.rows = IF @ < 2 THEN @ + RowsOf(cur) ELSE @]
    [] s = "ingested" -> [r EXCEPT !.status = "ingested"]
    [] s \in {"parse", "members", "validate"} -> r

Write(s) ==
  /\ s \in {"parse", "members", "validate", "record", "parsed", "delete", "insert", "ingested"}
  /\ Fine(s)
  /\ work' = [work EXCEPT ![cur] = Written(s, @)]
  /\ step' = step + 1
  /\ UNCHANGED <<db, batch, stack, raising, tmp, good>>

\* The end of a transaction scope: only the outermost one is committed.
End ==
  /\ Fine("end")
  /\ stack' = Pop
  /\ db' = IF Outermost THEN work ELSE db
  /\ step' = step + 1
  /\ UNCHANGED <<work, batch, raising, tmp, good>>

\* The step raises: for what is in the file, or because a statement fails.
\* Removing a file and leaving a nested transaction do not.
Raise(s) ==
  /\ At(s) /\ s \notin {"unlink", "cleanup"}
  /\ s = "end" => Outermost
  /\ raising' = TRUE
  /\ stack' = CASE s = "csv" -> Append(stack, s)
                [] s \in {"drop", "end"} -> Pop
                [] OTHER -> stack
  /\ tmp' = IF s = "csv" THEN tmp \cup {cur} ELSE tmp
  /\ work' = IF s = "end" THEN db ELSE work
  /\ UNCHANGED <<db, batch, step, good>>

\* COMMIT raises, and PostgreSQL has committed.
EndInDoubt ==
  /\ Fine("end") /\ Outermost
  /\ db' = work /\ stack' = Pop /\ raising' = TRUE
  /\ UNCHANGED <<work, batch, step, tmp, good>>

----------------------------------------------------------------------------
(* After the steps.                                                        *)

\* publish_one returns.
Succeed ==
  /\ batch # {} /\ step = Len(Steps(cur)) + 1 /\ ~raising
  /\ good' = good \cup {cur}
  /\ batch' = batch \ {cur} /\ step' = 0
  /\ UNCHANGED <<db, work, stack, raising, tmp>>

\* The batch's transaction is committed, or COMMIT raises.
CommitBatch ==
  /\ batch = {} /\ stack = <<"tx">> /\ ~raising
  /\ db' = work /\ stack' = <<>>
  /\ UNCHANGED <<work, batch, step, raising, tmp, good>>

CommitBatchFails ==
  /\ batch = {} /\ stack = <<"tx">> /\ ~raising
  /\ db' \in {db, work} /\ work' = db'
  /\ stack' = <<>> /\ good' = {}
  /\ UNCHANGED <<batch, step, raising, tmp>>

\* An exception leaves a block; the outermost transaction is rolled back.
Unwind ==
  /\ raising /\ stack # <<>>
  /\ LeaveBlock
  /\ work' = IF Top = "tx" /\ Outermost THEN db ELSE work
  /\ UNCHANGED <<db, batch, step, raising, good>>

\* Mutant: a snapshot's exception, too, lets the batch go on.
CatchEach ==
  /\ raising /\ stack = <<>>
  /\ raising' = FALSE /\ step' = 0
  /\ batch' = batch \ {cur}
  /\ UNCHANGED <<db, work, stack, tmp, good>>

\* _publish_snapshot_scope_batch returns []; _publish_per_object goes on.
Catch ==
  /\ raising /\ stack = <<>>
  /\ raising' = FALSE /\ step' = 0
  /\ IF Snapshot THEN batch' = {} /\ good' = {}
                 ELSE batch' = batch \ {cur} /\ UNCHANGED good
  /\ UNCHANGED <<db, work, stack, tmp>>

PublicationStep ==
  \/ PublishOne \/ Check \/ End \/ Succeed \/ CommitBatch \/ Unwind \/ Catch
  \/ \E s \in {"csv", "tarball", "view", "begin"} : Open(s)
  \/ \E s \in {"unlink", "cleanup", "drop"} : Close(s)
  \/ \E s \in {"parse", "members", "validate", "record", "parsed", "delete", "insert",
               "ingested"} : Write(s)
  \/ \E s \in {"csv", "tarball", "view", "parse", "members", "validate", "insert"} :
       batch # {} /\ Raises(s, cur, cur \in file) /\ Raise(s)

StatementFault ==
  \/ EndInDoubt \/ CommitBatchFails
  \/ \E s \in {"csv", "tarball", "members", "check", "view", "begin", "record", "parsed",
               "validate", "delete", "insert", "ingested", "end", "drop"} : Raise(s)
=============================================================================
