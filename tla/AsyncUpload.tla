---------------------------- MODULE AsyncUpload -----------------------------
(***************************************************************************)
(* The asynchronous upload: handle_enqueue creates a job and sends its     *)
(* message to SQS; the workers (worker.main) receive batches, run          *)
(* process_job on each message and delete it.  The import itself is Import.*)
(*                                                                         *)
(* The call <<j, n>> of process_csv is the one of the n-th delivery of the *)
(* message of job j, which names the receipt handle too.  The visibility   *)
(* timeout of a message (300 seconds for a batch of five, never extended)  *)
(* may run out while the worker that received it still has it: the message *)
(* is then delivered again beside it, and its job is one of overrun.       *)
(***************************************************************************)
EXTENDS Import

CONSTANTS Workers,
          Jobs,
          Content,          \* the file each job imports
          MaxReceive,       \* maxReceiveCount of the redrive policy
          Batch,            \* MaxNumberOfMessages
          MaxOverruns       \* bound: the jobs of overrun

ASSUME CallsAssumption == Calls = Jobs \X (1 .. MaxReceive)
ASSUME ContentAssumption == Content \in [Jobs -> Files]
ASSUME LimitsAssumption ==
    MaxReceive \in Nat \ {0} /\ Batch \in Nat \ {0} /\ MaxOverruns \in Nat

VARIABLES
    status,    \* upload_jobs.status
    inserted,  \* upload_jobs.rows_inserted
    msg,       \* where the message of each job is
    receives,  \* its ApproximateReceiveCount
    batch,     \* the messages each worker has received and not yet handled
    stage,     \* where process_job stands on the first of them
    overrun    \* history: the jobs whose message came back while a worker had it

asyncVars == <<vars, status, inserted, msg, receives, batch, stage, overrun>>

Busy(w)    == batch[w] # <<>>
Current(w) == Head(batch[w])
JobOf(w)   == Current(w)[1]
Holds(w, c) == \E i \in DOMAIN batch[w] : batch[w][i] = c

AsyncInit ==
    /\ Init
    /\ status = [j \in Jobs |-> "NONE"]
    /\ inserted = [j \in Jobs |-> 0]
    /\ msg = [j \in Jobs |-> "none"]
    /\ receives = [j \in Jobs |-> 0]
    /\ batch = [w \in Workers |-> <<>>]
    /\ stage = [w \in Workers |-> "read"]
    /\ overrun = {}

-----------------------------------------------------------------------------
\* handle_enqueue.  When send_message fails, or the task dies before it, the
\* job stays with no message.
CreateJob(j) ==
    /\ msg[j] = "none"
    /\ msg' = [msg EXCEPT ![j] = "created"]
    /\ status' = [status EXCEPT ![j] = "QUEUED"]
    /\ UNCHANGED <<vars, inserted, receives, batch, stage, overrun>>

SendMessage(j) ==
    /\ msg[j] = "created"
    /\ \E to \in {"visible", "lost"} : msg' = [msg EXCEPT ![j] = to]
    /\ UNCHANGED <<vars, status, inserted, receives, batch, stage, overrun>>

-----------------------------------------------------------------------------
\* receive_message hands out up to Batch visible messages, in any order.
Receive(w) ==
    /\ ~Busy(w)
    /\ \E n \in 1 .. Batch : \E q \in [1 .. n -> {j \in Jobs : msg[j] = "visible"}] :
          LET taken == {q[i] : i \in 1 .. n}
          IN  /\ \A i, k \in 1 .. n : i # k => q[i] # q[k]
              /\ msg' = [j \in Jobs |-> IF j \in taken THEN "inflight" ELSE msg[j]]
              /\ receives' = [j \in Jobs |-> IF j \in taken THEN receives[j] + 1 ELSE receives[j]]
              /\ batch' = [batch EXCEPT ![w] = [i \in 1 .. n |-> <<q[i], receives[q[i]] + 1>>]]
    /\ UNCHANGED <<vars, status, inserted, stage, overrun>>

\* Mutant: the message is tried again at once.
SameMessage(w) ==
    /\ batch' = batch
    /\ stage' = [stage EXCEPT ![w] = "read"]

\* The worker is through with the message, deleted or not.
NextMessage(w) ==
    /\ batch' = [batch EXCEPT ![w] = Tail(@)]
    /\ stage' = [stage EXCEPT ![w] = "read"]

GoTo(w, where) ==
    /\ stage' = [stage EXCEPT ![w] = where]
    /\ UNCHANGED batch

\* A job already COMPLETED is skipped, and its message deleted.
ReadJob(w) ==
    /\ Busy(w) /\ stage[w] = "read"
    /\ \/ status[JobOf(w)] = "COMPLETED" /\ GoTo(w, "delete")
       \/ status[JobOf(w)] # "COMPLETED" /\ GoTo(w, "mark")
    /\ UNCHANGED <<vars, status, inserted, msg, receives, overrun>>

UpdateJobStatus(j, s, rows) ==
    /\ status' = [status EXCEPT ![j] = s]
    /\ inserted' = [inserted EXCEPT ![j] = rows]

MarkProcessing(w) ==
    /\ Busy(w) /\ stage[w] = "mark"
    /\ UpdateJobStatus(JobOf(w), "PROCESSING", 0)
    /\ Begin(Current(w), Content[JobOf(w)], "none")
    /\ GoTo(w, "import")
    /\ UNCHANGED <<msg, receives, overrun>>

\* Mutant: the rows are saved without the two levels of process_csv.
SaveRow(c) ==
    /\ pc[c] = "partition" /\ idx[c] \in RowNos(c)
    /\ kept' = [kept EXCEPT ![c] = @ \cup {idx[c]}]
    /\ idx' = [idx EXCEPT ![c] = @ + 1]
    /\ UNCHANGED <<pc, file, force, latest, todo, storeVars, histVars>>

ImportingWithoutDedup(w) ==
    /\ Busy(w) /\ stage[w] = "import"
    /\ LET c == Current(w)
       IN  CheckFileNoHash(c) \/ SaveRow(c) \/ SaveFile(c) \/ AddRow(c) \/ Finish(c)
    /\ UNCHANGED <<status, inserted, msg, receives, batch, stage, overrun>>

Importing(w) ==
    /\ Busy(w) /\ stage[w] = "import"
    /\ Step(Current(w))
    /\ UNCHANGED <<status, inserted, msg, receives, batch, stage, overrun>>

\* storage.get or process_csv raises.
ImportFails(w) ==
    /\ Busy(w) /\ stage[w] = "import"
    /\ Fail(Current(w))
    /\ UNCHANGED <<status, inserted, msg, receives, batch, stage, overrun>>

\* Mutant: rows_parsed is reported instead.
RowsParsed(c) == Len(RowsOf[file[c]])

\* The count that process_csv returns; a duplicate file counts no row.
RowsInserted(c) ==
    IF pc[c] = "duplicate" THEN 0 ELSE Cardinality({t \in ever : t[1] = c})

\* Mutant: an import that failed completes its job.
CompleteAnyhow(w) ==
    /\ Busy(w) /\ stage[w] = "import"
    /\ pc[Current(w)] \in Ended
    /\ UpdateJobStatus(JobOf(w), "COMPLETED", RowsInserted(Current(w)))
    /\ GoTo(w, "delete")
    /\ UNCHANGED <<vars, msg, receives, overrun>>

Complete(w) ==
    /\ Busy(w) /\ stage[w] = "import"
    /\ pc[Current(w)] \in {"done", "duplicate"}
    /\ UpdateJobStatus(JobOf(w), "COMPLETED", RowsInserted(Current(w)))
    /\ GoTo(w, "delete")
    /\ UNCHANGED <<vars, msg, receives, overrun>>

\* The exception is re-raised; the update to FAILED may itself fail, unseen.
ReportFailure(w) ==
    /\ Busy(w) /\ stage[w] = "import"
    /\ pc[Current(w)] = "failed"
    /\ \/ UpdateJobStatus(JobOf(w), "FAILED", 0)
       \/ UNCHANGED <<status, inserted>>
    /\ NextMessage(w)
    /\ UNCHANGED <<vars, msg, receives, overrun>>

\* Mutant: the message is deleted whatever process_job raised.
StoreErrorAndDelete(w) ==
    /\ Busy(w)
    /\ stage[w] \in {"read", "mark"}
    /\ msg' = [msg EXCEPT ![JobOf(w)] = "deleted"]
    /\ NextMessage(w)
    /\ UNCHANGED <<vars, status, inserted, receives, overrun>>

\* A store error outside the try of process_job: the message is left.
StoreError(w) ==
    /\ Busy(w)
    /\ \/ stage[w] \in {"read", "mark"}
       \/ stage[w] = "import" /\ pc[Current(w)] \in {"done", "duplicate"}
    /\ NextMessage(w)
    /\ UNCHANGED <<vars, status, inserted, msg, receives, overrun>>

\* delete_message works with the handle of the last receive only, or fails.
Delete(w) ==
    /\ Busy(w) /\ stage[w] = "delete"
    /\ \/ /\ msg[JobOf(w)] \in {"visible", "inflight"}
          /\ Current(w)[2] = receives[JobOf(w)]
          /\ msg' = [msg EXCEPT ![JobOf(w)] = "deleted"]
       \/ UNCHANGED msg
    /\ NextMessage(w)
    /\ UNCHANGED <<vars, status, inserted, receives, overrun>>

\* The task dies with its batch; ECS starts another one.
Crash(w) ==
    /\ Busy(w)
    /\ IF pc[Current(w)] \in Active THEN Fail(Current(w)) ELSE UNCHANGED vars
    /\ batch' = [batch EXCEPT ![w] = <<>>]
    /\ stage' = [stage EXCEPT ![w] = "read"]
    /\ UNCHANGED <<status, inserted, msg, receives, overrun>>

\* The visibility timeout runs out, before or after the worker is through with
\* the message; the redrive policy buries it after MaxReceive deliveries.
Expire(j) ==
    /\ msg[j] = "inflight"
    /\ msg' = [msg EXCEPT ![j] = IF receives[j] < MaxReceive THEN "visible" ELSE "dlq"]
    /\ overrun' = overrun \cup {i \in {j} : \E w \in Workers : Holds(w, <<i, receives[i]>>)}
    /\ Cardinality(overrun') <= MaxOverruns
    /\ UNCHANGED <<vars, status, inserted, receives, batch, stage>>

WorkerStep(w) ==
    \/ Receive(w)
    \/ ReadJob(w)
    \/ MarkProcessing(w)
    \/ Importing(w)
    \/ Complete(w)
    \/ ReportFailure(w)
    \/ Delete(w)

AsyncNext ==
    \/ \E j \in Jobs : CreateJob(j) \/ SendMessage(j) \/ Expire(j)
    \/ \E w \in Workers : WorkerStep(w) \/ ImportFails(w) \/ StoreError(w) \/ Crash(w)

AsyncSpec == AsyncInit /\ [][AsyncNext]_asyncVars

\* A worker that runs goes on: main loops, a dead task is replaced.  SQS lets
\* every visibility timeout run out.  Nothing makes a client enqueue.
FairAsyncSpec ==
    /\ AsyncSpec
    /\ \A w \in Workers : WF_asyncVars(WorkerStep(w))
    /\ \A j \in Jobs : WF_asyncVars(Expire(j))
-----------------------------------------------------------------------------
\* The types of the job table, the queue and the workers.
AsyncTypeOK ==
    /\ TypeOK
    /\ status \in [Jobs -> {"NONE", "QUEUED", "PROCESSING", "COMPLETED", "FAILED"}]
    /\ inserted \in [Jobs -> Nat]
    /\ msg \in [Jobs -> {"none", "created", "lost", "visible", "inflight", "deleted", "dlq"}]
    /\ receives \in [Jobs -> 0 .. MaxReceive]
    /\ batch \in [Workers -> Seq(Calls)]
    /\ stage \in [Workers -> {"read", "mark", "import", "delete"}]

\* "Skips an already-COMPLETED job": no later delivery, retry or late update
\* takes a job out of COMPLETED, but for a delivery beside another.
CompletedIsFinal ==
    [][ \A j \in Jobs \ overrun : status[j] = "COMPLETED" =>
          status'[j] = "COMPLETED" /\ inserted'[j] = inserted[j] ]_asyncVars

\* A delivery of the job has been imported, or skipped as a duplicate.
Succeeded(j) == \E n \in 1 .. MaxReceive : pc[<<j, n>>] \in {"done", "duplicate"}

\* worker.py: a message is deleted only after the job succeeds.  Whichever worker
\* deletes it, a delivery has succeeded; the job says COMPLETED for good, unless
\* the worker of another delivery writes its status after that.
DeletedMeansCompleted ==
    \A j \in Jobs : msg[j] = "deleted" =>
        Succeeded(j) /\ (j \notin overrun => status[j] = "COMPLETED")

\* CHANGES.md: no double-import on SQS redelivery.  Two rows stored by
\* deliveries of one job are never the same purchase, unless one delivery was
\* made while a worker still had an earlier one.
NoDoubleOnRedelivery ==
    \A t, u \in ever :
        t[1][1] = u[1][1] /\ t # u /\ t[1][1] \notin overrun => ~Same(RowOf(t), RowOf(u))

\* What all the deliveries of a job stored.
StoredBy(j) == {t \in ever : t[1][1] = j}

\* The count a completed job reports is of all that its deliveries stored, or it
\* is 0 because a delivery found the record of an earlier one that did not live
\* to report.
CountIsOfTheJob ==
    \A j \in Jobs \ overrun : status[j] = "COMPLETED" =>
        \/ inserted[j] = Cardinality(StoredBy(j))
        \/ /\ inserted[j] = 0
           /\ \E n, m \in 1 .. MaxReceive :
                 n < m /\ Recorded(<<j, n>>) /\ pc[<<j, m>>] = "duplicate"

Imported(j) ==
    \A k \in 1 .. Len(RowsOf[Content[j]]) :
        \E t \in ever : Same(RowOf(t), RowsOf[Content[j]][k])

\* A completed job's rows are all stored, unless an import of the same content
\* saved its record and has not got through its rows: it is still at it, or dead.
CompletedIsImported ==
    \A j \in Jobs : status[j] = "COMPLETED" =>
        \/ Imported(j)
        \/ \E c \in Calls : Recorded(c) /\ file[c] = Content[j] /\ pc[c] \in {"add", "failed"}

\* terraform/README.md: redeliveries are safe, failures land in the DLQ.
\* A completed job's rows are stored once every import has come to its end.
CompletedMeansImported ==
    \A j \in Jobs :
        status[j] = "COMPLETED" /\ (\A c \in Calls : pc[c] \notin Active) => Imported(j)

\* The promise to the client, JobQueue, is kept.
Queue == INSTANCE JobQueue WITH
    place <- [j \in Jobs |-> IF msg[j] \in {"visible", "inflight"} THEN "queued" ELSE msg[j]],
    tries <- receives,
    done <- [j \in Jobs |-> status[j] = "COMPLETED"],
    late <- overrun

KeepsPromise == Queue!Spec

\* Each message leaves the queue, deleted or in the DLQ.
QueueDrains == Queue!Drains
-----------------------------------------------------------------------------
(***************************************************************************)
(* The inductive invariants behind the properties above.  What they say of *)
(* a job holds until its message comes back while a worker has it.         *)
(***************************************************************************)

\* A message that may be delivered has deliveries left.
DeliveriesLeft ==
    \A j \in Jobs : msg[j] \in {"none", "created", "visible"} => receives[j] < MaxReceive

AsyncTyped == AsyncTypeOK /\ IsFiniteSet(ever) /\ DeliveriesLeft

\* A worker holds the last delivery of a message, and the timeout still runs.
HoldsCurrent ==
    \A w \in Workers : \A i \in DOMAIN batch[w] : batch[w][i][1] \notin overrun =>
        /\ batch[w][i][2] = receives[batch[w][i][1]]
        /\ msg[batch[w][i][1]] = "inflight"

\* A message is held once.
HeldOnce ==
    \A v, w \in Workers : \A i \in DOMAIN batch[v], k \in DOMAIN batch[w] :
        batch[v][i][1] = batch[w][k][1] /\ batch[v][i][1] \notin overrun => v = w /\ i = k

\* What process_job read of the status is still so: nobody else writes it.
StageMatchesStatus ==
    \A w \in Workers :
        /\ ~Busy(w) => stage[w] = "read"
        /\ Busy(w) /\ JobOf(w) \notin overrun =>
              /\ stage[w] = "delete" => status[JobOf(w)] = "COMPLETED"
              /\ stage[w] \in {"mark", "import"} => status[JobOf(w)] # "COMPLETED"

\* What is held was delivered, and what was delivered was sent.
NotSent == {"none", "created", "lost"}

DeliveredWasSent ==
    /\ \A w \in Workers : \A i \in DOMAIN batch[w] :
          /\ batch[w][i][2] <= receives[batch[w][i][1]]
          /\ msg[batch[w][i][1]] \notin NotSent
    /\ overrun \subseteq {j \in Jobs : msg[j] \notin NotSent}
    /\ \A j \in Jobs : status[j] = "COMPLETED" => msg[j] \notin NotSent

DeletedIsCompleted ==
    \A j \in Jobs \ overrun : msg[j] = "deleted" => status[j] = "COMPLETED"

\* The queue: a message is held by one worker, with its last handle, and only
\* that worker changes the status of the job.
QueueIInv ==
    /\ AsyncTyped
    /\ HoldsCurrent
    /\ HeldOnce
    /\ StageMatchesStatus
    /\ DeliveredWasSent
    /\ DeletedIsCompleted

\* What is COMPLETED, deleted or about to be has had a success, overrun or not.
SuccessBehind ==
    /\ \A j \in Jobs : status[j] = "COMPLETED" \/ msg[j] = "deleted" => Succeeded(j)
    /\ \A w \in Workers : Busy(w) /\ stage[w] = "delete" => Succeeded(JobOf(w))

\* The inductive invariant of the queue.
AsyncIInv == QueueIInv /\ SuccessBehind

\* No import of the pipeline replaces another: force=None.
NothingRemoved == txns = ever /\ \A c \in Calls : force[c] = "none"

\* The deliveries of a job import one after the other: a delivery to come has
\* not begun, a running import is the one its worker is at, and of two that
\* began the earlier had ended before the later.
InTurn ==
    /\ \A c \in Calls : c[2] > receives[c[1]] => pc[c] = "idle"
    /\ \A c \in Calls : pc[c] \in Active =>
          \E w \in Workers : Busy(w) /\ stage[w] = "import" /\ Current(w) = c
    /\ \A c, d \in Calls :
          c[1] = d[1] /\ c[1] \notin overrun /\ c[2] < d[2] /\ pc[c] # "idle" /\ pc[d] # "idle"
          => c \in before[d]

\* The inductive invariant behind NoDoubleOnRedelivery: Import's, the queue's,
\* and that the deliveries of a job take turns.
TurnIInv ==
    /\ IInv
    /\ AsyncIInv
    /\ NothingRemoved
    /\ InTurn

\* A call is given the content of its job.
OfItsJob == \A c \in Calls : pc[c] # "idle" => file[c] = Content[c[1]]

\* The inductive invariant behind CountIsOfTheJob: an import that found no record
\* of the content follows no delivery that stored rows.
CountIInv ==
    /\ TurnIInv
    /\ OfItsJob
    /\ CountIsOfTheJob

\* What completes a job is on record: its own import, or an earlier one.
OnRecord(f) == \E c \in Calls : Recorded(c) /\ file[c] = f

DuplicateOnRecord == \A c \in Calls : pc[c] = "duplicate" => OnRecord(file[c])
CompletedOnRecord == \A j \in Jobs : status[j] = "COMPLETED" => OnRecord(Content[j])

\* The inductive invariant behind CompletedIsImported.
OutcomeIInv ==
    /\ IInv
    /\ AsyncTyped
    /\ OfItsJob
    /\ DuplicateOnRecord
    /\ CompletedOnRecord
=============================================================================
