----------------------------- MODULE ParallelEncode -----------------------------
(***************************************************************************)
(* RunParallelEncodeParquetOrdered of src/Storage/write_scheduler.cpp:     *)
(* workers draw partitions from a PartitionRangeQueue, encode each to a    *)
(* Parquet file in memory and push it; the table's task appends the row    *)
(* groups in partition order to one temporary file and renames it when     *)
(* everything is there.                                                    *)
(*                                                                         *)
(* The result queue is the BoundedChannel that BoundedMpscQueue implements *)
(* and has one slot per worker.  GeneratePartitionToInMemory is one step   *)
(* with three outcomes: a buffer, an error status, or an exception.        *)
(***************************************************************************)
EXTENDS Integers, Sequences, FiniteSets

CONSTANTS
  Workers,     \* worker_count tasks on the partition pool
  PoolSize,    \* threads of the partition pool
  PartCount

ASSUME WorkersAssumption == IsFiniteSet(Workers) /\ Cardinality(Workers) >= 2
ASSUME PoolAssumption    == PoolSize \in Nat \ {0}
ASSUME PartsAssumption   == PartCount \in Nat \ {0}

Parts == 1 .. PartCount
NoResult == -1

VARIABLES
  channel, writing, sent, received, shut, receiver,   \* result_queue
  next, closed,  \* partition_queue
  stop,          \* stop_requested
  remaining,     \* remaining_workers
  pc,            \* where each worker is
  part,          \* the partition each worker drew last
  ok,            \* whether its encoding of that partition succeeded
  results,       \* what each worker pushed, in order: [part |-> p, ok |-> b]
  cpc,           \* where the table's task is
  pending,       \* results received and not merged: a set of [part, ok]
  expected,      \* expected_part
  error,         \* origin of pipeline_error
  out,           \* partitions merged into the file, in order
  file,          \* "absent", "temp", "published", or "old": published by an earlier run
  result         \* 0, 2, or NoResult

queueVars  == <<channel, writing, sent, received, shut, receiver>>
workerVars == <<next, remaining, pc, part, ok, results>>
mergeVars  == <<pending, expected, out>>
tableVars  == <<cpc, mergeVars, error, file, result>>
vars == <<queueVars, workerVars, closed, stop, tableVars>>

Queue == INSTANCE BoundedChannel WITH
  Producers <- Workers, Capacity <- Cardinality(Workers), MaxPushes <- PartCount

Init ==
  /\ Queue!Init
  /\ next = 1
  /\ closed = FALSE
  /\ stop = FALSE
  /\ remaining = Cardinality(Workers)
  /\ pc = [w \in Workers |-> "queued"]
  /\ part = [w \in Workers |-> 0]
  /\ ok = [w \in Workers |-> TRUE]
  /\ results = [w \in Workers |-> <<>>]
  /\ cpc = "open"
  /\ pending = {}
  /\ expected = 1
  /\ error = "none"
  /\ out = <<>>
  /\ file \in {"absent", "temp", "old"}
  /\ result = NoResult

-----------------------------------------------------------------------------
(* A worker *)

Goto(w, from, to) == pc[w] = from /\ pc' = [pc EXCEPT ![w] = to]

Running == {w \in Workers : pc[w] \notin {"queued", "done", "threw"}}

Start(w) ==
  /\ cpc \notin {"open", "returned"}
  /\ Cardinality(Running) < PoolSize
  /\ Goto(w, "queued", "loop")
  /\ UNCHANGED <<queueVars, next, closed, stop, remaining, part, ok, results, tableVars>>

\* while (!stop_requested && ...
CheckStop(w) ==
  /\ Goto(w, "loop", IF stop THEN "retire" ELSE "pop")
  /\ UNCHANGED <<queueVars, next, closed, stop, remaining, part, ok, results, tableVars>>

\* ... partition_queue.Pop(&part)): closed_, then the counter.
PopCheckClosed(w) ==
  /\ Goto(w, "pop", IF closed THEN "retire" ELSE "draw")
  /\ UNCHANGED <<queueVars, next, closed, stop, remaining, part, ok, results, tableVars>>

\* Mutant of PopDraw: a worker that finds the counter exhausted goes on.
PopDrawAgain(w) ==
  /\ Goto(w, "draw", IF next > PartCount THEN "loop" ELSE "encode")
  /\ part' = IF next > PartCount THEN part ELSE [part EXCEPT ![w] = next]
  /\ next' = next + 1
  /\ UNCHANGED <<queueVars, closed, stop, remaining, ok, results, tableVars>>

PopDraw(w) ==
  /\ Goto(w, "draw", IF next > PartCount THEN "retire" ELSE "encode")
  /\ part' = IF next > PartCount THEN part ELSE [part EXCEPT ![w] = next]
  /\ next' = next + 1
  /\ UNCHANGED <<queueVars, closed, stop, remaining, ok, results, tableVars>>

EncodeOk(w) ==
  /\ Goto(w, "encode", "push_check")
  /\ ok' = [ok EXCEPT ![w] = TRUE]
  /\ UNCHANGED <<queueVars, next, closed, stop, remaining, part, results, tableVars>>

\* An error status is pushed like a buffer, after stop_requested is set.
EncodeFails(w) ==
  /\ Goto(w, "encode", "push_check")
  /\ ok' = [ok EXCEPT ![w] = FALSE]
  /\ stop' = TRUE
  /\ UNCHANGED <<queueVars, next, closed, remaining, part, results, tableVars>>

\* CreateGenerator, MakePartitionPlan or Reset throws: the task ends there, and
\* neither pushes a result nor counts itself out of remaining_workers.
EncodeThrows(w) ==
  /\ Goto(w, "encode", "threw")
  /\ UNCHANGED <<queueVars, next, closed, stop, remaining, part, ok, results, tableVars>>

PushCheckClosed(w) ==
  /\ ~shut
  /\ Goto(w, "push_check", "push")
  /\ UNCHANGED <<queueVars, next, closed, stop, remaining, part, ok, results, tableVars>>

\* Push returns false: break.
Refused(w) ==
  /\ shut
  /\ pc[w] \in {"push_check", "push"}
  /\ pc' = [pc EXCEPT ![w] = "retire"]
  /\ UNCHANGED <<queueVars, next, closed, stop, remaining, part, ok, results, tableVars>>

TakePlace(w) ==
  /\ Queue!TakePlace(w)
  /\ Goto(w, "push", "publish")
  /\ results' = [results EXCEPT ![w] = Append(@, [part |-> part[w], ok |-> ok[w]])]
  /\ UNCHANGED <<next, closed, stop, remaining, part, ok, tableVars>>

Publish(w) ==
  /\ Queue!Publish(w)
  /\ Goto(w, "publish", "loop")
  /\ UNCHANGED <<next, closed, stop, remaining, part, ok, results, tableVars>>

\* Mutant of Retire: nobody closes the result queue.
RetireSilently(w) ==
  /\ Goto(w, "retire", "done")
  /\ remaining' = remaining - 1
  /\ UNCHANGED <<queueVars, next, closed, stop, part, ok, results, tableVars>>

\* remaining_workers.fetch_sub(1) == 1: the last worker closes the result queue.
Retire(w) ==
  /\ Goto(w, "retire", IF remaining = 1 THEN "close" ELSE "done")
  /\ remaining' = remaining - 1
  /\ UNCHANGED <<queueVars, next, closed, stop, part, ok, results, tableVars>>

CloseQueue(w) ==
  /\ Goto(w, "close", "done")
  /\ Queue!Shut
  /\ UNCHANGED <<next, closed, stop, remaining, part, ok, results, tableVars>>

Worker(w) ==
  \/ Start(w) \/ CheckStop(w) \/ PopCheckClosed(w) \/ PopDraw(w)
  \/ EncodeOk(w) \/ EncodeFails(w) \/ EncodeThrows(w)
  \/ PushCheckClosed(w) \/ Refused(w) \/ TakePlace(w) \/ Publish(w)
  \/ Retire(w) \/ CloseQueue(w)

-----------------------------------------------------------------------------
(* The table's task *)

TableGoto(from, to) == cpc = from /\ cpc' = to

FirstError(origin) == IF error = "none" THEN origin ELSE error

\* A file of an earlier run: it is reported as an error, and the call returns 0.
SkipExisting ==
  /\ file = "old"
  /\ TableGoto("open", "returned")
  /\ result' = 0
  /\ UNCHANGED <<queueVars, workerVars, closed, stop, mergeVars, error, file>>

OpenFails ==
  /\ TableGoto("open", "returned")
  /\ result' = 2
  /\ file' \in IF file = "old" THEN {"old"} ELSE {file, "temp"}
  /\ UNCHANGED <<queueVars, workerVars, closed, stop, mergeVars, error>>

\* The temporary file is open, the workers are launched, and the magic is written or not.
Open ==
  /\ file # "old"
  /\ TableGoto("open", "pop")
  /\ file' = "temp"
  /\ error' \in {"none", "sink"}
  /\ UNCHANGED <<queueVars, workerVars, closed, stop, mergeVars, result>>

Receive ==
  /\ Queue!Receive
  /\ TableGoto("pop", "merge")
  /\ LET m == Head(channel) IN pending' = pending \cup {results[m[1]][m[2]]}
  /\ UNCHANGED <<workerVars, closed, stop, expected, out, error, file, result>>

PopWaits ==
  /\ cpc = "pop"
  /\ Queue!FindNothing \/ Queue!LookAgain
  /\ UNCHANGED <<workerVars, closed, stop, tableVars>>

PopReturnsFalse ==
  /\ Queue!End
  /\ TableGoto("pop", "join")
  /\ UNCHANGED <<workerVars, closed, stop, mergeVars, error, file, result>>

\* Mutant of Ready: results are merged as they arrive.
ReadyOnArrival(r) == cpc = "merge" /\ error = "none" /\ r \in pending

Ready(r) == cpc = "merge" /\ error = "none" /\ r \in pending /\ r.part = expected

\* Mutant of MergeNext: the status of the partition is not looked at.
MergeAnyStatus ==
  \E r \in pending :
    /\ Ready(r)
    /\ out' = Append(out, r.part)
    /\ pending' = pending \ {r}
    /\ expected' = expected + 1
    /\ UNCHANGED <<queueVars, workerVars, closed, stop, cpc, error, file, result>>

\* process_buffer: the row groups of the expected partition go to the file.
MergeNext ==
  \E r \in pending :
    /\ Ready(r) /\ r.ok
    /\ out' = Append(out, r.part)
    /\ pending' = pending \ {r}
    /\ expected' = expected + 1
    /\ UNCHANGED <<queueVars, workerVars, closed, stop, cpc, error, file, result>>

\* The expected partition failed, or its footer or the write of its data does.
MergeFails ==
  \E r \in pending :
    /\ Ready(r)
    /\ error' = IF r.ok THEN "sink" ELSE "partition"
    /\ pending' = pending \ {r}
    /\ expected' = expected + 1
    /\ UNCHANGED <<queueVars, workerVars, closed, stop, cpc, out, file, result>>

MergeDone ==
  /\ ~\E r \in pending : Ready(r)
  /\ TableGoto("merge", IF error = "none" THEN "pop" ELSE "stop")
  /\ UNCHANGED <<queueVars, workerVars, closed, stop, mergeVars, error, file, result>>

\* stop_requested, the close of both queues, break.
StopWorkers ==
  /\ TableGoto("stop", "close_parts")
  /\ stop' = TRUE
  /\ UNCHANGED <<queueVars, workerVars, closed, mergeVars, error, file, result>>

CloseParts ==
  /\ TableGoto("close_parts", "close_results")
  /\ closed' = TRUE
  /\ UNCHANGED <<queueVars, workerVars, stop, mergeVars, error, file, result>>

CloseResults ==
  /\ TableGoto("close_results", "join")
  /\ Queue!Shut
  /\ UNCHANGED <<workerVars, closed, stop, mergeVars, error, file, result>>

Join ==
  /\ \A w \in Workers : pc[w] \in {"done", "threw"}
  /\ TableGoto("join", "finish")
  /\ error' = IF \E w \in Workers : pc[w] = "threw" THEN FirstError("worker") ELSE error
  /\ UNCHANGED <<queueVars, workerVars, closed, stop, mergeVars, file, result>>

\* Abort the sink and delete the temporary file, whose outcome is ignored.
Discard ==
  /\ error # "none"
  /\ TableGoto("finish", "returned")
  /\ file' \in {"absent", "temp"}
  /\ result' = 2
  /\ UNCHANGED <<queueVars, workerVars, closed, stop, mergeVars, error>>

\* "not all partitions completed", or the footer, the close or the move fails:
\* the temporary file stays.
FinishFails ==
  /\ error = "none"
  /\ TableGoto("finish", "returned")
  /\ result' = 2
  /\ UNCHANGED <<queueVars, workerVars, closed, stop, mergeVars, error, file>>

\* Mutant of FinishOk: expected_part is not checked.
FinishUnchecked ==
  /\ error = "none"
  /\ TableGoto("finish", "returned")
  /\ file' = "published"
  /\ result' = 0
  /\ UNCHANGED <<queueVars, workerVars, closed, stop, mergeVars, error>>

FinishOk ==
  /\ error = "none" /\ expected = PartCount + 1
  /\ TableGoto("finish", "returned")
  /\ file' = "published"
  /\ result' = 0
  /\ UNCHANGED <<queueVars, workerVars, closed, stop, mergeVars, error>>

TableTask ==
  \/ SkipExisting \/ OpenFails \/ Open \/ Receive \/ PopWaits \/ PopReturnsFalse
  \/ MergeNext \/ MergeFails \/ MergeDone \/ StopWorkers \/ CloseParts \/ CloseResults
  \/ Join \/ Discard \/ FinishFails \/ FinishOk

Next == (\E w \in Workers : Worker(w)) \/ TableTask

Spec == Init /\ [][Next]_vars

\* The pools run their tasks; no wakeup of the queue is lost.
FairSpec == Spec /\ (\A w \in Workers : WF_vars(Worker(w))) /\ WF_vars(TableTask)

-----------------------------------------------------------------------------
(* Properties *)

TypeOK ==
  /\ next \in 1 .. PartCount + Cardinality(Workers) + 1
  /\ closed \in BOOLEAN /\ stop \in BOOLEAN /\ shut \in BOOLEAN
  /\ remaining \in 0 .. Cardinality(Workers)
  /\ pc \in [Workers -> {"queued", "loop", "pop", "draw", "encode", "push_check", "push",
                         "publish", "retire", "close", "done", "threw"}]
  /\ part \in [Workers -> 0 .. PartCount]
  /\ cpc \in {"open", "pop", "merge", "stop", "close_parts", "close_results", "join",
              "finish", "returned"}
  /\ pending \subseteq [part : Parts, ok : BOOLEAN]
  /\ expected \in 1 .. PartCount + 1
  /\ error \in {"none", "sink", "partition", "worker"}
  /\ out \in Seq(Parts)
  /\ file \in {"absent", "temp", "published", "old"}
  /\ result \in {NoResult, 0, 2}

\* The file has the partitions in order and without gap, however the workers finish.
MergedInOrder == \A i \in 1 .. Len(out) : out[i] = i

\* Only a whole table gets the final name: every partition merged, no worker
\* failed, and the call reports success exactly then.  (Whole in partitions: that an
\* encoded one has all its rows is DrainedSuccessIsComplete of PartitionPipeline.)
PublishedIsWhole ==
  result # NoResult =>
    /\ file = "published" <=> result = 0 /\ file # "old"
    /\ file = "published" => Len(out) = PartCount

\* A partition whose encoding failed is never hidden by the stop it causes: the
\* call fails, although the workers stop drawing at different moments.
EncodeErrorReported ==
  result = 0 => \A w \in Workers : ok[w] /\ pc[w] # "threw"

\* The call returns, also when a worker's task ends by an exception.
Returns == <>(result # NoResult)
=============================================================================
