----------------------------- MODULE NativeOrdered -----------------------------
(***************************************************************************)
(* RunNativeMultiplexedOrdered of src/Storage/write_scheduler.cpp: one     *)
(* producer task per partition on the partition pool, all pushing into one *)
(* bounded queue; the table's task pops, buffers what arrives early, and   *)
(* writes the partitions one after the other to a single file.             *)
(*                                                                         *)
(* The queue is the BoundedChannel that BoundedMpscQueue implements.  A    *)
(* batch is the pair <<partition, number>>; the sink or ordered writer is  *)
(* abstracted to the sequence of batches it accepted, and each of its      *)
(* calls may fail.                                                         *)
(***************************************************************************)
EXTENDS Integers, Sequences, FiniteSets

CONSTANTS
  PartCount,   \* number of partitions, one producer task each
  PoolSize,    \* threads of the partition pool
  Capacity,    \* write-queue-capacity
  MaxBatches,  \* bound: batches per partition
  MaxTotal     \* bound: batches of the table

ASSUME PartsAssumption == PartCount \in Nat \ {0}
ASSUME PoolAssumption  == PoolSize \in Nat \ {0}
ASSUME QueueAssumption == Capacity \in Nat \ {0, 1}
ASSUME BoundAssumption == MaxBatches \in Nat /\ MaxTotal \in Nat

Parts == 1 .. PartCount

\* The batches of a table whose partitions have these sizes.
BatchesOf(sizes) == {b \in Parts \X (1 .. MaxBatches) : b[2] <= sizes[b[1]]}

VARIABLES
  channel, writing, sent, received, shut, receiver,   \* the queue
  stop,       \* stop_requested
  remaining,  \* remaining_producers
  pc,         \* where each producer task is
  total,      \* batches each partition's generator has
  kind,       \* kind of the message each producer pushes
  special,    \* number of each producer's EndPartition or Error message, 0 before it exists
  code,       \* what each task returned
  cpc,        \* where the table's task is
  early,      \* states[p].batches
  completed,  \* states[p].completed
  opened,     \* states[p].opened
  expected,   \* expected_part
  error,      \* origin of pipeline_error
  out,        \* batches the sink accepted, in order
  result      \* 0, 2, or NoResult

queueVars    == <<channel, writing, sent, received, shut, receiver>>
producerVars == <<remaining, pc, total, kind, special, code>>
drainVars    == <<early, completed, opened, expected, out>>
vars == <<queueVars, stop, producerVars, cpc, drainVars, error, result>>

NoResult == -1

Queue == INSTANCE BoundedChannel WITH Producers <- Parts, MaxPushes <- MaxBatches + 1

Init ==
  /\ Queue!Init
  /\ stop = FALSE
  /\ remaining = PartCount
  /\ pc = [p \in Parts |-> "queued"]
  /\ total \in {t \in [Parts -> 0 .. MaxBatches] : Cardinality(BatchesOf(t)) <= MaxTotal}
  /\ kind = [p \in Parts |-> "batch"]
  /\ special = [p \in Parts |-> 0]
  /\ code = [p \in Parts |-> NoResult]
  /\ cpc = "pop"
  /\ early = [p \in Parts |-> <<>>]
  /\ completed = [p \in Parts |-> FALSE]
  /\ opened = [p \in Parts |-> FALSE]
  /\ expected = 1
  /\ error = "none"
  /\ out = <<>>
  /\ result = NoResult

tableVars == <<cpc, drainVars, error, result>>

Goto(p, from, to) == pc[p] = from /\ pc' = [pc EXCEPT ![p] = to]

-----------------------------------------------------------------------------
(* A producer task *)

\* The pool starts the tasks in the order they were submitted.
Start(p) ==
  /\ \A q \in 1 .. p - 1 : pc[q] # "queued"
  /\ Cardinality({q \in Parts : pc[q] \notin {"queued", "done"}}) < PoolSize
  /\ Goto(p, "queued", "create")
  /\ UNCHANGED <<queueVars, stop, remaining, total, kind, special, code, tableVars>>

\* No generator, or an exception of CreateGenerator, Reset or NextBatch.
Throw(p) ==
  /\ pc[p] = "create" \/ (pc[p] = "loop" /\ ~stop)
  /\ kind' = [kind EXCEPT ![p] = "error"]
  /\ special' = [special EXCEPT ![p] = sent[p] + 1]
  /\ pc' = [pc EXCEPT ![p] = "push_check"]
  /\ UNCHANGED <<queueVars, stop, remaining, total, code, tableVars>>

\* The test of the loop, the first time after CreateGenerator and Reset.
FromLoop(p, to) == pc[p] \in {"create", "loop"} /\ pc' = [pc EXCEPT ![p] = to]

\* Mutant of Generate: one batch more than the generator has.
GenerateOneMore(p) ==
  /\ ~stop /\ sent[p] <= total[p]
  /\ FromLoop(p, "push_check")
  /\ UNCHANGED <<queueVars, stop, remaining, total, kind, special, code, tableVars>>

\* while (!stop_requested) { NextBatch; Push; }
Generate(p) ==
  /\ ~stop /\ sent[p] < total[p]
  /\ FromLoop(p, "push_check")
  /\ UNCHANGED <<queueVars, stop, remaining, total, kind, special, code, tableVars>>

LeaveLoop(p) ==
  /\ stop \/ sent[p] = total[p]
  /\ FromLoop(p, "after_loop")
  /\ UNCHANGED <<queueVars, stop, remaining, total, kind, special, code, tableVars>>

\* if (!stop_requested) push EndPartition
SkipEnd(p) ==
  /\ stop
  /\ Goto(p, "after_loop", "retire")
  /\ UNCHANGED <<queueVars, stop, remaining, total, kind, special, code, tableVars>>

PushEnd(p) ==
  /\ ~stop
  /\ Goto(p, "after_loop", "push_check")
  /\ kind' = [kind EXCEPT ![p] = "end"]
  /\ special' = [special EXCEPT ![p] = sent[p] + 1]
  /\ UNCHANGED <<queueVars, stop, remaining, total, code, tableVars>>

AfterPush(p) == CASE kind[p] = "batch" -> "loop"
                  [] kind[p] = "end"   -> "retire"
                  [] kind[p] = "error" -> "stop"

PushCheckClosed(p) ==
  /\ ~shut
  /\ Goto(p, "push_check", "push")
  /\ UNCHANGED <<queueVars, stop, remaining, total, kind, special, code, tableVars>>

\* Push returns false: a batch ends the task, the other kinds ignore it.
Refused(p) ==
  /\ shut
  /\ pc[p] \in {"push_check", "push"}
  /\ pc' = [pc EXCEPT ![p] = IF kind[p] = "batch" THEN "done" ELSE AfterPush(p)]
  /\ code' = IF kind[p] = "batch" THEN [code EXCEPT ![p] = 2] ELSE code
  /\ UNCHANGED <<queueVars, stop, remaining, total, kind, special, tableVars>>

TakePlace(p) ==
  /\ Queue!TakePlace(p)
  /\ Goto(p, "push", "publish")
  /\ UNCHANGED <<stop, remaining, total, kind, special, code, tableVars>>

Publish(p) ==
  /\ Queue!Publish(p)
  /\ Goto(p, "publish", AfterPush(p))
  /\ UNCHANGED <<stop, remaining, total, kind, special, code, tableVars>>

StopAll(p) ==
  /\ Goto(p, "stop", "close")
  /\ stop' = TRUE
  /\ UNCHANGED <<queueVars, remaining, total, kind, special, code, tableVars>>

\* Mutant of Retire: nobody closes the queue.
RetireSilently(p) ==
  /\ Goto(p, "retire", "done")
  /\ remaining' = remaining - 1
  /\ code' = [code EXCEPT ![p] = 0]
  /\ UNCHANGED <<queueVars, stop, total, kind, special, tableVars>>

\* remaining_producers.fetch_sub(1) == 1
Retire(p) ==
  /\ Goto(p, "retire", IF remaining = 1 THEN "close" ELSE "done")
  /\ remaining' = remaining - 1
  /\ code' = [code EXCEPT ![p] = 0]
  /\ UNCHANGED <<queueVars, stop, total, kind, special, tableVars>>

\* The task that failed, or the last to retire, closes the queue and returns.
CloseQueue(p) ==
  /\ Goto(p, "close", "done")
  /\ Queue!Shut
  /\ code' = [code EXCEPT ![p] = IF kind[p] = "error" THEN 2 ELSE 0]
  /\ UNCHANGED <<stop, remaining, total, kind, special, tableVars>>

ProducerTask(p) ==
  \/ Start(p) \/ Throw(p) \/ Generate(p) \/ LeaveLoop(p) \/ SkipEnd(p) \/ PushEnd(p)
  \/ PushCheckClosed(p) \/ Refused(p) \/ TakePlace(p) \/ Publish(p)
  \/ StopAll(p) \/ Retire(p) \/ CloseQueue(p)

-----------------------------------------------------------------------------
(* The table's task *)

KindOf(m) == IF m[2] = special[m[1]] THEN kind[m[1]] ELSE "batch"

FirstError(origin) == IF error = "none" THEN origin ELSE error

TableGoto(from, to) == cpc = from /\ cpc' = to

\* One message: an error stops everything, the others update states[part].
ReceiveError ==
  /\ Queue!Receive
  /\ KindOf(Head(channel)) = "error"
  /\ TableGoto("pop", "stop")
  /\ error' = FirstError("producer")
  /\ UNCHANGED <<stop, producerVars, drainVars, result>>

ReceiveBatch ==
  /\ Queue!Receive
  /\ LET m == Head(channel)
     IN  /\ KindOf(m) = "batch"
         /\ early' = [early EXCEPT ![m[1]] = Append(@, m)]
  /\ TableGoto("pop", "drain")
  /\ UNCHANGED <<stop, producerVars, completed, opened, expected, out, error, result>>

ReceiveEnd ==
  /\ Queue!Receive
  /\ LET m == Head(channel)
     IN  /\ KindOf(m) = "end"
         /\ completed' = [completed EXCEPT ![m[1]] = TRUE]
  /\ TableGoto("pop", "drain")
  /\ UNCHANGED <<stop, producerVars, early, opened, expected, out, error, result>>

PopWaits ==
  /\ cpc = "pop"
  /\ Queue!FindNothing \/ Queue!LookAgain
  /\ UNCHANGED <<stop, producerVars, cpc, drainVars, error, result>>

PopReturnsFalse ==
  /\ Queue!End
  /\ TableGoto("pop", "join")
  /\ UNCHANGED <<stop, producerVars, drainVars, error, result>>

\* stop_requested.store(true); queue.Close();
TableStops ==
  /\ TableGoto("stop", "close")
  /\ stop' = TRUE
  /\ UNCHANGED <<queueVars, producerVars, drainVars, error, result>>

TableCloses ==
  /\ TableGoto("close", "pop")
  /\ Queue!Shut
  /\ UNCHANGED <<stop, producerVars, drainVars, error, result>>

-----------------------------------------------------------------------------
(* drain_ready_partitions, in the loop ("drain") and after the join ("final") *)

Draining   == cpc \in {"drain", "final"} /\ expected <= PartCount
HasBatch   == Draining /\ early[expected] # <<>>
MustOpen   == HasBatch /\ ~opened[expected]
MustWrite  == HasBatch /\ opened[expected]
\* Mutant of MustFinish: the end of the partition is not waited for.
MustFinishEarly == Draining /\ early[expected] = <<>>

MustFinish == Draining /\ early[expected] = <<>> /\ completed[expected]

BeginPartition ==
  /\ MustOpen
  /\ opened' = [opened EXCEPT ![expected] = TRUE]
  /\ UNCHANGED <<queueVars, stop, producerVars, cpc, early, completed, expected, out, error, result>>

WriteFront ==
  /\ MustWrite
  /\ out' = Append(out, Head(early[expected]))
  /\ early' = [early EXCEPT ![expected] = Tail(@)]
  /\ UNCHANGED <<queueVars, stop, producerVars, cpc, completed, opened, expected, error, result>>

\* EndPartition when it was opened; states.erase; ++expected_part.
FinishPartition ==
  /\ MustFinish
  /\ completed' = [completed EXCEPT ![expected] = FALSE]
  /\ opened' = [opened EXCEPT ![expected] = FALSE]
  /\ expected' = expected + 1
  /\ UNCHANGED <<queueVars, stop, producerVars, cpc, early, out, error, result>>

\* A call of the sink fails and everything stays as it was.  In the loop the
\* status replaces pipeline_error and the loop goes on, so that the next message
\* tries the same call again; after the join only a first error is kept.
DrainFails ==
  /\ MustOpen \/ MustWrite \/ (MustFinish /\ opened[expected])
  /\ \/ TableGoto("drain", "stop") /\ error' = "sink"
     \/ TableGoto("final", "finish") /\ error' = FirstError("sink")
  /\ UNCHANGED <<queueVars, stop, producerVars, drainVars, result>>

DrainReturns ==
  /\ ~HasBatch /\ ~MustFinish
  /\ TableGoto("drain", "pop") \/ TableGoto("final", "finish")
  /\ UNCHANGED <<queueVars, stop, producerVars, drainVars, error, result>>

\* Get on every future.
Join ==
  /\ \A p \in Parts : pc[p] = "done"
  /\ TableGoto("join", "final")
  /\ error' = IF \E p \in Parts : code[p] # 0 THEN FirstError("producer") ELSE error
  /\ UNCHANGED <<queueVars, stop, producerVars, drainVars, result>>

\* Mutant of Finish: expected_part is not checked.
FinishUnchecked ==
  /\ TableGoto("finish", "returned")
  /\ \E ok \in BOOLEAN :
        /\ error' = IF ~ok THEN FirstError("close") ELSE error
        /\ result' = IF ok /\ error = "none" THEN 0 ELSE 2
  /\ UNCHANGED <<queueVars, stop, producerVars, drainVars>>

\* The check of expected_part, then the close of the sink, which may fail.
Finish ==
  /\ TableGoto("finish", "returned")
  /\ LET found == IF expected # PartCount + 1 THEN FirstError("missing") ELSE error
     IN  \E ok \in BOOLEAN :
           /\ error' = IF ~ok /\ found = "none" THEN "close" ELSE found
           /\ result' = IF ok /\ found = "none" THEN 0 ELSE 2
  /\ UNCHANGED <<queueVars, stop, producerVars, drainVars>>

TableTask ==
  \/ ReceiveError \/ ReceiveBatch \/ ReceiveEnd \/ PopWaits \/ PopReturnsFalse
  \/ TableStops \/ TableCloses \/ BeginPartition \/ WriteFront \/ FinishPartition
  \/ DrainFails \/ DrainReturns \/ Join \/ Finish

Next == (\E p \in Parts : ProducerTask(p)) \/ TableTask

Spec == Init /\ [][Next]_vars

\* The pool runs every started task and the table's pool the table's task.  A
\* producer waiting for room gets it while the others run out of batches; that
\* a wakeup is not lost is the assumption BoundedMpscQueue states.
FairSpec == Spec /\ (\A p \in Parts : WF_vars(ProducerTask(p))) /\ WF_vars(TableTask)

-----------------------------------------------------------------------------
(* Properties *)

TypeOK ==
  /\ stop \in BOOLEAN /\ shut \in BOOLEAN
  /\ remaining \in 0 .. PartCount
  /\ pc \in [Parts -> {"queued", "create", "loop", "after_loop", "push_check", "push",
                       "publish", "stop", "close", "retire", "done"}]
  /\ kind \in [Parts -> {"batch", "end", "error"}]
  /\ code \in [Parts -> {NoResult, 0, 2}]
  /\ cpc \in {"pop", "stop", "close", "drain", "final", "join", "finish", "returned"}
  /\ early \in [Parts -> Seq(Parts \X (1 .. MaxBatches))]
  /\ expected \in 1 .. PartCount + 1
  /\ error \in {"none", "producer", "sink", "missing", "close"}
  /\ result \in {NoResult, 0, 2}

\* The place of a batch in the file of a run without partitions.
Rank(m) == Cardinality({b \in BatchesOf(total) : b[1] < m[1]}) + m[2]

\* At every moment the file holds the first batches of the table in table order:
\* nothing out of order, nothing twice, no gap, whatever the order in which the
\* partitions were generated and whatever failed and was tried again.
OutputInTableOrder == \A i \in 1 .. Len(out) : out[i] \in BatchesOf(total) /\ Rank(out[i]) = i

\* A call that returns 0 wrote every batch of every partition.
SuccessIsComplete ==
  result = 0 => Len(out) = Cardinality(BatchesOf(total))

\* The call returns, also when a producer fails while others wait for room.
Returns == <>(result # NoResult)
=============================================================================
