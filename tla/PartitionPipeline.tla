--------------------------- MODULE PartitionPipeline ---------------------------
(***************************************************************************)
(* GeneratePartitionToOwnFile and GeneratePartitionToInMemory of           *)
(* src/Storage/write_scheduler.cpp: the worker opens the partition's file, *)
(* or a buffer, starts a thread that generates the batches, writes what it *)
(* pops from the queue between them, joins the thread and closes the file. *)
(* The queue is the BoundedMpscQueue, step by step; the callers' part of   *)
(* that module is replaced by the real callers.                            *)
(*                                                                         *)
(* A generator is abstracted to the number of batches it would produce;    *)
(* any call of it may throw.  A file is abstracted to the name it has and  *)
(* the number of batches written to it; a buffer is a file that counts as  *)
(* published when it is returned.                                          *)
(***************************************************************************)
EXTENDS BoundedMpscQueue

CONSTANTS Producer, MaxBatches

ASSUME OneProducer  == Producers = {Producer}
ASSUME BatchesFit   == MaxBatches \in Nat /\ MaxPushes = MaxBatches + 1

VARIABLES
  target,    \* "file" or "memory": which of the two functions it is
  phase,     \* where the worker is
  rc,        \* what the call returned: 0, 2, or NoResult
  total,     \* batches the generator has for this partition
  errorAt,   \* 0, or the number of the message that carries the generator's exception
  stop,      \* stop_requested
  error,     \* origin of pipeline_error
  handled,   \* popped messages the worker has dealt with
  written,   \* batches in the file
  file       \* "absent", "temp", "published", or "old": published by an earlier run

pipelineVars == <<target, phase, rc, total, errorAt, stop, error, handled, written, file>>
allVars      == <<vars, pipelineVars>>

NoResult == -1

PipelineInit ==
  /\ Init
  /\ target \in {"file", "memory"}
  /\ phase = "start"
  /\ rc = NoResult
  /\ total \in 0 .. MaxBatches
  /\ errorAt = 0
  /\ stop = FALSE
  /\ error = "none"
  /\ handled = 0
  /\ written = 0
  /\ file \in IF target = "file" THEN {"absent", "temp", "old"} ELSE {"absent"}

Thrown == errorAt # 0

Return(code) == phase' = "returned" /\ rc' = code

-----------------------------------------------------------------------------
(* The worker, before the pipeline runs *)

\* No generator, no writer, or OpenPartition failed: at the check of the final
\* name, before the temporary file exists, or after it was created.
OpenFails ==
  /\ phase = "start"
  /\ Return(2)
  /\ file' \in IF file = "old" \/ target = "memory" THEN {file} ELSE {file, "temp"}
  /\ UNCHANGED <<vars, target, total, errorAt, stop, error, handled, written>>

OpenSucceeds ==
  /\ phase = "start" /\ file # "old"
  /\ phase' = "opened"
  /\ file' = "temp"
  /\ UNCHANGED <<vars, target, rc, total, errorAt, stop, error, handled, written>>

\* generator->Reset or the start of the thread throws: nothing in
\* GeneratePartitionToInMemory catches it.
ResetThrowsThrough ==
  /\ target = "memory" /\ phase = "opened"
  /\ phase' = "threw"
  /\ file' = "absent"
  /\ UNCHANGED <<vars, target, rc, total, errorAt, stop, error, handled, written>>

\* The catch block of GeneratePartitionToOwnFile closes the partition.
ResetThrows ==
  /\ target = "file" /\ phase = "opened"
  /\ phase' = "closing"
  /\ error' = "setup"
  /\ UNCHANGED <<vars, target, rc, total, errorAt, stop, handled, written, file>>

StartProducer ==
  /\ phase = "opened"
  /\ phase' = "consuming"
  /\ UNCHANGED <<vars, target, rc, total, errorAt, stop, error, handled, written, file>>

-----------------------------------------------------------------------------
(* The producer thread *)

ThreadRuns == phase \in {"consuming", "joining"}
Producing  == ThreadRuns /\ ~Thrown

\* while (!stop_requested) { NextBatch; Push; }
GenerateBatch ==
  /\ Producing /\ ~stop /\ pushed[Producer] < total
  /\ BeginPush(Producer)
  /\ UNCHANGED pipelineVars

\* NextBatch throws: the catch block pushes an Error message.
GenerateThrows ==
  /\ Producing /\ ~stop
  /\ BeginPush(Producer)
  /\ errorAt' = pushed[Producer] + 1
  /\ UNCHANGED <<target, phase, rc, total, stop, error, handled, written, file>>

\* Mutant of ProducerCloses: the thread returns and leaves the queue open.
ProducerReturns ==
  /\ ThreadRuns
  /\ \/ /\ stop \/ Thrown \/ pushed[Producer] = total
        /\ Goto(Producer, "idle", "done")
     \/ Goto(Producer, "refused", "done")
  /\ UNCHANGED <<ringVars, closed, callerVars, lost, pipelineVars>>

\* Stopped, out of batches, error pushed, or Push returned false: the thread closes the queue.
ProducerCloses ==
  /\ ThreadRuns
  /\ \/ /\ stop \/ Thrown \/ pushed[Producer] = total
        /\ Goto(Producer, "idle", "close")
     \/ Goto(Producer, "refused", "close")
  /\ UNCHANGED <<ringVars, closed, callerVars, lost, pipelineVars>>

ProducerQueueStep ==
  /\ ThreadRuns
  /\ PushStep(Producer) \/ Close(Producer)
  /\ UNCHANGED pipelineVars

ProducerThread == GenerateBatch \/ GenerateThrows \/ ProducerCloses \/ ProducerQueueStep

-----------------------------------------------------------------------------
(* The worker, consuming *)

Consuming == phase = "consuming" /\ pc[Consumer] = "idle"
InHand    == Consuming /\ handled < Len(delivered)

InHandIsError == delivered[handled + 1] = <<Producer, errorAt>>

ConsumerPops ==
  /\ Consuming /\ ~InHand
  /\ BeginPop
  /\ UNCHANGED pipelineVars

ConsumerQueueStep ==
  /\ phase = "consuming"
  /\ PopStep \/ Close(Consumer)
  /\ UNCHANGED pipelineVars

\* pipeline_error (the first one stays), stop_requested, Close.
StopWith(origin) ==
  /\ error' = IF error = "none" THEN origin ELSE error
  /\ stop' = TRUE
  /\ handled' = handled + 1
  /\ Goto(Consumer, "idle", "close")
  /\ UNCHANGED <<ringVars, closed, callerVars, lost, target, phase, rc, total, errorAt, written, file>>

\* Mutant of HandleError: the exception stops the pipeline and is not kept.
HandleErrorForgotten ==
  /\ InHand /\ InHandIsError
  /\ stop' = TRUE
  /\ handled' = handled + 1
  /\ Goto(Consumer, "idle", "close")
  /\ UNCHANGED <<ringVars, closed, callerVars, lost, target, phase, rc, total, errorAt, error, written, file>>

HandleError  == InHand /\ InHandIsError /\ StopWith("generator")
WriteFails   == InHand /\ ~InHandIsError /\ ~stop /\ StopWith("write")

\* Mutant of WriteBatch: the kind of the message is not looked at.
WriteAnyMessage ==
  /\ InHand /\ ~stop
  /\ handled' = handled + 1
  /\ written' = written + 1
  /\ UNCHANGED <<vars, target, phase, rc, total, errorAt, stop, error, file>>

\* Mutant of WriteBatch: batches that arrive after an error are written too.
WriteAfterStop ==
  /\ InHand /\ ~InHandIsError
  /\ handled' = handled + 1
  /\ written' = written + 1
  /\ UNCHANGED <<vars, target, phase, rc, total, errorAt, stop, error, file>>

WriteBatch ==
  /\ InHand /\ ~InHandIsError /\ ~stop
  /\ handled' = handled + 1
  /\ written' = written + 1
  /\ UNCHANGED <<vars, target, phase, rc, total, errorAt, stop, error, file>>

SkipBatch ==
  /\ InHand /\ ~InHandIsError /\ stop
  /\ handled' = handled + 1
  /\ UNCHANGED <<vars, target, phase, rc, total, errorAt, stop, error, written, file>>

\* An exception leaves the scope of producer_thread, which is still joinable:
\* its destructor calls std::terminate and the catch blocks never run.
WriteThrows ==
  /\ InHand /\ ~InHandIsError /\ ~stop
  /\ phase' = "aborted"
  /\ UNCHANGED <<vars, target, rc, total, errorAt, stop, error, handled, written, file>>

EndOfStream ==
  /\ phase = "consuming" /\ pc[Consumer] = "ended"
  /\ phase' = "joining"
  /\ UNCHANGED <<vars, target, rc, total, errorAt, stop, error, handled, written, file>>

Join ==
  /\ phase = "joining" /\ pc[Producer] = "done"
  /\ phase' = "closing"
  /\ UNCHANGED <<vars, target, rc, total, errorAt, stop, error, handled, written, file>>

\* The buffer of a partition that failed is dropped; else the writer is closed
\* and the stream finished, which may fail.
FinishBuffer ==
  /\ target = "memory" /\ phase = "closing"
  /\ \E ok \in BOOLEAN :
       /\ file' = IF ok /\ error = "none" THEN "published" ELSE "absent"
       /\ Return(IF ok /\ error = "none" THEN 0 ELSE 2)
  /\ UNCHANGED <<vars, target, total, errorAt, stop, error, handled, written>>

\* ClosePartition gives the file its final name, after an error too; it may
\* fail before that.  Only a clean close without an error is a success.
ClosePartition ==
  /\ target = "file" /\ phase = "closing"
  /\ \E ok \in BOOLEAN :
       /\ file' = IF ok THEN "published" ELSE file
       /\ Return(IF ok /\ error = "none" THEN 0 ELSE 2)
  /\ UNCHANGED <<vars, target, total, errorAt, stop, error, handled, written>>

Worker ==
  \/ OpenFails \/ OpenSucceeds \/ ResetThrows \/ ResetThrowsThrough \/ StartProducer
  \/ ConsumerPops \/ ConsumerQueueStep \/ HandleError \/ WriteFails
  \/ WriteBatch \/ SkipBatch \/ WriteThrows \/ EndOfStream \/ Join
  \/ ClosePartition \/ FinishBuffer

Wakeup == ThreadRuns /\ (\E t \in Threads : SpuriousWakeup(t)) /\ UNCHANGED pipelineVars

PipelineNext == Worker \/ ProducerThread \/ Wakeup

PipelineSpec == PipelineInit /\ [][PipelineNext]_allVars

PipelineFairSpec ==
  /\ PipelineSpec
  /\ WF_allVars(Worker)
  /\ WF_allVars(ProducerThread)
  /\ SF_allVars(ThreadRuns /\ PushReserve(Producer) /\ UNCHANGED pipelineVars)

-----------------------------------------------------------------------------
(* Properties *)

PipelineTypeOK ==
  /\ TypeOK
  /\ target \in {"file", "memory"}
  /\ phase \in {"start", "opened", "consuming", "joining", "closing", "returned", "aborted", "threw"}
  /\ rc \in {NoResult, 0, 2}
  /\ total \in 0 .. MaxBatches
  /\ errorAt \in 0 .. MaxPushes /\ stop \in BOOLEAN
  /\ error \in {"none", "setup", "generator", "write"}
  /\ handled \in 0 .. MaxPushes /\ written \in 0 .. MaxBatches
  /\ file \in {"absent", "temp", "published", "old"}

Complete == written = total /\ ~Thrown

\* A success that left nothing in the queue is a complete partition: every
\* batch of a generator that did not throw is in the file or buffer.
DrainedSuccessIsComplete ==
  rc = 0 /\ enqueue_pos = dequeue_pos => Complete

\* A success is a complete partition, whatever was left in the queue.
SuccessIsComplete == rc = 0 => Complete

\* Once an error is known nothing is added to the file, whatever the producer
\* still delivers, and the result is a failure.
NothingWrittenAfterError == [][error # "none" => written' = written /\ rc' # 0]_allVars

\* Without a lost notification the call returns (or throws, or the process is terminated):
\* the join never waits for a thread that sleeps.
ReturnsUnlessWakeupLost == ([]~lost) => <>(phase \in {"returned", "aborted", "threw"})
=============================================================================
