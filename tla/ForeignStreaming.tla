-------------------------- MODULE ForeignStreaming --------------------------
(***************************************************************************)
(* RunForeignStreamingOrdered of src/Storage/write_scheduler.cpp with the  *)
(* Lance and Vortex ordered writers and their Rust bridges: one task       *)
(* generates the partitions of a table in order and pushes every batch     *)
(* over a bounded channel to a thread that OpenTable spawned; CloseTable   *)
(* ends the stream, joins the thread and destroys the handle.              *)
(*                                                                         *)
(* The formats differ.  Lance ends the stream with a None message sent     *)
(* over a std sync_channel, whose send waits for room.  Vortex ends it by  *)
(* dropping the sender of a futures channel, whose send first delivers the *)
(* message and then waits until at most Capacity are queued; and it writes *)
(* an empty batch when the table had no row.                               *)
(***************************************************************************)
EXTENDS Integers, Sequences, FiniteSets

CONSTANTS
  PartCount,   \* input partitions of the table
  MaxBatches,  \* most batches of one partition
  Capacity     \* 8 in both bridges

NoResult == -1
End        == <<0, 0>>  \* Lance's None
EmptyBatch == <<0, 1>>  \* the batch without rows Vortex writes for an empty table

VARIABLES
  format,      \* "lance" or "vortex"
  batches_of,  \* how many batches each partition has
  pc,          \* where the table's task is
  part, batch, \* the partition, and the last batch generated of it
  is_open,     \* table_open, and the writer's is_open_
  wrote,       \* wrote_non_empty_batch_
  sender,      \* the handle holds its sender
  joined,      \* the handle's worker was taken and joined
  handle,      \* the handle exists
  status,      \* "ok" until CloseTable has an error to return
  failing,     \* the task is in fail()
  channel, receiver,  \* queued messages, and whether the reader still exists
  worker,      \* "none", "starting", "running", or how it ended: "ok", "err"
  consumed,    \* batches the worker took, in order
  dataset,     \* "absent", "partial", "committed", or "old": of an earlier run
  reported, committed, parts_completed,  \* ReportError, AddCommittedRows, MarkPartCompleted
  result       \* 0, 2 or NoResult

inputVars    == <<format, batches_of>>
genVars      == <<part, batch>>
writerVars   == <<is_open, wrote, handle, status>>
bridgeVars   == <<sender, joined, channel>>
workerVars   == <<receiver, worker, consumed, dataset>>
progressVars == <<reported, committed, parts_completed>>
vars == <<inputVars, pc, genVars, writerVars, bridgeVars, workerVars, failing, progressVars, result>>

Parts == 1 .. PartCount

Init ==
  /\ format \in {"lance", "vortex"}
  /\ batches_of \in [Parts -> 0 .. MaxBatches]
  /\ pc = "open" /\ part = 1 /\ batch = 0
  /\ is_open = FALSE /\ wrote = FALSE /\ handle = FALSE /\ status = "ok" /\ failing = FALSE
  /\ sender = FALSE /\ joined = FALSE /\ channel = <<>> /\ receiver = FALSE
  /\ worker = "none" /\ consumed = <<>>
  /\ dataset \in {"absent", "old"}
  /\ reported = FALSE /\ committed = 0 /\ parts_completed = 0
  /\ result = NoResult

Goto(from, to) == pc = from /\ pc' = to

-----------------------------------------------------------------------------
(* The task: opening, and one partition after another *)

\* An existing target, a bad option or an I/O error; nothing was opened.
OpenRefused ==
  /\ Goto("open", "returned")
  /\ reported' = TRUE
  /\ result' = 2
  /\ UNCHANGED <<inputVars, genVars, writerVars, bridgeVars, workerVars, failing, committed, parts_completed>>

\* The bridge checks the target, spawns the thread and hands out a handle.
WriterOpen ==
  /\ dataset = "absent"
  /\ handle' = TRUE /\ sender' = TRUE /\ receiver' = TRUE
  /\ worker' = "starting"

OpenLance ==
  /\ format = "lance"
  /\ Goto("open", "begin")
  /\ WriterOpen
  /\ is_open' = TRUE
  /\ UNCHANGED <<inputVars, genVars, wrote, status, joined, channel, consumed, dataset, failing, progressVars, result>>

OpenVortex ==
  /\ format = "vortex"
  /\ Goto("open", "begin")
  /\ WriterOpen
  /\ wrote' = FALSE /\ is_open' = TRUE
  /\ UNCHANGED <<inputVars, genVars, status, joined, channel, consumed, dataset, failing, progressVars, result>>

\* BeginInputPartition succeeds on an open writer; then CreateGenerator and Reset.
BeginPartition ==
  /\ Goto("begin", "next")
  /\ part <= PartCount
  /\ batch' = 0
  /\ UNCHANGED <<inputVars, part, writerVars, bridgeVars, workerVars, failing, progressVars, result>>

NextBatch ==
  /\ Goto("next", "push")
  /\ batch < batches_of[part]
  /\ batch' = batch + 1
  /\ UNCHANGED <<inputVars, part, writerVars, bridgeVars, workerVars, failing, progressVars, result>>

EndPartition ==
  /\ Goto("next", "begin")
  /\ batch = batches_of[part]
  /\ part' = part + 1
  /\ parts_completed' = parts_completed + 1
  /\ UNCHANGED <<inputVars, batch, writerVars, bridgeVars, workerVars, failing, reported, committed, result>>

\* Mutant of Fail: fail() returns without close_writer.
FailLeavesOpen(from) ==
  /\ Goto(from, "returned")
  /\ failing' = TRUE
  /\ reported' = TRUE
  /\ result' = 2
  /\ UNCHANGED <<inputVars, genVars, writerVars, bridgeVars, workerVars, committed, parts_completed>>

\* fail() reports and goes on to CloseTable.
Fail(from) ==
  /\ Goto(from, "close")
  /\ failing' = TRUE
  /\ reported' = TRUE
  /\ UNCHANGED <<inputVars, genVars, writerVars, bridgeVars, workerVars, committed, parts_completed, result>>

GeneratorFails == (part <= PartCount /\ Fail("begin")) \/ Fail("next")

-----------------------------------------------------------------------------
(* WriteBatch: the bridge's push *)

Room == Len(channel) < Capacity

SendLance ==
  /\ format = "lance" /\ receiver /\ Room
  /\ Goto("push", "next")
  /\ channel' = Append(channel, <<part, batch>>)
  /\ committed' = committed + 1
  /\ UNCHANGED <<inputVars, genVars, writerVars, sender, joined, workerVars, failing, reported, parts_completed, result>>

SendVortex ==
  /\ format = "vortex" /\ receiver
  /\ Goto("push", "flush")
  /\ channel' = Append(channel, <<part, batch>>)
  /\ UNCHANGED <<inputVars, genVars, writerVars, sender, joined, workerVars, failing, progressVars, result>>

\* Mutant of FlushVortex: send over an unbounded channel.
FlushVortexAtOnce ==
  /\ Goto("flush", "next")
  /\ wrote' = TRUE
  /\ committed' = committed + 1
  /\ UNCHANGED <<inputVars, genVars, is_open, handle, status, bridgeVars, workerVars, failing, reported, parts_completed, result>>

\* A sender that waits is woken by a receive, and by the end of the receiver, which is no error here.
FlushVortex ==
  /\ Len(channel) <= Capacity \/ ~receiver
  /\ Goto("flush", "next")
  /\ wrote' = TRUE
  /\ committed' = committed + 1
  /\ UNCHANGED <<inputVars, genVars, is_open, handle, status, bridgeVars, workerVars, failing, reported, parts_completed, result>>

PushRefused == ~receiver /\ Fail("push")

\* The Arrow C interface rejects the batch.
BatchRejected == receiver /\ Fail("push")

-----------------------------------------------------------------------------
(* CloseTable, after the last partition or in fail() *)

CloseWriter ==
  \/ pc = "begin" /\ part > PartCount
  \/ pc = "close"

CloseLance ==
  /\ CloseWriter /\ format = "lance"
  /\ pc' = "finish"
  /\ UNCHANGED <<inputVars, genVars, writerVars, bridgeVars, workerVars, failing, progressVars, result>>

CloseVortex ==
  /\ CloseWriter /\ format = "vortex"
  /\ pc' = IF wrote THEN "finish" ELSE "empty"
  /\ UNCHANGED <<inputVars, genVars, writerVars, bridgeVars, workerVars, failing, progressVars, result>>

Return(close_ok) ==
  /\ pc' = "returned"
  /\ result' = IF failing \/ ~close_ok THEN 2 ELSE 0
  /\ reported' = (reported \/ ~close_ok)

\* MakeArrayOfNull cannot allocate: CloseTable returns at once and the handle stays.
EmptyColumnsFail ==
  /\ pc = "empty"
  /\ Return(FALSE)
  /\ UNCHANGED <<inputVars, genVars, writerVars, bridgeVars, workerVars, failing, committed, parts_completed>>

\* The channel is empty then: the push never waits.
PushEmptyBatch ==
  /\ Goto("empty", "finish")
  /\ receiver
  /\ channel' = Append(channel, EmptyBatch)
  /\ UNCHANGED <<inputVars, genVars, writerVars, sender, joined, workerVars, failing, progressVars, result>>

\* The error waits for the end of finish, which is called all the same.
EmptyBatchFails ==
  /\ Goto("empty", "finish")
  /\ status' = "err"
  /\ UNCHANGED <<inputVars, genVars, is_open, wrote, handle, bridgeVars, workerVars, failing, progressVars, result>>

\* A refused None is an error that the outcome of the join replaces.
FinishLance ==
  /\ format = "lance"
  /\ Goto("finish", "join")
  /\ Room \/ ~receiver
  /\ channel' = IF receiver THEN Append(channel, End) ELSE channel
  /\ sender' = FALSE
  /\ UNCHANGED <<inputVars, genVars, writerVars, joined, workerVars, failing, progressVars, result>>

FinishVortex ==
  /\ format = "vortex"
  /\ Goto("finish", "join")
  /\ sender' = FALSE
  /\ UNCHANGED <<inputVars, genVars, writerVars, joined, channel, workerVars, failing, progressVars, result>>

\* Mutant of Join: finish takes the end of the thread for its success.
JoinIgnoresError ==
  /\ Goto("join", "destroy")
  /\ worker \in {"ok", "err"}
  /\ joined' = TRUE
  /\ UNCHANGED <<inputVars, genVars, writerVars, sender, channel, workerVars, failing, progressVars, result>>

\* The thread's error, or its panic, becomes the status of finish.
Join ==
  /\ Goto("join", "destroy")
  /\ worker \in {"ok", "err"}
  /\ joined' = TRUE
  /\ status' = IF worker = "err" THEN "err" ELSE status
  /\ UNCHANGED <<inputVars, genVars, is_open, wrote, handle, sender, channel, workerVars, failing, progressVars, result>>

\* destroy finishes once more after an error: without sender and worker that does nothing.
Destroy ==
  /\ pc = "destroy"
  /\ handle' = FALSE /\ is_open' = FALSE /\ wrote' = FALSE
  /\ Return(status = "ok")
  /\ UNCHANGED <<inputVars, genVars, status, bridgeVars, workerVars, failing, committed, parts_completed>>

-----------------------------------------------------------------------------
(* The writer thread *)

\* Vortex creates its file before it reads; Lance has no dataset before the commit.
WorkerStarts ==
  /\ worker = "starting"
  /\ worker' = "running"
  /\ dataset' = IF format = "vortex" THEN "partial" ELSE dataset
  /\ UNCHANGED <<inputVars, pc, genVars, writerVars, bridgeVars, receiver, consumed, failing, progressVars, result>>

WorkerReceives ==
  /\ worker = "running"
  /\ channel # <<>> /\ Head(channel) # End
  /\ channel' = Tail(channel)
  /\ consumed' = Append(consumed, Head(channel))
  /\ UNCHANGED <<inputVars, pc, genVars, writerVars, sender, joined, receiver, worker, dataset, failing, progressVars, result>>

\* The stream ended, with None or with the last sender.
WorkerCommits ==
  /\ worker = "running"
  /\ \/ channel # <<>> /\ Head(channel) = End
     \/ channel = <<>> /\ ~sender
  /\ worker' = "ok"
  /\ dataset' = "committed"
  /\ receiver' = FALSE
  /\ UNCHANGED <<inputVars, pc, genVars, writerVars, bridgeVars, consumed, failing, progressVars, result>>

\* An error or a panic, at any time: the receiver goes with the thread.
WorkerFails ==
  /\ worker \in {"starting", "running"}
  /\ worker' = "err"
  /\ receiver' = FALSE
  /\ UNCHANGED <<inputVars, pc, genVars, writerVars, bridgeVars, consumed, dataset, failing, progressVars, result>>

-----------------------------------------------------------------------------
Task ==
  \/ OpenRefused \/ OpenLance \/ OpenVortex
  \/ BeginPartition \/ NextBatch \/ EndPartition
  \/ SendLance \/ SendVortex \/ FlushVortex \/ PushRefused
  \/ CloseLance \/ CloseVortex \/ PushEmptyBatch \/ (~receiver /\ EmptyBatchFails)
  \/ FinishLance \/ FinishVortex \/ Join \/ Destroy

Thread == WorkerStarts \/ WorkerReceives \/ WorkerCommits

Failure == GeneratorFails \/ BatchRejected \/ EmptyColumnsFail \/ (receiver /\ EmptyBatchFails) \/ WorkerFails

Next == Task \/ Thread \/ Failure

(* The task and the thread run while they can; no failure has to happen. *)
Spec == Init /\ [][Next]_vars /\ WF_vars(Task) /\ WF_vars(Thread)

-----------------------------------------------------------------------------
(* Properties *)

Batches == {b \in Parts \X (1 .. MaxBatches) : b[2] <= batches_of[b[1]]}

Count(p) == Cardinality({b \in Batches : b[1] < p})

\* The batch number n of the table, in partition order.
BatchAt(n) == CHOOSE b \in Batches : Count(b[1]) + b[2] = n

AllBatches == [n \in 1 .. Cardinality(Batches) |-> BatchAt(n)]

(* Everything has a value its code can give it. *)
TypeOK ==
  /\ pc \in {"open", "begin", "next", "push", "flush", "close", "empty", "finish", "join", "destroy", "returned"}
  /\ part \in 1 .. PartCount + 1 /\ batch \in 0 .. MaxBatches
  /\ {is_open, wrote, sender, joined, handle, failing, receiver, reported} \subseteq BOOLEAN
  /\ \A i \in DOMAIN channel : channel[i] \in Batches \cup {End, EmptyBatch}
  /\ \A i \in DOMAIN consumed : consumed[i] \in Batches \cup {EmptyBatch}
  /\ worker \in {"none", "starting", "running", "ok", "err"}
  /\ dataset \in {"absent", "partial", "committed", "old"}
  /\ committed \in 0 .. Cardinality(Batches) /\ parts_completed \in 0 .. PartCount
  /\ result \in {0, 2, NoResult}

(* Result 0 means that the thread committed every batch of every partition,  *)
(* in partition order, although no push waits for the thread to write and    *)
(* the thread may fail after the last one; progress counted all of it; and a *)
(* Vortex file of a table without rows holds the empty batch.                *)
SuccessIsComplete ==
  result = 0 =>
    /\ dataset = "committed" /\ ~reported
    /\ consumed = IF Batches = {} /\ format = "vortex" THEN <<EmptyBatch>> ELSE AllBatches
    /\ committed = Cardinality(Batches) /\ parts_completed = PartCount

(* The thread only ever takes a prefix of the table, or the empty batch alone: *)
(* no batch is lost, doubled or overtaken, and AddCommittedRows is ahead of it *)
(* by no more than the channel and the batch on its way, which is also what is *)
(* kept in memory.                                                             *)
BoundedPrefix ==
  /\ \/ consumed = <<EmptyBatch>>
     \/ /\ Len(consumed) <= Cardinality(Batches)
        /\ \A n \in DOMAIN consumed : consumed[n] = AllBatches[n]
  /\ worker # "err" => committed - Len(consumed) <= Capacity
  /\ Len(channel) <= Capacity + 1

(* Once the task has returned, on any path, no writer thread of the table is *)
(* left and no handle; the one exception is the early return of Vortex's     *)
(* CloseTable, which leaves both, and an error.                              *)
NoThreadLeft ==
  result # NoResult =>
    \/ worker = "none" /\ ~handle
    \/ joined /\ ~sender /\ ~handle /\ worker \in {"ok", "err"}
    \/ format = "vortex" /\ ~wrote /\ handle /\ result = 2
=============================================================================
