# Verification of schengen's generation and write path

schengen generates the TPC-H tables: a table is cut into partitions, the rows of
a partition are a function of the row numbers alone, and several threads
generate, encode and write the partitions to one file per partition or to one
file per table, in Parquet, ORC, Lance or Vortex. This directory holds TLA+
models of the parts in which an ordering of threads, a failure or a boundary can
go wrong, the TLC configurations that check them, and TLAPS proofs of what
matters most.

## 1. The system

| component | source | state it keeps | operations |
|---|---|---|---|
| bounded queue | `src/Storage/write_scheduler.cpp` 155-297 | ring of slots with sequence numbers, two positions, `closed_`, two condition variables | Push, Pop, Close |
| partition counter | same, 112-152 | `next_`, `closed_` | Pop, Close |
| partition to its own file, or to memory | same, 324-513, 516-636 | the pipeline: producer thread, queue, writer, `stop_requested`, `pipeline_error` | open, produce, write, stop, join, close or finish the buffer |
| partitions in parallel | same, 639-696 | workers, `first_error`, `stop_requested` | draw, generate, fail, collect |
| one file, native writer | same, 1327-1614 | producers per partition, `states`, `expected_part` | push, receive, drain, join, finish |
| one file, parallel encoding | same, 1047-1324 | workers, `pending`, `expected_part`, temporary file | encode, push, merge, stop, publish |
| one file or dataset, foreign writer | same, 1616-1726, `lance_writer.cpp`, `vortex_writer.cpp`, the two `lib.rs` | the native worker thread, its channel, the sender, the thread's result | open, push, finish, destroy |
| row streams | `src/Common/rands.h`, `src/Common/partition.cpp`, `src/Tables/*.cpp` | a seed, the draws used and the budget per row of every column | draw, finish a row, skip rows, next row |
| Parquet and ORC writers | `parquet_writer.cpp`, `orc_writer.cpp`, the ORC sink of `write_scheduler.cpp` | temporary and final name, the open file | OpenPartition, WriteBatch, ClosePartition |
| format drivers | `writer.cpp`, `row_size_estimates.h` | none: numeric options | strategies, target rows and part count of a format |
| program | `src/main.cpp`, `GenerateTableWithStrategy` | the two pools, one task per table | parse, plan, run, collect |
| progress | `progress.cpp` | state and rows of every table, render thread | start, add rows, finish, fail, render |

### How they interact

`main` starts one task per table on the table pool. A task blocks on futures of
the partition pool and, in the ordered modes, on the queue between the partition
tasks and itself. `GeneratePartitionToOwnFile` runs on the partition pool and
starts a thread of its own for the generator. The queue is the only thing two
threads of a table share besides a few atomics. The foreign writers add a thread
inside the Rust library and a channel to it. Rows need no interaction: two
partitions never share a generator.

### What is hard

* A waiter of the queue tests its predicate and sleeps while the other side
  notifies without the mutex; `Pop` reads `closed_` after it read the slot.
* Batches of several partitions arrive in any order and must leave in table order.
* Every step can fail, on either side of a queue that may be full or closed.
* A task holds its thread while it waits for workers that need one too.
* Files are renamed when they are done, refused or skipped when they are there, and
  the process may die between any two of these steps and be started again.
* Skipping rows of a random stream must give what drawing them gives.

## 2. Modules

| module | what it is | extends or instantiates |
|---|---|---|
| `BoundedChannel` | abstract specification: what the queue promises its callers, a bounded FIFO whose receiver may miss what was published between two looks | |
| `BoundedMpscQueue` | the queue, one action per atomic access or condition-variable call | `Channel == INSTANCE BoundedChannel WITH ...` as the refinement mapping |
| `BoundedMpscQueue_proofs` | its theorems | `BoundedMpscQueue`, `TLAPS` |
| `PartitionPipeline` | `GeneratePartitionToOwnFile` and `GeneratePartitionToInMemory`: worker thread and generator thread over the step-level queue | `BoundedMpscQueue` |
| `PartitionPipeline_proofs` | its theorems | `PartitionPipeline`, `BoundedMpscQueue_proofs` |
| `PartitionFiles` | `PartitionRangeQueue` and `RunParallelPartitionFiles` | |
| `CliProgressController` | `progress.cpp`: the entries, the terminal, the render thread | |
| `Program` | `main.cpp` and `GenerateTableWithStrategy`: both thread pools, the table tasks, their reports and the exit code | `PartitionFiles`, `CliProgressController` |
| `Program_proofs` | the theorems of `PartitionFiles` and of the program it is part of | `Program`, `TLAPS` |
| `NativeOrdered` | `RunNativeMultiplexedOrdered` with the ORC sink | `Queue == INSTANCE BoundedChannel` |
| `NativeOrdered_proofs` | its theorems | `NativeOrdered`, `TLAPS` |
| `ParallelEncode` | `RunParallelEncodeParquetOrdered` | `Queue == INSTANCE BoundedChannel` |
| `ForeignStreaming` | `RunForeignStreamingOrdered`, the Lance and Vortex writers, their bridges and threads | |
| `FormatDrivers` | strategies, execution models and part counts of the formats | |
| `SingleFile` | `GenerateTableWithStrategy` for a table of one file or dataset: which of the two machines above runs, and when the table is finished | extends `ParallelEncode` and `FormatDrivers`, `Foreign == INSTANCE ForeignStreaming` |
| `SingleFile_proofs` | the theorems of `ParallelEncode`, of the composition and of the stream in it | `SingleFile`, `TLAPS` |
| `OutputFiles` | the files of a table under their temporary and final names, over crashes, reruns and tasks that share a name | |
| `OutputFiles_proofs` | its theorems | `OutputFiles`, `TLAPS` |
| `Machine` | whole numbers as C++ has them: truncating division, its remainder, two's complement | |
| `Rands` | the random streams of `rands.h` | `Machine` |
| `Partition` | the arithmetic of `partition.cpp` and of the supplier keys | `Machine` |
| `TableStreams` | the row iterators and generators of the eight tables | `Rands`, `Partition`, `FormatDrivers` |
| `TableRows_proofs` | what the operators of the three above compute: theorems of the partition arithmetic, lemmas on the streams, the skips and a table's rows | `TableStreams`, `WellFoundedInduction`, `TLAPS` |
| `TableStreams_proofs` | the theorems of the generators | `TableRows_proofs` |
| `MC*` | one per checked module: constants for TLC | the module |

The composition follows the code. The pipelines that push to the queue see it
either step by step (`PartitionPipeline`, where its races decide the result) or
through `BoundedChannel` (`NativeOrdered`, `ParallelEncode`); the theorem
`RingImplementsChannel` is what allows the second. `PartitionFiles` has the call
that `PartitionPipeline` details as one action with its outcomes. `Program` puts
the steps of `PartitionFiles` and of `CliProgressController` together, unchanged, and
lets a task or a worker take them only on a thread of its pool. `SingleFile` does the same with `ParallelEncode` and
`ForeignStreaming`: the format and the strategy of the command line choose one of
them, its steps become steps of the table's task, and the other stays where it began.

### State and actions against the code

* **BoundedMpscQueue.** `sequence`, `value`, `enqueue_pos`, `dequeue_pos` and
  `closed` are the members of the class. `pc` says before which access each
  thread is; an action `PushXxx(p)`, `PopXxx`, `CloseXxx(t)` is that access.
  `wait(lock, predicate)` is three actions: lock, test, sleep; a notification
  that falls between test and sleep sets the history variable `lost`. The
  weak compare-exchange may fail for no reason. `delivered` is what `Pop` handed
  out. Operations: Push 168-206, Pop 208-243, Close 245-253. The callers are the
  pattern of the pipelines: the last producer to retire closes, a failing one
  closes at once, the consumer may close on an error and drain.
* **PartitionPipeline.** `target` says which of the two functions is called;
  `phase` is the worker's place in it, `pc[producer]` the generator thread's;
  `errorAt` is the message that carries an exception; `file` is the temporary
  and then the final name. Every call that can fail has a failing action:
  creation, open, generator (by exception), WriteBatch (by status and by
  exception), ClosePartition. In memory there is no name and no close: the buffer
  is finished after the join (`FinishBuffer`), and an exception of `Reset`, which
  nothing catches there, leaves the call (`ResetThrowsThrough`).
* **PartitionFiles.** `next` and `closed` are the counter's members. A worker
  draws (the fetch_add and the test of `closed_` are separate steps), generates,
  stores the first error, sets `stop_requested` and closes the counter; the
  table's task gets the futures one by one.
* **CliProgressController.** A call holds `mutex_` throughout and is one action;
  it may be made by anyone at any time. `display` is the terminal (`screen`, the
  `cursor` row) with `frame_drawn_`, `rendered_lines_` and `render_dirty_`;
  `RenderFrame`, `ClearFrame` and `WriteFailureMessage` move the cursor and write
  lines as the escape sequences do. `render_thread` is at the test of its
  predicate, asleep on `render_cv_`, or ended. Off a terminal `appended` is the last
  line of each table; whether a line that is not forced is written depends on the
  clock and is left open. `reported` is the history of failures.
* **Program.** `task` is a table's place in `GenerateTableWithStrategy`. The table
  `FilesTable` runs `PartitionFiles`; `calls` is what a worker has already reported
  of its partition when `GeneratePartitionToOwnFile` returns. The other tables go
  through the calls any single-file strategy makes: rows, a part, an end, a
  failure with or without a failing cleanup, or the skip of a file that is there.
  `pool_threads` is the size of either pool, the number of processors: a queued task
  starts, in the order of the command line, when fewer than that many are in
  progress (`TablePoolStarts`), a worker takes its first step, and another table's
  rows are made, only when the partition pool has a thread for it (`PartPoolFree`).
  `main` collects in order, finalizes the backends, and stops the controller. When the
  finalization fails, its message goes to the stream of the frame without the controller's
  mutex (`FinalizeFails`, main.cpp:461); `Stop` draws over what is then on the screen.
* **NativeOrdered.** One producer per partition, `PoolSize` of them at a time;
  `states` is the buffer per partition, `expected` the partition being written.
  Drain, finish, error and close are the steps of the table's task.
* **ParallelEncode.** As `NativeOrdered`, with whole partitions as messages and
  the temporary file: create, append, footer, rename; `file = "old"` is the
  branch that finds the final name and skips the table.
* **ForeignStreaming.** The pushed batch `<<part, batch>>` goes through
  `channel` to `consumed`; `sender`, `joined`, `handle` are the Rust handle's
  fields and existence; `is_open`, `wrote` the C++ writer's. A Lance push waits
  for room and then sends; a Vortex push (futures channel) sends and then waits
  until its message is within the capacity. `finish` is two actions, the end of
  the stream and the join, so that the thread can fail in between.
  `EmptyColumnsFail` is the early return of `VortexOrderedWriter::CloseTable`.
* **SingleFile.** `step` is the task's place: resolving the strategy, in an execution
  model, returned. `Encoding` and `Streaming` put a step of `ParallelEncode` or
  `ForeignStreaming` into the table's task; `Return` calls `MarkTableFinished` when
  the code is 0. (ORC's model is `NativeOrdered`, checked by itself.)
* **OutputFiles.** `temp` and `final` are what the two names of a path stand for,
  `content` the blocks of a file by place, kind and the run that wrote them; `file`
  is the open stream of a task. `Open` empties what the temporary name stands for,
  `Put` writes where the writer stands whatever the file is called by then,
  `Move` takes the file to the final name and fails if the temporary name has gone.
  `writer` is the code that does it: `ParquetTableWriter` or `OrcTableWriter`
  ("partition"), the `OrcSingleFileSink` ("sink"), or the merge of
  `RunParallelEncodeParquetOrdered` ("merged"). They differ in what follows an
  error: the first two close and rename, the sink reporting only afterwards; the
  merge deletes the temporary name; and only the merge takes an existing file for a
  table to skip, and an error of `GetFileInfo` for no file. The pipelines of the first two
  and of the merged partitions may end early (`EndsEarly`: `Pop` at 214-231, called at 430 and
  590): the file is closed without an error with batches unread, and `unread` remembers it.
  The sink counts its partitions and cannot. `Crash` ends the process
  at any step, `RunAgain` starts it over the same files with any writer of the format.
* **FormatDrivers.** Operators only: `ResolveSelectedWriteStrategy`,
  `OrderedExecutionModel`, `TargetRows` (limit, or bytes over the estimated size of a
  row) and `ResolvePartCount`.
* **TableStreams.** A stream is `[seed, usage, seeds_per_row, wide]`. A row is
  the record of its keys, dates and states and, for every drawn column, the seed
  after its draw, which stands for the value. `Reset`, `NextOrder`,
  `NextLineitem`, ... are the functions of the same names; an iterator holds its
  `scale_factor` and its streams. Keys are cast to `std::int32_t` where the code casts them
  (`ToInt`, of `IntSize` values): in partsupp before the supplier is selected, in lineitem after
  it, for a customer after the search for one who may order, and for the limits that the
  32-bit generator is given (`KeyIn`). `ResetGenerator` begins a partition; `AppendRow` and
  `DeliverBatch` are `NextBatch`. Every table is generated twice,
  as one partition and as several, with any batch size in the bounds. The several
  are as many as `ResolvePartCountByTargetRows` gives for a target of rows.

## 3. Runs

All runs together take a few minutes. `FairSpec`/`Spec` with fairness is used
where a liveness property is checked.

| run | checks | shows |
|---|---|---|
| `mpsc_queue` | `TypeOK`, `SlotExclusive`, `WithinCapacity`, `NoSleepOverWork`, `ImplementsChannel`, `TerminatesUnlessWakeupLost` | the ring is a bounded FIFO, no slot is shared by two threads, nobody sleeps over work for good unless a notification fell between test and sleep |
| `mpsc_queue_hang` | `Terminates` is violated | with that notification lost, a thread sleeps for ever |
| `mpsc_queue_capacity_one` | `WithinCapacity` is violated | a ring of one slot overwrites an unread message |
| `pipeline` | `PipelineTypeOK`, `DrainedSuccessIsComplete`, `NothingWrittenAfterError`, `ReturnsUnlessWakeupLost` | a partition that returns 0 is whole if the last `Pop` saw everything; after the first error nothing more is written; the call returns unless a wakeup is lost |
| `pipeline_success_is_complete` | `SuccessIsComplete` is violated | result 0 with the last batch missing |
| `program` | `ProgramTypeOK`, `NoPartTwice`, `SuccessIsAll`, `DisplayTruthful`, `EntriesTruthful`, `ExitCodeTruthful`, `ProgramEnds` | every partition generated once or the table fails; the screen never loses a table's message or half a frame, but for main's own message of a failed finalization; a failed table stays failed; entries, files and exit code agree; the program ends, with one thread in each pool too |
| `native_ordered` | `TypeOK`, `OutputInTableOrder`, `SuccessIsComplete`, `Returns` | the sink gets the batches in table order, all of them for result 0, and the task returns on every error path |
| `single_file` | `SingleFileTypeOK`, `MergedInOrder`, `PublishedIsWhole`, `EncodeErrorReported`, `DatasetIsWhole`, `BoundedPrefix`, `NoThreadLeft`, `TableEnds` | whichever way one file is written: partitions are merged in order, only a whole file is published, every failed encoding is reported; a table shown as finished has a whole file or dataset of its own format; a stream's backlog is bounded by its channel; no native thread is left behind; the task ends unless an encoding throws |
| `parallel_encode_hang` | `Returns` is violated | an exception in a worker leaves the table's task waiting |
| `table_streams` | `TypeOK`, `WithinBudget`, `SameRowsAsFullRun`, `OrdersAgreeWithLineitem`, `ReferencesExist`, `SuppliersDistinct`, `PartsNearTarget` | partitions give the rows of the whole run, also where keys leave their integers (but for orders and lineitem with 64-bit streams); as long as the keys fit, the tables fit together; the partitions are near the size the options ask for |
| `four_suppliers` | `FourSuppliersPerPart` is violated | with the 200 parts and 10 suppliers of scale factor 0.001 a part has a supplier twice |
| `output_files` | `TypeOK`, `ExitZeroLacksOnlyUnread`, `LossIsReportedUnlessUnread`, `WholeStaysUnlessUnread` | exit code 0 means that this run's file is under the final name, whole but for what a `Pop` that ended early left unread, or that the merge said it skipped one, even when two tasks share the name; a program that comes to its end has reported every missing or truncated file, one of an earlier run included; a whole file is never replaced by a truncated one; the last two again unless a channel ended early |

### Bounds, and why they are enough

* `mpsc_queue`: two producers, two pushes each, capacity 2. Every slot is used in
  two laps, the queue is full and empty, producers race for a position, and
  `Close` falls at every point. `pipeline` has one producer, as the code, up to
  three batches and the error message (`MaxPushes = MaxBatches + 1`). The
  theorems have no bound on producers, capacity or pushes.
* `program`: two workers for two partitions of one table (both can fail, overshoot
  and report twice) and a second table with a file of its own, on a terminal and
  off it; `MaxRows` is the two rows there are, so that `rows_written` reaches its
  limit. Up to six failures are reported. Pools of one thread and of two: with
  one, tables and partitions queue behind each other; two is as many as there are
  tasks and workers, so that more change nothing. About 755 000 states, the largest
  run. The theorems have no bound on tables, workers, partitions, threads or failures.
* `native_ordered`: two partitions of up to two batches, three in all, a queue of
  two: the later partition can be finished before the first begins, and a
  producer waits for room. The theorems have no bound on any of them.
* `single_file`: to encode, two workers, three partitions and the ring's two slots:
  one result overtakes another and one waits in `pending`. (A single worker means a
  ring of one slot, which section 5 describes.) To stream, three partitions of up to two batches, capacity 2 instead
  of 8: six batches pass a channel of two (or three, for Vortex), the table can
  be empty, and the thread may die at each point. The theorems have none of these bounds.
* `output_files`: two tasks, of two tables or of one, two batches each, two runs of the
  program with any of the format's writers. That is the least at which a second run
  meets what each step of the first one left, and at which one task renames the file
  another is still writing. Three tasks, and three runs, were tried as well and
  hold; a fourth kind of leftover there is not, as a run leaves each of the two names
  absent, truncated or whole. The theorems hold for any number of tasks, batches and runs.
* `table_streams`: the generator modulo 127 with multiplier 3, a primitive root,
  instead of modulo 2^31 - 1 with 16807: what is checked are the places of the
  draws, which are the same in every such generator; two places of a stream are
  told apart as long as it has not come round. The 64-bit generator has words of
  2^16. Three orders (one to seven lines each), two parts, four suppliers at
  scale factor 1, nation and region as they are; targets of 1 to 250 rows to a partition, and none;
  scale factors 1/2, 1, 3, 40, and 40 with 64-bit streams. Integers have 128 values instead of
  2^32: they hold the keys of the first three, and not all of the orders, customers, parts
  and suppliers of the other two, so that the narrowing happens with either generator. Up to four
  partitions (more than there are rows of some tables) and batches of one to
  three rows, so that batches end in the middle of orders and of parts. `BbbComments`
  is 5000 of 10000 (10 in the code), so that both branches of the comment
  happen among so few suppliers. The theorems have none of these bounds.
  `four_suppliers` has TPC-H's own numbers of parts and suppliers at its scale factor.
* No symmetry is used: the sets are small, and liveness rules it out.
* Deadlock is not checked because every modelled call returns and then nothing
  happens; that it does return is the liveness property of its run. (`output_files`
  states none: its process may die at any step.)

### Fairness

A thread that can take a step takes one (weak fairness of each thread's or
task's whole step): threads of the pool and `std::thread`s are scheduled
preemptively. Strong fairness is assumed of two things only: `PushReserve`,
because a weak compare-exchange does not fail for no reason for ever, and
`PushWaitLock`, because a mutex that is released again and again is granted.
In `Program`, where no thread can take steps for ever, only that some thread takes
one. Nothing is assumed of spurious wakeups: a sleeper wakes when notified and
otherwise need not. No failure is fair; a run never ends because something had
to fail. In `SingleFile` the table's task, whatever it runs, is one thread, and each
worker and the library's thread are others. The library's thread is assumed to take the next
batch and to end after the end of its stream, which is the library's promise and
not this code's.

## 4. Proofs

tlapm checks every theorem below with no assumption but those on the constants
named in the modules (and those in the theorem's own ASSUME).

**BoundedMpscQueue** (any number of producers, any capacity of two or more, any
number of pushes).
`TypeCorrect`, `SlotsAreExclusive`, `NeverOverfull`, `RingImplementsChannel`,
`NobodySleepsOverWorkForGood`.
None of the invariants is inductive. The strengthening has four parts:
`TypeInv` (types, and that what a thread's `pc` says about its local position
agrees with its pushes), `RemainingInv` (remaining_producers counts the
producers that have not retired, which gives that it is never negative), `SlotInv`
(the sequence number of every slot says in which lap it is and who may touch it:
free for the position p, reserved by exactly one producer, published, or being
read; the positions between dequeue_pos and enqueue_pos are less than one lap) and
`MessageInv` (the value of a published slot is the message its producer's counter
names, and the messages of positions in order are the places in the line). `SlotInv` is
where `Capacity >= 2` enters: with one slot, "published at position n" and "free
at position n + 1" are the same number, and `mpsc_queue_capacity_one` shows that
the theorem fails there. For the refinement each step is classified: a
reservation takes a place, a publication publishes, the consumer's take receives,
its load looks, the exchange in Close shuts, and everything else leaves the
abstract variables alone. For the wakeups `WakeInv` has a clause per kind of
sleeper. That a free place is announced to one producer only makes `RoomWake` a count: while a
producer sleeps there are at most as many free places as there are other
producers awake and before their reservation, plus the notification the consumer is about to
give. All of it is under `~lost`: with a lost notification it is false, which is finding 1.

**PartitionPipeline** (any number of batches, any capacity of two or more).
`PipelineQueueIsChannel`, `PipelineNeverSleepsOverWork`, `PipelineTypeCorrect`, `BatchesInOrder`,
`SuccessLacksWhatIsLeft`, `DrainedSuccess`, `ErrorStopsWriting`. The queue's steps were proved for
callers that may close for any reason, whenever a call has returned (`CallerNext`), and each
step of the two threads is a step of the queue, such a call, or no step of the queue at all; so the pipeline
has the channel and, under `~lost`, the wakeups of the queue at no further cost. What `Pop` handed out and
what waits in the channel is then the line of the generator's pushes (`OrderInv`), and
everything else is about that one number: `ProducedInv` says how many of its batches
the generator has pushed at each place of `pc`, and where the exception stands in the line;
`HandledInv` that what was written is what was handed out, until an error; `ClosedInv` that
without an error only the generator closes, and only when it is done; `PhaseInv`
what a result of 0 excludes. `SuccessLacksWhatIsLeft` says more than `DrainedSuccess`: result 0
lacks exactly the batches that were left in the queue (finding 2).

**PartitionFiles** (any number of workers and partitions). `TypeCorrect`,
`NoPartitionTwice`, `SuccessIsEveryPartition`, `CounterNeverOverflows`.
`SafeInv` adds to the types: drawn numbers are below `next` (`DrawnInv`);
`NoPartTwice` itself; the queue is stopped or closed only after `first_error` was
stored (`StoppedInv`); and as long as no worker failed, every number below `next`
is completed or held by a worker, and a worker leaves only when the counter is
exhausted (`CoverInv`). A call that returns 0 is then in the case where all have
left and nothing is held. `OvershootInv` bounds `next` by `PartCount + 1` plus the
number of workers that have left their loop; that no 32-bit counter wraps is stated by
this theorem alone and by no run.

**Program** (any number of tables, workers, partitions and threads of a pool).
`ProgramImplementsPartitionFiles`: every step of the program is a step of
`PartitionFiles` or leaves its variables alone, so that
`ProgramWritesEveryPartOnce` follows from the theorems above. `ProgramTypeCorrect`,
`DisplayIsTruthful`, `ExitCodeIsTruthful` and `EntriesAreTruthful` are about the
reports. The argument for the screen treats every call and every frame by what it does to
a list of lines: a frame is drawn over the previous one and nothing else, a failure
message is written above it, and the cursor is just below the frame
whenever the mutex is free. `main`'s message of a failed finalization is written past the
controller: from there on the frame is one line off, and `DisplayTruthful` says that all messages of
tables are still there and that at most one line more than the frame is.
The exit code needs that a task's place says what it has
reported, and that `main` has collected exactly the tables it has passed. The
counts of the entries need one number per worker: a partition is completed, or
between two of its reports (`calls`), or failed, and the three sets are
disjoint. `EntriesAreTruthful` has the hypothesis `PartCount <= MaxRows`:
`rows_written` saturates at its largest value (2^64 - 1 in the code), and each partition
counts as one row in the model; with more rows than can be counted the statement would
be false.

**ParallelEncode** (any set of workers, any pool, any number of partitions).
`TypeCorrect`, `MergesInOrder`, `PublishesWholeOnly`, `ReportsEncodeErrors`.
The inductive invariant says that a partition number is drawn once, so that what a
worker holds nobody else holds and no result of it was pushed (`DrawInv`); that a message on the
queue is a place in its worker's list of results (`QueueInv`); that the file consists of the
good results of the partitions before `expected_part`, and misses none while there is no
error (`MergeInv`); and that a failed encoding stays its worker's last one and that its
partition never has a good result (`FailInv`). The last is what keeps the result 0 away
from an encoding error: the merge cannot pass the partition.

**NativeOrdered** (any number of partitions, batches, threads and places of the
queue). `TypeCorrect`, `WritesInTableOrder`, `SuccessIsWhole`. The invariant accounts for every
partition's messages: what was written of it, what `early` keeps, and whether its last
message was received are together what the table's task got (`Got`); the queue holds
the following ones up to what was sent, each producer's in order (`ChannelInv`).
So the head of the queue is always the next message of its producer (`HeadIsNext`),
an end says that all batches before it were received, and `FinishPartition` passes a partition only
when all its batches are in the file. The place of a batch in the file is the number of
batches of the earlier partitions, a cardinality, plus its number; `CountNext` and
`SameRank` are the arithmetic of that. That the queue may say too early that it is
at its end (finding 2 below) does not matter: `expected_part` then shows the gap.

**SingleFile** (any number of partitions, batches and places of the channel).
`SingleFileImplementsParallelEncode`: every step of the composition is one of
`ParallelEncode` or leaves its variables alone, which gives `FilesAreMergedWhole`. For the
stream there are `SingleFileTypeCorrect`, `DatasetsAreWhole`, `StreamsAreBoundedPrefixes` and
`NoThreadIsLeft`. What the thread took and what waits in its channel is one sequence, the
batches `AddCommittedRows` has counted in the order of the table, with at most one
message after them: a Vortex batch not yet flushed, the end of the stream, or
the empty batch of a table without rows (`StreamInv`). The place of the task says how far it is
(`PlaceInv`), the channel exceeds its capacity only while a Vortex push waits (`RoomInv`), and the
handle, the sender and the thread have one life (`HandleInv`): a thread that ended well has committed
and took everything that was sent.

**OutputFiles** (any number of paths, tasks, batches and runs of the program).
`TypeCorrect`, `ExitZeroLacksNoRead` (nothing that was read from a channel is missing), `ReportsLoss`,
`WholeStays`; each excepts what an early end of `Pop` left unread, and nothing else. Tasks that share
a name are the difficulty: each may empty or rename the file of another. The invariant
`PathInv` has three cases for each path: one of its tasks is bound to return 2; or more tasks are on their
way to the rename than there are temporary names, so that one rename must fail (`Crowded`);
or the tasks had the names one after the other and the file holds exactly what the task
wrote (`Orderly`). When all tasks have returned 0 only the third is left. `NameInv` says that no file
belongs to two paths. That a file without a name is always to be found for `Open`, which the
type needs, is a counting argument over the names and open streams.

**Partition arithmetic** (in `TableRows_proofs`; every number of rows and partitions).
`PartitionsTile` and `EveryRowInOnePartition`: the ranges are adjacent, cover the table and are
disjoint; the argument is the uniqueness of quotient and remainder.
`PartitionsNearTarget`: with the part count that a target of rows gives, no
partition is empty, all but the last have at most the target, and the last has less than
one row per partition more. The lemma `PartCountForm` writes the rounded quotient
as the number p with (p - 1) * target < rows <= p * target.
`SupplierKeysDistinct`: with more than 228 suppliers and at most twenty parts to
a supplier, as in TPC-H, the four suppliers of a part differ. The arithmetic is the truncating one of
the code; the lemma `SupplierForm` shows that a part key that fits gives the supplier of the formula.

**TableStreams** (any number of rows, partitions, batches and scale factors, any seeds,
any modulus). Two questions are kept apart: which rows a generator makes, and what is in them.

* *Which rows.* `StreamsInv` says where the cursor is in its partition (`CuttingInv`,
  `PlaceInv`), that what has been delivered and the batch are the rows up to the cursor
  (`RowsInv`, `DeliveredInv`), with the keys of their numbers (`KeysInv`), and that a finished
  table has them all (`TodoInv`, `IdleInv`, `FreshInv`, `DoneInv`). `CursorsCorrect`,
  `NearTheTarget` and `SameKeys` follow (`SameKeys`: no key twice in a table, as long as its
  keys fit), and `SuppliersAreDistinct`, for which every scale factor must have a supplier: as long
  as the keys of parts and suppliers fit (`Fits`), suppliers exist and those of a part differ if three steps
  between them do not go all the way round (`OnceAround`). `SuppliersAreDistinctInTpch` shows
  the documented sentence itself, `FourSuppliersPerPart`, for TPC-H's ratio of parts to suppliers, more
  than 240 suppliers and parts that fit, which is scale factor 0.0241 to 10737: the 228 of the arithmetic, and the rest for the rounding of
  the two row counts; 240 suppliers with 4801 parts have a repetition. `NearTheTarget`
  needs four rows of partsupp to a part, and fewer partitions than 2^31 - 1.
* *What is in them.* An iterator that is moved row by row passes a path of places
  that does not know of partitions or of the end of the table (`Place`). The generator
  is on this path, at the place of its cursor (`AlongInv`), every row was made at the
  place of its number (`PathRowsInv`), and it ends where the table ends
  (`PathEndInv`). `Reset` gets to its place by skipping, and its lemma says that the loop of
  `AdvanceSeed32`, by squares, multiplies by the power of the multiplier that the draws
  of the rows left out would have. `SameRows` follows. orders and lineitem are excepted
  at scale factors that switch to the 64-bit generator: see section 5.
* `BudgetKept` follows from what a row draws (`IterInv`): up to seven lines of an order,
  and every column of a line, fit the `seeds_per_row` that `RowFinished` completes.
  `TypeCorrect` needs that a seed never becomes 0, hence a multiplier with an inverse
  (`HasInverse`); the lemma `TpchInverse` shows it for 16807 and 2^31 - 1.
* `ReferencesAreKept` has `RefersInv` for the rows made so far. The loop that passes over the
  customers who may not order takes at most three rounds. The hypotheses are five regions
  and, at every scale factor, a part and a customer: with none the code refers to number 1. Parts and customers
  beyond their integers are excepted by `ReferencesExist` itself.
* `OrdersAndLineitemAgree` follows from the path too, as long as order keys fit. The columns that both tables draw for an
  order are at the same place of their streams (`Shared`), though one table draws them in a
  row of its own and the other over up to seven rows. The place of
  lineitem's iterator says that it has drawn its order and its lines so far (`Exact`), and the lines of
  an order are an interval of the path (`BeginsAt`), so that neither partitions nor
  batches matter.

What is by induction over numbers here (a loop of the code, a place of the path) is stated with a set of
numbers in the place of a predicate (`Induction`, `StrongInduction` in `TableRows_proofs`), shown from a
least element.

**Only model-checked.** Every safety invariant and every action property of the runs that hold is stated
by a theorem. The liveness properties are not (`TerminatesUnlessWakeupLost`,
`ReturnsUnlessWakeupLost`, `ProgramEnds`, `Returns`, `TableEnds`): fairness and ENABLED are beyond the
prover. Neither are the runs whose property is violated, which are about one instance each.

## 5. What the models found

1. **Lost wakeup** (`mpsc_queue_hang`). Push, Pop and Close notify without the
   mutex (188, 222, 250-252). A waiter that has tested its predicate and not yet
   slept misses the notification; if it was the last one, it sleeps for ever and
   the table never ends.
2. **End of stream too early** (`pipeline_success_is_complete`). `Pop` finds the
   slot unpublished, the producer publishes and closes, `Pop` reads `closed_` and
   reports the end without looking again (214-231). The file is closed with rows
   missing and the call returns 0. `BoundedChannel` has this as `FindNothing` and
   `End`; `NativeOrdered` and `ParallelEncode` detect the gap by counting
   partitions, and their runs show that. In `OutputFiles` it leads to a truncated file under
   its final name, with exit code 0 and no report; the properties there except nothing else.
3. **Capacity 1** (`mpsc_queue_capacity_one`). Accepted on the command line; the
   ring then accepts a second message over an unread one. `ParallelEncode` sizes
   its ring by `worker_count` (1104), so that one worker gives such a ring.
4. **An exception in an encoder** (`parallel_encode_hang`). It skips
   `remaining_workers.fetch_sub` (1131): nobody closes the queue and the table's
   task waits.
5. **A supplier twice** (`four_suppliers`). With ten suppliers (scale factor 0.001) parts 31
   to 40, 81 to 90 and others have a step of five between suppliers and so a supplier twice, against
   `doc/tables.md:76`, "This guarantees 4 distinct supplier keys per part". The
   sentence is proved from 241 suppliers up to the limit of 32-bit part keys.

Observed while modelling and not stated as properties:

* `RowCount` scales nation and region: at 0.1 there are two nations and no region, against
  `doc/tables.md:122`, "unaffected by scale factor". `ReferencesExist` asks for the region
  of a nation from scale factor 1 on. Below 0.0001 `supplier_key_max` is 0 and the division traps.
* Keys are cast to `std::int32_t`. Order keys leave it from scale factor 358 on and are given a second time from
  716 on, against `doc/tables.md:94`, "one-to-one with `order_index`". Parts leave it from
  10738 on: partsupp narrows the key before it selects the supplier (partsupp.cpp:36), lineitem after
  (lineitem.cpp:84, 234), so that they select different suppliers, against
  `doc/tables.md:109`, and partsupp's may be 0 or negative. Customers leave it from 14317 on: the key is
  narrowed after the search for a customer who may order (orders.cpp:113), and may then be a
  multiple of three or negative. Suppliers leave it from 214749 on. The properties of `table_streams` say
  what holds as long as keys fit; `SameRowsAsFullRun` does not ask for it. Without those
  conditions TLC finds two orders with one key among 18 orders with integers of 64
  values, and lines whose supplier partsupp does not have among nine parts with integers of 16.
* Between 10738 (parts), or 14317 (customers), and 30000 the 32-bit generator is given
  limits cast to `std::int32_t` (rands.h:222) and draws from a wrong and at first negative range, although
  the comment at rands.h:198-200 is about not truncating them. That `hi - lo` is undefined
  there for a range of exactly 2^31 is modelled as wrapping round.
* The message of a failed finalization (main.cpp:461) is written below a drawn frame, to the same
  stream and without the mutex. The last frame of `Stop` goes up one line too few and leaves a stale
  line, or is drawn over the message. No document promises otherwise.
* From scale factor 30000 on, `RowRandomLong` draws with the 64-bit recurrence and
  skips with the 31-bit one: rows then depend on the partitioning, and orders and
  lineitem do not agree. `SameRowsAsFullRun` and `OrdersAgreeWithLineitem` except
  those columns (`scale.wide`).
* A generator that fails in the foreign path leaves a committed, truncated
  dataset, and a partition whose write failed, or an ORC file whose sink failed, leaves a
  truncated file under its final name; the next run refuses them as existing. The merge of
  encoded partitions takes such a file for a finished table, reports it and lets the
  program end with 0: `ExitZeroLacksOnlyUnread` has to except it.
* `OrcSingleFileSink` reports its error only after the rename (`ReportLate`): a process
  that dies in between leaves a truncated file of which nothing was said.
  `LossIsReportedUnlessUnread` therefore speaks of programs that come to their end.
* The merge takes an error of `GetFileInfo` for an absent file
  (`CheckErrorIgnored`) and may then rename over a file that is there.
  `WholeStaysUnlessUnread` holds all the same: what it renames is whole, unless a partition
  ended early.
* A table named twice: one task may empty or rename what the other is writing, but
  then one of the two finds its temporary name gone and the exit code is 2.
* With a target of rows the number of partitions is rounded up and their size down, so
  that the last one may have several times the target: 11 rows and a target of 3 give 2, 2,
  2 and 5, although the option is called "Max rows per output ORC partition file".
* One pool for tasks and workers would deadlock, as the comment at `main.cpp:199` says
  (the mutant `OnePoolFree` of `Program`).
* An exception of `WriteBatch` or of `WriteRecordBatch` leaves the scope of a joinable
  thread (`WriteThrows` in `PartitionPipeline`): the process is terminated.
* A table whose file is already there is shown as failed while its task returns 0
  (1080-1084), and a worker that ends by an exception makes the exit code 2
  without any report, its table shown as running; `ExitCodeTruthful` names both.

## 6. Not modelled

* **Parquet, ORC, Lance and Vortex encoding, Arrow, the file systems**: libraries;
  they appear as calls with outcomes. The Arrow C interface may reject a batch.
* **The in-memory pipeline inside `ParallelEncode`** is one step with its outcomes;
  its steps are those of `PartitionPipeline` with `target = "memory"`. What
  `SuccessIsComplete` finds there, rows missing from a result of 0, is therefore outside
  `ParallelEncode`, whose file is of whole partitions; `OutputFiles` has it for the merged file.
* **`ParquetSingleFileSink`** (726-867) and the path of the native pipeline that would
  use it: no reachable caller.
* **Words**: names, texts, comments, prices and formats stand for the place their
  column is drawn from. The narrowing of keys is modelled (sections 2 and 5), casts of
  prices and totals are not.
* **Memory orders** weaker than sequential consistency: see the head of
  `BoundedMpscQueue`.
* **Storage backends**: one initialisation under a mutex, one finalisation whose failure
  `Program` has; **registry, distributions, Arrow builders of `table.cpp`**: constants, a
  map filled once and appends of one column each; **option parsing**: no state.
* **Texts of `rands.h`** (the grammar and its pool): a text is the two draws that choose its
  place and length in a pool that is the same in every run.
* **Bridge error strings**: `lance_bridge_last_error` returns a pointer after its
  lock is released; no table's state depends on it.
* **Local files only** in `OutputFiles`: an object store has no rename, `Move` is then a copy.

## 7. Plan

Done, in this order: queue and its abstract specification; pipeline, to a file and to
memory; partition files; the two ordered single-file strategies; partitioning and row
streams; foreign streaming; the program with its progress controller and its pools; the
format drivers and the choice between the single-file machines; the output files
over crashes and reruns; the proofs of every safety property.

Next, most important first:

1. A refinement: `NativeOrdered` and `ParallelEncode` both write a prefix of the table in
   order, as implementations of one abstract sink.
2. `SingleFile` as the second table's task in `Program`, instead of the calls it makes, once the
   instance is small enough for TLC.
