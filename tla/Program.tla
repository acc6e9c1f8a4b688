-------------------------------- MODULE Program --------------------------------
(***************************************************************************)
(* src/main.cpp from the first table task to the exit code, with           *)
(* GenerateTableWithStrategy of src/Storage/write_scheduler.cpp: main      *)
(* starts one task per table on the table pool, collects them in order,    *)
(* and ends the progress controller; a task resolves its options, marks    *)
(* its table started, has it written and marks it finished.                *)
(*                                                                         *)
(* The table FilesTable is written as partition files, by the workers of   *)
(* PartitionFiles, with the calls GeneratePartitionToOwnFile makes to the  *)
(* controller in between.  The others are written to a single file by      *)
(* their task, in one partition: NativeOrdered, ParallelEncode and         *)
(* ForeignStreaming have the steps of these, here they are their calls to  *)
(* the controller.  Every partition has one batch, of one row.             *)
(*                                                                         *)
(* The table pool and the partition pool have pool_threads threads each    *)
(* and start what they are given in the order it came in.  A thread of the *)
(* table pool waits in its task for what the partition pool runs: the      *)
(* workers, and the producers of the rows of the other tables.             *)
(***************************************************************************)
EXTENDS PartitionFiles, CliProgressController

CONSTANTS
  FilesTable,   \* the table written as partition files
  PoolSizes     \* threads MakeFairThreadPool may start: the processors there are

ASSUME FilesTableAssumption == FilesTable \in 1 .. TableCount
ASSUME PoolSizesAssumption == PoolSizes \subseteq Nat \ {0}

VARIABLES
  task,         \* where each table's task is
  rc,           \* what each task returned
  calls,        \* the last call of GeneratePartitionToOwnFile in each worker
  pool_threads, \* threads of either pool
  main,         \* where main is
  collected,    \* how many futures main has collected
  exit_code     \* exit_code of main

taskVars == <<task, rc, calls>>
mainVars == <<pool_threads, main, collected, exit_code>>
programVars == <<vars, cliVars, taskVars, mainVars>>

OrderedTables == Tables \ {FilesTable}

ProgramInit ==
  /\ Init
  /\ CliInit
  /\ pool_threads \in PoolSizes
  /\ task = [t \in Tables |-> "queued"]
  /\ rc = [t \in Tables |-> 0]
  /\ calls = [w \in Workers |-> "none"]
  /\ main = "collect"
  /\ collected = 0
  /\ exit_code = 0

Moves(t, from, to) == task[t] = from /\ task' = [task EXCEPT ![t] = to]

\* The task ends and its future has the code.
Returns(t, from, code) ==
  /\ Moves(t, from, "returned")
  /\ rc' = [rc EXCEPT ![t] = code]

-----------------------------------------------------------------------------
(* The pools *)

InTask == {t \in Tables : task[t] \notin {"queued", "returned", "threw"}}

\* A worker has its thread from its first Pop until it returns or throws.
Queued(w) == pc[w] = "pop" /\ part[w] = 0
Working == {w \in Workers : ~Queued(w) /\ pc[w] \notin {"done", "threw", "gotten"}}

TablePoolStarts(t) ==
  /\ task[t] = "queued"
  /\ \A u \in 1 .. t - 1 : task[u] # "queued"
  /\ Cardinality(InTask) < pool_threads

\* Mutant of PartPoolFree: main makes one pool for tasks and workers.
OnePoolFree == Cardinality(InTask) + Cardinality(Working) < pool_threads

PartPoolFree == Cardinality(Working) < pool_threads

-----------------------------------------------------------------------------
(* GenerateTableWithStrategy *)

\* part_count < 1, or a strategy the format does not support.
OptionsFail(t) ==
  /\ TablePoolStarts(t)
  /\ Returns(t, "queued", 2)
  /\ ReportFailure(t)
  /\ UNCHANGED <<vars, calls, mainVars>>

\* An exception before the table is written ends the future.
TaskThrows(t) ==
  /\ TablePoolStarts(t)
  /\ Moves(t, "queued", "threw")
  /\ UNCHANGED <<vars, cliVars, rc, calls, mainVars>>

StartTable(t) ==
  /\ TablePoolStarts(t)
  /\ Moves(t, "queued", "writing")
  /\ MarkTableStarted(t, IF t = FilesTable THEN PartCount ELSE 1)
  /\ UNCHANGED <<vars, rc, calls, mainVars>>

\* RunParallelPartitionFiles has collected its workers.
FilesWritten ==
  /\ Returned
  /\ \/ /\ first_error = 0
        /\ Moves(FilesTable, "writing", "finish")
        /\ UNCHANGED rc
     \/ /\ first_error # 0
        /\ Returns(FilesTable, "writing", first_error)
  /\ UNCHANGED <<vars, cliVars, calls, mainVars>>

\* A producer on the partition pool makes the rows, the task writes them.
OrderedRows(t) ==
  /\ Moves(t, "writing", "rows")
  /\ PartPoolFree
  /\ AddCommittedRows(t, 1)
  /\ UNCHANGED <<vars, rc, calls, mainVars>>

OrderedPart(t) ==
  /\ Moves(t, "rows", "part")
  /\ MarkPartCompleted(t)
  /\ UNCHANGED <<vars, rc, calls, mainVars>>

\* The file could not be opened, written or closed.
OrderedFails(t) ==
  /\ \E at \in {"writing", "rows", "part"} : Moves(t, at, "failing")
  /\ ReportFailure(t)
  /\ UNCHANGED <<vars, rc, calls, mainVars>>

\* The task returns 2; closing the writer after the failure may fail as well.
OrderedGivesUp(t) ==
  /\ Returns(t, "failing", 2)
  /\ ReportFailure(t) \/ UNCHANGED cliVars
  /\ UNCHANGED <<vars, calls, mainVars>>

\* RunParallelEncodeParquetOrdered finds the file: a report, and 0.
OrderedSkips(t) ==
  /\ Moves(t, "writing", "finish")
  /\ ReportFailure(t)
  /\ UNCHANGED <<vars, rc, calls, mainVars>>

FinishTable(t) ==
  /\ \E at \in {"part", "finish"} : Returns(t, at, 0)
  /\ MarkTableFinished(t)
  /\ UNCHANGED <<vars, calls, mainVars>>

TaskStep(t) ==
  \/ OptionsFail(t) \/ TaskThrows(t) \/ StartTable(t) \/ FinishTable(t)
  \/ t = FilesTable /\ FilesWritten
  \/ /\ t \in OrderedTables
     /\ \/ OrderedRows(t) \/ OrderedPart(t)
        \/ OrderedFails(t) \/ OrderedGivesUp(t) \/ OrderedSkips(t)

-----------------------------------------------------------------------------
(* The workers of FilesTable *)

Calls(w, from, to) ==
  /\ pc[w] = "generate"
  /\ calls[w] = from
  /\ calls' = [calls EXCEPT ![w] = to]
  /\ UNCHANGED <<vars, task, rc, mainVars>>

CommitRows(w) == Calls(w, "none", "rows") /\ AddCommittedRows(FilesTable, 1)

\* ClosePartition succeeded.
MarkPart(w) == Calls(w, "rows", "marked") /\ MarkPartCompleted(FilesTable)

ReportPart(w) ==
  /\ \E at \in {"none", "rows"} : Calls(w, at, "reported")
  /\ ReportFailure(FilesTable)

\* The cleanup after a failure may fail as well.
ReportCleanup(w) == Calls(w, "reported", "cleaned") /\ ReportFailure(FilesTable)

\* GeneratePartitionToOwnFile returns or throws.
Leaves(w, at) ==
  /\ calls[w] \in at
  /\ calls' = [calls EXCEPT ![w] = "none"]
  /\ UNCHANGED <<cliVars, task, rc, mainVars>>

PartOk(w) == GenerateOk(w) /\ Leaves(w, {"marked"})
PartFails(w) == GenerateFails(w) /\ Leaves(w, {"reported", "cleaned"})
PartThrows(w) == GenerateThrows(w) /\ Leaves(w, {"none", "rows"})

\* The steps that do not call the controller.
Schedules(w) ==
  /\ Queued(w) => PartPoolFree
  /\ \/ PopCheckClosed(w) \/ PopDraw(w) \/ CheckStop(w)
     \/ StoreError(w) \/ StoreStop(w) \/ Close(w) \/ Get(w)
  /\ UNCHANGED <<cliVars, taskVars, mainVars>>

FilesStep(w) ==
  /\ task[FilesTable] = "writing"
  /\ \/ Schedules(w) \/ CommitRows(w) \/ MarkPart(w) \/ ReportPart(w) \/ ReportCleanup(w)
     \/ PartOk(w) \/ PartFails(w) \/ PartThrows(w)

-----------------------------------------------------------------------------
(* main *)

\* Mutant of Collect: the last future's code is the exit code.
CollectLast ==
  /\ main = "collect" /\ collected < TableCount
  /\ task[collected + 1] = "returned"
  /\ collected' = collected + 1
  /\ exit_code' = rc[collected + 1]
  /\ UNCHANGED <<vars, cliVars, taskVars, pool_threads, main>>

\* Get and Ok of the next future, in the order the tasks were started in.
Collect ==
  /\ main = "collect" /\ collected < TableCount
  /\ task[collected + 1] = "returned"
  /\ collected' = collected + 1
  /\ exit_code' = IF rc[collected + 1] # 0 THEN rc[collected + 1] ELSE exit_code
  /\ UNCHANGED <<vars, cliVars, taskVars, pool_threads, main>>

CollectException ==
  /\ main = "collect" /\ collected < TableCount
  /\ task[collected + 1] = "threw"
  /\ ReportFailure(collected + 1)
  /\ collected' = collected + 1
  /\ exit_code' = 2
  /\ UNCHANGED <<vars, taskVars, pool_threads, main>>

MainMoves(from, to) == main = from /\ main' = to

\* The pools are empty by now; FinalizeStorageBackends succeeds.
Finalize ==
  /\ collected = TableCount
  /\ MainMoves("collect", "stop")
  /\ UNCHANGED <<vars, cliVars, taskVars, pool_threads, collected, exit_code>>

\* It fails: main says so on std::cerr, which is the controller's stream.
FinalizeFails ==
  /\ collected = TableCount
  /\ MainMoves("collect", "stop_after_failure")
  /\ ForeignLine
  /\ exit_code' = IF exit_code = 0 THEN 2 ELSE exit_code
  /\ UNCHANGED <<vars, taskVars, pool_threads, collected>>

\* ~CliProgressController: Stop.
Stop ==
  /\ \/ MainMoves("stop", "join")
     \/ MainMoves("stop_after_failure", "join_after_failure")
  /\ RequestStop
  /\ UNCHANGED <<vars, taskVars, pool_threads, collected, exit_code>>

Join ==
  /\ \/ MainMoves("join", "exited")
     \/ MainMoves("join_after_failure", "exited_after_failure")
  /\ LastFrame
  /\ UNCHANGED <<vars, taskVars, pool_threads, collected, exit_code>>

MainStep ==
  Collect \/ CollectException \/ Finalize \/ FinalizeFails \/ Stop \/ Join

RenderStep == RenderLoop /\ UNCHANGED <<vars, taskVars, mainVars>>

ProgramNext ==
  \/ \E t \in Tables : TaskStep(t)
  \/ \E w \in Workers : FilesStep(w)
  \/ MainStep
  \/ RenderStep

ProgramSpec == ProgramInit /\ [][ProgramNext]_programVars

\* Some thread that can take a step does: no thread of the program takes steps
\* for ever, so that nothing more need be assumed of the scheduler.
ProgramFairSpec == ProgramSpec /\ WF_programVars(ProgramNext)

-----------------------------------------------------------------------------
(* Properties *)

Exited == main \in {"exited", "exited_after_failure"}

ProgramTypeOK ==
  /\ TypeOK
  /\ CliTypeOK
  /\ pool_threads \in PoolSizes
  /\ task \in [Tables -> {"queued", "writing", "rows", "part", "failing", "finish", "returned", "threw"}]
  /\ rc \in [Tables -> {0, 2}]
  /\ calls \in [Workers -> {"none", "rows", "marked", "reported", "cleaned"}]
  /\ main \in {"collect", "stop", "join", "exited",
               "stop_after_failure", "join_after_failure", "exited_after_failure"}
  /\ collected \in 0 .. TableCount
  /\ exit_code \in {0, 2}

\* main has written a line of its own into the controller's stream.
NoticeWritten == main \in {"stop_after_failure", "join_after_failure", "exited_after_failure"}
StrayLines == IF NoticeWritten THEN 1 ELSE 0

\* What the user sees is what happened.  No failure message is ever drawn over.
\* Up to a failed finalization the screen is the messages and one whole frame,
\* and an outdated frame is about to be redrawn; the line main writes then puts
\* the frame one row lower, once, however the two interleave.  When the program
\* has ended the last frame, or the last line of each table that ended, shows
\* the entries as they are.
DisplayTruthful ==
  /\ MessagesKept
  /\ ScreenWhole(StrayLines)
  /\ NoticeWritten \/ StaleIsDirty
  /\ Exited => ShowsEntries

InCall(set) == {w \in Workers : calls[w] \in set}

\* The entries are true to the files.  A table is shown as failed exactly when a
\* failure was reported of it, whatever its other workers report later; a table
\* shown as done has all its partitions, and while FilesTable is running it shows
\* exactly the partitions whose file was closed and the rows committed to them.
EntriesTruthful ==
  /\ \A t \in Tables : Status(t) = "Failed" <=> \E i \in DOMAIN reported : reported[i] = t
  /\ Status(FilesTable) = "Done" => completed = Parts
  /\ Status(FilesTable) = "Running" =>
       /\ entries[FilesTable].completed_parts = Cardinality(completed) + Cardinality(InCall({"marked"}))
       /\ entries[FilesTable].rows_written \in
            LET committed == Cardinality(completed) + Cardinality(InCall({"rows", "marked"}))
            IN  committed .. committed + Cardinality(failed)

\* The exit code and the entries agree.  0: every table is shown as done, with
\* every partition, or was reported and skipped because its file was there.  Not
\* 0: some table is shown as failed, a worker of FilesTable ended by an exception
\* nobody caught, or the storage backends could not be finalized.
ExitCodeTruthful ==
  /\ Exited /\ exit_code = 0 =>
       \A t \in Tables : /\ rc[t] = 0 /\ task[t] = "returned"
                         /\ Status(t) # "Failed" => Status(t) = "Done"
                         /\ t = FilesTable => Status(t) = "Done" /\ completed = Parts
  /\ Exited /\ exit_code # 0 =>
       \/ \E t \in Tables : Status(t) = "Failed"
       \/ failed # {}
       \/ main = "exited_after_failure"

\* The program ends: no task, worker or collecting step waits for ever, with one
\* thread in each pool too (main.cpp: "Keeping the pools separate avoids
\* deadlock"), and the render thread is always woken for its last test.
ProgramEnds == <>Exited
=============================================================================
