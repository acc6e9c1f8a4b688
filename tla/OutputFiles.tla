----------------------------- MODULE OutputFiles -----------------------------
(***************************************************************************)
(* The files of tables with one partition, as ParquetTableWriter,          *)
(* OrcTableWriter, OrcSingleFileSink and RunParallelEncodeParquetOrdered   *)
(* write them: a temporary name while the file grows, a rename at the end, *)
(* and a refusal or a skip of a name that is already taken.  The process   *)
(* may die at any step and be started again, with another strategy, over   *)
(* the same directory; and a table named twice on the command line has two *)
(* tasks with the same two names.                                          *)
(*                                                                         *)
(* The file system is a local one: a name stands for a file, opening a     *)
(* name for writing empties the file it stands for, a rename takes the     *)
(* file along, and an open file can be written whatever its name.  A block *)
(* is written where the writer stands; when it reaches the file (buffers)  *)
(* is its writer's last moment, Close.  The bytes of a block depend on its *)
(* place and the options of the run alone.                                 *)
(*                                                                         *)
(* A task reads its batches from a channel.  That its end may be seen too  *)
(* early is told by BoundedMpscQueue; here it is one more way to the end.  *)
(***************************************************************************)
EXTENDS Integers, FiniteSets

CONSTANTS
  TaskCount,   \* tasks of one run of the program
  BatchCount,  \* batches of a table
  MaxRuns      \* times the program is run

ASSUME TasksAssumption == TaskCount \in Nat \ {0}
ASSUME BlocksAssumption == BatchCount \in Nat
ASSUME RunsAssumption == MaxRuns \in Nat \ {0}

Tasks == 1 .. TaskCount
Paths == Tasks
Files == 1 .. 3 * TaskCount  \* a temporary, a final and an open file to each task

None == 0

VARIABLES
  format,   \* "parquet" or "orc"
  path,     \* the output name of each task
  temp, final,  \* path -> the file the temporary and the final name stand for, or None
  content,  \* file -> its blocks: [at |-> place, is |-> "rows" or "footer", run |-> number]
  run,      \* how often the program was started
  writer,   \* what writes in this run: "partition", "sink" or "merged"
  exit,     \* "running", "crashed", or the exit code "0" or "2"
  pc,       \* where each task is
  file,     \* sink_: the file each task has open, or None
  written,  \* blocks each task has written
  failed,   \* pipeline_error is set
  unread,   \* history: the task's channel ended with something left in it
  reported, \* ReportError was called for the table in this run
  rc        \* what the task returns

inputVars == <<format, path>>
diskVars  == <<temp, final, content>>
taskVars  == <<pc, file, written, failed, unread, reported, rc>>
vars == <<inputVars, diskVars, run, writer, exit, taskVars>>

\* The strategies that write <table>-1.<format>: ORC has no in-memory encoding.
Writers(f) == IF f = "parquet" THEN {"partition", "merged"} ELSE {"partition", "sink"}

FreshTasks ==
  /\ pc = [t \in Tasks |-> "check"]
  /\ file = [t \in Tasks |-> None]
  /\ written = [t \in Tasks |-> 0]
  /\ failed = [t \in Tasks |-> FALSE]
  /\ unread = [t \in Tasks |-> FALSE]
  /\ reported = [t \in Tasks |-> FALSE]
  /\ rc = [t \in Tasks |-> 2]

Init ==
  /\ format \in {"parquet", "orc"}
  /\ path \in {[t \in Tasks |-> t], [t \in Tasks |-> 1]}
  /\ temp = [p \in Paths |-> None] /\ final = [p \in Paths |-> None]
  /\ content = [f \in Files |-> {}]
  /\ run = 1 /\ writer \in Writers(format) /\ exit = "running"
  /\ FreshTasks

-----------------------------------------------------------------------------
(* The file system *)

\* A file that no name and no task refers to.
Unused == CHOOSE f \in Files : \A p \in Paths : f \notin {temp[p], final[p], file[p]}

\* The file that OpenOutputStream opens: the one under the name, or a new one.
Opened(t) == IF temp[path[t]] = None THEN Unused ELSE temp[path[t]]

OpenOutputStream(t) ==
  /\ temp' = [temp EXCEPT ![path[t]] = Opened(t)]
  /\ content' = [content EXCEPT ![Opened(t)] = {}]

Block(t, what) == [at |-> written[t] + 1, is |-> what, run |-> run]

Put(t, what) ==
  content' = [content EXCEPT ![file[t]] = {b \in @ : b.at # written[t] + 1} \cup {Block(t, what)}]

\* Move fails when another task has moved the temporary name away.
Move(t) ==
  /\ temp[path[t]] # None
  /\ final' = [final EXCEPT ![path[t]] = temp[path[t]]]
  /\ temp' = [temp EXCEPT ![path[t]] = None]

-----------------------------------------------------------------------------
(* A task *)

Goto(t, from, to) == exit = "running" /\ pc[t] = from /\ pc' = [pc EXCEPT ![t] = to]

Report(t) == reported' = [reported EXCEPT ![t] = TRUE]

Return(t, from, code) ==
  /\ Goto(t, from, "returned")
  /\ rc' = [rc EXCEPT ![t] = code]
  /\ file' = [file EXCEPT ![t] = None]

Still == UNCHANGED <<inputVars, run, writer, exit>>

\* Mutant of AlreadyExists: the name is not looked up.
NeverExists(t) == FALSE

AlreadyExists(t) == final[path[t]] # None

\* The writers refuse a name that is taken; the merge reports it and skips the table.
CheckFinds(t) ==
  /\ AlreadyExists(t)
  /\ Return(t, "check", IF writer = "merged" THEN 0 ELSE 2)
  /\ Report(t)
  /\ Still /\ UNCHANGED <<diskVars, written, failed, unread>>

CheckPasses(t) ==
  /\ ~AlreadyExists(t)
  /\ Goto(t, "check", "open")
  /\ Still /\ UNCHANGED <<diskVars, file, written, failed, unread, reported, rc>>

\* CreateDir, or GetFileInfo in the writers; before them a missing generator.
CheckFails(t) ==
  /\ Return(t, "check", 2)
  /\ Report(t)
  /\ Still /\ UNCHANGED <<diskVars, written, failed, unread>>

\* The merge takes an error of GetFileInfo for an absent file.
CheckErrorIgnored(t) ==
  /\ writer = "merged"
  /\ Goto(t, "check", "open")
  /\ Still /\ UNCHANGED <<diskVars, file, written, failed, unread, reported, rc>>

Open(t) ==
  /\ Goto(t, "open", "write")
  /\ OpenOutputStream(t)
  /\ file' = [file EXCEPT ![t] = Opened(t)]
  /\ Still /\ UNCHANGED <<final, written, failed, unread, reported, rc>>

OpenFails(t) ==
  /\ Return(t, "open", 2)
  /\ Report(t)
  /\ Still /\ UNCHANGED <<diskVars, written, failed, unread>>

\* The stream is open and its buffer, its encoder or the row group is not: is_open_ stays false.
OpenHalf(t) ==
  /\ Return(t, "open", 2)
  /\ OpenOutputStream(t)
  /\ Report(t)
  /\ Still /\ UNCHANGED <<final, written, failed, unread>>

\* Mutant of Write: the batches are counted from the first one written.
WriteOneMore(t) ==
  /\ Goto(t, "write", "write")
  /\ written[t] <= BatchCount
  /\ Put(t, "rows")
  /\ written' = [written EXCEPT ![t] = @ + 1]
  /\ Still /\ UNCHANGED <<temp, final, file, failed, unread, reported, rc>>

Write(t) ==
  /\ Goto(t, "write", "write")
  /\ written[t] < BatchCount
  /\ Put(t, "rows")
  /\ written' = [written EXCEPT ![t] = @ + 1]
  /\ Still /\ UNCHANGED <<temp, final, file, failed, unread, reported, rc>>

AllWritten(t) ==
  /\ written[t] = BatchCount
  /\ Goto(t, "write", "close")
  /\ Still /\ UNCHANGED <<diskVars, file, written, failed, unread, reported, rc>>

\* Pop has looked at an empty slot before the last messages came, and at closed_
\* after them: batches remain unread, or an error does, and nobody is told.  (The
\* sink sees by its expected_part that a part is missing: for it this is Fails.)
EndsEarly(t) ==
  /\ writer # "sink"
  /\ written[t] < BatchCount
  /\ Goto(t, "write", "close")
  /\ unread' = [unread EXCEPT ![t] = TRUE]
  /\ Still /\ UNCHANGED <<diskVars, file, written, failed, reported, rc>>

\* The generator or a write fails.  The partition writer reports at once; the sink
\* may go on, its drain runs again before the close; both go on to the close.
Fails(t) ==
  /\ exit = "running" /\ pc[t] = "write"
  /\ failed' = [failed EXCEPT ![t] = TRUE]
  /\ \E next \in CASE writer = "merged" -> {"discard"}
                   [] writer = "sink" -> {"write", "close"}
                   [] OTHER -> {"close"} :
       pc' = [pc EXCEPT ![t] = next]
  /\ reported' = [reported EXCEPT ![t] = @ \/ writer = "partition"]
  /\ Still /\ UNCHANGED <<diskVars, file, written, unread, rc>>

\* The encoder writes what it holds and its footer, the stream is closed.
Close(t) ==
  /\ Goto(t, "close", "move")
  /\ Put(t, "footer")
  /\ Still /\ UNCHANGED <<temp, final, file, written, failed, unread, reported, rc>>

\* Mutant of CloseFails: the status of Close is dropped.
CloseFailsUnseen(t) ==
  /\ Goto(t, "close", "move")
  /\ Still /\ UNCHANGED <<diskVars, file, written, failed, unread, reported, rc>>

\* The temporary name stays; the footer may still be written as the writer is destroyed.
CloseFails(t) ==
  /\ Return(t, "close", 2)
  /\ Report(t)
  /\ Put(t, "footer") \/ UNCHANGED content
  /\ Still /\ UNCHANGED <<temp, final, written, failed, unread>>

\* The sink's error is reported only now that the file has its name.
Publish(t) ==
  /\ Goto(t, "move", IF failed[t] /\ writer = "sink" THEN "report" ELSE "returned")
  /\ Move(t)
  /\ rc' = [rc EXCEPT ![t] = IF failed[t] THEN 2 ELSE 0]
  /\ file' = [file EXCEPT ![t] = None]
  /\ Still /\ UNCHANGED <<content, written, failed, unread, reported>>

MoveFails(t) ==
  /\ Return(t, "move", 2)
  /\ Report(t)
  /\ Still /\ UNCHANGED <<diskVars, written, failed, unread>>

\* Abort and DeleteFile, by name; that there is no such file is ignored like any other error.
Discard(t) ==
  /\ Goto(t, "discard", "report")
  /\ temp' \in {temp, [temp EXCEPT ![path[t]] = None]}
  /\ file' = [file EXCEPT ![t] = None]
  /\ Still /\ UNCHANGED <<final, content, written, failed, unread, reported, rc>>

\* Mutant of ReportLate: the error becomes the return value and nothing else.
ReturnSilently(t) ==
  /\ Return(t, "report", 2)
  /\ Still /\ UNCHANGED <<diskVars, written, failed, unread, reported>>

ReportLate(t) ==
  /\ Return(t, "report", 2)
  /\ Report(t)
  /\ Still /\ UNCHANGED <<diskVars, written, failed, unread>>

Task(t) ==
  \/ CheckFinds(t) \/ CheckPasses(t) \/ CheckFails(t) \/ CheckErrorIgnored(t)
  \/ Open(t) \/ OpenFails(t) \/ OpenHalf(t) \/ Write(t) \/ AllWritten(t) \/ EndsEarly(t)
  \/ Fails(t) \/ Close(t) \/ CloseFails(t) \/ Publish(t) \/ MoveFails(t) \/ Discard(t)
  \/ ReportLate(t)

-----------------------------------------------------------------------------
(* The process *)

Exit ==
  /\ exit = "running"
  /\ \A t \in Tasks : pc[t] = "returned"
  /\ exit' = IF \A t \in Tasks : rc[t] = 0 THEN "0" ELSE "2"
  /\ UNCHANGED <<inputVars, diskVars, run, writer, taskVars>>

\* A signal, a power failure, or the end by std::terminate.
Crash ==
  /\ exit = "running"
  /\ exit' = "crashed"
  /\ file' = [t \in Tasks |-> None]
  /\ UNCHANGED <<inputVars, diskVars, run, writer, pc, written, failed, unread, reported, rc>>

RunAgain ==
  /\ exit # "running" /\ run < MaxRuns
  /\ run' = run + 1
  /\ exit' = "running"
  /\ writer' \in Writers(format)
  /\ pc' = [t \in Tasks |-> "check"]
  /\ file' = [t \in Tasks |-> None]
  /\ written' = [t \in Tasks |-> 0]
  /\ failed' = [t \in Tasks |-> FALSE]
  /\ unread' = [t \in Tasks |-> FALSE]
  /\ reported' = [t \in Tasks |-> FALSE]
  /\ rc' = [t \in Tasks |-> 2]
  /\ UNCHANGED <<inputVars, diskVars>>

Next == (\E t \in Tasks : Task(t)) \/ Exit \/ Crash \/ RunAgain

Spec == Init /\ [][Next]_vars

-----------------------------------------------------------------------------
(* Properties *)

(* Everything has a value its code can give it. *)
TypeOK ==
  /\ temp \in [Paths -> Files \cup {None}] /\ final \in [Paths -> Files \cup {None}]
  /\ \A f \in Files : content[f] \subseteq
       [at : 1 .. BatchCount + 1, is : {"rows", "footer"}, run : 1 .. MaxRuns]
  /\ run \in 1 .. MaxRuns /\ writer \in Writers(format)
  /\ exit \in {"running", "crashed", "0", "2"}
  /\ pc \in [Tasks -> {"check", "open", "write", "close", "move", "discard", "report", "returned"}]
  /\ file \in [Tasks -> Files \cup {None}]
  /\ written \in [Tasks -> 0 .. BatchCount]
  /\ failed \in [Tasks -> BOOLEAN] /\ unread \in [Tasks -> BOOLEAN]
  /\ reported \in [Tasks -> BOOLEAN]
  /\ rc \in [Tasks -> {0, 2}]

\* What run number r writes for a table of which it has read n batches.
Table(r, n) ==
  [at : 1 .. n, is : {"rows"}, run : {r}] \cup {[at |-> n + 1, is |-> "footer", run |-> r]}

IsTable(p, r, n) == final[p] # None /\ content[final[p]] = Table(r, n)

IsWhole(p) == \E r \in 1 .. run : IsTable(p, r, BatchCount)

On(p) == {t \in Tasks : path[t] = p}

(* Exit code 0: every table's file is one task's table of this run, whole    *)
(* but for what that task's channel kept when it ended early, and no         *)
(* temporary name of it is left, unless the merge found a file of that name  *)
(* and said so.  It holds although two tasks of one table empty, fill and    *)
(* rename each other's files, and whatever earlier runs left behind.         *)
ExitZeroLacksOnlyUnread ==
  exit = "0" =>
    \A t \in Tasks :
      \/ /\ temp[path[t]] = None
         /\ \E u \in On(path[t]) : /\ IsTable(path[t], run, written[u])
                                  /\ (written[u] = BatchCount \/ unread[u])
      \/ writer = "merged" /\ reported[t]

(* A program that comes to its end has reported every table that has no file *)
(* or a truncated one under its final name, one of an earlier run included,  *)
(* unless a channel of that table ended early.  (A run that dies between the *)
(* sink's rename and its report has not.)                                    *)
LossIsReportedUnlessUnread ==
  exit \in {"0", "2"} =>
    \A t \in Tasks : IsWhole(path[t]) \/ \E u \in On(path[t]) : reported[u] \/ unread[u]

(* A whole file stays a whole file: no failure, crash or later run replaces  *)
(* it by a truncated one, unless two tasks of one run have its name or the   *)
(* channel of the one that has it ended early.                               *)
WholeStaysUnlessUnread ==
  [][\A p \in Paths :
       IsWhole(p) /\ Cardinality(On(p)) = 1 => IsWhole(p)' \/ \E t \in On(p) : unread[t]]_vars
=============================================================================
