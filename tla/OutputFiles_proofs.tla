--------------------------- MODULE OutputFiles_proofs ---------------------------
(***************************************************************************)
(* For every number of tasks, batches and runs of the program: the exit    *)
(* code 0 means files with everything that was read, a loss is reported,   *)
(* and a whole file stays whole, unless a channel ended early.             *)
(***************************************************************************)
EXTENDS OutputFiles, FiniteSetTheorems, TLAPS

Blocks == [at : 1 .. BatchCount + 1, is : {"rows", "footer"}, run : 1 .. MaxRuns]

TypeInv ==
  /\ format \in {"parquet", "orc"}
  /\ path \in [Tasks -> Paths]
  /\ content \in [Files -> SUBSET Blocks]
  /\ TypeOK

\* A file belongs to a path: one of its names, or one of its tasks, stands for it.
Holds(p, f) == f = temp[p] \/ f = final[p] \/ \E t \in Tasks : path[t] = p /\ f = file[t]

\* No file belongs to two paths, and the two names of a path never share a file.
NameInv ==
  /\ \A f \in Files : \A p, q \in Paths : Holds(p, f) /\ Holds(q, f) => p = q
  /\ \A p \in Paths : temp[p] # None => temp[p] # final[p]

\* A task has a file open from Open to the rename or the end.
FileInv == \A t \in Tasks :
  file[t] # None <=> exit = "running" /\ pc[t] \in {"write", "close", "move", "discard"}

Published(t) == pc[t] = "returned" /\ rc[t] = 0 /\ ~reported[t]

\* How far a task came tells what it wrote, and that an error of it was reported
\* before it returned.
TaskInv == \A t \in Tasks :
  /\ pc[t] \in {"check", "open"} => written[t] = 0 /\ ~failed[t]
  /\ pc[t] \in {"close", "move"} => written[t] = BatchCount \/ failed[t] \/ unread[t]
  /\ Published(t) => written[t] = BatchCount \/ unread[t]
  /\ failed[t] /\ writer = "merged" => pc[t] \in {"discard", "report", "returned"}
  /\ failed[t] /\ writer = "partition" => reported[t]
  /\ reported[t] => failed[t] \/ pc[t] = "returned"
  /\ pc[t] = "returned" /\ (rc[t] = 2 \/ failed[t]) => rc[t] = 2 /\ reported[t]
  /\ pc[t] = "returned" /\ rc[t] = 0 /\ reported[t] => writer = "merged"

\* A task will return 2, or has.
Doomed(t) == failed[t] \/ pc[t] \in {"discard", "report"} \/ (pc[t] = "returned" /\ rc[t] = 2)

InFlight(p) == {t \in Tasks : path[t] = p /\ pc[t] \in {"write", "close", "move"}}

\* More tasks are on their way to the rename than there are temporary names:
\* the rename of one of them must fail.
Crowded(p) ==
  \/ temp[p] = None /\ InFlight(p) # {}
  \/ \E t, u \in InFlight(p) : t # u

\* What a task without an error has in its file.
Partial(t) ==
  [at : 1 .. written[t], is : {"rows"}, run : {run}] \cup
  (IF pc[t] = "move" THEN {[at |-> written[t] + 1, is |-> "footer", run |-> run]} ELSE {})

\* The tasks of the path had its names one after the other.
Orderly(p) ==
  /\ \A t \in InFlight(p) : file[t] = temp[p] /\ content[temp[p]] = Partial(t)
  /\ InFlight(p) = {} /\ (\E t \in On(p) : Published(t)) =>
       /\ temp[p] = None
       /\ \E t \in On(p) : Published(t) /\ IsTable(p, run, written[t])

PathOk(p) == (\E t \in Tasks : path[t] = p /\ Doomed(t)) \/ Crowded(p) \/ Orderly(p)

PathInv == exit # "crashed" => \A p \in Paths : PathOk(p)

Sole(t) == \A u \in Tasks : path[u] = path[t] => u = t

\* A task that shares its names with nobody writes to the temporary one, and
\* only the merge opens it beside a final one.
SoleInv == \A t \in Tasks : Sole(t) =>
  /\ file[t] # None => file[t] = temp[path[t]]
  /\ writer # "merged" /\ pc[t] \in {"open", "write", "close", "move"} => final[path[t]] = None

\* The program ends when all tasks have returned, with the code they returned.
ExitInv ==
  exit \in {"0", "2"} =>
    /\ \A t \in Tasks : pc[t] = "returned"
    /\ exit = "0" => \A t \in Tasks : rc[t] = 0

IInv == TypeInv /\ NameInv /\ FileInv /\ TaskInv /\ PathInv /\ SoleInv /\ ExitInv

-----------------------------------------------------------------------------
LEMMA Numbers ==
  /\ TaskCount \in Nat /\ BatchCount \in Nat /\ MaxRuns \in Nat
  /\ TaskCount > 0 /\ MaxRuns > 0
  /\ None \notin Files
BY TasksAssumption, BlocksAssumption, RunsAssumption DEF None, Files

-----------------------------------------------------------------------------
(* There is always a file for Open *)

\* What the names of the paths stand for are at most as many files as paths.
LEMMA Named ==
  ASSUME NEW g \in [Paths -> Files \cup {None}]
  PROVE  LET range == {g[p] : p \in Paths} IN
         IsFiniteSet(range) /\ Cardinality(range) <= TaskCount
<1> DEFINE range == {g[p] : p \in Paths}
<1>1. IsFiniteSet(Paths) /\ Cardinality(Paths) = TaskCount
  BY FS_Interval, Numbers DEF Paths, Tasks
<1>2. g \in Surjection(Paths, range)
  BY DEF Surjection
<1> HIDE DEF range
<1>3. IsFiniteSet(range) /\ Cardinality(range) <= Cardinality(Paths)
  BY <1>1, <1>2, FS_Surjection
<1> QED
  BY <1>1, <1>3 DEF range

\* A path without a temporary name leaves a file that nobody refers to.
LEMMA UnusedExists ==
  ASSUME TypeInv, NEW q \in Paths, temp[q] = None
  PROVE  /\ Unused \in Files
         /\ \A p \in Paths : Unused \notin {temp[p], final[p], file[p]}
<1> DEFINE temps  == {temp[p] : p \in Paths}
           finals == {final[p] : p \in Paths}
           opens  == {file[p] : p \in Paths}
           names  == temps \ {None}
<1>1. /\ temp \in [Paths -> Files \cup {None}]
      /\ final \in [Paths -> Files \cup {None}]
      /\ file \in [Paths -> Files \cup {None}]
  BY DEF TypeInv, TypeOK, Paths
<1>2. None \in temps
  OBVIOUS
<1>3. IsFiniteSet(temps) /\ Cardinality(temps) <= TaskCount
  BY <1>1, Named
<1>4. IsFiniteSet(finals) /\ Cardinality(finals) <= TaskCount
  BY <1>1, Named
<1>5. IsFiniteSet(opens) /\ Cardinality(opens) <= TaskCount
  BY <1>1, Named
<1>6. \A f : (\A p \in Paths : f \notin {temp[p], final[p], file[p]})
               <=> f \notin temps \cup finals \cup opens
  OBVIOUS
<1> HIDE DEF temps, finals, opens
<1>7. IsFiniteSet(names) /\ Cardinality(names) < TaskCount
  <2>1. IsFiniteSet(names) /\ Cardinality(names) = Cardinality(temps) - 1
    BY <1>2, <1>3, FS_RemoveElement
  <2> QED
    BY <2>1, <1>3, FS_CardinalityType, Numbers
<1> HIDE DEF names
<1>8. IsFiniteSet(finals \cup opens) /\ Cardinality(finals \cup opens) <= 2 * TaskCount
  <2>1. /\ IsFiniteSet(finals \cup opens)
        /\ Cardinality(finals \cup opens)
             = Cardinality(finals) + Cardinality(opens) - Cardinality(finals \cap opens)
    BY <1>4, <1>5, FS_Union
  <2>2. Cardinality(finals \cap opens) \in Nat
    BY <1>4, FS_Intersection, FS_CardinalityType
  <2>3. Cardinality(finals) \in Nat /\ Cardinality(opens) \in Nat
    BY <1>4, <1>5, FS_CardinalityType
  <2> QED
    BY <2>1, <2>2, <2>3, <1>4, <1>5, Numbers
<1> DEFINE used == names \cup (finals \cup opens)
<1>9. IsFiniteSet(used) /\ Cardinality(used) < 3 * TaskCount
  <2>1. /\ IsFiniteSet(used)
        /\ Cardinality(used) = Cardinality(names) + Cardinality(finals \cup opens)
                                 - Cardinality(names \cap (finals \cup opens))
    BY <1>7, <1>8, FS_Union
  <2>2. Cardinality(names \cap (finals \cup opens)) \in Nat
    BY <1>7, FS_Intersection, FS_CardinalityType
  <2>3. Cardinality(names) \in Nat /\ Cardinality(finals \cup opens) \in Nat
    BY <1>7, <1>8, FS_CardinalityType
  <2> HIDE DEF used
  <2> QED
    BY <2>1, <2>2, <2>3, <1>7, <1>8, Numbers
<1>10. PICK f \in Files : f \notin used
  <2>1. Cardinality(Files) = 3 * TaskCount
    BY FS_Interval, Numbers DEF Files
  <2>2. ~(Files \subseteq used)
    <3> HIDE DEF used
    <3> SUFFICES ASSUME Files \subseteq used PROVE FALSE
      OBVIOUS
    <3>1. Cardinality(Files) <= Cardinality(used)
      BY <1>9, FS_Subset
    <3> QED
      BY <3>1, <2>1, <1>9, Numbers, FS_CardinalityType
  <2> QED
    BY <2>2
<1>11. f \notin temps \cup finals \cup opens
  BY <1>10, Numbers DEF names
<1>12. \E g \in Files : \A p \in Paths : g \notin {temp[p], final[p], file[p]}
  BY <1>6, <1>10, <1>11
<1> QED
  BY <1>12 DEF Unused

-----------------------------------------------------------------------------
(* What a step of a task leaves alone *)

LEMMA OpenedIsFile ==
  ASSUME TypeInv, NEW t \in Tasks
  PROVE  Opened(t) \in Files
<1>1. path[t] \in Paths
  BY DEF TypeInv
<1>2. CASE temp[path[t]] = None
  BY <1>1, <1>2, UnusedExists DEF Opened
<1>3. CASE temp[path[t]] # None
  BY <1>1, <1>3 DEF Opened, TypeInv, TypeOK
<1> QED
  BY <1>2, <1>3

LEMMA TaskKeepsRun ==
  ASSUME NEW t \in Tasks, Task(t)
  PROVE  exit = "running" /\ UNCHANGED <<format, path, run, writer, exit>>
BY DEF Task, CheckFinds, CheckPasses, CheckFails, CheckErrorIgnored, Open, OpenFails, OpenHalf,
       Write, AllWritten, EndsEarly, Fails, Close, CloseFails, Publish, MoveFails, Discard, ReportLate,
       Goto, Return, Still, inputVars

\* A task does not touch what the program keeps of the other tasks.
LEMMA OthersStay ==
  ASSUME TypeInv, NEW t \in Tasks, Task(t), NEW u \in Tasks, u # t
  PROVE  /\ pc'[u] = pc[u] /\ file'[u] = file[u] /\ written'[u] = written[u]
         /\ failed'[u] = failed[u] /\ unread'[u] = unread[u]
         /\ reported'[u] = reported[u] /\ rc'[u] = rc[u]
BY DEF TypeInv, TypeOK, Task, CheckFinds, CheckPasses, CheckFails, CheckErrorIgnored, Open,
       OpenFails, OpenHalf, Write, AllWritten, EndsEarly, Fails, Close, CloseFails, Publish, MoveFails,
       Discard, ReportLate, Goto, Return, Report, diskVars

\* Only these steps change the content of a file.
LEMMA ContentStays ==
  ASSUME NEW t \in Tasks, Task(t),
         ~(Open(t) \/ OpenHalf(t) \/ Write(t) \/ Close(t) \/ CloseFails(t))
  PROVE  content' = content
BY DEF Task, CheckFinds, CheckPasses, CheckFails, CheckErrorIgnored, OpenFails,
       AllWritten, EndsEarly, Fails, Publish, MoveFails, Discard, ReportLate, diskVars

\* Only these steps change the names.
LEMMA NamesStay ==
  ASSUME NEW t \in Tasks, Task(t), ~(Open(t) \/ OpenHalf(t) \/ Publish(t) \/ Discard(t))
  PROVE  temp' = temp /\ final' = final
BY DEF Task, CheckFinds, CheckPasses, CheckFails, CheckErrorIgnored, OpenFails, Write,
       AllWritten, EndsEarly, Fails, Close, CloseFails, MoveFails, ReportLate, diskVars

\* A task changes the content of one file, which it has open or opens.
LEMMA ContentOf ==
  ASSUME TypeInv, NEW t \in Tasks, Task(t), NEW f \in Files, content'[f] # content[f]
  PROVE  \/ (Open(t) \/ OpenHalf(t)) /\ f = Opened(t)
         \/ (Write(t) \/ Close(t) \/ CloseFails(t)) /\ f = file[t]
<1>1. CASE Open(t) \/ OpenHalf(t)
  BY <1>1 DEF TypeInv, Open, OpenHalf, OpenOutputStream
<1>2. CASE Write(t) \/ Close(t) \/ CloseFails(t)
  BY <1>2 DEF TypeInv, Write, Close, CloseFails, Put
<1> QED
  BY <1>1, <1>2, ContentStays

\* The names of a path change in the steps of its own tasks only.
LEMMA NamesOf ==
  ASSUME TypeInv, NEW t \in Tasks, Task(t), NEW q \in Paths, q # path[t]
  PROVE  temp'[q] = temp[q] /\ final'[q] = final[q]
<1>1. path[t] \in Paths /\ temp \in [Paths -> Files \cup {None}]
      /\ final \in [Paths -> Files \cup {None}]
  BY DEF TypeInv, TypeOK
<1>2. CASE Open(t) \/ OpenHalf(t)
  BY <1>1, <1>2 DEF Open, OpenHalf, OpenOutputStream
<1>3. CASE Publish(t)
  BY <1>1, <1>3 DEF Publish, Move
<1>4. CASE Discard(t)
  BY <1>1, <1>4 DEF Discard
<1> QED
  BY <1>2, <1>3, <1>4, NamesStay

-----------------------------------------------------------------------------
LEMMA BlockIsBlock ==
  ASSUME TypeInv, NEW t \in Tasks, NEW what \in {"rows", "footer"}
  PROVE  Block(t, what) \in Blocks
<1>1. written[t] \in 0 .. BatchCount /\ run \in 1 .. MaxRuns
  BY DEF TypeInv, TypeOK
<1>2. written[t] + 1 \in 1 .. BatchCount + 1
  BY <1>1, Numbers
<1> QED
  BY <1>1, <1>2 DEF Block, Blocks

LEMMA PutKeepsType ==
  ASSUME TypeInv, NEW t \in Tasks, NEW what \in {"rows", "footer"}, Put(t, what)
  PROVE  content' \in [Files -> SUBSET Blocks]
<1>1. Block(t, what) \in Blocks
  BY BlockIsBlock
<1> QED
  BY <1>1 DEF Put, TypeInv

\* The type of everything but the writer of a run, which RunAgain draws.
LEMMA StepDiskType ==
  ASSUME TypeInv, NEW t \in Tasks, Task(t)
  PROVE  /\ content' \in [Files -> SUBSET Blocks]
         /\ temp' \in [Paths -> Files \cup {None}] /\ final' \in [Paths -> Files \cup {None}]
<1>1. /\ path[t] \in Paths /\ content \in [Files -> SUBSET Blocks]
      /\ temp \in [Paths -> Files \cup {None}] /\ final \in [Paths -> Files \cup {None}]
  BY DEF TypeInv, TypeOK
<1>2. CASE Open(t) \/ OpenHalf(t)
  BY <1>1, <1>2, OpenedIsFile DEF Open, OpenHalf, OpenOutputStream
<1>3. CASE Write(t) \/ Close(t) \/ CloseFails(t)
  <2>1. temp' = temp /\ final' = final
    BY <1>3 DEF Write, Close, CloseFails
  <2>2. Put(t, "rows") \/ Put(t, "footer") \/ content' = content
    BY <1>3 DEF Write, Close, CloseFails
  <2> QED
    BY <1>1, <2>1, <2>2, PutKeepsType
<1>4. CASE Publish(t)
  BY <1>1, <1>4 DEF Publish, Move
<1>5. CASE Discard(t)
  BY <1>1, <1>5 DEF Discard
<1> QED
  BY <1>1, <1>2, <1>3, <1>4, <1>5, ContentStays, NamesStay

LEMMA StepTaskType ==
  ASSUME TypeInv, NEW t \in Tasks, Task(t)
  PROVE  /\ pc' \in [Tasks -> {"check", "open", "write", "close", "move", "discard", "report",
                               "returned"}]
         /\ file' \in [Tasks -> Files \cup {None}]
         /\ written' \in [Tasks -> 0 .. BatchCount]
         /\ failed' \in [Tasks -> BOOLEAN] /\ unread' \in [Tasks -> BOOLEAN]
         /\ reported' \in [Tasks -> BOOLEAN]
         /\ rc' \in [Tasks -> {0, 2}]
<1> USE DEF TypeInv, TypeOK, diskVars, Goto, Return, Report
<1>1. CASE CheckFinds(t) \/ CheckPasses(t) \/ CheckFails(t) \/ CheckErrorIgnored(t)
  BY <1>1 DEF CheckFinds, CheckPasses, CheckFails, CheckErrorIgnored
<1>2. CASE Open(t)
  <2>1. Opened(t) \in Files
    BY OpenedIsFile
  <2> QED
    BY <1>2, <2>1 DEF Open
<1>8. CASE OpenFails(t) \/ OpenHalf(t)
  BY <1>8 DEF OpenFails, OpenHalf
<1>3. CASE Write(t)
  <2>1. written[t] + 1 \in 0 .. BatchCount
    BY <1>3, Numbers DEF Write
  <2> QED
    BY <1>3, <2>1 DEF Write
<1>4. CASE AllWritten(t) \/ EndsEarly(t) \/ Fails(t)
  BY <1>4 DEF AllWritten, EndsEarly, Fails
<1>5. CASE Close(t) \/ CloseFails(t)
  BY <1>5 DEF Close, CloseFails
<1>6. CASE Publish(t) \/ MoveFails(t)
  BY <1>6 DEF Publish, MoveFails
<1>7. CASE Discard(t) \/ ReportLate(t)
  BY <1>7 DEF Discard, ReportLate
<1> QED
  BY <1>1, <1>2, <1>3, <1>4, <1>5, <1>6, <1>7, <1>8 DEF Task

LEMMA StepType == TypeInv /\ [Next]_vars => TypeInv'
<1> SUFFICES ASSUME TypeInv, [Next]_vars PROVE TypeInv'
  OBVIOUS
<1>1. ASSUME NEW t \in Tasks, Task(t) PROVE TypeInv'
  <2>1. exit = "running" /\ UNCHANGED <<format, path, run, writer, exit>>
    BY <1>1, TaskKeepsRun
  <2>2. /\ content' \in [Files -> SUBSET Blocks]
        /\ temp' \in [Paths -> Files \cup {None}] /\ final' \in [Paths -> Files \cup {None}]
    BY <1>1, StepDiskType
  <2>3. /\ pc' \in [Tasks -> {"check", "open", "write", "close", "move", "discard", "report",
                               "returned"}]
        /\ file' \in [Tasks -> Files \cup {None}]
        /\ written' \in [Tasks -> 0 .. BatchCount]
        /\ failed' \in [Tasks -> BOOLEAN] /\ unread' \in [Tasks -> BOOLEAN]
         /\ reported' \in [Tasks -> BOOLEAN]
        /\ rc' \in [Tasks -> {0, 2}]
    BY <1>1, StepTaskType
  <2>4. \A f \in Files : content'[f] \subseteq Blocks
    BY <2>2
  <2>5. /\ format' \in {"parquet", "orc"} /\ path' \in [Tasks -> Paths] /\ run' \in 1 .. MaxRuns
        /\ writer' \in Writers(format)' /\ exit' \in {"running", "crashed", "0", "2"}
    BY <2>1 DEF TypeInv, TypeOK, Writers
  <2> QED
    BY <2>2, <2>3, <2>4, <2>5 DEF TypeInv, TypeOK, Blocks
<1>2. CASE Exit
  BY <1>2 DEF Exit, TypeInv, TypeOK, inputVars, diskVars, taskVars, Writers
<1>3. CASE Crash
  BY <1>3 DEF Crash, TypeInv, TypeOK, inputVars, diskVars, Writers
<1>4. CASE RunAgain
  <2>1. run' \in 1 .. MaxRuns
    BY <1>4, Numbers DEF RunAgain, TypeInv, TypeOK
  <2>2. written' \in [Tasks -> 0 .. BatchCount]
    BY <1>4, Numbers DEF RunAgain
  <2> QED
    BY <1>4, <2>1, <2>2 DEF RunAgain, TypeInv, TypeOK, inputVars, diskVars, Writers
<1>5. CASE UNCHANGED vars
  BY <1>5 DEF vars, TypeInv, TypeOK, inputVars, diskVars, taskVars, Writers
<1> QED
  BY <1>1, <1>2, <1>3, <1>4, <1>5 DEF Next

-----------------------------------------------------------------------------
(* Names *)

\* A file comes to a path only as the unused one that a task of the path opens.
LEMMA NewHolder ==
  ASSUME TypeInv, NEW t \in Tasks, Task(t), NEW p \in Paths, NEW f \in Files,
         Holds(p, f)', ~Holds(p, f)
  PROVE  p = path[t] /\ temp[p] = None /\ f = Unused
<1>1. /\ path[t] \in Paths /\ path' = path
      /\ temp \in [Paths -> Files \cup {None}] /\ final \in [Paths -> Files \cup {None}]
      /\ file \in [Tasks -> Files \cup {None}] /\ f # None
  BY TaskKeepsRun, Numbers DEF TypeInv, TypeOK
<1>2. CASE Open(t) \/ OpenHalf(t)
  <2>1. temp' = [temp EXCEPT ![path[t]] = Opened(t)] /\ final' = final
    BY <1>2 DEF Open, OpenHalf, OpenOutputStream
  <2>2. file' = [file EXCEPT ![t] = Opened(t)] \/ file' = [file EXCEPT ![t] = None]
    BY <1>2 DEF Open, OpenHalf, Return
  <2>3. p = path[t] /\ f = Opened(t)
    BY <1>1, <2>1, <2>2 DEF Holds
  <2> QED
    BY <2>3 DEF Opened, Holds
<1>3. CASE Publish(t)
  <2>1. /\ temp' = [temp EXCEPT ![path[t]] = None]
        /\ final' = [final EXCEPT ![path[t]] = temp[path[t]]]
        /\ file' = [file EXCEPT ![t] = None]
    BY <1>3 DEF Publish, Move
  <2> QED
    BY <1>1, <2>1 DEF Holds
<1>4. CASE Discard(t)
  <2>1. /\ temp' \in {temp, [temp EXCEPT ![path[t]] = None]}
        /\ final' = final
        /\ file' = [file EXCEPT ![t] = None]
    BY <1>4 DEF Discard
  <2> QED
    BY <1>1, <2>1 DEF Holds
<1>5. CASE ~(Open(t) \/ OpenHalf(t) \/ Publish(t) \/ Discard(t))
  <2>1. temp' = temp /\ final' = final
    BY <1>5, NamesStay
  <2>2. file' = file \/ file' = [file EXCEPT ![t] = None]
    BY <1>5 DEF Task, CheckFinds, CheckPasses, CheckFails, CheckErrorIgnored, OpenFails, Write,
       AllWritten, EndsEarly, Fails, Close, CloseFails, MoveFails, ReportLate, Return
  <2> QED
    BY <1>1, <2>1, <2>2 DEF Holds
<1> QED
  BY <1>2, <1>3, <1>4, <1>5

LEMMA StepName == TypeInv /\ NameInv /\ [Next]_vars => NameInv'
<1> SUFFICES ASSUME TypeInv, NameInv, [Next]_vars PROVE NameInv'
  OBVIOUS
<1>1. ASSUME NEW t \in Tasks, Task(t) PROVE NameInv'
  <2>0. path[t] \in Paths /\ path' = path
    BY <1>1, TaskKeepsRun DEF TypeInv
  <2>1. ASSUME NEW f \in Files, NEW p \in Paths, NEW q \in Paths, Holds(p, f)', Holds(q, f)'
        PROVE  p = q
    <3>1. ASSUME temp[path[t]] = None PROVE \A r \in Paths : ~Holds(r, Unused)
      BY <2>0, <3>1, UnusedExists DEF Holds, Paths
    <3>2. (Holds(p, f) \/ p = path[t]) /\ (Holds(q, f) \/ q = path[t])
      BY <1>1, <2>1, NewHolder
    <3>3. CASE Holds(p, f) /\ Holds(q, f)
      BY <3>3 DEF NameInv
    <3>4. CASE ~Holds(p, f)
      BY <1>1, <2>1, <3>1, <3>4, NewHolder
    <3>5. CASE ~Holds(q, f)
      BY <1>1, <2>1, <3>1, <3>5, NewHolder
    <3> QED
      BY <3>3, <3>4, <3>5
  <2>2. ASSUME NEW p \in Paths, temp'[p] # None PROVE temp'[p] # final'[p]
    <3>1. temp \in [Paths -> Files \cup {None}] /\ final \in [Paths -> Files \cup {None}]
      BY DEF TypeInv, TypeOK
    <3>2. CASE p # path[t]
      BY <1>1, <2>2, <3>2, NamesOf DEF NameInv
    <3>3. CASE p = path[t] /\ (Open(t) \/ OpenHalf(t))
      <4>1. temp'[p] = Opened(t) /\ final' = final
        BY <3>1, <3>3 DEF Open, OpenHalf, OpenOutputStream
      <4>2. CASE temp[p] = None
        BY <3>3, <4>1, <4>2, UnusedExists DEF Opened
      <4> QED
        BY <3>3, <4>1, <4>2 DEF Opened, NameInv
    <3>4. CASE p = path[t] /\ Publish(t)
      BY <2>2, <3>1, <3>4 DEF Publish, Move
    <3>5. CASE p = path[t] /\ Discard(t)
      BY <2>2, <3>1, <3>5 DEF Discard, NameInv
    <3> QED
      BY <1>1, <2>2, <3>2, <3>3, <3>4, <3>5, NamesStay DEF NameInv
  <2> QED
    BY <2>1, <2>2 DEF NameInv
<1>2. CASE Exit \/ Crash \/ RunAgain
  <2>1. /\ UNCHANGED <<temp, final, path>>
        /\ \A t \in Tasks : file'[t] = file[t] \/ file'[t] = None
    BY <1>2 DEF Exit, Crash, RunAgain, diskVars, inputVars, taskVars
  <2>2. \A p \in Paths, f \in Files : Holds(p, f)' => Holds(p, f)
    BY <2>1, Numbers DEF Holds
  <2> QED
    BY <2>1, <2>2 DEF NameInv
<1>3. CASE UNCHANGED vars
  BY <1>3 DEF vars, inputVars, diskVars, taskVars, NameInv, Holds
<1> QED
  BY <1>1, <1>2, <1>3 DEF Next

-----------------------------------------------------------------------------
(* Tasks *)

LEMMA StepFile == TypeInv /\ FileInv /\ [Next]_vars => FileInv'
<1> SUFFICES ASSUME TypeInv, FileInv, [Next]_vars PROVE FileInv'
  OBVIOUS
<1>1. ASSUME NEW t \in Tasks, Task(t) PROVE FileInv'
  <2>1. exit = "running" /\ exit' = exit
    BY <1>1, TaskKeepsRun
  <2>2. file'[t] # None <=> pc'[t] \in {"write", "close", "move", "discard"}
    <3> USE DEF TypeInv, TypeOK, FileInv, Goto, Return, diskVars
    <3>1. CASE CheckFinds(t) \/ CheckPasses(t) \/ CheckFails(t) \/ CheckErrorIgnored(t)
      BY <3>1, <2>1 DEF CheckFinds, CheckPasses, CheckFails, CheckErrorIgnored
    <3>2. CASE Open(t)
      <4>1. Opened(t) # None
        BY OpenedIsFile, Numbers
      <4> QED
        BY <3>2, <4>1 DEF Open
    <3>3. CASE OpenFails(t) \/ OpenHalf(t)
      BY <3>3 DEF OpenFails, OpenHalf
    <3>4. CASE Write(t) \/ AllWritten(t) \/ EndsEarly(t) \/ Fails(t)
      BY <3>4, <2>1 DEF Write, AllWritten, EndsEarly, Fails
    <3>5. CASE Close(t) \/ CloseFails(t) \/ Publish(t) \/ MoveFails(t)
      BY <3>5, <2>1 DEF Close, CloseFails, Publish, MoveFails
    <3>6. CASE Discard(t) \/ ReportLate(t)
      BY <3>6, <2>1 DEF Discard, ReportLate
    <3> QED
      BY <1>1, <3>1, <3>2, <3>3, <3>4, <3>5, <3>6 DEF Task
  <2>3. ASSUME NEW u \in Tasks, u # t
        PROVE  file'[u] = file[u] /\ pc'[u] = pc[u]
    BY <1>1, <2>3, OthersStay
  <2> QED
    BY <2>1, <2>2, <2>3 DEF FileInv
<1>2. CASE Exit
  BY <1>2 DEF Exit, FileInv, taskVars
<1>3. CASE Crash
  BY <1>3 DEF Crash, FileInv
<1>4. CASE RunAgain
  BY <1>4 DEF RunAgain, FileInv
<1>5. CASE UNCHANGED vars
  BY <1>5 DEF vars, taskVars, FileInv
<1> QED
  BY <1>1, <1>2, <1>3, <1>4, <1>5 DEF Next

LEMMA StepTask == TypeInv /\ TaskInv /\ [Next]_vars => TaskInv'
<1> SUFFICES ASSUME TypeInv, TaskInv, [Next]_vars PROVE TaskInv'
  OBVIOUS
<1>1. ASSUME NEW t \in Tasks, Task(t) PROVE TaskInv'
  <2> DEFINE I == /\ pc[t] \in {"check", "open"} => written[t] = 0 /\ ~failed[t]
                  /\ pc[t] \in {"close", "move"} => written[t] = BatchCount \/ failed[t] \/ unread[t]
                  /\ Published(t) => written[t] = BatchCount \/ unread[t]
                  /\ failed[t] /\ writer = "merged" => pc[t] \in {"discard", "report", "returned"}
                  /\ failed[t] /\ writer = "partition" => reported[t]
                  /\ reported[t] => failed[t] \/ pc[t] = "returned"
                  /\ pc[t] = "returned" /\ (rc[t] = 2 \/ failed[t]) => rc[t] = 2 /\ reported[t]
                  /\ pc[t] = "returned" /\ rc[t] = 0 /\ reported[t] => writer = "merged"
  <2>1. exit = "running" /\ writer' = writer /\ writer \in {"partition", "sink", "merged"}
    BY <1>1, TaskKeepsRun DEF TypeInv, TypeOK, Writers
  <2>2. I'
    <3>0. I
      BY DEF TaskInv
    <3> USE DEF TypeInv, TypeOK, Goto, Return, Report, diskVars, Published
    <3>1. CASE CheckFinds(t) \/ CheckFails(t)
      BY <3>0, <2>1, <3>1 DEF CheckFinds, CheckFails
    <3>2. CASE CheckPasses(t) \/ CheckErrorIgnored(t)
      BY <3>0, <2>1, <3>2 DEF CheckPasses, CheckErrorIgnored
    <3>3. CASE Open(t) \/ OpenFails(t) \/ OpenHalf(t)
      BY <3>0, <2>1, <3>3 DEF Open, OpenFails, OpenHalf
    <3>4. CASE Write(t) \/ AllWritten(t) \/ EndsEarly(t)
      BY <3>0, <2>1, <3>4 DEF Write, AllWritten, EndsEarly
    <3>5. CASE Fails(t)
      BY <3>0, <2>1, <3>5 DEF Fails
    <3>6. CASE Close(t) \/ CloseFails(t)
      BY <3>0, <2>1, <3>6 DEF Close, CloseFails
    <3>7. CASE Publish(t)
      BY <3>0, <2>1, <3>7 DEF Publish
    <3>8. CASE MoveFails(t) \/ Discard(t) \/ ReportLate(t)
      BY <3>0, <2>1, <3>8 DEF MoveFails, Discard, ReportLate
    <3> QED
      BY <1>1, <3>1, <3>2, <3>3, <3>4, <3>5, <3>6, <3>7, <3>8 DEF Task
  <2>3. ASSUME NEW u \in Tasks, u # t
        PROVE  /\ pc'[u] = pc[u] /\ written'[u] = written[u]
               /\ failed'[u] = failed[u] /\ unread'[u] = unread[u]
         /\ reported'[u] = reported[u] /\ rc'[u] = rc[u]
    BY <1>1, <2>3, OthersStay
  <2> QED
    BY <2>1, <2>2, <2>3 DEF TaskInv, Published
<1>2. CASE Exit \/ Crash \/ UNCHANGED vars
  BY <1>2 DEF Exit, Crash, vars, taskVars, TaskInv, Published
<1>3. CASE RunAgain
  BY <1>3 DEF RunAgain, TaskInv, Published
<1> QED
  BY <1>1, <1>2, <1>3 DEF Next

LEMMA StepSole == TypeInv /\ FileInv /\ SoleInv /\ [Next]_vars => SoleInv'
<1> SUFFICES ASSUME TypeInv, FileInv, SoleInv, [Next]_vars PROVE SoleInv'
  OBVIOUS
<1>1. ASSUME NEW t \in Tasks, Task(t), NEW u \in Tasks, Sole(u)
      PROVE  /\ file'[u] # None => file'[u] = temp'[path[u]]
             /\ writer # "merged" /\ pc'[u] \in {"open", "write", "close", "move"}
                  => final'[path[u]] = None
  <2>0. path[u] \in Paths
    BY DEF TypeInv
  <2>1. CASE u # t
    <3>1. path[u] # path[t]
      BY <1>1, <2>1 DEF Sole
    <3>2. temp'[path[u]] = temp[path[u]] /\ final'[path[u]] = final[path[u]]
      BY <1>1, <2>0, <3>1, NamesOf
    <3>3. file'[u] = file[u] /\ pc'[u] = pc[u]
      BY <1>1, <2>1, OthersStay
    <3> QED
      BY <1>1, <3>2, <3>3 DEF SoleInv
  <2>2. CASE u = t
    <3>0. /\ file[t] # None => file[t] = temp[path[t]]
          /\ writer # "merged" /\ pc[t] \in {"open", "write", "close", "move"}
               => final[path[t]] = None
      BY <1>1, <2>2 DEF SoleInv
    <3> USE DEF TypeInv, TypeOK, Goto, Return, diskVars
    <3>1. CASE CheckFinds(t) \/ CheckPasses(t) \/ CheckFails(t) \/ CheckErrorIgnored(t)
      BY <2>2, <3>0, <3>1 DEF CheckFinds, CheckPasses, CheckFails, CheckErrorIgnored, AlreadyExists
    <3>2. CASE Open(t) \/ OpenFails(t) \/ OpenHalf(t)
      BY <2>0, <2>2, <3>0, <3>2 DEF Open, OpenFails, OpenHalf, OpenOutputStream
    <3>3. CASE Write(t) \/ AllWritten(t) \/ EndsEarly(t) \/ Fails(t) \/ Close(t)
      BY <2>2, <3>0, <3>3 DEF Write, AllWritten, EndsEarly, Fails, Close
    <3>4. CASE CloseFails(t) \/ Publish(t) \/ MoveFails(t)
      BY <2>2, <3>0, <3>4 DEF CloseFails, Publish, MoveFails
    <3>5. CASE Discard(t) \/ ReportLate(t)
      BY <2>2, <3>0, <3>5 DEF Discard, ReportLate
    <3> QED
      BY <1>1, <3>1, <3>2, <3>3, <3>4, <3>5 DEF Task
  <2> QED
    BY <2>1, <2>2
<1>2. CASE \E t \in Tasks : Task(t)
  <2>1. path' = path /\ writer' = writer
    BY <1>2, TaskKeepsRun
  <2> QED
    BY <1>1, <1>2, <2>1 DEF SoleInv, Sole
<1>3. CASE Exit \/ Crash \/ UNCHANGED vars
  BY <1>3 DEF Exit, Crash, vars, inputVars, diskVars, taskVars, SoleInv, Sole
<1>4. CASE RunAgain
  BY <1>4 DEF RunAgain, inputVars, diskVars, SoleInv, Sole
<1> QED
  BY <1>2, <1>3, <1>4 DEF Next

LEMMA StepExit == ExitInv /\ [Next]_vars => ExitInv'
<1> SUFFICES ASSUME ExitInv, [Next]_vars PROVE ExitInv'
  OBVIOUS
<1>1. ASSUME NEW t \in Tasks, Task(t) PROVE ExitInv'
  BY <1>1, TaskKeepsRun DEF ExitInv
<1>2. CASE Exit
  BY <1>2 DEF Exit, ExitInv, taskVars
<1>3. CASE Crash \/ RunAgain \/ UNCHANGED vars
  BY <1>3 DEF Crash, RunAgain, vars, taskVars, ExitInv
<1> QED
  BY <1>1, <1>2, <1>3 DEF Next

-----------------------------------------------------------------------------
(* Paths *)

\* No task changes a file that belongs to a path of others.
LEMMA ContentOfOthers ==
  ASSUME TypeInv, NameInv, NEW t \in Tasks, Task(t), NEW q \in Paths, q # path[t],
         NEW f \in Files, Holds(q, f)
  PROVE  content'[f] = content[f]
<1> SUFFICES ASSUME content'[f] # content[f] PROVE FALSE
  OBVIOUS
<1>1. path[t] \in Paths
  BY DEF TypeInv
<1>2. CASE f = file[t]
  BY <1>1, <1>2 DEF Holds, NameInv
<1>3. CASE f = Opened(t) /\ temp[path[t]] # None
  BY <1>1, <1>3 DEF Opened, Holds, NameInv
<1>4. CASE f = Opened(t) /\ temp[path[t]] = None
  BY <1>1, <1>4, UnusedExists DEF Opened, Holds, Paths
<1> QED
  BY <1>2, <1>3, <1>4, ContentOf

LEMMA OtherPathStays ==
  ASSUME TypeInv, NameInv, FileInv, NEW t \in Tasks, Task(t), NEW q \in Paths, q # path[t],
         PathOk(q)
  PROVE  PathOk(q)'
<1>1. exit = "running" /\ path' = path /\ run' = run
  BY TaskKeepsRun
<1>2. ASSUME NEW u \in Tasks, path[u] = q
      PROVE  /\ pc'[u] = pc[u] /\ file'[u] = file[u] /\ written'[u] = written[u]
             /\ failed'[u] = failed[u] /\ unread'[u] = unread[u]
         /\ reported'[u] = reported[u] /\ rc'[u] = rc[u]
  BY <1>2, OthersStay
<1>3. temp'[q] = temp[q] /\ final'[q] = final[q]
  BY NamesOf
<1>4. InFlight(q)' = InFlight(q)
  BY <1>1, <1>2 DEF InFlight
<1>5. ASSUME NEW u \in Tasks, path[u] = q, Doomed(u) PROVE Doomed(u)'
  BY <1>2, <1>5 DEF Doomed
<1>6. CASE Crowded(q)
  BY <1>3, <1>4, <1>6 DEF Crowded, PathOk
<1>7. CASE Orderly(q)
  <2>1. ASSUME NEW u \in InFlight(q)
        PROVE  file'[u] = temp'[q] /\ content'[temp'[q]] = Partial(u)'
    <3>1. /\ u \in Tasks /\ path[u] = q /\ file[u] = temp[q] /\ content[temp[q]] = Partial(u)
          /\ file[u] # None
      BY <1>1, <1>7, <2>1 DEF Orderly, InFlight, FileInv
    <3>2. temp[q] \in Files /\ Holds(q, temp[q])
      BY <3>1 DEF TypeInv, TypeOK, Holds
    <3>3. content'[temp[q]] = content[temp[q]]
      BY <3>2, ContentOfOthers
    <3>4. Partial(u)' = Partial(u)
      BY <1>1, <1>2, <3>1 DEF Partial
    <3> QED
      BY <1>2, <1>3, <3>1, <3>3, <3>4
  <2>2. ASSUME InFlight(q) = {}, NEW u \in On(q)', Published(u)'
        PROVE  temp'[q] = None /\ \E v \in On(q)' : Published(v)' /\ IsTable(q, run, written[v])'
    <3>1. On(q)' = On(q) /\ u \in On(q) /\ Published(u)
      BY <1>1, <1>2, <2>2 DEF Published, On
    <3>2. PICK v \in On(q) : Published(v) /\ IsTable(q, run, written[v]) /\ temp[q] = None
      BY <1>7, <2>2, <3>1 DEF Orderly
    <3>3. final[q] \in Files /\ Holds(q, final[q])
      BY <3>2 DEF IsTable, TypeInv, TypeOK, Holds
    <3>4. content'[final[q]] = content[final[q]]
      BY <3>3, ContentOfOthers
    <3>5. written'[v] = written[v] /\ Published(v)'
      BY <1>2, <3>2 DEF Published, On
    <3>6. IsTable(q, run, written[v])'
      BY <1>1, <1>3, <3>2, <3>4, <3>5 DEF IsTable, Table
    <3> QED
      BY <1>3, <3>1, <3>2, <3>5, <3>6
  <2> QED
    BY <1>1, <1>4, <2>1, <2>2 DEF Orderly, PathOk
<1> QED
  BY <1>1, <1>5, <1>6, <1>7 DEF PathOk

\* A task that will return 2 does.
LEMMA DoomedStays ==
  ASSUME TypeInv, NEW t \in Tasks, Task(t), NEW u \in Tasks, Doomed(u)
  PROVE  Doomed(u)'
<1>1. CASE u # t
  BY <1>1, OthersStay DEF Doomed
<1>2. CASE u = t
  <2>1. failed'[t] = failed[t] \/ failed'[t]
    BY DEF TypeInv, TypeOK, Task, CheckFinds, CheckPasses, CheckFails, CheckErrorIgnored, Open,
       OpenFails, OpenHalf, Write, AllWritten, EndsEarly, Fails, Close, CloseFails, Publish, MoveFails,
       Discard, ReportLate
  <2>2. CASE failed[t]
    BY <1>2, <2>1, <2>2 DEF Doomed
  <2>3. CASE pc[t] \in {"discard", "report", "returned"}
    <3>1. Discard(t) \/ ReportLate(t)
      BY <2>3 DEF Task, CheckFinds, CheckPasses, CheckFails, CheckErrorIgnored, Open,
         OpenFails, OpenHalf, Write, AllWritten, EndsEarly, Fails, Close, CloseFails, Publish, MoveFails,
         Goto, Return
    <3> QED
      BY <1>2, <3>1 DEF Discard, ReportLate, Goto, Return, Doomed, TypeInv, TypeOK
  <2> QED
    BY <1>2, <2>2, <2>3 DEF Doomed
<1> QED
  BY <1>1, <1>2

\* The steps in which a task fails.
LEMMA BecomesDoomed ==
  ASSUME TypeInv, NEW t \in Tasks, Task(t),
         \/ CheckFails(t) \/ OpenFails(t) \/ OpenHalf(t) \/ Fails(t)
         \/ CloseFails(t) \/ MoveFails(t) \/ Discard(t) \/ ReportLate(t)
  PROVE  Doomed(t)'
BY DEF CheckFails, OpenFails, OpenHalf, Fails, CloseFails, MoveFails, Discard, ReportLate,
       Goto, Return, Doomed, TypeInv, TypeOK

\* The steps a task takes before Open, or instead of it: its path keeps its order.
LEMMA CheckKeepsOrder ==
  ASSUME TypeInv, NEW t \in Tasks, Task(t), Orderly(path[t]), ~Doomed(t)',
         CheckFinds(t) \/ CheckPasses(t) \/ CheckErrorIgnored(t)
  PROVE  Orderly(path[t])'
<1> DEFINE p == path[t]
<1>1. UNCHANGED <<path, run, temp, final, content, written, failed>> /\ pc[t] = "check"
  BY TaskKeepsRun DEF CheckFinds, CheckPasses, CheckErrorIgnored, Goto, Return, diskVars
<1>2. pc'[t] \in {"open", "returned"} /\ ~Published(t)'
  BY DEF CheckFinds, CheckPasses, CheckErrorIgnored, Goto, Return, Report, Published, TypeInv,
     TypeOK
<1>3. ASSUME NEW u \in Tasks, u # t
      PROVE  pc'[u] = pc[u] /\ file'[u] = file[u] /\ reported'[u] = reported[u] /\ rc'[u] = rc[u]
  BY <1>3, OthersStay
<1>4. InFlight(p)' = InFlight(p) /\ t \notin InFlight(p)
  BY <1>1, <1>2, <1>3 DEF InFlight
<1>5. ASSUME NEW u \in InFlight(p)
      PROVE  file'[u] = temp'[p] /\ content'[temp'[p]] = Partial(u)'
  <2>1. u \in Tasks /\ u # t /\ file[u] = temp[p] /\ content[temp[p]] = Partial(u)
    BY <1>4, <1>5 DEF Orderly, InFlight
  <2>2. Partial(u)' = Partial(u)
    BY <1>1, <1>3, <2>1 DEF Partial
  <2> QED
    BY <1>1, <1>3, <2>1, <2>2
<1>6. ASSUME InFlight(p) = {}, NEW u \in On(p)', Published(u)'
      PROVE  temp'[p] = None /\ \E v \in On(p)' : Published(v)' /\ IsTable(p, run, written[v])'
  <2>1. On(p)' = On(p) /\ u \in On(p) /\ Published(u)
    BY <1>1, <1>2, <1>3, <1>6 DEF Published, On
  <2>2. PICK v \in On(p) : Published(v) /\ IsTable(p, run, written[v]) /\ temp[p] = None
    BY <1>6, <2>1 DEF Orderly
  <2>3. v # t
    BY <1>1, <2>2 DEF Published
  <2>4. Published(v)' /\ IsTable(p, run, written[v])'
    BY <1>1, <1>3, <2>2, <2>3 DEF Published, IsTable, Table, On
  <2> QED
    BY <1>1, <2>1, <2>2, <2>4
<1> QED
  BY <1>1, <1>4, <1>5, <1>6 DEF Orderly

\* What a block adds to the file of a task without an error.
LEMMA RowsAdded ==
  ASSUME NEW n \in Nat, NEW r
  PROVE  [at : 1 .. n + 1, is : {"rows"}, run : {r}]
           = [at : 1 .. n, is : {"rows"}, run : {r}] \cup {[at |-> n + 1, is |-> "rows", run |-> r]}
<1> DEFINE more == [at : 1 .. n + 1, is : {"rows"}, run : {r}]
           rows == [at : 1 .. n, is : {"rows"}, run : {r}]
           last == [at |-> n + 1, is |-> "rows", run |-> r]
<1>1. 1 .. n + 1 = (1 .. n) \cup {n + 1}
  OBVIOUS
<1>2. ASSUME NEW b \in more PROVE b \in rows \cup {last}
  <2>1. b = [at |-> b.at, is |-> "rows", run |-> r] /\ b.at \in 1 .. n + 1
    OBVIOUS
  <2>2. CASE b.at \in 1 .. n
    BY <2>1, <2>2
  <2>3. CASE b.at = n + 1
    BY <2>1, <2>3
  <2> QED
    BY <1>1, <2>1, <2>2, <2>3
<1>3. rows \subseteq more
  <2>1. 1 .. n \subseteq 1 .. n + 1
    OBVIOUS
  <2> QED
    BY <2>1
<1>4. last \in more
  OBVIOUS
<1> HIDE DEF more, rows, last
<1>5. more = rows \cup {last}
  BY <1>2, <1>3, <1>4
<1> QED
  BY <1>5 DEF more, rows, last

\* The next place has no block yet.
LEMMA NextPlaceEmpty ==
  ASSUME NEW n \in Nat, NEW r
  PROVE  \A S : S = [at : 1 .. n, is : {"rows"}, run : {r}] => {b \in S : b.at # n + 1} = S
<1> TAKE S
<1> HAVE S = [at : 1 .. n, is : {"rows"}, run : {r}]
<1>1. ASSUME NEW b \in S PROVE b.at # n + 1
  <2>1. b.at \in 1 .. n
    BY <1>1
  <2> QED
    BY <2>1
<1> QED
  BY <1>1

\* The only task on its way: its file is as far as the task.
LEMMA OnlyTaskKeepsOrder ==
  ASSUME TypeInv, TaskInv, FileInv, NEW t \in Tasks, Task(t), Orderly(path[t]),
         InFlight(path[t]) = {t}, ~Doomed(t)'
  PROVE  Orderly(path[t])'
<1> DEFINE p == path[t]
<1>0. /\ path' = path /\ run' = run /\ exit = "running" /\ p \in Paths
      /\ pc[t] \in {"write", "close", "move"}
  BY TaskKeepsRun DEF InFlight, TypeInv
<1>1. /\ file[t] = temp[p] /\ content[temp[p]] = Partial(t)
      /\ temp[p] \in Files
  BY <1>0 DEF Orderly, FileInv, TypeInv, TypeOK
<1>2. \A u \in Tasks : u # t => pc'[u] = pc[u]
  BY OthersStay
<1>3. \A u \in Tasks : path[u] = p /\ pc[u] \in {"write", "close", "move"} => u = t
  BY DEF InFlight
<1>4. ASSUME pc'[t] \in {"write", "close", "move"},
             file'[t] = temp'[p], content'[temp'[p]] = Partial(t)'
      PROVE  Orderly(p)'
  <2>1. InFlight(p)' = {t}
    BY <1>0, <1>2, <1>3, <1>4 DEF InFlight
  <2> QED
    BY <1>0, <1>4, <2>1 DEF Orderly
<1>5. written[t] \in Nat /\ written \in [Tasks -> 0 .. BatchCount]
  BY DEF TypeInv, TypeOK
<1>6. CASE Write(t)
  <2>1. /\ pc[t] = "write" /\ pc'[t] = "write" /\ file'[t] = file[t] /\ temp' = temp
        /\ written'[t] = written[t] + 1
    BY <1>5, <1>6 DEF Write, Goto, TypeInv, TypeOK
  <2>2. content'[temp[p]] = {b \in content[temp[p]] : b.at # written[t] + 1}
                              \cup {[at |-> written[t] + 1, is |-> "rows", run |-> run]}
    BY <1>1, <1>6 DEF Write, Put, Block, TypeInv
  <2>3. content[temp[p]] = [at : 1 .. written[t], is : {"rows"}, run : {run}]
    BY <1>1, <2>1 DEF Partial
  <2>4. {b \in content[temp[p]] : b.at # written[t] + 1} = content[temp[p]]
    <3>1. \A S : S = [at : 1 .. written[t], is : {"rows"}, run : {run}]
                   => {b \in S : b.at # written[t] + 1} = S
      BY <1>5, NextPlaceEmpty, ZenonT(30)
    <3> QED
      BY <2>3, <3>1, Zenon
  <2>5. Partial(t)' = [at : 1 .. written[t] + 1, is : {"rows"}, run : {run}]
    BY <1>0, <2>1 DEF Partial
  <2>6. content'[temp[p]] = Partial(t)'
    BY <1>5, <2>2, <2>3, <2>4, <2>5, RowsAdded
  <2> QED
    BY <1>1, <1>4, <2>1, <2>6
<1>7. CASE AllWritten(t) \/ EndsEarly(t)
  <2>1. /\ pc[t] = "write" /\ pc'[t] = "close" /\ file'[t] = file[t] /\ temp' = temp
        /\ written'[t] = written[t] /\ content' = content
    BY <1>7 DEF AllWritten, EndsEarly, Goto, TypeInv, TypeOK, diskVars
  <2>2. Partial(t)' = Partial(t)
    BY <1>0, <2>1 DEF Partial
  <2> QED
    BY <1>1, <1>4, <2>1, <2>2
<1>8. CASE Close(t)
  <2>1. /\ pc[t] = "close" /\ pc'[t] = "move" /\ file'[t] = file[t] /\ temp' = temp
        /\ written'[t] = written[t]
    BY <1>8 DEF Close, Goto, TypeInv, TypeOK
  <2>2. content'[temp[p]] = {b \in content[temp[p]] : b.at # written[t] + 1}
                              \cup {[at |-> written[t] + 1, is |-> "footer", run |-> run]}
    BY <1>1, <1>8 DEF Close, Put, Block, TypeInv
  <2>3. content[temp[p]] = [at : 1 .. written[t], is : {"rows"}, run : {run}]
    BY <1>1, <2>1 DEF Partial
  <2>4. {b \in content[temp[p]] : b.at # written[t] + 1} = content[temp[p]]
    <3>1. \A S : S = [at : 1 .. written[t], is : {"rows"}, run : {run}]
                   => {b \in S : b.at # written[t] + 1} = S
      BY <1>5, NextPlaceEmpty, ZenonT(30)
    <3> QED
      BY <2>3, <3>1, Zenon
  <2>5. Partial(t)' = content[temp[p]] \cup {[at |-> written[t] + 1, is |-> "footer", run |-> run]}
    BY <1>0, <2>1, <2>3 DEF Partial
  <2> QED
    BY <1>1, <1>4, <2>1, <2>2, <2>4, <2>5
<1>9. CASE Publish(t)
  <2>1. /\ pc[t] = "move" /\ pc'[t] \in {"returned", "report"} /\ content' = content
        /\ temp'[p] = None /\ final'[p] = temp[p] /\ failed'[t] = failed[t]
    BY <1>0, <1>9 DEF Publish, Move, Goto, TypeInv, TypeOK
  <2>2. ~failed[t] /\ written'[t] = written[t]
    BY <1>9, <2>1 DEF Doomed, Publish
  <2>3. content[temp[p]] = Table(run, written[t])
    BY <1>1, <2>1 DEF Partial, Table
  <2>4. IsTable(p, run, written[t])'
    BY <1>0, <1>1, <2>1, <2>2, <2>3, Numbers DEF IsTable, Table
  <2>6. t \in On(p)' /\ Published(t)'
    <3>1. pc'[t] = "returned" /\ rc'[t] = 0
      BY <1>9, <2>2 DEF Publish, Goto, TypeInv, TypeOK
    <3>2. ~reported'[t]
      BY <1>9, <2>1, <2>2 DEF Publish, TaskInv
    <3> QED
      BY <1>0, <3>1, <3>2 DEF On, Published
  <2>5. InFlight(p)' = {}
    BY <1>0, <1>2, <1>3, <2>1 DEF InFlight
  <2> QED
    BY <1>0, <2>1, <2>4, <2>5, <2>6 DEF Orderly
<1> QED
  BY <1>0, <1>6, <1>7, <1>8, <1>9, BecomesDoomed DEF Task, CheckFinds, CheckPasses,
     CheckErrorIgnored, Open, Goto, Return

\* A rename takes the temporary name from everybody who shares it.
LEMMA CrowdedStays ==
  ASSUME TypeInv, NEW t \in Tasks, Task(t), Crowded(path[t]), ~Doomed(t)'
  PROVE  Crowded(path[t])'
<1> DEFINE p == path[t]
<1>0. path' = path /\ p \in Paths
  BY TaskKeepsRun DEF TypeInv
<1>1. ASSUME NEW u \in InFlight(p), u # t PROVE u \in InFlight(p)'
  BY <1>0, <1>1, OthersStay DEF InFlight
<1>2. CASE Open(t)
  <2>1. t \in InFlight(p)' /\ t \notin InFlight(p)
    BY <1>0, <1>2 DEF Open, Goto, InFlight, TypeInv, TypeOK
  <2>2. PICK u \in InFlight(p) : TRUE
    BY DEF Crowded
  <2> QED
    BY <1>1, <2>1, <2>2 DEF Crowded
<1>3. CASE Publish(t)
  <2>1. temp[p] # None /\ temp'[p] = None
    BY <1>0, <1>3 DEF Publish, Move, TypeInv, TypeOK
  <2>2. PICK u \in InFlight(p) : u # t
    BY <2>1 DEF Crowded
  <2> QED
    BY <1>0, <1>1, <2>1, <2>2 DEF Crowded
<1>4. CASE CheckFinds(t) \/ CheckPasses(t) \/ CheckErrorIgnored(t) \/ Write(t) \/ AllWritten(t)
             \/ EndsEarly(t) \/ Close(t)
  <2>1. temp' = temp
    BY <1>4 DEF CheckFinds, CheckPasses, CheckErrorIgnored, Write, AllWritten, EndsEarly, Close, diskVars
  <2>2. t \in InFlight(p) => t \in InFlight(p)'
    BY <1>0, <1>4 DEF CheckFinds, CheckPasses, CheckErrorIgnored, Write, AllWritten, EndsEarly, Close, Goto,
       Return, InFlight, TypeInv, TypeOK
  <2>3. InFlight(p) \subseteq InFlight(p)'
    BY <1>1, <2>2
  <2> QED
    BY <1>0, <2>1, <2>3 DEF Crowded
<1> QED
  BY <1>2, <1>3, <1>4, BecomesDoomed DEF Task

\* The first task to open the temporary name empties the file behind it.
LEMMA OpenKeepsOrder ==
  ASSUME TypeInv, TaskInv, NEW t \in Tasks, Task(t), Open(t), InFlight(path[t]) = {}
  PROVE  Orderly(path[t])'
<1> DEFINE p == path[t]
<1>1. /\ path' = path /\ p \in Paths /\ Opened(t) \in Files
      /\ pc[t] = "open" /\ pc'[t] = "write" /\ written'[t] = written[t]
      /\ temp'[p] = Opened(t) /\ file'[t] = Opened(t) /\ content'[Opened(t)] = {}
  BY TaskKeepsRun, OpenedIsFile DEF Open, OpenOutputStream, Goto, TypeInv, TypeOK
<1>2. InFlight(p)' = {t}
  <2>1. \A u \in Tasks : u # t => pc'[u] = pc[u]
    BY OthersStay
  <2> QED
    BY <1>1, <2>1 DEF InFlight
<1>3. Partial(t)' = {}
  <2>1. written'[t] = 0
    BY <1>1 DEF TaskInv
  <2>2. 1 .. 0 = {}
    OBVIOUS
  <2> QED
    BY <1>1, <2>1, <2>2 DEF Partial
<1> QED
  BY <1>1, <1>2, <1>3 DEF Orderly

LEMMA OwnPathStays ==
  ASSUME TypeInv, FileInv, TaskInv, NEW t \in Tasks, Task(t), PathOk(path[t])
  PROVE  PathOk(path[t])'
<1> DEFINE p == path[t]
<1>0. path' = path
  BY TaskKeepsRun
<1>1. CASE \E u \in Tasks : path[u] = p /\ Doomed(u)
  BY <1>0, <1>1, DoomedStays DEF PathOk
<1>2. CASE Doomed(t)'
  BY <1>0, <1>2 DEF PathOk
<1>3. CASE Crowded(p) /\ ~Doomed(t)'
  BY <1>0, <1>3, CrowdedStays DEF PathOk
<1>4. CASE Orderly(p) /\ ~Crowded(p) /\ ~Doomed(t)'
  <2>1. CASE CheckFinds(t) \/ CheckPasses(t) \/ CheckErrorIgnored(t)
    BY <1>0, <1>4, <2>1, CheckKeepsOrder DEF PathOk
  <2>2. CASE Open(t) /\ InFlight(p) = {}
    BY <1>0, <2>2, OpenKeepsOrder DEF PathOk
  <2>3. CASE Open(t) /\ InFlight(p) # {}
    <3>1. PICK u \in InFlight(p) : TRUE
      BY <2>3
    <3>2. u # t /\ u \in InFlight(p)' /\ t \in InFlight(p)'
      BY <1>0, <2>3, <3>1, OthersStay DEF InFlight, Open, Goto, TypeInv, TypeOK
    <3> QED
      BY <1>0, <3>2 DEF PathOk, Crowded
  <2>4. CASE Write(t) \/ AllWritten(t) \/ EndsEarly(t) \/ Close(t) \/ Publish(t)
    <3>1. t \in InFlight(p)
      BY <2>4 DEF Write, AllWritten, EndsEarly, Close, Publish, Goto, InFlight
    <3>2. InFlight(p) = {t}
      BY <1>4, <3>1 DEF Crowded
    <3> QED
      BY <1>0, <1>4, <3>2, OnlyTaskKeepsOrder DEF PathOk
  <2> QED
    BY <1>4, <2>1, <2>2, <2>3, <2>4, BecomesDoomed DEF Task
<1> QED
  BY <1>1, <1>2, <1>3, <1>4 DEF PathOk

LEMMA StepPath ==
  TypeInv /\ NameInv /\ FileInv /\ TaskInv /\ PathInv /\ [Next]_vars => PathInv'
<1> SUFFICES ASSUME TypeInv, NameInv, FileInv, TaskInv, PathInv, [Next]_vars PROVE PathInv'
  OBVIOUS
<1>1. ASSUME NEW t \in Tasks, Task(t), NEW p \in Paths PROVE PathOk(p)'
  <2>1. PathOk(p)
    BY <1>1, TaskKeepsRun DEF PathInv
  <2>2. CASE p = path[t]
    <3>1. PathOk(path[t])'
      BY <1>1, <2>1, <2>2, OwnPathStays
    <3>2. path' = path
      BY <1>1, TaskKeepsRun
    <3> QED
      BY <2>2, <3>1, <3>2
  <2>3. CASE p # path[t]
    BY <1>1, <2>1, <2>3, OtherPathStays
  <2> QED
    BY <2>2, <2>3
<1>2. CASE Exit
  BY <1>2 DEF Exit, inputVars, diskVars, taskVars, PathInv, PathOk, Doomed, Crowded, InFlight,
     Orderly, Partial, Published, IsTable, Table, On
<1>3. CASE Crash
  BY <1>3 DEF Crash, PathInv
<1>4. CASE RunAgain
  <2>1. \A t \in Tasks : pc'[t] = "check"
    BY <1>4 DEF RunAgain
  <2>2. \A p \in Paths : InFlight(p)' = {}
    BY <2>1 DEF InFlight
  <2>3. \A t \in Tasks : ~Published(t)'
    BY <2>1 DEF Published
  <2>4. ASSUME NEW p \in Paths PROVE Orderly(p)'
    BY <2>2, <2>3 DEF Orderly, On
  <2> QED
    BY <2>4 DEF PathInv, PathOk
<1>5. CASE UNCHANGED vars
  BY <1>5 DEF vars, inputVars, diskVars, taskVars, PathInv, PathOk, Doomed, Crowded, InFlight,
     Orderly, Partial, Published, IsTable, Table, On
<1> QED
  BY <1>1, <1>2, <1>3, <1>4, <1>5 DEF Next, PathInv

-----------------------------------------------------------------------------
LEMMA InitInv == Init => IInv
<1> SUFFICES ASSUME Init PROVE IInv
  OBVIOUS
<1>1. path \in [Tasks -> Paths] /\ 1 \in Paths
  BY Numbers DEF Init, Tasks, Paths
<1>2. written \in [Tasks -> 0 .. BatchCount] /\ run \in 1 .. MaxRuns
  BY Numbers DEF Init, FreshTasks
<1>3. TypeInv
  BY <1>1, <1>2 DEF Init, FreshTasks, TypeInv, TypeOK, Writers
<1>4. NameInv
  BY Numbers DEF Init, FreshTasks, NameInv, Holds, Paths
<1>5. FileInv /\ TaskInv /\ SoleInv /\ ExitInv
  BY DEF Init, FreshTasks, FileInv, TaskInv, SoleInv, ExitInv, Published
<1>6. PathInv
  <2>1. \A p \in Paths : InFlight(p) = {}
    BY DEF Init, FreshTasks, InFlight
  <2>2. \A t \in Tasks : ~Published(t)
    BY DEF Init, FreshTasks, Published
  <2> QED
    BY <2>1, <2>2 DEF PathInv, PathOk, Orderly, On
<1> QED
  BY <1>3, <1>4, <1>5, <1>6 DEF IInv

LEMMA StepIInv == IInv /\ [Next]_vars => IInv'
BY StepType, StepName, StepFile, StepTask, StepPath, StepSole, StepExit DEF IInv

LEMMA AlwaysIInv == Spec => []IInv
BY InitInv, StepIInv, PTL DEF Spec

\* At the end of the program a path without a doomed task has the file of one of
\* its tasks, or its tasks have all found one.
LEMMA AtTheEnd ==
  ASSUME IInv, exit \in {"0", "2"}, NEW t \in Tasks
  PROVE  \/ \E u \in On(path[t]) : rc[u] = 2 /\ reported[u]
         \/ /\ temp[path[t]] = None
            /\ \E u \in On(path[t]) : /\ IsTable(path[t], run, written[u])
                                     /\ (written[u] = BatchCount \/ unread[u])
         \/ rc[t] = 0 /\ reported[t] /\ writer = "merged"
<1> DEFINE p == path[t]
<1>1. \A u \in Tasks : pc[u] = "returned"
  BY DEF IInv, ExitInv
<1>2. InFlight(p) = {}
  BY <1>1 DEF InFlight
<1>3. PathOk(p)
  BY DEF IInv, PathInv, TypeInv
<1>4. CASE \E u \in Tasks : path[u] = p /\ Doomed(u)
  BY <1>1, <1>4 DEF Doomed, IInv, TaskInv, On
<1>5. CASE Crowded(p)
  BY <1>2, <1>5 DEF Crowded
<1>6. CASE Orderly(p)
  <2>1. CASE Published(t)
    <3>1. t \in On(p)
      BY DEF On
    <3>2. PICK u \in On(p) : Published(u) /\ IsTable(p, run, written[u]) /\ temp[p] = None
      BY <1>2, <1>6, <2>1, <3>1 DEF Orderly
    <3>3. written[u] = BatchCount \/ unread[u]
      BY <3>2 DEF IInv, TaskInv, On
    <3> QED
      BY <3>2, <3>3
  <2>2. CASE ~Published(t)
    <3>1. rc[t] \in {0, 2} /\ t \in On(p)
      BY DEF IInv, TypeInv, TypeOK, On
    <3> QED
      BY <1>1, <2>2, <3>1 DEF Published, IInv, TaskInv
  <2> QED
    BY <2>1, <2>2
<1> QED
  BY <1>3, <1>4, <1>5, <1>6 DEF PathOk

-----------------------------------------------------------------------------
\* Type correctness; with it, that a file without a name can always be found for
\* a stream: a directory never holds more than three files for each task.
THEOREM TypeCorrect == Spec => []TypeOK
<1>1. IInv => TypeOK
  BY DEF IInv, TypeInv
<1> QED
  BY <1>1, AlwaysIInv, PTL

\* The exit code 0 of the program: a table's file has everything that one of its
\* tasks has read in this run, which is all batches unless its channel ended
\* early, or the merge has said that it found a file; with any number of tasks on
\* one path.
THEOREM ExitZeroLacksNoRead == Spec => []ExitZeroLacksOnlyUnread
<1>1. IInv => ExitZeroLacksOnlyUnread
  <2> SUFFICES ASSUME IInv, exit = "0", NEW t \in Tasks
               PROVE  \/ /\ temp[path[t]] = None
                         /\ \E u \in On(path[t]) : /\ IsTable(path[t], run, written[u])
                                                  /\ (written[u] = BatchCount \/ unread[u])
                      \/ writer = "merged" /\ reported[t]
    BY DEF ExitZeroLacksOnlyUnread
  <2>1. \A u \in Tasks : rc[u] = 0
    BY DEF IInv, ExitInv
  <2> QED
    BY <2>1, AtTheEnd DEF On
<1> QED
  BY <1>1, AlwaysIInv, PTL

\* Whatever fails, and however a table's tasks get into each other's way, a
\* program that ends has called ReportError for a table without a whole file,
\* unless a channel of the table ended early.
THEOREM ReportsLoss == Spec => []LossIsReportedUnlessUnread
<1>1. IInv => LossIsReportedUnlessUnread
  <2> SUFFICES ASSUME IInv, exit \in {"0", "2"}, NEW t \in Tasks,
                      \A u \in On(path[t]) : ~reported[u] /\ ~unread[u]
               PROVE  IsWhole(path[t])
    BY DEF LossIsReportedUnlessUnread
  <2>1. run \in 1 .. run
    BY DEF IInv, TypeInv, TypeOK
  <2>2. t \in On(path[t])
    BY DEF On
  <2>3. \E u \in On(path[t]) : IsTable(path[t], run, written[u]) /\ written[u] = BatchCount
    BY <2>2, AtTheEnd
  <2> QED
    BY <2>1, <2>3 DEF IsWhole
<1> QED
  BY <1>1, AlwaysIInv, PTL

\* The rename of the only task of a path: what it renames is whole, if the name
\* was already taken, unless its channel ended early.
LEMMA SolePublish ==
  ASSUME IInv, NEW t \in Tasks, Sole(t), Task(t), Publish(t), final[path[t]] # None, ~unread[t]
  PROVE  IsTable(path[t], run, BatchCount)'
<1> DEFINE p == path[t]
<1>1. /\ p \in Paths /\ path' = path /\ run' = run /\ exit = "running"
      /\ pc[t] = "move" /\ temp[p] # None /\ final'[p] = temp[p] /\ content' = content
  BY TaskKeepsRun DEF Publish, Move, Goto, IInv, TypeInv, TypeOK
<1>2. ~failed[t] /\ written[t] = BatchCount
  BY <1>1 DEF IInv, SoleInv, TaskInv
<1>3. InFlight(p) = {t}
  BY <1>1 DEF InFlight, Sole
<1>4. Orderly(p)
  BY <1>1, <1>2, <1>3 DEF IInv, PathInv, PathOk, Doomed, Crowded, Sole
<1>5. content[temp[p]] = Table(run, BatchCount)
  BY <1>1, <1>2, <1>3, <1>4 DEF Orderly, Partial, Table
<1> QED
  BY <1>1, <1>5 DEF IsTable, Table

\* Any other step of a task leaves a whole file alone.
LEMMA SoleKeepsFinal ==
  ASSUME IInv, NEW t \in Tasks, Sole(t), Task(t), ~Publish(t), final[path[t]] # None
  PROVE  final'[path[t]] = final[path[t]] /\ content'[final[path[t]]] = content[final[path[t]]]
<1> DEFINE p == path[t]
<1>1. p \in Paths /\ final[p] \in Files
  BY DEF IInv, TypeInv, TypeOK
<1>2. final' = final
  BY NamesStay DEF Open, OpenHalf, Discard
<1>3. final[p] # Opened(t)
  <2>1. CASE temp[p] = None
    BY <1>1, <2>1, UnusedExists DEF IInv, Opened
  <2> QED
    BY <1>1, <2>1 DEF Opened, IInv, NameInv
<1>4. final[p] # file[t]
  BY <1>1, Numbers DEF IInv, SoleInv, NameInv
<1>5. content'[final[p]] = content[final[p]]
  BY <1>1, <1>3, <1>4, ContentOf DEF IInv
<1> QED
  BY <1>2, <1>5

\* Where one task of a run has the name and its channel did not end early,
\* ParquetTableWriter, OrcTableWriter, OrcSingleFileSink and the merge never turn a
\* whole file into a truncated one; a crash and a later run do not either.
THEOREM WholeStays == Spec => WholeStaysUnlessUnread
<1>1. ASSUME IInv, [Next]_vars, NEW p \in Paths, IsWhole(p), Cardinality(On(p)) = 1,
             \A t \in On(p) : ~unread[t]
      PROVE  IsWhole(p)'
  <2>0. PICK r \in 1 .. run : IsTable(p, r, BatchCount)
    BY <1>1 DEF IsWhole
  <2>1. /\ run \in Nat /\ final[p] \in Files /\ final[p] # None
        /\ content[final[p]] = Table(r, BatchCount)
    BY <1>1, <2>0 DEF IsTable, IInv, TypeInv, TypeOK
  <2>2. ASSUME final'[p] = final[p], content'[final[p]] = content[final[p]],
               run' \in {run, run + 1}
        PROVE  IsWhole(p)'
    <3>1. r \in 1 .. run'
      BY <2>1, <2>2
    <3>2. IsTable(p, r, BatchCount)'
      BY <2>1, <2>2 DEF IsTable, Table
    <3> QED
      BY <3>1, <3>2 DEF IsWhole
  <2>3. PICK s \in Tasks : path[s] = p /\ Sole(s)
    <3>1. \E x : On(p) = {x}
      <4>1. IsFiniteSet(Tasks)
        BY FS_Interval, Numbers DEF Tasks
      <4>2. On(p) \in SUBSET Tasks
        BY DEF On
      <4>3. IsFiniteSet(On(p))
        BY <4>1, <4>2, FS_Subset
      <4> QED
        BY <1>1, <4>3, FS_Singleton
    <3> QED
      BY <3>1 DEF Sole, On
  <2>4. ASSUME NEW t \in Tasks, Task(t) PROVE IsWhole(p)'
    <3>0. run' = run /\ path' = path
      BY <2>4, TaskKeepsRun
    <3>1. CASE path[t] # p
      <4>1. final'[p] = final[p]
        BY <1>1, <2>4, <3>1, NamesOf DEF IInv
      <4>2. Holds(p, final[p])
        BY DEF Holds
      <4>3. content'[final[p]] = content[final[p]]
        BY <1>1, <2>1, <2>4, <3>1, <4>2, ContentOfOthers DEF IInv
      <4> QED
        BY <2>2, <3>0, <4>1, <4>3
    <3>2. CASE path[t] = p /\ Publish(t)
      <4>1. Sole(t) /\ ~unread[t]
        BY <1>1, <2>3, <3>2 DEF Sole, On
      <4>2. IsTable(path[t], run, BatchCount)'
        BY <1>1, <2>1, <2>4, <3>2, <4>1, SolePublish
      <4>3. run \in 1 .. run
        BY <1>1 DEF IInv, TypeInv, TypeOK
      <4> QED
        BY <3>0, <3>2, <4>2, <4>3 DEF IsWhole, IsTable, Table
    <3>3. CASE path[t] = p /\ ~Publish(t)
      <4>1. Sole(t)
        BY <2>3, <3>3 DEF Sole
      <4>2. final'[p] = final[p] /\ content'[final[p]] = content[final[p]]
        BY <1>1, <2>1, <2>4, <3>3, <4>1, SoleKeepsFinal
      <4> QED
        BY <2>2, <3>0, <4>2
    <3> QED
      BY <3>1, <3>2, <3>3
  <2>5. CASE Exit \/ Crash \/ RunAgain \/ UNCHANGED vars
    BY <2>2, <2>5 DEF Exit, Crash, RunAgain, vars, diskVars
  <2> QED
    BY <1>1, <2>4, <2>5 DEF Next
<1>2. IInv /\ [Next]_vars =>
        \A p \in Paths :
          IsWhole(p) /\ Cardinality(On(p)) = 1 => IsWhole(p)' \/ \E t \in On(p) : unread[t]
  BY <1>1
<1> QED
  BY <1>2, AlwaysIInv, PTL DEF Spec, WholeStaysUnlessUnread
=============================================================================
