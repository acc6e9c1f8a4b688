----------------------------- MODULE PartitionFiles -----------------------------
(***************************************************************************)
(* RunParallelPartitionFiles and detail::PartitionRangeQueue of            *)
(* src/Storage/write_scheduler.cpp: workers of the partition pool draw     *)
(* partition numbers from a shared counter until it is exhausted or the    *)
(* queue is closed, each writes its partition to a file of its own, and    *)
(* the first failure closes the queue.  The table's task waits for all     *)
(* workers and returns first_error.                                        *)
(*                                                                         *)
(* GeneratePartitionToOwnFile is one step that succeeds, fails or lets an  *)
(* exception out; PartitionPipeline has its steps.                         *)
(***************************************************************************)
EXTENDS Integers, FiniteSets

CONSTANTS Workers, PartCount

ASSUME WorkersAssumption == IsFiniteSet(Workers) /\ Workers # {}
ASSUME PartCountAssumption == PartCount \in Nat

VARIABLES
  next,         \* next_ of the queue
  closed,       \* closed_ of the queue
  stop,         \* stop_requested
  first_error,  \* first_error
  pc,           \* where each worker is
  part,         \* the partition each worker drew last (0: none)
  completed,    \* partitions whose file was finished
  failed        \* partitions whose generation failed

vars == <<next, closed, stop, first_error, pc, part, completed, failed>>

Parts == 1 .. PartCount
States == {"pop", "draw", "check", "generate", "error", "stop", "close", "done", "threw", "gotten"}

Init ==
  /\ next = 1
  /\ closed = FALSE
  /\ stop = FALSE
  /\ first_error = 0
  /\ pc = [w \in Workers |-> "pop"]
  /\ part = [w \in Workers |-> 0]
  /\ completed = {}
  /\ failed = {}

Goto(w, from, to) == pc[w] = from /\ pc' = [pc EXCEPT ![w] = to]

\* Pop: a closed queue gives nothing.
PopCheckClosed(w) ==
  /\ Goto(w, "pop", IF closed THEN "done" ELSE "draw")
  /\ UNCHANGED <<next, closed, stop, first_error, part, completed, failed>>

\* Mutant of PopDraw: the bound is one too high.
PopDrawBeyond(w) ==
  /\ Goto(w, "draw", IF next > PartCount + 1 THEN "done" ELSE "check")
  /\ part' = IF next > PartCount + 1 THEN part ELSE [part EXCEPT ![w] = next]
  /\ next' = next + 1
  /\ UNCHANGED <<closed, stop, first_error, completed, failed>>

\* Mutant of PopDraw: the bound is one too low.
PopDrawShort(w) ==
  /\ Goto(w, "draw", IF next >= PartCount THEN "done" ELSE "check")
  /\ part' = IF next >= PartCount THEN part ELSE [part EXCEPT ![w] = next]
  /\ next' = next + 1
  /\ UNCHANGED <<closed, stop, first_error, completed, failed>>

\* Mutant of PopDraw: a load and a store that lost its effect to another worker's.
PopDrawByLoad(w) ==
  /\ Goto(w, "draw", IF next > PartCount THEN "done" ELSE "check")
  /\ part' = IF next > PartCount THEN part ELSE [part EXCEPT ![w] = next]
  /\ next' \in {next, next + 1}
  /\ UNCHANGED <<closed, stop, first_error, completed, failed>>

\* Pop: next_.fetch_add(1).  The counter moves even when it is exhausted.
PopDraw(w) ==
  /\ next' = next + 1
  /\ \/ /\ next > PartCount
        /\ Goto(w, "draw", "done")
        /\ part' = part
     \/ /\ next <= PartCount
        /\ Goto(w, "draw", "check")
        /\ part' = [part EXCEPT ![w] = next]
  /\ UNCHANGED <<closed, stop, first_error, completed, failed>>

\* if (stop_requested) continue;
CheckStop(w) ==
  /\ Goto(w, "check", IF stop THEN "pop" ELSE "generate")
  /\ UNCHANGED <<next, closed, stop, first_error, part, completed, failed>>

GenerateOk(w) ==
  /\ Goto(w, "generate", "pop")
  /\ completed' = completed \cup {part[w]}
  /\ UNCHANGED <<next, closed, stop, first_error, part, failed>>

GenerateFails(w) ==
  /\ Goto(w, "generate", "error")
  /\ failed' = failed \cup {part[w]}
  /\ UNCHANGED <<next, closed, stop, first_error, part, completed>>

\* An exception leaves GeneratePartitionToOwnFile and ends the worker's future.
GenerateThrows(w) ==
  /\ Goto(w, "generate", "threw")
  /\ failed' = failed \cup {part[w]}
  /\ UNCHANGED <<next, closed, stop, first_error, part, completed>>

StoreError(w) ==
  /\ Goto(w, "error", "stop")
  /\ first_error' = 2
  /\ UNCHANGED <<next, closed, stop, part, completed, failed>>

StoreStop(w) ==
  /\ Goto(w, "stop", "close")
  /\ stop' = TRUE
  /\ UNCHANGED <<next, closed, first_error, part, completed, failed>>

Close(w) ==
  /\ Goto(w, "close", "done")
  /\ closed' = TRUE
  /\ UNCHANGED <<next, stop, first_error, part, completed, failed>>

\* The table's task: Get and Ok of one worker's future.
Get(w) ==
  /\ pc[w] \in {"done", "threw"}
  /\ pc' = [pc EXCEPT ![w] = "gotten"]
  /\ first_error' = IF pc[w] = "threw" THEN 2 ELSE first_error
  /\ UNCHANGED <<next, closed, stop, part, completed, failed>>

WorkerStep(w) ==
  \/ PopCheckClosed(w) \/ PopDraw(w) \/ CheckStop(w)
  \/ GenerateOk(w) \/ GenerateFails(w) \/ GenerateThrows(w)
  \/ StoreError(w) \/ StoreStop(w) \/ Close(w)

Next == \E w \in Workers : WorkerStep(w) \/ Get(w)

Spec == Init /\ [][Next]_vars

-----------------------------------------------------------------------------
(* Properties *)

\* The call has collected every worker and returns first_error.
Returned == \A w \in Workers : pc[w] = "gotten"

TypeOK ==
  /\ next \in Nat
  /\ closed \in BOOLEAN
  /\ stop \in BOOLEAN
  /\ first_error \in {0, 2}
  /\ pc \in [Workers -> States]
  /\ part \in [Workers -> 0 .. PartCount]
  /\ completed \subseteq Parts
  /\ failed \subseteq Parts

Holding(w) == pc[w] \in {"check", "generate"}

\* No partition is generated twice: not by two workers at a time, and not again
\* after it was completed or failed.  Two workers on one partition would write
\* the same temporary file.
NoPartTwice ==
  /\ \A v, w \in Workers : v # w /\ Holding(v) /\ Holding(w) => part[v] # part[w]
  /\ \A w \in Workers : Holding(w) => part[w] \notin completed \cup failed
  /\ \A n \in completed : n \notin failed

\* A call that returns 0 completed every partition, whatever the order in which
\* workers drew, failed, stopped and were collected.
SuccessIsAll == Returned /\ first_error = 0 => completed = Parts

\* The counter overshoots by at most one draw per worker: it stays below the
\* limit of its 32 bits when part_count plus the number of workers does.
CounterBounded == next <= PartCount + 1 + Cardinality(Workers)
=============================================================================
