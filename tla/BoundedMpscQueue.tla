--------------------------- MODULE BoundedMpscQueue ---------------------------
(***************************************************************************)
(* detail::BoundedMpscQueue of src/Storage/write_scheduler.cpp: a ring of  *)
(* slots with sequence numbers (Vyukov), many producers, one consumer, two *)
(* condition variables for "full" and "empty", and Close.                  *)
(*                                                                         *)
(* One action is one atomic access of the code to shared memory, or one    *)
(* call of a condition variable.  Threads interleave sequentially          *)
(* consistently: every atomic of the queue that publishes data is          *)
(* acquire/release, and the relaxed loads of enqueue_pos_ can only return  *)
(* an older position, which the compare-exchange then rejects.             *)
(*                                                                         *)
(* The calling pattern is that of the pipelines of the same file: a        *)
(* producer pushes, and then either retires (the last one to retire closes *)
(* the queue) or fails (it closes at once); a refused Push ends it; the    *)
(* consumer pops until Pop returns false and may close in between.         *)
(***************************************************************************)
EXTENDS Integers, Sequences, FiniteSets

CONSTANTS
  Producers,   \* threads that call Push
  Consumer,    \* the one thread that calls Pop
  Capacity,    \* capacity_: number of slots of the ring
  MaxPushes,   \* bound: accepted pushes per producer
  NoMessage    \* content of a slot nobody has written

ASSUME CapacityAssumption == Capacity \in Nat \ {0}
ASSUME PushesAssumption   == MaxPushes \in Nat
ASSUME ProducersAssumption == IsFiniteSet(Producers) /\ Producers # {}
ASSUME ThreadsAssumption  == Consumer \notin Producers
ASSUME MessageAssumption  == NoMessage \notin Producers \X (1 .. MaxPushes)

VARIABLES
  enqueue_pos, \* next position a producer reserves
  dequeue_pos, \* next position the consumer reads (private to the consumer)
  sequence,    \* sequence number of each slot
  value,       \* content of each slot
  closed,      \* closed_
  pc,          \* where each thread is inside Push, Pop or Close
  pos,         \* the local variable pos of each producer in Push
  pushed,      \* reservations of each producer: its n-th message is <<p, n>>
  remaining,   \* remaining_producers of the pipeline
  delivered,   \* messages Pop handed to the consumer, in order
  lost         \* a notification fired between a waiter's test and its sleep

ringVars   == <<enqueue_pos, dequeue_pos, sequence, value>>
callerVars == <<pos, pushed, remaining, delivered>>
vars       == <<ringVars, closed, pc, callerVars, lost>>

Threads  == Producers \cup {Consumer}
Slots    == 0 .. Capacity - 1
Messages == Producers \X (1 .. MaxPushes)
Index(n) == n % Capacity

ProducerPCs == {"idle", "push_closed", "push_load", "push_cas", "push_write",
                "push_publish", "push_notify", "push_lock", "push_pred",
                "push_block", "push_wait", "refused",
                "close", "close_empty", "close_full", "done"}
ConsumerPCs == {"idle", "pop_load", "pop_take", "pop_free", "pop_notify",
                "pop_closed", "pop_lock", "pop_pred", "pop_block", "pop_wait",
                "close", "close_empty", "close_full", "ended"}

\* CanProducerReserveSlot: the slot of the next position is free or was taken meanwhile.
CanProducerReserveSlot == sequence[Index(enqueue_pos)] >= enqueue_pos

\* IsCurrentSlotReadable: the producer of the next position to read has published it.
IsCurrentSlotReadable == sequence[Index(dequeue_pos)] = dequeue_pos + 1

\* A producer inside the wait of Push holds not_full_mutex_ until it sleeps.
NotFullMutexFree == \A q \in Producers : pc[q] \notin {"push_pred", "push_block"}

-----------------------------------------------------------------------------
Init ==
  /\ enqueue_pos = 0
  /\ dequeue_pos = 0
  /\ sequence = [i \in Slots |-> i]
  /\ value = [i \in Slots |-> NoMessage]
  /\ closed = FALSE
  /\ pc = [t \in Threads |-> "idle"]
  /\ pos = [p \in Producers |-> 0]
  /\ pushed = [p \in Producers |-> 0]
  /\ remaining = Cardinality(Producers)
  /\ delivered = <<>>
  /\ lost = FALSE

Goto(t, from, to) == pc[t] = from /\ pc' = [pc EXCEPT ![t] = to]

-----------------------------------------------------------------------------
(* Push *)

BeginPush(p) ==
  /\ pushed[p] < MaxPushes
  /\ Goto(p, "idle", "push_closed")
  /\ UNCHANGED <<ringVars, closed, callerVars, lost>>

PushCheckClosed(p) ==
  /\ Goto(p, "push_closed", IF closed THEN "refused" ELSE "push_load")
  /\ UNCHANGED <<ringVars, closed, callerVars, lost>>

\* Mutant of PushLoad: a slot of the previous lap counts as free.
PushLoadOverwrites(p) ==
  /\ Goto(p, "push_load", IF sequence[Index(enqueue_pos)] <= enqueue_pos THEN "push_cas"
                          ELSE "push_closed")
  /\ pos' = [pos EXCEPT ![p] = enqueue_pos]
  /\ UNCHANGED <<ringVars, closed, pushed, remaining, delivered, lost>>

\* The two loads of one iteration.  They are one step: a compare-exchange that
\* succeeds shows that enqueue_pos_ did not move between them.
PushLoad(p) ==
  LET diff == sequence[Index(enqueue_pos)] - enqueue_pos
  IN  /\ Goto(p, "push_load", IF diff = 0 THEN "push_cas"
                              ELSE IF diff < 0 THEN "push_lock"
                              ELSE "push_closed")
      /\ pos' = [pos EXCEPT ![p] = enqueue_pos]
      /\ UNCHANGED <<ringVars, closed, pushed, remaining, delivered, lost>>

\* Mutant of PushReserve: a store instead of a compare-exchange.
PushReserveByStore(p) ==
  /\ Goto(p, "push_cas", "push_write")
  /\ enqueue_pos' = pos[p] + 1
  /\ pushed' = [pushed EXCEPT ![p] = @ + 1]
  /\ UNCHANGED <<dequeue_pos, sequence, value, closed, pos, remaining, delivered, lost>>

\* compare_exchange_weak that succeeds: position pos[p] belongs to p.
PushReserve(p) ==
  /\ enqueue_pos = pos[p]
  /\ Goto(p, "push_cas", "push_write")
  /\ enqueue_pos' = enqueue_pos + 1
  /\ pushed' = [pushed EXCEPT ![p] = @ + 1]
  /\ UNCHANGED <<dequeue_pos, sequence, value, closed, pos, remaining, delivered, lost>>

\* compare_exchange_weak that fails, because another producer was faster or spuriously.
PushRetry(p) ==
  /\ Goto(p, "push_cas", "push_closed")
  /\ UNCHANGED <<ringVars, closed, callerVars, lost>>

PushWrite(p) ==
  /\ Goto(p, "push_write", "push_publish")
  /\ value' = [value EXCEPT ![Index(pos[p])] = <<p, pushed[p]>>]
  /\ UNCHANGED <<enqueue_pos, dequeue_pos, sequence, closed, callerVars, lost>>

PushPublish(p) ==
  /\ Goto(p, "push_publish", "push_notify")
  /\ sequence' = [sequence EXCEPT ![Index(pos[p])] = pos[p] + 1]
  /\ UNCHANGED <<enqueue_pos, dequeue_pos, value, closed, callerVars, lost>>

\* not_empty_cv_.notify_one(), without not_empty_mutex_.
PushNotify(p) ==
  /\ pc[p] = "push_notify"
  /\ pc' = [pc EXCEPT ![p] = "idle",
                      ![Consumer] = IF @ = "pop_wait" THEN "pop_lock" ELSE @]
  /\ lost' = (lost \/ pc[Consumer] = "pop_block")
  /\ UNCHANGED <<ringVars, closed, callerVars>>

\* not_full_cv_.wait: take the mutex, then the first half of the predicate.
PushWaitLock(p) ==
  /\ NotFullMutexFree
  /\ Goto(p, "push_lock", IF closed THEN "push_closed" ELSE "push_pred")
  /\ UNCHANGED <<ringVars, closed, callerVars, lost>>

\* The second half of the predicate; false means go to sleep.
PushWaitTest(p) ==
  /\ Goto(p, "push_pred", IF CanProducerReserveSlot THEN "push_closed" ELSE "push_block")
  /\ UNCHANGED <<ringVars, closed, callerVars, lost>>

\* The condition variable releases the mutex and enqueues the thread atomically.
PushSleep(p) ==
  /\ Goto(p, "push_block", "push_wait")
  /\ UNCHANGED <<ringVars, closed, callerVars, lost>>

-----------------------------------------------------------------------------
(* Pop *)

BeginPop ==
  /\ Goto(Consumer, "idle", "pop_load")
  /\ UNCHANGED <<ringVars, closed, callerVars, lost>>

PopLoad ==
  LET diff == sequence[Index(dequeue_pos)] - (dequeue_pos + 1)
  IN  /\ Goto(Consumer, "pop_load", IF diff = 0 THEN "pop_take"
                                    ELSE IF diff < 0 THEN "pop_closed"
                                    ELSE "pop_load")
      /\ UNCHANGED <<ringVars, closed, callerVars, lost>>

PopTake ==
  /\ Goto(Consumer, "pop_take", "pop_free")
  /\ delivered' = Append(delivered, value[Index(dequeue_pos)])
  /\ UNCHANGED <<ringVars, closed, pos, pushed, remaining, lost>>

\* Mutant of PopFree: the slot's next number is one too high.
PopFreeOffByOne ==
  /\ Goto(Consumer, "pop_free", "pop_notify")
  /\ sequence' = [sequence EXCEPT ![Index(dequeue_pos)] = dequeue_pos + Capacity + 1]
  /\ dequeue_pos' = dequeue_pos + 1
  /\ UNCHANGED <<enqueue_pos, value, closed, callerVars, lost>>

\* The slot goes to the producers of the next lap; dequeue_pos_ is private.
PopFree ==
  /\ Goto(Consumer, "pop_free", "pop_notify")
  /\ sequence' = [sequence EXCEPT ![Index(dequeue_pos)] = dequeue_pos + Capacity]
  /\ dequeue_pos' = dequeue_pos + 1
  /\ UNCHANGED <<enqueue_pos, value, closed, callerVars, lost>>

\* Mutant of PopNotify: no notification.
PopNotifyForgotten ==
  /\ Goto(Consumer, "pop_notify", "idle")
  /\ UNCHANGED <<ringVars, closed, callerVars, lost>>

\* not_full_cv_.notify_one(), without not_full_mutex_: some sleeper, if any, wakes.
PopNotify ==
  LET sleepers == {p \in Producers : pc[p] = "push_wait"}
  IN  /\ pc[Consumer] = "pop_notify"
      /\ \/ \E p \in sleepers :
              /\ pc' = [pc EXCEPT ![Consumer] = "idle", ![p] = "push_lock"]
              /\ lost' = lost
         \/ /\ sleepers = {}
            /\ pc' = [pc EXCEPT ![Consumer] = "idle"]
            /\ lost' = (lost \/ \E p \in Producers : pc[p] = "push_block")
      /\ UNCHANGED <<ringVars, closed, callerVars>>

\* Nothing to read: a closed queue ends the stream, an open one is waited for.
PopCheckClosed ==
  /\ Goto(Consumer, "pop_closed", IF closed THEN "ended" ELSE "pop_lock")
  /\ UNCHANGED <<ringVars, closed, callerVars, lost>>

PopWaitLock ==
  /\ Goto(Consumer, "pop_lock", IF closed THEN "pop_load" ELSE "pop_pred")
  /\ UNCHANGED <<ringVars, closed, callerVars, lost>>

PopWaitTest ==
  /\ Goto(Consumer, "pop_pred", IF IsCurrentSlotReadable THEN "pop_load" ELSE "pop_block")
  /\ UNCHANGED <<ringVars, closed, callerVars, lost>>

PopSleep ==
  /\ Goto(Consumer, "pop_block", "pop_wait")
  /\ UNCHANGED <<ringVars, closed, callerVars, lost>>

-----------------------------------------------------------------------------
(* Close, and the condition variables' right to wake a sleeper for no reason *)

AfterClose(t) == IF t = Consumer THEN "idle" ELSE "done"

CloseExchange(t) ==
  /\ Goto(t, "close", IF closed THEN AfterClose(t) ELSE "close_empty")
  /\ closed' = TRUE
  /\ UNCHANGED <<ringVars, callerVars, lost>>

\* Mutant of CloseNotifyEmpty: no notification.
CloseNotifyEmptyForgotten(t) ==
  /\ Goto(t, "close_empty", "close_full")
  /\ UNCHANGED <<ringVars, closed, callerVars, lost>>

\* not_empty_cv_.notify_all()
CloseNotifyEmpty(t) ==
  /\ pc[t] = "close_empty"
  /\ pc' = [pc EXCEPT ![Consumer] = IF @ = "pop_wait" THEN "pop_lock" ELSE @,
                      ![t] = "close_full"]
  /\ lost' = (lost \/ pc[Consumer] \in {"pop_pred", "pop_block"})
  /\ UNCHANGED <<ringVars, closed, callerVars>>

\* not_full_cv_.notify_all()
CloseNotifyFull(t) ==
  /\ pc[t] = "close_full"
  /\ pc' = [u \in Threads |-> IF u = t THEN AfterClose(t)
                              ELSE IF pc[u] = "push_wait" THEN "push_lock"
                              ELSE pc[u]]
  /\ lost' = (lost \/ \E p \in Producers : pc[p] \in {"push_pred", "push_block"})
  /\ UNCHANGED <<ringVars, closed, callerVars>>

SpuriousWakeup(t) ==
  /\ \/ Goto(t, "push_wait", "push_lock")
     \/ Goto(t, "pop_wait", "pop_lock")
  /\ UNCHANGED <<ringVars, closed, callerVars, lost>>

-----------------------------------------------------------------------------
(* The pipelines around the queue *)

\* Mutant of Retire: the producer counts itself out and goes on.
RetireAndGoOn(p) ==
  /\ Goto(p, "idle", IF remaining = 1 THEN "close" ELSE "idle")
  /\ remaining' = remaining - 1
  /\ UNCHANGED <<ringVars, closed, pos, pushed, delivered, lost>>

\* remaining_producers.fetch_sub(1) == 1: the last producer closes.
Retire(p) ==
  /\ Goto(p, "idle", IF remaining = 1 THEN "close" ELSE "done")
  /\ remaining' = remaining - 1
  /\ UNCHANGED <<ringVars, closed, pos, pushed, delivered, lost>>

\* The catch blocks of a producer: its error message was its last Push; it closes.
Fail(p) ==
  /\ pushed[p] > 0
  /\ Goto(p, "idle", "close")
  /\ UNCHANGED <<ringVars, closed, callerVars, lost>>

\* The consumer met an error in a message or in its own write: it closes and goes on popping.
ConsumerClose ==
  /\ delivered # <<>> /\ ~closed
  /\ Goto(Consumer, "idle", "close")
  /\ UNCHANGED <<ringVars, closed, callerVars, lost>>

-----------------------------------------------------------------------------
Close(t) == CloseExchange(t) \/ CloseNotifyEmpty(t) \/ CloseNotifyFull(t)

PushStep(p) ==
  \/ PushCheckClosed(p) \/ PushLoad(p) \/ PushReserve(p) \/ PushRetry(p)
  \/ PushWrite(p) \/ PushPublish(p) \/ PushNotify(p)
  \/ PushWaitLock(p) \/ PushWaitTest(p) \/ PushSleep(p)

PopStep ==
  \/ PopLoad \/ PopTake \/ PopFree \/ PopNotify \/ PopCheckClosed
  \/ PopWaitLock \/ PopWaitTest \/ PopSleep

ProducerStep(p) == BeginPush(p) \/ PushStep(p) \/ Retire(p) \/ Fail(p) \/ Close(p)
ConsumerStep    == BeginPop \/ PopStep \/ ConsumerClose \/ Close(Consumer)

Next ==
  \/ \E p \in Producers : ProducerStep(p)
  \/ ConsumerStep
  \/ \E t \in Threads : SpuriousWakeup(t)

Spec == Init /\ [][Next]_vars

\* Every thread is scheduled; a mutex is granted and a weak compare-exchange
\* succeeds when tried often enough.  Nothing is assumed of spurious wakeups.
Fairness ==
  /\ \A p \in Producers : /\ WF_vars(ProducerStep(p))
                          /\ SF_vars(PushWaitLock(p))
                          /\ SF_vars(PushReserve(p))
  /\ WF_vars(ConsumerStep)

FairSpec == Spec /\ Fairness

-----------------------------------------------------------------------------
(* The queue as a channel: accepted means reserved by the compare-exchange, *)
(* received means moved out of the slot.                                    *)

Writing(p) == pc[p] \in {"push_write", "push_publish"}
Reading    == pc[Consumer] \in {"pop_take", "pop_free"}

FirstUnread == IF pc[Consumer] = "pop_free" THEN dequeue_pos + 1 ELSE dequeue_pos

MessageAt(n) ==
  IF sequence[Index(n)] = n + 1
  THEN value[Index(n)]
  ELSE LET owner == CHOOSE p \in Producers : Writing(p) /\ pos[p] = n
       IN  <<owner, pushed[owner]>>

Channel == INSTANCE BoundedChannel WITH
  channel  <- [i \in 1 .. enqueue_pos - FirstUnread |-> MessageAt(FirstUnread + i - 1)],
  sent     <- pushed,
  received <- delivered,
  writing  <- {p \in Producers : Writing(p)},
  shut     <- closed,
  receiver <- CASE pc[Consumer] = "ended" -> "ended"
                [] pc[Consumer] = "pop_closed" -> "empty"
                [] OTHER -> "looking"

-----------------------------------------------------------------------------
(* Properties *)

\* The ring implements the channel: no accepted message is overwritten, dropped
\* or handed over twice while Pop goes on, and acceptance order is delivery order.
ImplementsChannel == Channel!Spec

TypeOK ==
  /\ enqueue_pos \in Nat
  /\ dequeue_pos \in Nat
  /\ sequence \in [Slots -> Nat]
  /\ value \in [Slots -> Messages \cup {NoMessage}]
  /\ closed \in BOOLEAN
  /\ pc \in [Threads -> ProducerPCs \cup ConsumerPCs]
  /\ \A p \in Producers : pc[p] \in ProducerPCs
  /\ pc[Consumer] \in ConsumerPCs
  /\ pos \in [Producers -> Nat]
  /\ pushed \in [Producers -> 0 .. MaxPushes]
  /\ remaining \in 0 .. Cardinality(Producers)
  /\ delivered \in Seq(Messages \cup {NoMessage})
  /\ lost \in BOOLEAN

\* Two threads never access the value of one slot at the same time: a producer
\* between its reservation and its publication owns the slot alone, and the
\* consumer between its load of the sequence and its release of the slot does.
SlotExclusive ==
  /\ \A p, q \in Producers :
       p # q /\ Writing(p) /\ Writing(q) => Index(pos[p]) # Index(pos[q])
  /\ \A p \in Producers :
       Writing(p) /\ Reading => Index(pos[p]) # Index(dequeue_pos)

\* Nobody sleeps while there is something to do and nobody left to say so: a
\* sleeping consumer whose slot is readable, or whose queue is closed, will be
\* notified by a thread that is about to, and so will one sleeping producer
\* when there is room, and every sleeping producer when the queue is closed,
\* unless an earlier notification was lost.
NoSleepOverWork ==
  ~lost =>
    /\ pc[Consumer] = "pop_wait" /\ IsCurrentSlotReadable
         => \E p \in Producers : pc[p] = "push_notify"
    /\ pc[Consumer] = "pop_wait" /\ closed
         => \E t \in Threads : pc[t] = "close_empty"
    /\ (\E p \in Producers : pc[p] = "push_wait") /\ closed
         => \E t \in Threads : pc[t] \in {"close_empty", "close_full"}
    /\ (\E p \in Producers : pc[p] = "push_wait") /\ CanProducerReserveSlot /\ ~closed
         => \/ pc[Consumer] = "pop_notify"
            \/ \E p \in Producers :
                 pc[p] \in {"push_closed", "push_load", "push_cas", "push_lock", "push_pred"}

\* Every thread finishes: all producers return and the consumer sees the end.
Finished == /\ \A p \in Producers : pc[p] \in {"refused", "done"}
            /\ pc[Consumer] = "ended"

\* A lost notification is the only way the queue can hang: without one every
\* producer returns and the consumer's last Pop returns false.
TerminatesUnlessWakeupLost == ([]~lost) => <>Finished

\* The promise of the queue with no proviso: everybody gets out.
Terminates == <>Finished

\* Accepted and not yet received messages never exceed the capacity, so that no
\* producer writes a slot whose message is unread.  It takes two slots at least:
\* in a ring of one, the sequence number that says "published" for one lap says
\* "free" for the next.
WithinCapacity == enqueue_pos - FirstUnread <= Capacity
=============================================================================
