------------------------ MODULE BoundedMpscQueue_proofs ------------------------
(***************************************************************************)
(* detail::BoundedMpscQueue for any number of producers and every capacity *)
(* of at least two: slots have one owner at a time, no unread message is   *)
(* overwritten, and the ring implements the FIFO channel.                  *)
(***************************************************************************)
EXTENDS BoundedMpscQueue, FiniteSetTheorems, SequenceTheorems, TLAPS

-----------------------------------------------------------------------------
(* Positions and slots *)

LEMMA DivMod ==
  ASSUME NEW m \in Nat, NEW C \in Nat, C > 0
  PROVE  \E q \in Int : m = C * q + (m % C)
<1>1. m = C * (m \div C) + (m % C)
  BY Z3
<1> QED
  BY <1>1

LEMMA PositiveMultiple ==
  ASSUME NEW C \in Nat, C > 0, NEW k \in Int
  PROVE  C * k > 0 => C * k >= C
<1>1. C * k > 0 => k >= 1
  OBVIOUS
<1> QED
  BY <1>1

\* Two positions with one slot are a lap apart.
LEMMA SameSlot ==
  ASSUME NEW m \in Nat, NEW n \in Nat, Index(m) = Index(n), m < n
  PROVE  n - m >= Capacity
<1>0. Capacity \in Nat /\ Capacity > 0
  BY CapacityAssumption
<1> USE <1>0 DEF Index
<1>1. PICK a \in Int : m = Capacity * a + (m % Capacity)
  BY DivMod
<1>2. PICK b \in Int : n = Capacity * b + (n % Capacity)
  BY DivMod
<1>3. n - m = Capacity * (b - a)
  BY <1>1, <1>2
<1> QED
  BY <1>3, PositiveMultiple

LEMMA IndexInSlots == ASSUME NEW n \in Nat PROVE Index(n) \in Slots
BY CapacityAssumption DEF Index, Slots

\* A position and the one a lap later have the same slot.
LEMMA NextLap == ASSUME NEW m \in Nat PROVE Index(m + Capacity) = Index(m)
<1>0. Capacity \in Nat /\ Capacity > 0
  BY CapacityAssumption
<1> USE <1>0
<1> DEFINE r == m % Capacity
           s == (m + Capacity) % Capacity
<1>1. PICK a \in Int : m = Capacity * a + r
  BY DivMod
<1>2. PICK b \in Int : m + Capacity = Capacity * b + s
  BY DivMod
<1>3. r \in 0 .. Capacity - 1 /\ s \in 0 .. Capacity - 1
  OBVIOUS
<1> HIDE DEF r, s
<1>4. s - r = Capacity * (a + 1 - b) /\ r - s = Capacity * (b - a - 1)
  <2>1. /\ Capacity * (a + 1 - b) = Capacity * a + Capacity - Capacity * b
        /\ Capacity * (b - a - 1) = Capacity * b - Capacity * a - Capacity
    OBVIOUS
  <2> QED
    BY <1>1, <1>2, <1>3, <2>1
<1>5. ~ (Capacity * (a + 1 - b) > 0)
  BY <1>3, <1>4, PositiveMultiple, a + 1 - b \in Int
<1>6. ~ (Capacity * (b - a - 1) > 0)
  BY <1>3, <1>4, PositiveMultiple, b - a - 1 \in Int
<1>7. r = s
  BY <1>3, <1>4, <1>5, <1>6
<1> QED
  BY <1>7 DEF r, s, Index

-----------------------------------------------------------------------------
(* Types *)

\* Before its reservation a producer has a message left; after it, it has sent one.
PushedInv ==
  \A p \in Producers :
    /\ pc[p] \in {"push_closed", "push_load", "push_cas", "push_lock", "push_pred",
                  "push_block", "push_wait"} => pushed[p] < MaxPushes
    /\ Writing(p) => pushed[p] > 0

Active == {p \in Producers : pc[p] \notin {"close", "close_empty", "close_full", "done", "refused"}}

\* Producers that have not ended are still counted in remaining_producers.
RemainingInv == remaining \in Int /\ Cardinality(Active) <= remaining /\ remaining <= Cardinality(Producers)

RingType ==
  /\ enqueue_pos \in Nat
  /\ dequeue_pos \in Nat
  /\ sequence \in [Slots -> Nat]
  /\ value \in [Slots -> Messages \cup {NoMessage}]
  /\ pos \in [Producers -> Nat]
  /\ pushed \in [Producers -> 0 .. MaxPushes]
  /\ delivered \in Seq(Messages \cup {NoMessage})

ControlType ==
  /\ closed \in BOOLEAN
  /\ lost \in BOOLEAN
  /\ pc \in [Threads -> ProducerPCs \cup ConsumerPCs]
  /\ \A p \in Producers : pc[p] \in ProducerPCs
  /\ pc[Consumer] \in ConsumerPCs

TypeInv == RingType /\ ControlType /\ PushedInv

LEMMA InitType == Init => TypeInv
<1> SUFFICES ASSUME Init PROVE TypeInv
  OBVIOUS
<1> USE CapacityAssumption, PushesAssumption, ThreadsAssumption DEF Init
<1>1. RingType
  BY DEF RingType, Slots
<1>2. ControlType
  BY DEF ControlType, Threads, ProducerPCs, ConsumerPCs
<1>3. PushedInv
  BY DEF PushedInv, Writing, Threads
<1> QED
  BY <1>1, <1>2, <1>3 DEF TypeInv

LEMMA StepControl == TypeInv /\ [Next]_vars => ControlType'
<1> SUFFICES ASSUME TypeInv, [Next]_vars PROVE ControlType'
  OBVIOUS
<1> USE ThreadsAssumption DEF TypeInv, ControlType, Threads, ProducerPCs, ConsumerPCs, Goto
<1>1. ASSUME NEW p \in Producers, ProducerStep(p) PROVE ControlType'
  <2>1. CASE BeginPush(p) \/ Retire(p) \/ Fail(p)
    BY <2>1 DEF BeginPush, Retire, Fail
  <2>2. CASE PushCheckClosed(p) \/ PushLoad(p) \/ PushReserve(p) \/ PushRetry(p)
    BY <2>2 DEF PushCheckClosed, PushLoad, PushReserve, PushRetry
  <2>3. CASE PushWrite(p) \/ PushPublish(p) \/ PushNotify(p)
    BY <2>3, ZenonT(30) DEF PushWrite, PushPublish, PushNotify
  <2>4. CASE PushWaitLock(p) \/ PushWaitTest(p) \/ PushSleep(p)
    BY <2>4 DEF PushWaitLock, PushWaitTest, PushSleep
  <2>5. CASE CloseExchange(p)
    BY <2>5 DEF CloseExchange, AfterClose
  <2>6. CASE CloseNotifyEmpty(p)
    BY <2>6 DEF CloseNotifyEmpty
  <2>7. CASE CloseNotifyFull(p)
    BY <2>7 DEF CloseNotifyFull, AfterClose
  <2> QED
    BY <1>1, <2>1, <2>2, <2>3, <2>4, <2>5, <2>6, <2>7 DEF ProducerStep, PushStep, Close
<1>2. ASSUME ConsumerStep PROVE ControlType'
  <2>1. CASE BeginPop \/ ConsumerClose \/ PopLoad \/ PopTake \/ PopFree
    BY <2>1 DEF BeginPop, ConsumerClose, PopLoad, PopTake, PopFree
  <2>2. CASE PopNotify
    BY <2>2 DEF PopNotify
  <2>3. CASE PopCheckClosed \/ PopWaitLock \/ PopWaitTest \/ PopSleep
    BY <2>3 DEF PopCheckClosed, PopWaitLock, PopWaitTest, PopSleep
  <2>4. CASE CloseExchange(Consumer)
    BY <2>4 DEF CloseExchange, AfterClose
  <2>5. CASE CloseNotifyEmpty(Consumer)
    BY <2>5 DEF CloseNotifyEmpty
  <2>6. CASE CloseNotifyFull(Consumer)
    BY <2>6 DEF CloseNotifyFull, AfterClose
  <2> QED
    BY <1>2, <2>1, <2>2, <2>3, <2>4, <2>5, <2>6 DEF ConsumerStep, PopStep, Close
<1>3. ASSUME NEW t \in Threads, SpuriousWakeup(t) PROVE ControlType'
  BY <1>3 DEF SpuriousWakeup
<1>4. CASE UNCHANGED vars
  BY <1>4 DEF vars
<1> QED
  BY <1>1, <1>2, <1>3, <1>4 DEF Next

\* The actions that change neither the ring nor what the producers have sent.
ControlStep(p) ==
  \/ BeginPush(p) \/ Fail(p) \/ PushCheckClosed(p) \/ PushRetry(p) \/ PushNotify(p)
  \/ PushWaitLock(p) \/ PushWaitTest(p) \/ PushSleep(p)

LEMMA ControlStepFrame ==
  ASSUME NEW p \in Producers, ControlStep(p)
  PROVE  UNCHANGED <<ringVars, closed, callerVars>>
BY DEF ControlStep, BeginPush, Fail, PushCheckClosed, PushRetry, PushNotify, PushWaitLock,
       PushWaitTest, PushSleep

LEMMA CloseFrame ==
  ASSUME NEW t \in Threads, Close(t)
  PROVE  UNCHANGED <<ringVars, callerVars>>
BY DEF Close, CloseExchange, CloseNotifyEmpty, CloseNotifyFull

LEMMA StepRingType == TypeInv /\ [Next]_vars => RingType'
<1> SUFFICES ASSUME TypeInv, [Next]_vars PROVE RingType'
  OBVIOUS
<1> USE DEF TypeInv, RingType
<1>u. ASSUME UNCHANGED <<ringVars, pos, pushed, delivered>> PROVE RingType'
  BY <1>u DEF ringVars
<1>1. ASSUME NEW p \in Producers, ProducerStep(p) PROVE RingType'
  <2>1. CASE ControlStep(p)
    BY <2>1, <1>u, ControlStepFrame DEF callerVars
  <2>2. CASE PushLoad(p)
    BY <2>2 DEF PushLoad, ringVars
  <2>3. CASE PushReserve(p)
    <3>1. pushed[p] + 1 \in 0 .. MaxPushes
      BY <2>3, PushesAssumption DEF PushReserve, Goto, PushedInv
    <3> QED
      BY <2>3, <3>1 DEF PushReserve
  <2>4. CASE PushWrite(p)
    <3>1. <<p, pushed[p]>> \in Messages
      BY <2>4, PushesAssumption DEF PushWrite, Goto, PushedInv, Writing, Messages
    <3>2. value' \in [Slots -> Messages \cup {NoMessage}]
      BY <2>4, <3>1 DEF PushWrite
    <3> QED
      BY <2>4, <3>2 DEF PushWrite, callerVars
  <2>5. CASE PushPublish(p)
    <3>1. pos[p] + 1 \in Nat
      OBVIOUS
    <3>2. sequence' \in [Slots -> Nat]
      BY <2>5, <3>1 DEF PushPublish
    <3> QED
      BY <2>5, <3>2 DEF PushPublish, callerVars
  <2>6. CASE Retire(p)
    BY <2>6, <1>u DEF Retire
  <2>7. CASE Close(p)
    BY <2>7, <1>u, CloseFrame DEF callerVars, Threads
  <2> QED
    BY <1>1, <2>1, <2>2, <2>3, <2>4, <2>5, <2>6, <2>7 DEF ProducerStep, PushStep, ControlStep
<1>2. ASSUME ConsumerStep PROVE RingType'
  <2>1. CASE PopTake
    BY <2>1, IndexInSlots, SMTT(30) DEF PopTake, ringVars
  <2>2. CASE PopFree
    <3>1. dequeue_pos + Capacity \in Nat /\ dequeue_pos + 1 \in Nat
      BY CapacityAssumption
    <3>2. sequence' \in [Slots -> Nat]
      BY <2>2, <3>1 DEF PopFree
    <3> QED
      BY <2>2, <3>1, <3>2 DEF PopFree, callerVars
  <2>3. CASE Close(Consumer)
    BY <2>3, <1>u, CloseFrame DEF callerVars, Threads
  <2> QED
    BY <1>2, <1>u, <2>1, <2>2, <2>3
    DEF ConsumerStep, BeginPop, PopStep, PopLoad, PopNotify, PopCheckClosed, PopWaitLock,
        PopWaitTest, PopSleep, ConsumerClose, callerVars
<1>3. ASSUME NEW t \in Threads, SpuriousWakeup(t) PROVE RingType'
  BY <1>3, <1>u DEF SpuriousWakeup, callerVars
<1>4. CASE UNCHANGED vars
  BY <1>4, <1>u DEF vars, callerVars
<1> QED
  BY <1>1, <1>2, <1>3, <1>4 DEF Next

LEMMA StepPushed == TypeInv /\ [Next]_vars => PushedInv'
<1> SUFFICES ASSUME TypeInv, [Next]_vars PROVE PushedInv'
  OBVIOUS
<1> USE ThreadsAssumption DEF TypeInv, RingType, ControlType, PushedInv, Writing, Threads, Goto, callerVars
<1>1. ASSUME NEW p \in Producers, ProducerStep(p) PROVE PushedInv'
  <2>1. CASE BeginPush(p) \/ Retire(p) \/ Fail(p)
    BY <2>1 DEF BeginPush, Retire, Fail
  <2>2. CASE PushCheckClosed(p) \/ PushLoad(p) \/ PushRetry(p)
    BY <2>2 DEF PushCheckClosed, PushLoad, PushRetry
  <2>3. CASE PushReserve(p)
    BY <2>3 DEF PushReserve
  <2>4. CASE PushWrite(p) \/ PushPublish(p) \/ PushNotify(p)
    BY <2>4 DEF PushWrite, PushPublish, PushNotify
  <2>5. CASE PushWaitLock(p) \/ PushWaitTest(p) \/ PushSleep(p)
    BY <2>5 DEF PushWaitLock, PushWaitTest, PushSleep
  <2>6. CASE CloseExchange(p) \/ CloseNotifyEmpty(p)
    BY <2>6 DEF CloseExchange, CloseNotifyEmpty, AfterClose
  <2>7. CASE CloseNotifyFull(p)
    BY <2>7 DEF CloseNotifyFull, AfterClose
  <2> QED
    BY <1>1, <2>1, <2>2, <2>3, <2>4, <2>5, <2>6, <2>7 DEF ProducerStep, PushStep, Close
<1>2. ASSUME ConsumerStep PROVE PushedInv'
  <2>1. CASE BeginPop \/ ConsumerClose \/ PopLoad \/ PopTake \/ PopFree
    BY <2>1 DEF BeginPop, ConsumerClose, PopLoad, PopTake, PopFree
  <2>2. CASE PopNotify
    BY <2>2 DEF PopNotify
  <2>3. CASE PopCheckClosed \/ PopWaitLock \/ PopWaitTest \/ PopSleep
    BY <2>3 DEF PopCheckClosed, PopWaitLock, PopWaitTest, PopSleep
  <2>4. CASE CloseExchange(Consumer) \/ CloseNotifyEmpty(Consumer)
    BY <2>4 DEF CloseExchange, CloseNotifyEmpty, AfterClose
  <2>5. CASE CloseNotifyFull(Consumer)
    BY <2>5 DEF CloseNotifyFull, AfterClose
  <2> QED
    BY <1>2, <2>1, <2>2, <2>3, <2>4, <2>5 DEF ConsumerStep, PopStep, Close
<1>3. ASSUME NEW t \in Threads, SpuriousWakeup(t) PROVE PushedInv'
  BY <1>3 DEF SpuriousWakeup
<1>4. CASE UNCHANGED vars
  BY <1>4 DEF vars
<1> QED
  BY <1>1, <1>2, <1>3, <1>4 DEF Next

LEMMA StepType == TypeInv /\ [Next]_vars => TypeInv'
BY StepRingType, StepControl, StepPushed DEF TypeInv

LEMMA ActiveFinite ==
  /\ IsFiniteSet(Active) /\ Cardinality(Active) \in Nat
  /\ Cardinality(Producers) \in Nat /\ Cardinality(Active) <= Cardinality(Producers)
BY ProducersAssumption, FS_Subset, FS_CardinalityType DEF Active

\* Only Retire counts a producer out, and nobody becomes active again.
LEMMA ActiveShrinks ==
  ASSUME TypeInv, [Next]_vars
  PROVE  \/ Active' \subseteq Active /\ remaining' = remaining
         \/ \E p \in Active : Active' \subseteq Active \ {p} /\ remaining' = remaining - 1
<1> USE ThreadsAssumption DEF TypeInv, ControlType, Threads, Goto, Active, callerVars
<1>1. ASSUME NEW p \in Producers, ProducerStep(p), ~Retire(p)
      PROVE  Active' \subseteq Active /\ remaining' = remaining
  <2>1. CASE BeginPush(p) \/ Fail(p)
    BY <2>1 DEF BeginPush, Fail
  <2>2. CASE PushCheckClosed(p) \/ PushLoad(p) \/ PushReserve(p) \/ PushRetry(p)
    BY <2>2 DEF PushCheckClosed, PushLoad, PushReserve, PushRetry
  <2>3. CASE PushWrite(p) \/ PushPublish(p) \/ PushNotify(p)
    BY <2>3 DEF PushWrite, PushPublish, PushNotify
  <2>4. CASE PushWaitLock(p) \/ PushWaitTest(p) \/ PushSleep(p)
    BY <2>4 DEF PushWaitLock, PushWaitTest, PushSleep
  <2>5. CASE CloseExchange(p) \/ CloseNotifyEmpty(p)
    BY <2>5 DEF CloseExchange, CloseNotifyEmpty, AfterClose
  <2>6. CASE CloseNotifyFull(p)
    BY <2>6 DEF CloseNotifyFull, AfterClose
  <2> QED
    BY <1>1, <2>1, <2>2, <2>3, <2>4, <2>5, <2>6 DEF ProducerStep, PushStep, Close
<1>2. ASSUME NEW p \in Producers, Retire(p)
      PROVE  p \in Active /\ Active' \subseteq Active \ {p} /\ remaining' = remaining - 1
  BY <1>2 DEF Retire
<1>3. ASSUME ConsumerStep PROVE Active' \subseteq Active /\ remaining' = remaining
  <2>1. CASE BeginPop \/ ConsumerClose \/ PopLoad \/ PopTake \/ PopFree
    BY <2>1 DEF BeginPop, ConsumerClose, PopLoad, PopTake, PopFree
  <2>2. CASE PopNotify
    BY <2>2 DEF PopNotify
  <2>3. CASE PopCheckClosed \/ PopWaitLock \/ PopWaitTest \/ PopSleep
    BY <2>3 DEF PopCheckClosed, PopWaitLock, PopWaitTest, PopSleep
  <2>4. CASE CloseExchange(Consumer) \/ CloseNotifyEmpty(Consumer)
    BY <2>4 DEF CloseExchange, CloseNotifyEmpty, AfterClose
  <2>5. CASE CloseNotifyFull(Consumer)
    BY <2>5 DEF CloseNotifyFull, AfterClose
  <2> QED
    BY <1>3, <2>1, <2>2, <2>3, <2>4, <2>5 DEF ConsumerStep, PopStep, Close
<1>4. ASSUME NEW t \in Threads, SpuriousWakeup(t) PROVE Active' \subseteq Active /\ remaining' = remaining
  BY <1>4 DEF SpuriousWakeup
<1>5. CASE UNCHANGED vars
  BY <1>5 DEF vars
<1> QED
  BY <1>1, <1>2, <1>3, <1>4, <1>5 DEF Next

LEMMA InitRemaining == Init => RemainingInv
BY ActiveFinite DEF Init, RemainingInv

LEMMA StepRemaining == TypeInv /\ RemainingInv /\ [Next]_vars => RemainingInv'
<1> SUFFICES ASSUME TypeInv, RemainingInv, [Next]_vars PROVE RemainingInv'
  OBVIOUS
<1> USE ActiveFinite DEF RemainingInv
<1>1. ASSUME Active' \subseteq Active, remaining' = remaining PROVE RemainingInv'
  <2>1. Cardinality(Active') <= Cardinality(Active) /\ Cardinality(Active') \in Nat
    BY <1>1, FS_Subset, FS_CardinalityType
  <2> QED
    BY <1>1, <2>1
<1>2. ASSUME NEW p \in Active, Active' \subseteq Active \ {p}, remaining' = remaining - 1 PROVE RemainingInv'
  <2>1. IsFiniteSet(Active \ {p}) /\ Cardinality(Active \ {p}) = Cardinality(Active) - 1
    BY FS_RemoveElement
  <2>2. Cardinality(Active') <= Cardinality(Active \ {p}) /\ Cardinality(Active') \in Nat
    BY <1>2, <2>1, FS_Subset, FS_CardinalityType
  <2> QED
    BY <1>2, <2>1, <2>2
<1> QED
  BY <1>1, <1>2, ActiveShrinks

\* Type correctness of the queue and its callers: in particular producers never
\* send more than they have and remaining_producers never falls below zero.
THEOREM TypeCorrect == Spec => []TypeOK
<1>1. Init => TypeInv /\ RemainingInv
  BY InitType, InitRemaining
<1>2. TypeInv /\ RemainingInv /\ [Next]_vars => (TypeInv /\ RemainingInv)'
  BY StepType, StepRemaining
<1>3. TypeInv /\ RemainingInv => TypeOK
  <2> SUFFICES ASSUME TypeInv, RemainingInv PROVE TypeOK
    OBVIOUS
  <2>1. remaining \in 0 .. Cardinality(Producers)
    BY ActiveFinite DEF RemainingInv
  <2> QED
    BY <2>1 DEF TypeInv, RingType, ControlType, TypeOK
<1> QED
  BY <1>1, <1>2, <1>3, PTL DEF Spec

-----------------------------------------------------------------------------
(* The ring: unread positions are published or owned by one writer, the      *)
(* positions after them are free                                             *)

Published(n) == sequence[Index(n)] = n + 1
Free(n)      == sequence[Index(n)] = n
Unread(n)    == dequeue_pos <= n /\ n < enqueue_pos
Owns(p, n)   == Writing(p) /\ pos[p] = n

RingInv ==
  /\ dequeue_pos <= enqueue_pos /\ enqueue_pos <= dequeue_pos + Capacity
  /\ \A n \in Nat : Unread(n) => Published(n) \/ \E p \in Producers : Owns(p, n)
  /\ \A n \in Nat : enqueue_pos <= n /\ n < dequeue_pos + Capacity => Free(n)

OwnerInv ==
  /\ \A p \in Producers : Writing(p) => Unread(pos[p]) /\ Free(pos[p])
  /\ \A p, q \in Producers : p # q /\ Writing(p) /\ Writing(q) => pos[p] # pos[q]

ReadInv == Reading => Unread(dequeue_pos) /\ Published(dequeue_pos)

\* A position loaded for the compare-exchange is still free if it is still next.
ReserveInv ==
  \A p \in Producers : pc[p] = "push_cas" =>
    pos[p] <= enqueue_pos /\ (pos[p] = enqueue_pos => enqueue_pos < dequeue_pos + Capacity)

SlotInv == RingInv /\ OwnerInv /\ ReadInv /\ ReserveInv

\* Positions less than a lap apart have different slots.
LEMMA OneLap ==
  ASSUME TypeInv, NEW m \in Nat, NEW n \in Nat, m # n,
         dequeue_pos <= m, m < dequeue_pos + Capacity,
         dequeue_pos <= n, n < dequeue_pos + Capacity
  PROVE  Index(m) # Index(n)
<1>1. dequeue_pos \in Nat /\ Capacity \in Nat
  BY CapacityAssumption DEF TypeInv, RingType
<1>2. CASE m < n
  BY <1>1, <1>2, SameSlot
<1>3. CASE n < m
  BY <1>1, <1>3, SameSlot
<1> QED
  BY <1>2, <1>3

LEMMA InitSlot == Init => SlotInv
<1> SUFFICES ASSUME Init PROVE SlotInv
  OBVIOUS
<1> USE CapacityAssumption, ThreadsAssumption DEF Init
<1>1. \A n \in Nat : n < Capacity => Index(n) = n /\ n \in Slots
  BY DEF Index, Slots
<1>2. RingInv
  BY <1>1 DEF RingInv, Unread, Free
<1>3. OwnerInv /\ ReadInv /\ ReserveInv
  BY DEF OwnerInv, ReadInv, ReserveInv, Writing, Reading, Threads
<1> QED
  BY <1>2, <1>3 DEF SlotInv

\* Steps that leave the ring alone and start neither a write nor a read.
Quiet ==
  /\ UNCHANGED <<enqueue_pos, dequeue_pos, sequence, pos>>
  /\ \A p \in Producers : Writing(p)' <=> Writing(p)
  /\ \A p \in Producers : pc'[p] = "push_cas" => pc[p] = "push_cas"
  /\ Reading' => Reading

LEMMA QuietSlot == ASSUME SlotInv, Quiet PROVE SlotInv'
<1> USE DEF SlotInv, Quiet, Free, Published, Unread, Owns
<1>1. RingInv'
  BY DEF RingInv
<1>2. OwnerInv'
  BY DEF OwnerInv
<1>3. ReadInv' /\ ReserveInv'
  BY DEF ReadInv, ReserveInv
<1> QED
  BY <1>1, <1>2, <1>3

\* All other steps than these load, reserve, publish or free a position.
RingStep ==
  \/ \E p \in Producers : PushLoad(p) \/ PushReserve(p) \/ PushPublish(p)
  \/ PopLoad \/ PopFree

LEMMA OtherStepsQuiet == ASSUME TypeInv, [Next]_vars, ~RingStep PROVE Quiet
<1> USE ThreadsAssumption
    DEF TypeInv, ControlType, Threads, Goto, Quiet, Writing, Reading, ringVars, callerVars
<1>1. ASSUME NEW p \in Producers, ProducerStep(p) PROVE Quiet
  <2>1. CASE BeginPush(p) \/ Retire(p) \/ Fail(p) \/ PushCheckClosed(p)
    BY <2>1 DEF BeginPush, Retire, Fail, PushCheckClosed
  <2>2. CASE PushRetry(p) \/ PushWrite(p)
    BY <2>2 DEF PushRetry, PushWrite
  <2>3. CASE PushNotify(p)
    BY <2>3 DEF PushNotify
  <2>4. CASE PushWaitLock(p) \/ PushWaitTest(p) \/ PushSleep(p)
    BY <2>4 DEF PushWaitLock, PushWaitTest, PushSleep
  <2>5. CASE CloseExchange(p) \/ CloseNotifyEmpty(p)
    BY <2>5 DEF CloseExchange, CloseNotifyEmpty, AfterClose
  <2>6. CASE CloseNotifyFull(p)
    BY <2>6 DEF CloseNotifyFull, AfterClose
  <2> QED
    BY <1>1, <2>1, <2>2, <2>3, <2>4, <2>5, <2>6 DEF ProducerStep, PushStep, Close, RingStep
<1>2. ASSUME ConsumerStep PROVE Quiet
  <2>1. CASE BeginPop \/ ConsumerClose \/ PopTake
    BY <2>1 DEF BeginPop, ConsumerClose, PopTake
  <2>2. CASE PopNotify
    BY <2>2 DEF PopNotify
  <2>3. CASE PopCheckClosed \/ PopWaitLock \/ PopWaitTest \/ PopSleep
    BY <2>3 DEF PopCheckClosed, PopWaitLock, PopWaitTest, PopSleep
  <2>4. CASE CloseExchange(Consumer) \/ CloseNotifyEmpty(Consumer)
    BY <2>4 DEF CloseExchange, CloseNotifyEmpty, AfterClose
  <2>5. CASE CloseNotifyFull(Consumer)
    BY <2>5 DEF CloseNotifyFull, AfterClose
  <2> QED
    BY <1>2, <2>1, <2>2, <2>3, <2>4, <2>5 DEF ConsumerStep, PopStep, Close, RingStep
<1>3. ASSUME NEW t \in Threads, SpuriousWakeup(t) PROVE Quiet
  BY <1>3 DEF SpuriousWakeup
<1>4. CASE UNCHANGED vars
  BY <1>4 DEF vars
<1> QED
  BY <1>1, <1>2, <1>3, <1>4 DEF Next

\* A full ring shows its next producer a number of the previous lap; this is
\* where a ring of one slot fails.
LEMMA FullIsNotFree ==
  ASSUME TypeInv, SlotInv, Capacity >= 2, Free(enqueue_pos)
  PROVE  enqueue_pos < dequeue_pos + Capacity
<1> USE DEF TypeInv, RingType, SlotInv, RingInv, OwnerInv, Free, Published, Unread, Owns
<1>1. Capacity \in Nat
  BY CapacityAssumption
<1>2. SUFFICES ASSUME enqueue_pos = dequeue_pos + Capacity PROVE FALSE
  BY <1>1
<1>3. Index(enqueue_pos) = Index(dequeue_pos)
  BY <1>2, NextLap
<1>4. Published(dequeue_pos) \/ Free(dequeue_pos)
  <2>1. Unread(dequeue_pos) /\ dequeue_pos \in Nat
    BY <1>1, <1>2
  <2>2. Published(dequeue_pos) \/ \E p \in Producers : Writing(p) /\ pos[p] = dequeue_pos
    BY <2>1
  <2> QED
    BY <2>2
<1> QED
  BY <1>1, <1>2, <1>3, <1>4

\* A publication changes the slot of no other position of the lap.
LEMMA PublishFrame ==
  ASSUME TypeInv, SlotInv, NEW p \in Producers, PushPublish(p),
         NEW n \in Nat, n # pos[p], dequeue_pos <= n, n < dequeue_pos + Capacity
  PROVE  sequence'[Index(n)] = sequence[Index(n)]
<1> USE CapacityAssumption DEF TypeInv, RingType
<1>1. Unread(pos[p])
  BY DEF PushPublish, Goto, Writing, SlotInv, OwnerInv
<1>2. Index(n) # Index(pos[p])
  BY <1>1, OneLap DEF Unread, SlotInv, RingInv
<1> QED
  BY <1>2, IndexInSlots DEF PushPublish

\* The release of a slot changes the slot of no other position of the lap.
LEMMA FreeFrame ==
  ASSUME TypeInv, SlotInv, PopFree,
         NEW n \in Nat, n # dequeue_pos, dequeue_pos <= n, n < dequeue_pos + Capacity
  PROVE  sequence'[Index(n)] = sequence[Index(n)]
<1> USE CapacityAssumption DEF TypeInv, RingType
<1>1. Index(n) # Index(dequeue_pos)
  BY OneLap
<1> QED
  BY <1>1, IndexInSlots DEF PopFree

LEMMA StepSlot == ASSUME TypeInv, SlotInv, Capacity >= 2, [Next]_vars PROVE SlotInv'
<1>0. Capacity \in Nat
  BY CapacityAssumption
<1> USE <1>0
<1>1. ASSUME NEW p \in Producers, PushLoad(p) PROVE SlotInv'
  <2> USE ThreadsAssumption DEF TypeInv, RingType, ControlType, Threads, PushLoad, Goto, ringVars
  <2>1. /\ UNCHANGED <<enqueue_pos, dequeue_pos, sequence>>
        /\ \A q \in Producers : Writing(q)' <=> Writing(q)
        /\ \A q \in Producers : q # p => pos'[q] = pos[q] /\ pc'[q] = pc[q]
        /\ Reading' <=> Reading
        /\ ~Writing(p)
    BY <1>1 DEF Writing, Reading
  <2>2. pc'[p] = "push_cas" => pos'[p] = enqueue_pos /\ Free(enqueue_pos)
    BY <1>1, IndexInSlots DEF Free
  <2>3. RingInv'
    <3>1. \A q \in Producers, n \in Nat : Owns(q, n) => Owns(q, n)'
      BY <2>1 DEF Owns
    <3> QED
      BY <2>1, <3>1 DEF SlotInv, RingInv, Unread, Free, Published
  <2>6. OwnerInv'
    BY <2>1 DEF SlotInv, OwnerInv, Unread, Free
  <2>4. ReadInv'
    BY <2>1 DEF SlotInv, ReadInv, Unread, Published
  <2>5. ReserveInv'
    <3>1. pc'[p] = "push_cas" => pos'[p] = enqueue_pos' /\ enqueue_pos' < dequeue_pos' + Capacity
      BY <2>1, <2>2, FullIsNotFree
    <3>2. ASSUME NEW q \in Producers, pc'[q] = "push_cas"
          PROVE  pos'[q] <= enqueue_pos' /\ (pos'[q] = enqueue_pos' => enqueue_pos' < dequeue_pos' + Capacity)
      <4>1. CASE q = p
        BY <4>1, <3>1, <3>2, <2>1
      <4>2. CASE q # p
        BY <4>2, <3>2, <2>1 DEF SlotInv, ReserveInv
      <4> QED
        BY <4>1, <4>2
    <3> QED
      BY <3>2 DEF ReserveInv
  <2> QED
    BY <2>3, <2>4, <2>5, <2>6 DEF SlotInv
<1>2. ASSUME NEW p \in Producers, PushReserve(p) PROVE SlotInv'
  <2> USE ThreadsAssumption DEF TypeInv, RingType, ControlType, Threads, PushReserve, Goto
  <2>1. /\ enqueue_pos' = enqueue_pos + 1 /\ UNCHANGED <<dequeue_pos, sequence, pos>>
        /\ \A q \in Producers : Writing(q)' <=> Writing(q) \/ q = p
        /\ \A q \in Producers : q # p => pc'[q] = pc[q]
        /\ Reading' <=> Reading
        /\ ~Writing(p) /\ pos[p] = enqueue_pos /\ enqueue_pos < dequeue_pos + Capacity
    BY <1>2 DEF Writing, Reading, SlotInv, ReserveInv
  <2>2. RingInv'
    BY <2>1 DEF SlotInv, RingInv, Unread, Free, Published, Owns
  <2>3. OwnerInv'
    <3>1. Unread(pos[p])' /\ Free(pos[p])'
      BY <2>1 DEF SlotInv, RingInv, Unread, Free
    <3>2. ASSUME NEW q \in Producers, Writing(q)
          PROVE  Unread(pos[q])' /\ Free(pos[q])' /\ pos'[q] # enqueue_pos
      BY <2>1, <3>2 DEF SlotInv, OwnerInv, Unread, Free
    <3> QED
      BY <2>1, <3>1, <3>2 DEF SlotInv, OwnerInv
  <2>4. ReadInv'
    BY <2>1 DEF SlotInv, ReadInv, Unread, Published
  <2>5. ReserveInv'
    BY <1>2, <2>1 DEF SlotInv, ReserveInv
  <2> QED
    BY <2>2, <2>3, <2>4, <2>5 DEF SlotInv
<1>3. ASSUME NEW p \in Producers, PushPublish(p) PROVE SlotInv'
  <2> USE ThreadsAssumption DEF TypeInv, RingType, ControlType, Threads, PushPublish, Goto, callerVars
  <2>1. /\ UNCHANGED <<enqueue_pos, dequeue_pos, pos>>
        /\ \A q \in Producers : Writing(q)' <=> Writing(q) /\ q # p
        /\ \A q \in Producers : pc'[q] = "push_cas" => pc[q] = "push_cas"
        /\ Reading' <=> Reading
        /\ Writing(p) /\ Unread(pos[p]) /\ Free(pos[p])
    BY <1>3 DEF Writing, Reading, SlotInv, OwnerInv
  <2>2. Published(pos[p])'
    BY <1>3, <2>1, IndexInSlots DEF Published
  <2>3. ASSUME NEW n \in Nat, n # pos[p], dequeue_pos <= n, n < dequeue_pos + Capacity
        PROVE  sequence'[Index(n)] = sequence[Index(n)]
    BY <1>3, <2>3, PublishFrame
  <2>8. dequeue_pos <= enqueue_pos /\ enqueue_pos <= dequeue_pos + Capacity
    BY DEF SlotInv, RingInv
  <2>4. RingInv'
    <3>1. ASSUME NEW n \in Nat, Unread(n) PROVE Published(n)' \/ \E q \in Producers : Owns(q, n)'
      <4>1. CASE n = pos[p]
        BY <4>1, <2>2, <2>1
      <4>2. CASE n # pos[p]
        <5>1. sequence'[Index(n)] = sequence[Index(n)]
          BY <3>1, <4>2, <2>3, <2>8 DEF Unread
        <5>2. \A q \in Producers : Owns(q, n) => Owns(q, n)'
          BY <2>1, <4>2 DEF Owns
        <5> QED
          BY <3>1, <5>1, <5>2 DEF SlotInv, RingInv, Published
      <4> QED
        BY <4>1, <4>2
    <3>2. ASSUME NEW n \in Nat, enqueue_pos <= n, n < dequeue_pos + Capacity PROVE Free(n)'
      <4>1. sequence'[Index(n)] = sequence[Index(n)]
        BY <3>2, <2>1, <2>3, <2>8 DEF Unread
      <4> QED
        BY <3>2, <4>1 DEF SlotInv, RingInv, Free
    <3> QED
      BY <2>1, <2>8, <3>1, <3>2 DEF RingInv, Unread
  <2>5. OwnerInv'
    <3>1. ASSUME NEW q \in Producers, Writing(q)' PROVE Unread(pos[q])' /\ Free(pos[q])'
      <4>1. Writing(q) /\ q # p /\ pos[q] # pos[p] /\ Unread(pos[q]) /\ Free(pos[q])
        BY <2>1, <3>1 DEF SlotInv, OwnerInv
      <4>2. sequence'[Index(pos[q])] = sequence[Index(pos[q])]
        BY <4>1, <2>3, <2>8 DEF Unread
      <4> QED
        BY <2>1, <4>1, <4>2 DEF Unread, Free
    <3> QED
      BY <2>1, <3>1 DEF SlotInv, OwnerInv
  <2>6. ReadInv'
    <3> SUFFICES ASSUME Reading' PROVE Unread(dequeue_pos)' /\ Published(dequeue_pos)'
      BY DEF ReadInv
    <3>1. Unread(dequeue_pos) /\ Published(dequeue_pos)
      BY <2>1 DEF SlotInv, ReadInv
    <3>2. dequeue_pos # pos[p]
      BY <2>1, <3>1 DEF Published, Free
    <3>3. sequence'[Index(dequeue_pos)] = sequence[Index(dequeue_pos)]
      BY <3>2, <2>3, CapacityAssumption
    <3> QED
      BY <2>1, <3>1, <3>3 DEF Unread, Published
  <2>7. ReserveInv'
    BY <2>1 DEF SlotInv, ReserveInv
  <2> QED
    BY <2>4, <2>5, <2>6, <2>7 DEF SlotInv
<1>4. ASSUME PopLoad PROVE SlotInv'
  <2> USE ThreadsAssumption DEF TypeInv, RingType, ControlType, Threads, PopLoad, Goto, ringVars, callerVars
  <2>1. /\ UNCHANGED <<enqueue_pos, dequeue_pos, sequence, pos>>
        /\ \A q \in Producers : pc'[q] = pc[q]
        /\ Reading' => Published(dequeue_pos)
    BY <1>4, IndexInSlots DEF Reading, Published
  <2>2. RingInv' /\ OwnerInv' /\ ReserveInv'
    BY <2>1 DEF SlotInv, RingInv, OwnerInv, ReserveInv, Unread, Free, Published, Owns, Writing
  <2>3. Published(dequeue_pos) => Unread(dequeue_pos)
    BY DEF SlotInv, RingInv, Unread, Free, Published
  <2>4. ReadInv'
    BY <2>1, <2>3 DEF ReadInv, Unread, Published
  <2> QED
    BY <2>2, <2>4 DEF SlotInv
<1>5. ASSUME PopFree PROVE SlotInv'
  <2> USE ThreadsAssumption DEF TypeInv, RingType, ControlType, Threads, PopFree, Goto, callerVars
  <2>1. /\ dequeue_pos' = dequeue_pos + 1 /\ UNCHANGED <<enqueue_pos, pos>>
        /\ \A q \in Producers : pc'[q] = pc[q]
        /\ ~Reading'
        /\ Unread(dequeue_pos) /\ Published(dequeue_pos)
    BY <1>5 DEF Reading, SlotInv, ReadInv
  <2>2. sequence'[Index(dequeue_pos + Capacity)] = dequeue_pos + Capacity
    BY <1>5, IndexInSlots, NextLap
  <2>3. ASSUME NEW n \in Nat, n # dequeue_pos, dequeue_pos <= n, n < dequeue_pos + Capacity
        PROVE  sequence'[Index(n)] = sequence[Index(n)]
    BY <1>5, <2>3, FreeFrame
  <2>4. \A q \in Producers : Writing(q) => pos[q] # dequeue_pos
    BY <2>1 DEF SlotInv, OwnerInv, Free, Published
  <2>8. dequeue_pos < enqueue_pos /\ enqueue_pos <= dequeue_pos + Capacity
    BY <2>1 DEF SlotInv, RingInv, Unread
  <2>9. \A q \in Producers : Writing(q)' <=> Writing(q)
    BY <2>1 DEF Writing
  <2>5. RingInv'
    <3>1. ASSUME NEW n \in Nat, Unread(n)' PROVE Published(n)' \/ \E q \in Producers : Owns(q, n)'
      <4>1. Unread(n) /\ n # dequeue_pos
        BY <2>1, <3>1 DEF Unread
      <4>2. sequence'[Index(n)] = sequence[Index(n)]
        BY <4>1, <2>3, <2>8 DEF Unread
      <4>3. \A q \in Producers : Owns(q, n) => Owns(q, n)'
        BY <2>1, <2>9 DEF Owns
      <4> QED
        BY <4>1, <4>2, <4>3 DEF SlotInv, RingInv, Published
    <3>2. ASSUME NEW n \in Nat, enqueue_pos <= n, n < dequeue_pos + 1 + Capacity PROVE Free(n)'
      <4>1. CASE n = dequeue_pos + Capacity
        BY <4>1, <2>2 DEF Free
      <4>2. CASE n # dequeue_pos + Capacity
        <5>1. sequence'[Index(n)] = sequence[Index(n)]
          BY <3>2, <4>2, <2>3, <2>8
        <5> QED
          BY <3>2, <4>2, <5>1 DEF SlotInv, RingInv, Free
      <4> QED
        BY <4>1, <4>2
    <3> QED
      BY <2>1, <2>8, <3>1, <3>2 DEF RingInv
  <2>6. OwnerInv'
    <3>1. ASSUME NEW q \in Producers, Writing(q) PROVE Unread(pos[q])' /\ Free(pos[q])'
      <4>1. Unread(pos[q]) /\ Free(pos[q]) /\ pos[q] # dequeue_pos
        BY <3>1, <2>4 DEF SlotInv, OwnerInv
      <4>2. sequence'[Index(pos[q])] = sequence[Index(pos[q])]
        BY <4>1, <2>3, <2>8 DEF Unread
      <4> QED
        BY <2>1, <4>1, <4>2 DEF Unread, Free
    <3> QED
      BY <2>1, <2>9, <3>1 DEF SlotInv, OwnerInv
  <2>7. ReadInv' /\ ReserveInv'
    BY <2>1 DEF SlotInv, ReadInv, ReserveInv
  <2> QED
    BY <2>5, <2>6, <2>7 DEF SlotInv
<1> QED
  BY <1>1, <1>2, <1>3, <1>4, <1>5, OtherStepsQuiet, QuietSlot DEF RingStep

LEMMA AlwaysSlot == ASSUME Capacity >= 2 PROVE Spec => [](TypeInv /\ SlotInv)
<1>1. Init => TypeInv /\ SlotInv
  BY InitType, InitSlot
<1>2. TypeInv /\ SlotInv /\ [Next]_vars => (TypeInv /\ SlotInv)'
  BY StepType, StepSlot
<1> QED
  BY <1>1, <1>2, PTL DEF Spec

\* With two slots or more no slot is accessed by two threads at a time: the
\* plain moves in and out of slot.value of Push and Pop never race.
THEOREM SlotsAreExclusive == ASSUME Capacity >= 2 PROVE Spec => []SlotExclusive
<1>1. TypeInv /\ SlotInv => SlotExclusive
  <2> SUFFICES ASSUME TypeInv, SlotInv PROVE SlotExclusive
    OBVIOUS
  <2> USE DEF TypeInv, RingType
  <2>1. \A p \in Producers : Writing(p) => dequeue_pos <= pos[p] /\ pos[p] < dequeue_pos + Capacity
    BY CapacityAssumption DEF SlotInv, RingInv, OwnerInv, Unread
  <2>2. ASSUME NEW p \in Producers, NEW q \in Producers, p # q, Writing(p), Writing(q)
        PROVE  Index(pos[p]) # Index(pos[q])
    BY <2>1, <2>2, OneLap DEF SlotInv, OwnerInv
  <2>3. ASSUME NEW p \in Producers, Writing(p), Reading
        PROVE  Index(pos[p]) # Index(dequeue_pos)
    <3>1. pos[p] # dequeue_pos
      BY <2>3 DEF SlotInv, OwnerInv, ReadInv, Free, Published
    <3> QED
      BY <2>1, <2>3, <3>1, OneLap, CapacityAssumption
  <2> QED
    BY <2>2, <2>3 DEF SlotExclusive
<1> QED
  BY <1>1, AlwaysSlot, PTL

\* With two slots or more at most capacity_ messages are accepted and unread:
\* Push never overwrites a message.
THEOREM NeverOverfull == ASSUME Capacity >= 2 PROVE Spec => []WithinCapacity
<1>1. TypeInv /\ SlotInv => WithinCapacity
  BY CapacityAssumption DEF TypeInv, RingType, SlotInv, RingInv, WithinCapacity, FirstUnread
<1> QED
  BY <1>1, AlwaysSlot, PTL

-----------------------------------------------------------------------------
(* The messages in the ring *)

\* A producer about to publish has written its last message, and the unread
\* messages of a producer are older than the one it is writing.
MessageInv ==
  /\ \A p \in Producers : pc[p] = "push_publish" => value[Index(pos[p])] = <<p, pushed[p]>>
  /\ \A n \in Nat : Unread(n) /\ Published(n) =>
       \A p \in Producers, k \in 1 .. MaxPushes :
         value[Index(n)] = <<p, k>> => k < pushed[p] \/ (k = pushed[p] /\ ~Writing(p))

LEMMA InitMessage == Init => MessageInv
BY ThreadsAssumption DEF Init, MessageInv, Unread, Threads

\* Only PushWrite writes a slot, and it alone makes a message ready to publish.
LEMMA OtherStepsKeepMessages ==
  ASSUME TypeInv, [Next]_vars, ~RingStep, \A p \in Producers : ~PushWrite(p)
  PROVE  /\ UNCHANGED <<value, pushed>>
         /\ \A q \in Producers : pc'[q] = "push_publish" => pc[q] = "push_publish"
<1> DEFINE Kept == /\ UNCHANGED <<value, pushed>>
                   /\ \A q \in Producers : pc'[q] = "push_publish" => pc[q] = "push_publish"
<1> USE ThreadsAssumption DEF TypeInv, ControlType, Threads, Goto, ringVars, callerVars
<1>1. ASSUME NEW p \in Producers, ProducerStep(p) PROVE Kept
  <2>1. CASE BeginPush(p) \/ Retire(p) \/ Fail(p) \/ PushCheckClosed(p) \/ PushRetry(p)
    BY <2>1 DEF BeginPush, Retire, Fail, PushCheckClosed, PushRetry
  <2>2. CASE PushNotify(p)
    BY <2>2 DEF PushNotify
  <2>3. CASE PushWaitLock(p) \/ PushWaitTest(p) \/ PushSleep(p)
    BY <2>3 DEF PushWaitLock, PushWaitTest, PushSleep
  <2>4. CASE CloseExchange(p) \/ CloseNotifyEmpty(p)
    BY <2>4 DEF CloseExchange, CloseNotifyEmpty, AfterClose
  <2>5. CASE CloseNotifyFull(p)
    BY <2>5 DEF CloseNotifyFull, AfterClose
  <2> QED
    BY <1>1, <2>1, <2>2, <2>3, <2>4, <2>5 DEF ProducerStep, PushStep, Close, RingStep
<1>2. ASSUME ConsumerStep PROVE Kept
  <2>1. CASE BeginPop \/ ConsumerClose \/ PopTake
    BY <2>1 DEF BeginPop, ConsumerClose, PopTake
  <2>2. CASE PopNotify
    BY <2>2 DEF PopNotify
  <2>3. CASE PopCheckClosed \/ PopWaitLock \/ PopWaitTest \/ PopSleep
    BY <2>3 DEF PopCheckClosed, PopWaitLock, PopWaitTest, PopSleep
  <2>4. CASE CloseExchange(Consumer) \/ CloseNotifyEmpty(Consumer)
    BY <2>4 DEF CloseExchange, CloseNotifyEmpty, AfterClose
  <2>5. CASE CloseNotifyFull(Consumer)
    BY <2>5 DEF CloseNotifyFull, AfterClose
  <2> QED
    BY <1>2, <2>1, <2>2, <2>3, <2>4, <2>5 DEF ConsumerStep, PopStep, Close, RingStep
<1>3. ASSUME NEW t \in Threads, SpuriousWakeup(t) PROVE Kept
  BY <1>3 DEF SpuriousWakeup
<1>4. CASE UNCHANGED vars
  BY <1>4 DEF vars
<1> QED
  BY <1>1, <1>2, <1>3, <1>4 DEF Next

LEMMA StepMessage == ASSUME TypeInv, SlotInv, MessageInv, [Next]_vars PROVE MessageInv'
<1> USE ThreadsAssumption DEF TypeInv, RingType, ControlType, Threads, Goto
<1>0. Capacity \in Nat /\ dequeue_pos <= enqueue_pos /\ enqueue_pos <= dequeue_pos + Capacity
  BY CapacityAssumption DEF SlotInv, RingInv
<1>1. ASSUME NEW p \in Producers, PushWrite(p) PROVE MessageInv'
  <2>1. /\ Writing(p) /\ Unread(pos[p]) /\ Free(pos[p])
        /\ UNCHANGED <<enqueue_pos, dequeue_pos, sequence, pos, pushed>>
        /\ \A q \in Producers : Writing(q)' <=> Writing(q)
        /\ \A q \in Producers : q # p => pc'[q] = pc[q]
    BY <1>1 DEF PushWrite, Writing, SlotInv, OwnerInv, callerVars
  <2>2. value'[Index(pos[p])] = <<p, pushed[p]>>
    BY <1>1, IndexInSlots DEF PushWrite
  <2>3. ASSUME NEW n \in Nat, n # pos[p], Unread(n) PROVE value'[Index(n)] = value[Index(n)]
    <3>1. pos[p] \in Nat /\ dequeue_pos \in Nat
      OBVIOUS
    <3>2. /\ dequeue_pos <= n /\ n < dequeue_pos + Capacity
          /\ dequeue_pos <= pos[p] /\ pos[p] < dequeue_pos + Capacity
      BY <1>0, <2>1, <2>3, <3>1 DEF Unread
    <3>3. Index(n) # Index(pos[p])
      BY <2>3, <3>1, <3>2, OneLap
    <3> QED
      BY <1>1, <3>1, <3>3, IndexInSlots DEF PushWrite
  <2>4. ASSUME NEW q \in Producers, pc'[q] = "push_publish" PROVE value'[Index(pos'[q])] = <<q, pushed'[q]>>
    <3>1. CASE q = p
      BY <3>1, <2>1, <2>2
    <3>2. CASE q # p
      <4>1. pos[q] # pos[p] /\ Unread(pos[q])
        BY <3>2, <2>1, <2>4 DEF SlotInv, OwnerInv, Writing
      <4> QED
        BY <3>2, <4>1, <2>1, <2>3, <2>4 DEF MessageInv
    <3> QED
      BY <3>1, <3>2
  <2>5. ASSUME NEW n \in Nat, Unread(n)', Published(n)', NEW q \in Producers, NEW k \in 1 .. MaxPushes,
               value'[Index(n)] = <<q, k>>
        PROVE  k < pushed'[q] \/ (k = pushed'[q] /\ ~Writing(q)')
    <3>1. Unread(n) /\ Published(n) /\ n # pos[p]
      BY <2>1, <2>5 DEF Unread, Published, Free
    <3>2. value[Index(n)] = <<q, k>>
      BY <2>3, <2>5, <3>1
    <3>3. k < pushed[q] \/ (k = pushed[q] /\ ~Writing(q))
      BY <2>5, <3>1, <3>2 DEF MessageInv
    <3>4. pushed'[q] = pushed[q] /\ (Writing(q)' <=> Writing(q))
      BY <2>1, <2>5
    <3> QED
      BY <3>3, <3>4
  <2> QED
    BY <2>4, <2>5 DEF MessageInv
<1>2. ASSUME NEW p \in Producers, PushReserve(p) PROVE MessageInv'
  <2>1. /\ enqueue_pos' = enqueue_pos + 1 /\ UNCHANGED <<dequeue_pos, sequence, value, pos>>
        /\ \A q \in Producers : q # p => pc'[q] = pc[q] /\ pushed'[q] = pushed[q]
        /\ pc'[p] = "push_write" /\ pushed'[p] = pushed[p] + 1
        /\ Free(enqueue_pos)
    BY <1>2 DEF PushReserve, SlotInv, RingInv, ReserveInv
  <2>2. ASSUME NEW n \in Nat, Unread(n)', Published(n)' PROVE Unread(n) /\ Published(n)
    BY <2>1, <2>2 DEF Unread, Published, Free
  <2>3. ASSUME NEW q \in Producers, pc'[q] = "push_publish" PROVE value'[Index(pos'[q])] = <<q, pushed'[q]>>
    BY <2>1, <2>3 DEF MessageInv
  <2>4. ASSUME NEW n \in Nat, Unread(n)', Published(n)', NEW q \in Producers, NEW k \in 1 .. MaxPushes,
               value'[Index(n)] = <<q, k>>
        PROVE  k < pushed'[q] \/ (k = pushed'[q] /\ ~Writing(q)')
    <3>1. k < pushed[q] \/ (k = pushed[q] /\ ~Writing(q))
      BY <2>1, <2>2, <2>4 DEF MessageInv
    <3>2. k \in Nat /\ pushed[q] \in Nat /\ pushed[p] \in Nat
      BY PushesAssumption
    <3> QED
      BY <2>1, <3>1, <3>2 DEF Writing
  <2> QED
    BY <2>3, <2>4 DEF MessageInv
<1>3. ASSUME NEW p \in Producers, PushPublish(p) PROVE MessageInv'
  <2>1. /\ Writing(p) /\ Unread(pos[p]) /\ value[Index(pos[p])] = <<p, pushed[p]>>
        /\ UNCHANGED <<enqueue_pos, dequeue_pos, value, pos, pushed>>
        /\ \A q \in Producers : q # p => pc'[q] = pc[q]
        /\ pc'[p] = "push_notify"
    BY <1>3 DEF PushPublish, Writing, SlotInv, OwnerInv, MessageInv, callerVars
  <2>2. ASSUME NEW n \in Nat, n # pos[p], Unread(n)', Published(n)' PROVE Unread(n) /\ Published(n)
    BY <1>0, <1>3, <2>1, <2>2, PublishFrame DEF Unread, Published
  <2>3. ASSUME NEW n \in Nat, Unread(n)', Published(n)', NEW q \in Producers, NEW k \in 1 .. MaxPushes,
               value'[Index(n)] = <<q, k>>
        PROVE  k < pushed'[q] \/ (k = pushed'[q] /\ ~Writing(q)')
    <3>1. CASE n = pos[p]
      BY <2>1, <2>3, <3>1 DEF Writing
    <3>2. CASE n # pos[p]
      BY <2>1, <2>2, <2>3, <3>2 DEF MessageInv, Writing
    <3> QED
      BY <3>1, <3>2
  <2> QED
    BY <2>1, <2>3 DEF MessageInv
<1>4. ASSUME PopFree PROVE MessageInv'
  <2>1. /\ UNCHANGED <<enqueue_pos, value, pos, pushed>>
        /\ dequeue_pos' = dequeue_pos + 1
        /\ \A q \in Producers : pc'[q] = pc[q]
    BY <1>4 DEF PopFree, callerVars
  <2>2. ASSUME NEW n \in Nat, Unread(n)', Published(n)' PROVE Unread(n) /\ Published(n)
    <3>1. Unread(n) /\ n # dequeue_pos /\ n < dequeue_pos + Capacity
      BY <1>0, <2>1, <2>2 DEF Unread
    <3>2. sequence'[Index(n)] = sequence[Index(n)]
      BY <1>4, <3>1, FreeFrame DEF Unread
    <3> QED
      BY <2>2, <3>1, <3>2 DEF Published
  <2>3. ASSUME NEW q \in Producers, pc'[q] = "push_publish" PROVE value'[Index(pos'[q])] = <<q, pushed'[q]>>
    BY <2>1, <2>3 DEF MessageInv
  <2>4. ASSUME NEW n \in Nat, Unread(n)', Published(n)', NEW q \in Producers, NEW k \in 1 .. MaxPushes,
               value'[Index(n)] = <<q, k>>
        PROVE  k < pushed'[q] \/ (k = pushed'[q] /\ ~Writing(q)')
    <3>1. k < pushed[q] \/ (k = pushed[q] /\ ~Writing(q))
      BY <2>1, <2>2, <2>4 DEF MessageInv
    <3> QED
      BY <2>1, <3>1 DEF Writing
  <2> QED
    BY <2>3, <2>4 DEF MessageInv
<1>5. ASSUME NEW p \in Producers, PushLoad(p) PROVE MessageInv'
  <2>1. /\ UNCHANGED <<enqueue_pos, dequeue_pos, sequence, value, pushed>>
        /\ \A q \in Producers : Writing(q)' <=> Writing(q)
        /\ \A q \in Producers : pc'[q] = "push_publish" => pc[q] = "push_publish" /\ pos'[q] = pos[q]
    BY <1>5 DEF PushLoad, Writing, ringVars
  <2> QED
    BY <2>1 DEF MessageInv, Unread, Published
<1>6. CASE PopLoad
  <2>1. /\ UNCHANGED <<enqueue_pos, dequeue_pos, sequence, value, pos, pushed>>
        /\ \A q \in Producers : pc'[q] = pc[q]
    BY <1>6 DEF PopLoad, ringVars, callerVars
  <2> QED
    BY <2>1 DEF MessageInv, Unread, Published, Writing
<1>7. ASSUME ~RingStep, \A p \in Producers : ~PushWrite(p) PROVE MessageInv'
  <2>1. /\ UNCHANGED <<enqueue_pos, dequeue_pos, sequence, value, pos, pushed>>
        /\ \A q \in Producers : Writing(q)' <=> Writing(q)
    BY <1>7, OtherStepsQuiet, OtherStepsKeepMessages DEF Quiet
  <2>2. \A q \in Producers : pc'[q] = "push_publish" => pc[q] = "push_publish"
    BY <1>7, OtherStepsKeepMessages
  <2> QED
    BY <2>1, <2>2 DEF MessageInv, Unread, Published
<1> QED
  BY <1>1, <1>2, <1>3, <1>4, <1>5, <1>6, <1>7 DEF RingStep

-----------------------------------------------------------------------------
(* The ring implements the channel *)

Inv == TypeInv /\ SlotInv /\ MessageInv

LEMMA AlwaysInv == ASSUME Capacity >= 2 PROVE Spec => []Inv
<1>1. Init => Inv
  BY InitType, InitSlot, InitMessage DEF Inv
<1>2. Inv /\ [Next]_vars => Inv'
  BY StepType, StepSlot, StepMessage DEF Inv
<1> QED
  BY <1>1, <1>2, PTL DEF Spec

AnyMessage == (Producers \X Nat) \cup {NoMessage}

\* The line of the channel, as the refinement mapping of Channel has it.
Line == [i \in 1 .. enqueue_pos - FirstUnread |-> MessageAt(FirstUnread + i - 1)]

LineInv ==
  /\ FirstUnread \in Nat /\ dequeue_pos <= FirstUnread /\ FirstUnread <= enqueue_pos
  /\ \A n \in Nat : Unread(n) => MessageAt(n) \in AnyMessage
  /\ \A n \in Nat : Unread(n) /\ Published(n) => MessageAt(n) = value[Index(n)]
  /\ \A n \in Nat, p \in Producers :
       Owns(p, n) => Unread(n) /\ ~Published(n) /\ MessageAt(n) = <<p, pushed[p]>>
  /\ Line \in Seq(AnyMessage)
  /\ Len(Line) = enqueue_pos - FirstUnread
  /\ \A i \in 1 .. Len(Line) : Line[i] = MessageAt(FirstUnread + i - 1)

LEMMA SeqOfLength ==
  ASSUME NEW S, NEW n \in Nat, NEW s \in [1 .. n -> S]
  PROVE  s \in Seq(S) /\ Len(s) = n
OBVIOUS

LEMMA LineFacts == Inv => LineInv
<1> SUFFICES ASSUME Inv PROVE LineInv
  OBVIOUS
<1> USE DEF Inv, TypeInv, RingType
<1>1. FirstUnread \in Nat /\ dequeue_pos <= FirstUnread /\ FirstUnread <= enqueue_pos
  BY DEF FirstUnread, SlotInv, RingInv, ReadInv, Reading, Unread
<1>2. ASSUME NEW n \in Nat, Unread(n), Published(n) PROVE MessageAt(n) = value[Index(n)]
  BY <1>2 DEF MessageAt, Published
<1>3. ASSUME NEW n \in Nat, NEW p \in Producers, Owns(p, n)
      PROVE  Unread(n) /\ ~Published(n) /\ MessageAt(n) = <<p, pushed[p]>>
  <2>1. Unread(n) /\ Free(n) /\ Writing(p) /\ pos[p] = n
    BY <1>3 DEF SlotInv, OwnerInv, Owns
  <2>2. ~Published(n)
    BY <2>1, IndexInSlots DEF Free, Published
  <2>3. \A q \in Producers : Writing(q) /\ pos[q] = n => q = p
    BY <2>1 DEF SlotInv, OwnerInv
  <2>4. (CHOOSE q \in Producers : Writing(q) /\ pos[q] = n) = p
    BY <2>1, <2>3
  <2> QED
    BY <2>1, <2>2, <2>4 DEF MessageAt, Published
<1>4. ASSUME NEW n \in Nat, Unread(n) PROVE MessageAt(n) \in AnyMessage
  <2>1. CASE Published(n)
    BY <1>2, <1>4, <2>1, IndexInSlots DEF AnyMessage, Messages
  <2>2. CASE ~Published(n)
    <3>1. PICK p \in Producers : Owns(p, n)
      BY <1>4, <2>2 DEF SlotInv, RingInv
    <3> QED
      BY <1>3, <3>1 DEF AnyMessage
  <2> QED
    BY <2>1, <2>2
<1>5. \A i \in 1 .. enqueue_pos - FirstUnread : MessageAt(FirstUnread + i - 1) \in AnyMessage
  <2> TAKE i \in 1 .. enqueue_pos - FirstUnread
  <2>1. FirstUnread + i - 1 \in Nat /\ Unread(FirstUnread + i - 1)
    BY <1>1 DEF Unread
  <2> QED
    BY <1>4, <2>1
<1>6. enqueue_pos - FirstUnread \in Nat
  BY <1>1
<1>7. Line \in [1 .. enqueue_pos - FirstUnread -> AnyMessage]
  BY <1>5 DEF Line
<1>8. Line \in Seq(AnyMessage) /\ Len(Line) = enqueue_pos - FirstUnread
  BY <1>6, <1>7, SeqOfLength
<1>9. \A i \in 1 .. Len(Line) : Line[i] = MessageAt(FirstUnread + i - 1)
  BY <1>8 DEF Line
<1> QED
  BY <1>1, <1>2, <1>3, <1>4, <1>8, <1>9 DEF LineInv

LEMMA LineFactsNext == Inv' => LineInv'
BY LineFacts, PTL

\* The line only changes where a message of it does.
LEMMA SameLine ==
  ASSUME Inv, Inv', enqueue_pos' = enqueue_pos, FirstUnread' = FirstUnread,
         \A n \in Nat : FirstUnread <= n /\ n < enqueue_pos => MessageAt(n)' = MessageAt(n)
  PROVE  Line' = Line
<1>1. LineInv /\ LineInv'
  BY LineFacts, LineFactsNext
<1>2. enqueue_pos \in Nat
  BY DEF Inv, TypeInv, RingType
<1>3. \A i \in 1 .. enqueue_pos - FirstUnread :
        MessageAt(FirstUnread + i - 1)' = MessageAt(FirstUnread + i - 1)
  <2> TAKE i \in 1 .. enqueue_pos - FirstUnread
  <2>1. FirstUnread + i - 1 \in Nat /\ FirstUnread <= FirstUnread + i - 1 /\ FirstUnread + i - 1 < enqueue_pos
    BY <1>1, <1>2 DEF LineInv
  <2> QED
    BY <2>1
<1> QED
  BY <1>3 DEF Line

\* A message stays the same while its slot and its owner do.
LEMMA MessageKept ==
  ASSUME Inv, Inv', NEW n \in Nat, Unread(n), Unread(n)',
         Published(n) => Published(n)' /\ value'[Index(n)] = value[Index(n)],
         \A q \in Producers : Owns(q, n) => Owns(q, n)' /\ pushed'[q] = pushed[q]
  PROVE  MessageAt(n)' = MessageAt(n)
<1>1. LineInv /\ LineInv'
  BY LineFacts, LineFactsNext
<1>2. CASE Published(n)
  <2>1. MessageAt(n) = value[Index(n)]
    BY <1>1, <1>2 DEF LineInv
  <2>2. MessageAt(n)' = value'[Index(n)]
    BY <1>1, <1>2 DEF LineInv
  <2> QED
    BY <1>2, <2>1, <2>2
<1>3. CASE ~Published(n)
  <2>1. PICK q \in Producers : Owns(q, n)
    BY <1>3 DEF Inv, SlotInv, RingInv
  <2>2. MessageAt(n) = <<q, pushed[q]>>
    BY <1>1, <2>1 DEF LineInv
  <2>3. MessageAt(n)' = <<q, pushed'[q]>>
    BY <1>1, <2>1 DEF LineInv
  <2> QED
    BY <2>1, <2>2, <2>3
<1> QED
  BY <1>2, <1>3

\* What the channel of the refinement mapping sees of a state.
ReceiverFrame ==
  \A place \in {"ended", "pop_closed", "pop_free"} : pc'[Consumer] = place <=> pc[Consumer] = place

\* All other steps than those the channel knows of and the two that move data.
Internal ==
  /\ UNCHANGED <<enqueue_pos, dequeue_pos, sequence, value, pushed, delivered, closed>>
  /\ \A p \in Producers : Writing(p)' <=> Writing(p)
  /\ \A p \in Producers : Writing(p) => pos'[p] = pos[p]
  /\ ReceiverFrame

ChannelStep ==
  \/ \E p \in Producers : PushReserve(p) \/ PushWrite(p) \/ PushPublish(p)
  \/ PopLoad \/ PopTake \/ PopFree \/ PopCheckClosed
  \/ \E t \in Threads : CloseExchange(t)

LEMMA OtherStepsInternal == ASSUME TypeInv, [Next]_vars, ~ChannelStep PROVE Internal
<1> USE ThreadsAssumption
    DEF TypeInv, ControlType, RingType, Threads, Goto, Internal, ReceiverFrame, Writing, ringVars, callerVars
<1>1. ASSUME NEW p \in Producers, ProducerStep(p) PROVE Internal
  <2>1. CASE BeginPush(p) \/ Retire(p) \/ Fail(p) \/ PushCheckClosed(p) \/ PushRetry(p)
    BY <2>1 DEF BeginPush, Retire, Fail, PushCheckClosed, PushRetry
  <2>2. CASE PushLoad(p)
    BY <2>2 DEF PushLoad
  <2>3. CASE PushNotify(p)
    BY <2>3 DEF PushNotify
  <2>4. CASE PushWaitLock(p) \/ PushWaitTest(p) \/ PushSleep(p)
    BY <2>4 DEF PushWaitLock, PushWaitTest, PushSleep
  <2>5. CASE CloseNotifyEmpty(p)
    BY <2>5 DEF CloseNotifyEmpty
  <2>6. CASE CloseNotifyFull(p)
    BY <2>6 DEF CloseNotifyFull, AfterClose
  <2> QED
    BY <1>1, <2>1, <2>2, <2>3, <2>4, <2>5, <2>6 DEF ProducerStep, PushStep, Close, ChannelStep
<1>2. ASSUME ConsumerStep PROVE Internal
  <2>1. CASE BeginPop \/ ConsumerClose
    BY <2>1 DEF BeginPop, ConsumerClose
  <2>2. CASE PopNotify
    BY <2>2 DEF PopNotify
  <2>3. CASE PopWaitLock \/ PopWaitTest \/ PopSleep
    BY <2>3 DEF PopWaitLock, PopWaitTest, PopSleep
  <2>4. CASE CloseNotifyEmpty(Consumer)
    BY <2>4 DEF CloseNotifyEmpty
  <2>5. CASE CloseNotifyFull(Consumer)
    BY <2>5 DEF CloseNotifyFull, AfterClose
  <2> QED
    BY <1>2, <2>1, <2>2, <2>3, <2>4, <2>5 DEF ConsumerStep, PopStep, Close, ChannelStep
<1>3. ASSUME NEW t \in Threads, SpuriousWakeup(t) PROVE Internal
  BY <1>3 DEF SpuriousWakeup
<1>4. CASE UNCHANGED vars
  BY <1>4 DEF vars
<1> QED
  BY <1>1, <1>2, <1>3, <1>4 DEF Next

\* Such a step is invisible.
LEMMA InternalStutters == ASSUME Inv, Inv', Internal PROVE UNCHANGED Channel!chanVars
<1>1. LineInv /\ LineInv'
  BY LineFacts, LineFactsNext
<1>2. FirstUnread' = FirstUnread
  BY DEF Internal, ReceiverFrame, FirstUnread
<1>3. ASSUME NEW n \in Nat, FirstUnread <= n, n < enqueue_pos PROVE MessageAt(n)' = MessageAt(n)
  <2>1. Unread(n) /\ Unread(n)'
    BY <1>1, <1>2, <1>3 DEF Internal, Unread, LineInv, Inv, TypeInv, RingType
  <2>2. \A q \in Producers : Owns(q, n) => Owns(q, n)' /\ pushed'[q] = pushed[q]
    BY DEF Internal, Owns
  <2> QED
    BY <2>1, <2>2, MessageKept DEF Internal, Published
<1> QED
  <2>1. Line' = Line
    BY <1>2, <1>3, SameLine DEF Internal
  <2>2. {p \in Producers : Writing(p)}' = {p \in Producers : Writing(p)}
    BY DEF Internal
  <2>3. pc'[Consumer] = "ended" <=> pc[Consumer] = "ended"
    BY DEF Internal, ReceiverFrame
  <2>4. pc'[Consumer] = "pop_closed" <=> pc[Consumer] = "pop_closed"
    BY DEF Internal, ReceiverFrame
  <2> QED
    BY <2>1, <2>2, <2>3, <2>4 DEF Internal, Line, Channel!chanVars

LEMMA ReserveTakesPlace ==
  ASSUME Inv, Inv', NEW p \in Producers, PushReserve(p), Capacity >= 2
  PROVE  Channel!TakePlace(p)
<1> USE ThreadsAssumption, CapacityAssumption, PushesAssumption
    DEF Inv, TypeInv, RingType, ControlType, Threads, Goto
<1>1. LineInv /\ LineInv'
  BY LineFacts, LineFactsNext
<1>2. /\ enqueue_pos' = enqueue_pos + 1
      /\ UNCHANGED <<dequeue_pos, sequence, value, pos, closed, delivered>>
      /\ pc[p] = "push_cas" /\ pos[p] = enqueue_pos
      /\ \A q \in Threads : q # p => pc'[q] = pc[q]
      /\ pushed' = [pushed EXCEPT ![p] = @ + 1]
      /\ \A q \in Producers : Writing(q)' <=> Writing(q) \/ q = p
      /\ ~Writing(p) /\ pushed[p] < MaxPushes
  BY DEF PushReserve, Writing, PushedInv
<1>3. pc'[Consumer] = pc[Consumer] /\ FirstUnread' = FirstUnread
  BY <1>2 DEF FirstUnread
<1>4. enqueue_pos < FirstUnread + Capacity
  <2>1. enqueue_pos < dequeue_pos + Capacity
    BY <1>2 DEF SlotInv, ReserveInv
  <2>2. FirstUnread \in Nat /\ dequeue_pos <= FirstUnread
    BY <1>1 DEF LineInv
  <2> QED
    BY <2>1, <2>2
<1>5. ASSUME NEW n \in Nat, n = enqueue_pos PROVE MessageAt(n)' = <<p, pushed[p] + 1>>
  <2>1. Owns(p, n)'
    BY <1>2, <1>5 DEF Owns
  <2>2. MessageAt(n)' = <<p, pushed'[p]>>
    BY <1>1, <2>1 DEF LineInv
  <2> QED
    BY <1>2, <2>2
<1>6. ASSUME NEW n \in Nat, FirstUnread <= n, n < enqueue_pos PROVE MessageAt(n)' = MessageAt(n)
  <2>1. Unread(n) /\ Unread(n)'
    BY <1>1, <1>2, <1>6, SMTT(30) DEF Unread, LineInv
  <2>2. \A q \in Producers : Owns(q, n) => Owns(q, n)' /\ pushed'[q] = pushed[q]
    BY <1>2 DEF Owns
  <2> QED
    BY <1>2, <2>1, <2>2, MessageKept DEF Published
<1>7. Line' = Append(Line, <<p, pushed[p] + 1>>)
  <2> DEFINE m == <<p, pushed[p] + 1>>
             longer == Append(Line, m)
  <2>1. m \in AnyMessage /\ Line \in Seq(AnyMessage) /\ Line' \in Seq(AnyMessage)
    <3>1. pushed[p] + 1 \in Nat
      OBVIOUS
    <3> QED
      BY <1>1, <3>1 DEF AnyMessage, LineInv
  <2>2. /\ longer \in Seq(AnyMessage) /\ Len(longer) = Len(Line) + 1
        /\ \A i \in 1 .. Len(Line) : longer[i] = Line[i]
        /\ longer[Len(Line) + 1] = m
    BY <2>1, AppendProperties
  <2>3. Len(Line) = enqueue_pos - FirstUnread /\ Len(Line') = Len(Line) + 1
    BY <1>1, <1>2, <1>3 DEF LineInv
  <2>4. ASSUME NEW i \in 1 .. Len(Line') PROVE Line'[i] = longer[i]
    <3>1. FirstUnread \in Nat
      BY <1>1 DEF LineInv
    <3>2. PICK n \in Nat : n = FirstUnread + i - 1
      BY <3>1
    <3>3. Line'[i] = MessageAt(n)'
      BY <1>1, <1>3, <3>2 DEF LineInv
    <3>4. CASE i = Len(Line) + 1
      <4>1. n = enqueue_pos
        BY <2>3, <3>1, <3>2, <3>4
      <4> QED
        BY <1>5, <2>2, <3>3, <3>4, <4>1
    <3>5. CASE i # Len(Line) + 1
      <4>1. i \in 1 .. Len(Line) /\ FirstUnread <= n /\ n < enqueue_pos
        BY <2>3, <3>1, <3>2, <3>5
      <4>2. Line[i] = MessageAt(n)
        BY <1>1, <3>2, <4>1 DEF LineInv
      <4> QED
        BY <1>6, <2>2, <3>3, <4>1, <4>2
    <3> QED
      BY <3>4, <3>5
  <2> HIDE DEF longer
  <2>5. Line' = longer
    BY <2>1, <2>2, <2>3, <2>4, SeqEqual
  <2> QED
    BY <2>5 DEF longer
<1>8. Len(Line) < Capacity
  BY <1>1, <1>4 DEF LineInv
<1>9. {q \in Producers : Writing(q)}' = {q \in Producers : Writing(q)} \cup {p}
  BY <1>2
<1> QED
  BY <1>2, <1>3, <1>7, <1>8, <1>9 DEF Line, Channel!TakePlace

LEMMA PublishPublishes ==
  ASSUME Inv, Inv', NEW p \in Producers, PushPublish(p)
  PROVE  Channel!Publish(p)
<1> USE ThreadsAssumption, CapacityAssumption
    DEF Inv, TypeInv, RingType, ControlType, Threads, Goto, callerVars
<1>1. LineInv /\ LineInv'
  BY LineFacts, LineFactsNext
<1>2. /\ UNCHANGED <<enqueue_pos, dequeue_pos, value, pos, pushed, closed, delivered>>
      /\ pc[p] = "push_publish" /\ pc'[p] = "push_notify"
      /\ \A q \in Threads : q # p => pc'[q] = pc[q]
      /\ \A q \in Producers : Writing(q)' <=> Writing(q) /\ q # p
      /\ Writing(p) /\ Unread(pos[p])
      /\ sequence' = [sequence EXCEPT ![Index(pos[p])] = pos[p] + 1]
  BY DEF PushPublish, Writing, SlotInv, OwnerInv
<1>3. pc'[Consumer] = pc[Consumer] /\ FirstUnread' = FirstUnread
  BY <1>2 DEF FirstUnread
<1>4. ASSUME NEW n \in Nat, FirstUnread <= n, n < enqueue_pos PROVE MessageAt(n)' = MessageAt(n)
  <2>1. Unread(n) /\ Unread(n)'
    BY <1>1, <1>2, <1>4 DEF Unread, LineInv
  <2>2. CASE n = pos[p]
    <3>1. MessageAt(n) = <<p, pushed[p]>>
      BY <1>1, <1>2, <2>2 DEF LineInv, Owns
    <3>2. value[Index(n)] = <<p, pushed[p]>>
      BY <1>2, <2>2 DEF MessageInv
    <3>3. Published(n)'
      BY <1>2, <2>2, IndexInSlots DEF Published
    <3>4. MessageAt(n)' = value'[Index(n)]
      BY <1>1, <2>1, <3>3 DEF LineInv
    <3> QED
      BY <1>2, <3>1, <3>2, <3>4
  <2>3. CASE n # pos[p]
    <3>1. dequeue_pos <= n /\ n < dequeue_pos + Capacity
      BY <2>1 DEF Unread, SlotInv, RingInv
    <3>2. sequence'[Index(n)] = sequence[Index(n)]
      BY <2>3, <3>1, PublishFrame
    <3>3. \A q \in Producers : Owns(q, n) => Owns(q, n)' /\ pushed'[q] = pushed[q]
      BY <1>2, <2>3 DEF Owns
    <3> QED
      BY <1>2, <2>1, <3>2, <3>3, MessageKept DEF Published
  <2> QED
    BY <2>2, <2>3
<1>5. Line' = Line
  BY <1>2, <1>3, <1>4, SameLine
<1>6. {q \in Producers : Writing(q)}' = {q \in Producers : Writing(q)} \ {p}
  BY <1>2
<1> QED
  BY <1>2, <1>3, <1>5, <1>6 DEF Line, Channel!Publish

\* The producer writes a slot whose message the mapping does not read yet.
LEMMA WriteStutters ==
  ASSUME Inv, Inv', NEW p \in Producers, PushWrite(p)
  PROVE  UNCHANGED Channel!chanVars
<1> USE ThreadsAssumption, CapacityAssumption
    DEF Inv, TypeInv, RingType, ControlType, Threads, Goto, callerVars
<1>1. LineInv /\ LineInv'
  BY LineFacts, LineFactsNext
<1>2. /\ UNCHANGED <<enqueue_pos, dequeue_pos, sequence, pos, pushed, closed, delivered>>
      /\ \A q \in Threads : q # p => pc'[q] = pc[q]
      /\ \A q \in Producers : Writing(q)' <=> Writing(q)
      /\ Writing(p) /\ Unread(pos[p])
      /\ value' = [value EXCEPT ![Index(pos[p])] = <<p, pushed[p]>>]
  BY DEF PushWrite, Writing, SlotInv, OwnerInv
<1>3. pc'[Consumer] = pc[Consumer] /\ FirstUnread' = FirstUnread
  BY <1>2 DEF FirstUnread
<1>4. ASSUME NEW n \in Nat, FirstUnread <= n, n < enqueue_pos PROVE MessageAt(n)' = MessageAt(n)
  <2>1. Unread(n) /\ Unread(n)'
    BY <1>1, <1>2, <1>4 DEF Unread, LineInv
  <2>2. ASSUME Published(n) PROVE value'[Index(n)] = value[Index(n)]
    <3>1. n # pos[p]
      BY <1>1, <1>2, <2>2 DEF LineInv, Owns
    <3>2. pos[p] \in Nat /\ dequeue_pos <= pos[p] /\ pos[p] < dequeue_pos + Capacity
      BY <1>2 DEF Unread, SlotInv, RingInv
    <3>3. dequeue_pos <= n /\ n < dequeue_pos + Capacity
      BY <2>1 DEF Unread, SlotInv, RingInv
    <3>4. Index(n) # Index(pos[p])
      BY <3>1, <3>2, <3>3, OneLap
    <3> QED
      BY <1>2, <3>4, IndexInSlots
  <2>3. \A q \in Producers : Owns(q, n) => Owns(q, n)' /\ pushed'[q] = pushed[q]
    BY <1>2 DEF Owns
  <2> QED
    BY <1>2, <2>1, <2>2, <2>3, MessageKept DEF Published
<1>5. Line' = Line
  BY <1>2, <1>3, <1>4, SameLine
<1>6. {q \in Producers : Writing(q)}' = {q \in Producers : Writing(q)}
  BY <1>2
<1> QED
  BY <1>2, <1>3, <1>5, <1>6 DEF Line, Channel!chanVars

\* The consumer releases a slot whose message it has taken already.
LEMMA FreeStutters == ASSUME Inv, Inv', PopFree PROVE UNCHANGED Channel!chanVars
<1> USE ThreadsAssumption, CapacityAssumption
    DEF Inv, TypeInv, RingType, ControlType, Threads, Goto, callerVars
<1>1. LineInv /\ LineInv'
  BY LineFacts, LineFactsNext
<1>2. /\ UNCHANGED <<enqueue_pos, value, pos, pushed, closed, delivered>>
      /\ dequeue_pos' = dequeue_pos + 1
      /\ pc[Consumer] = "pop_free" /\ pc'[Consumer] = "pop_notify"
      /\ \A q \in Producers : pc'[q] = pc[q] /\ (Writing(q)' <=> Writing(q))
  BY DEF PopFree, Writing
<1>3. FirstUnread' = FirstUnread /\ FirstUnread = dequeue_pos + 1
  BY <1>2 DEF FirstUnread
<1>4. ASSUME NEW n \in Nat, FirstUnread <= n, n < enqueue_pos PROVE MessageAt(n)' = MessageAt(n)
  <2>1. Unread(n) /\ Unread(n)' /\ n # dequeue_pos
    BY <1>1, <1>2, <1>3, <1>4 DEF Unread, LineInv
  <2>2. dequeue_pos <= n /\ n < dequeue_pos + Capacity
    BY <2>1 DEF Unread, SlotInv, RingInv
  <2>3. sequence'[Index(n)] = sequence[Index(n)]
    BY <2>1, <2>2, FreeFrame
  <2>4. \A q \in Producers : Owns(q, n) => Owns(q, n)' /\ pushed'[q] = pushed[q]
    BY <1>2 DEF Owns
  <2> QED
    BY <1>2, <2>1, <2>3, <2>4, MessageKept DEF Published
<1>5. Line' = Line
  BY <1>2, <1>3, <1>4, SameLine
<1>6. {q \in Producers : Writing(q)}' = {q \in Producers : Writing(q)}
  BY <1>2
<1> QED
  BY <1>2, <1>5, <1>6 DEF Line, Channel!chanVars

LEMMA TakeReceives == ASSUME Inv, Inv', PopTake PROVE Channel!Receive
<1> USE ThreadsAssumption, CapacityAssumption
    DEF Inv, TypeInv, RingType, ControlType, Threads, Goto
<1>1. LineInv /\ LineInv'
  BY LineFacts, LineFactsNext
<1>2. /\ UNCHANGED <<enqueue_pos, dequeue_pos, sequence, value, pos, pushed, closed>>
      /\ delivered' = Append(delivered, value[Index(dequeue_pos)])
      /\ pc[Consumer] = "pop_take" /\ pc'[Consumer] = "pop_free"
      /\ \A q \in Producers : pc'[q] = pc[q] /\ (Writing(q)' <=> Writing(q))
  BY DEF PopTake, Writing, ringVars
<1>3. FirstUnread = dequeue_pos /\ FirstUnread' = FirstUnread + 1
  BY <1>2 DEF FirstUnread
<1>4. Unread(dequeue_pos) /\ Published(dequeue_pos)
  BY <1>2 DEF SlotInv, ReadInv, Reading
<1>5. ASSUME NEW n \in Nat, FirstUnread' <= n, n < enqueue_pos PROVE MessageAt(n)' = MessageAt(n)
  <2>1. Unread(n) /\ Unread(n)'
    BY <1>1, <1>2, <1>3, <1>5 DEF Unread, LineInv
  <2>2. \A q \in Producers : Owns(q, n) => Owns(q, n)' /\ pushed'[q] = pushed[q]
    BY <1>2 DEF Owns
  <2> QED
    BY <1>2, <2>1, <2>2, MessageKept DEF Published
<1>6. Line # <<>> /\ Len(Line) = enqueue_pos - dequeue_pos /\ Len(Line) >= 1
  BY <1>1, <1>3, <1>4 DEF LineInv, Unread
<1>7. Head(Line) = value[Index(dequeue_pos)]
  <2>1. Head(Line) = Line[1]
    BY <1>1, <1>6 DEF LineInv
  <2>2. PICK n \in Nat : n = dequeue_pos
    OBVIOUS
  <2>3. Line[1] = MessageAt(n)
    BY <1>1, <1>3, <1>6, <2>2 DEF LineInv
  <2>4. MessageAt(n) = value[Index(n)]
    BY <1>1, <1>4, <2>2 DEF LineInv
  <2> QED
    BY <2>1, <2>2, <2>3, <2>4
<1>8. ASSUME NEW p \in Producers, Writing(p) PROVE Head(Line) # <<p, pushed[p]>>
  <2>1. CASE pushed[p] \in 1 .. MaxPushes
    <3>1. SUFFICES ASSUME value[Index(dequeue_pos)] = <<p, pushed[p]>> PROVE FALSE
      BY <1>7
    <3>2. pushed[p] < pushed[p] \/ ~Writing(p)
      BY <1>4, <2>1, <3>1 DEF MessageInv
    <3> QED
      BY <1>8, <2>1, <3>2, PushesAssumption
  <2>2. CASE pushed[p] \notin 1 .. MaxPushes
    BY <1>8, <2>2, PushesAssumption DEF PushedInv
  <2> QED
    BY <2>1, <2>2
<1>9. Line' = Tail(Line)
  <2> DEFINE rest == Tail(Line)
  <2>1. Line \in Seq(AnyMessage) /\ Line' \in Seq(AnyMessage)
    BY <1>1 DEF LineInv
  <2>2. /\ rest \in Seq(AnyMessage) /\ Len(rest) = Len(Line) - 1
        /\ \A i \in 1 .. Len(rest) : rest[i] = Line[i + 1]
    BY <1>6, <2>1, HeadTailProperties
  <2>3. Len(Line') = Len(rest)
    BY <1>1, <1>2, <1>3, <1>6, <2>2 DEF LineInv
  <2>4. ASSUME NEW i \in 1 .. Len(Line') PROVE Line'[i] = rest[i]
    <3>1. PICK n \in Nat : n = FirstUnread + i
      BY <1>1 DEF LineInv
    <3>6. n = FirstUnread' + i - 1 /\ n = FirstUnread + (i + 1) - 1
      BY <1>1, <1>3, <3>1 DEF LineInv
    <3>2. Line'[i] = MessageAt(n)'
      BY <1>1, <3>6 DEF LineInv
    <3>3. FirstUnread' <= n /\ n < enqueue_pos
      BY <1>1, <1>2, <1>3, <1>6, <2>2, <2>3, <3>1 DEF LineInv
    <3>4. rest[i] = Line[i + 1] /\ i + 1 \in 1 .. Len(Line)
      BY <1>6, <2>2, <2>3
    <3>5. Line[i + 1] = MessageAt(n)
      BY <1>1, <3>4, <3>6 DEF LineInv
    <3> QED
      BY <1>5, <3>2, <3>3, <3>4, <3>5
  <2> HIDE DEF rest
  <2>5. Line' = rest
    BY <2>1, <2>2, <2>3, <2>4, SeqEqual
  <2> QED
    BY <2>5 DEF rest
<1>10. {q \in Producers : Writing(q)}' = {q \in Producers : Writing(q)}
  BY <1>2
<1> QED
  BY <1>2, <1>6, <1>7, <1>8, <1>9, <1>10 DEF Line, Channel!Receive, Channel!HeadReady

\* PopLoad finds the head published, and nothing the channel sees changes, or
\* it finds nothing.
LEMMA LoadLooks ==
  ASSUME Inv, Inv', PopLoad
  PROVE  Channel!FindNothing \/ UNCHANGED Channel!chanVars
<1> USE ThreadsAssumption, CapacityAssumption
    DEF Inv, TypeInv, RingType, ControlType, Threads, Goto
<1>1. LineInv /\ LineInv'
  BY LineFacts, LineFactsNext
<1>2. /\ UNCHANGED <<enqueue_pos, dequeue_pos, sequence, value, pos, pushed, closed, delivered>>
      /\ pc[Consumer] = "pop_load" /\ pc'[Consumer] \in {"pop_take", "pop_closed", "pop_load"}
      /\ \A q \in Producers : pc'[q] = pc[q] /\ (Writing(q)' <=> Writing(q))
  BY DEF PopLoad, Writing, ringVars, callerVars
<1>3. FirstUnread = dequeue_pos /\ FirstUnread' = FirstUnread
  BY <1>2 DEF FirstUnread
<1>4. ASSUME NEW n \in Nat, FirstUnread <= n, n < enqueue_pos PROVE MessageAt(n)' = MessageAt(n)
  <2>1. Unread(n) /\ Unread(n)'
    BY <1>1, <1>2, <1>3, <1>4 DEF Unread, LineInv
  <2>2. \A q \in Producers : Owns(q, n) => Owns(q, n)' /\ pushed'[q] = pushed[q]
    BY <1>2 DEF Owns
  <2> QED
    BY <1>2, <2>1, <2>2, MessageKept DEF Published
<1>5. Line' = Line
  BY <1>2, <1>3, <1>4, SameLine
<1>6. {q \in Producers : Writing(q)}' = {q \in Producers : Writing(q)}
  BY <1>2
<1>7. CASE pc'[Consumer] = "pop_closed"
  <2>1. ~Published(dequeue_pos)
    <3>1. sequence[Index(dequeue_pos)] - (dequeue_pos + 1) # 0
      BY <1>7 DEF PopLoad
    <3> QED
      BY <3>1, IndexInSlots DEF Published
  <2>2. Line = <<>> \/ \E p \in Producers : Writing(p) /\ Head(Line) = <<p, pushed[p]>>
    <3>1. ASSUME Line # <<>> PROVE \E p \in Producers : Writing(p) /\ Head(Line) = <<p, pushed[p]>>
      <4>1. Len(Line) = enqueue_pos - dequeue_pos /\ Len(Line) >= 1 /\ Head(Line) = Line[1]
        BY <1>1, <1>3, <3>1 DEF LineInv
      <4>2. Unread(dequeue_pos)
        BY <4>1 DEF Unread
      <4>3. PICK n \in Nat : n = dequeue_pos
        OBVIOUS
      <4>4. PICK p \in Producers : Owns(p, n)
        BY <2>1, <4>2, <4>3 DEF SlotInv, RingInv
      <4>5. Line[1] = MessageAt(n)
        BY <1>1, <1>3, <4>1, <4>3, SMTT(30) DEF LineInv
      <4>6. MessageAt(n) = <<p, pushed[p]>> /\ Writing(p)
        BY <1>1, <4>4 DEF LineInv, Owns
      <4> QED
        BY <4>1, <4>5, <4>6
    <3> QED
      BY <3>1
  <2> QED
    BY <1>2, <1>5, <1>6, <1>7, <2>2 DEF Line, Channel!FindNothing, Channel!HeadReady
<1>8. CASE pc'[Consumer] # "pop_closed"
  BY <1>2, <1>5, <1>6, <1>8 DEF Line, Channel!chanVars
<1> QED
  BY <1>7, <1>8

\* The steps that leave the line alone and tell the channel's receiver of closed_.
LEMMA ClosedIsShut ==
  ASSUME Inv, Inv', PopCheckClosed \/ \E t \in Threads : CloseExchange(t)
  PROVE  Channel!End \/ Channel!LookAgain \/ Channel!Shut
<1> USE ThreadsAssumption, CapacityAssumption
    DEF Inv, TypeInv, RingType, ControlType, Threads, Goto
<1>1. LineInv /\ LineInv'
  BY LineFacts, LineFactsNext
<1>2. /\ UNCHANGED <<enqueue_pos, dequeue_pos, sequence, value, pos, pushed, delivered>>
      /\ \A q \in Producers : Writing(q)' <=> Writing(q)
      /\ (pc[Consumer] # "pop_free" /\ pc'[Consumer] # "pop_free") \/ pc'[Consumer] = pc[Consumer]
  <2>1. CASE PopCheckClosed
    BY <2>1 DEF PopCheckClosed, Writing, ringVars, callerVars
  <2>2. ASSUME NEW t \in Threads, CloseExchange(t)
        PROVE  /\ UNCHANGED <<enqueue_pos, dequeue_pos, sequence, value, pos, pushed, delivered>>
               /\ \A q \in Producers : Writing(q)' <=> Writing(q)
               /\ (pc[Consumer] # "pop_free" /\ pc'[Consumer] # "pop_free") \/ pc'[Consumer] = pc[Consumer]
    BY <2>2 DEF CloseExchange, AfterClose, Writing, ringVars, callerVars
  <2> QED
    BY <2>1, <2>2
<1>3. FirstUnread' = FirstUnread
  BY <1>2 DEF FirstUnread
<1>4. ASSUME NEW n \in Nat, FirstUnread <= n, n < enqueue_pos PROVE MessageAt(n)' = MessageAt(n)
  <2>1. Unread(n) /\ Unread(n)'
    BY <1>1, <1>2, <1>3, <1>4 DEF Unread, LineInv
  <2>2. \A q \in Producers : Owns(q, n) => Owns(q, n)' /\ pushed'[q] = pushed[q]
    BY <1>2 DEF Owns
  <2> QED
    BY <1>2, <2>1, <2>2, MessageKept DEF Published
<1>5. Line' = Line
  BY <1>2, <1>3, <1>4, SameLine
<1>6. {q \in Producers : Writing(q)}' = {q \in Producers : Writing(q)}
  BY <1>2
<1>7. CASE PopCheckClosed
  <2>1. closed' = closed /\ pc[Consumer] = "pop_closed"
        /\ pc'[Consumer] = (IF closed THEN "ended" ELSE "pop_lock")
    BY <1>7 DEF PopCheckClosed
  <2>2. CASE closed
    BY <1>2, <1>5, <1>6, <2>1, <2>2 DEF Line, Channel!End
  <2>3. CASE ~closed
    BY <1>2, <1>5, <1>6, <2>1, <2>3 DEF Line, Channel!LookAgain
  <2> QED
    BY <2>2, <2>3
<1>8. ASSUME NEW t \in Threads, CloseExchange(t) PROVE Channel!Shut
  <2>1. /\ closed' = TRUE
        /\ pc'[Consumer] = "ended" <=> pc[Consumer] = "ended"
        /\ pc'[Consumer] = "pop_closed" <=> pc[Consumer] = "pop_closed"
    BY <1>8 DEF CloseExchange, AfterClose
  <2> QED
    BY <1>2, <1>5, <1>6, <2>1 DEF Line, Channel!Shut
<1> QED
  BY <1>7, <1>8

LEMMA InitChannel == Init => Channel!Init
<1> SUFFICES ASSUME Init PROVE Channel!Init
  OBVIOUS
<1>1. /\ enqueue_pos = 0 /\ FirstUnread = 0 /\ pc[Consumer] = "idle"
      /\ \A p \in Producers : pc[p] = "idle" /\ ~Writing(p)
  BY ThreadsAssumption DEF Init, Threads, FirstUnread, Writing
<1>2. [i \in 1 .. enqueue_pos - FirstUnread |-> MessageAt(FirstUnread + i - 1)] = <<>>
  BY <1>1
<1> QED
  BY <1>1, <1>2 DEF Init, Channel!Init

\* Each step of Push, Pop and Close is a step of the channel or invisible.
LEMMA StepChannel ==
  ASSUME Inv, Inv', Capacity >= 2, [Next]_vars
  PROVE  [Channel!Next]_(Channel!chanVars)
<1>1. ASSUME NEW p \in Producers, PushReserve(p) PROVE Channel!Next
  BY <1>1, ReserveTakesPlace DEF Channel!Next
<1>2. ASSUME NEW p \in Producers, PushPublish(p) PROVE Channel!Next
  BY <1>2, PublishPublishes DEF Channel!Next
<1>3. ASSUME NEW p \in Producers, PushWrite(p) PROVE UNCHANGED Channel!chanVars
  BY <1>3, WriteStutters
<1>4. CASE PopTake
  BY <1>4, TakeReceives DEF Channel!Next
<1>5. CASE PopFree
  BY <1>5, FreeStutters
<1>6. CASE PopLoad
  BY <1>6, LoadLooks DEF Channel!Next
<1>7. CASE PopCheckClosed \/ \E t \in Threads : CloseExchange(t)
  BY <1>7, ClosedIsShut DEF Channel!Next
<1>8. CASE ~ChannelStep
  BY <1>8, OtherStepsInternal, InternalStutters DEF Inv
<1> QED
  BY <1>1, <1>2, <1>3, <1>4, <1>5, <1>6, <1>7, <1>8 DEF ChannelStep

\* For every number of producers, every number of messages and every capacity of
\* two or more, each step of Push, Pop and Close is a step of the FIFO channel
\* or invisible: an accepted message is handed over once, in acceptance order.
THEOREM RingImplementsChannel == ASSUME Capacity >= 2 PROVE Spec => ImplementsChannel
  BY InitChannel, StepChannel, AlwaysInv, PTL DEF Spec, ImplementsChannel, Channel!Spec

-----------------------------------------------------------------------------
(* What the queue allows its callers: to begin a Push, a Pop or a Close *)

\* A caller of the queue goes to Close, whatever its reason is.
GoesToClose(t) ==
  /\ pc[t] \in {"idle", "refused"}
  /\ pc' = [pc EXCEPT ![t] = "close"]
  /\ UNCHANGED <<ringVars, closed, callerVars, lost>>

CallerNext == Next \/ \E t \in Threads : GoesToClose(t)

LEMMA GoesToCloseIsInternal ==
  ASSUME TypeInv, NEW t \in Threads, GoesToClose(t)
  PROVE  /\ Quiet /\ Internal /\ TypeInv'
         /\ \A q \in Producers : pc'[q] = "push_publish" => pc[q] = "push_publish"
<1> USE ThreadsAssumption
    DEF GoesToClose, TypeInv, ControlType, Threads, Writing, Reading, ringVars, callerVars
<1>1. Quiet
  BY DEF Quiet
<1>2. Internal
  BY DEF Internal, ReceiverFrame
<1>3. \A q \in Producers : pc'[q] = "push_publish" => pc[q] = "push_publish"
  OBVIOUS
<1>4. RingType' /\ PushedInv'
  BY DEF RingType, PushedInv
<1>5. ControlType'
  BY DEF ProducerPCs, ConsumerPCs
<1> QED
  BY <1>1, <1>2, <1>3, <1>4, <1>5

LEMMA StepCaller ==
  ASSUME Inv, Capacity >= 2, [CallerNext]_vars
  PROVE  Inv'
<1>1. CASE [Next]_vars
  BY <1>1, StepType, StepSlot, StepMessage DEF Inv
<1>2. ASSUME NEW t \in Threads, GoesToClose(t) PROVE Inv'
  <2>1. TypeInv' /\ Quiet /\ Internal
    BY <1>2, GoesToCloseIsInternal DEF Inv
  <2>2. SlotInv'
    BY <2>1, QuietSlot DEF Inv
  <2>3. MessageInv'
    <3>1. \A q \in Producers : pc'[q] = "push_publish" => pc[q] = "push_publish"
      BY <1>2, GoesToCloseIsInternal DEF Inv
    <3>2. MessageInv
      BY DEF Inv
    <3> QED
      BY <2>1, <3>1, <3>2 DEF MessageInv, Internal, Quiet, Unread, Published
  <2> QED
    BY <2>1, <2>2, <2>3 DEF Inv
<1> QED
  BY <1>1, <1>2 DEF CallerNext

LEMMA StepCallerChannel ==
  ASSUME Inv, Inv', Capacity >= 2, [CallerNext]_vars
  PROVE  [Channel!Next]_(Channel!chanVars)
<1>1. ASSUME NEW t \in Threads, GoesToClose(t) PROVE UNCHANGED Channel!chanVars
  BY <1>1, GoesToCloseIsInternal, InternalStutters DEF Inv
<1> QED
  BY <1>1, StepChannel DEF CallerNext

-----------------------------------------------------------------------------
(* Sleeping *)

\* Producers in Push that will still look at the ring or at closed_.
Awake == {p \in Producers :
            pc[p] \in {"push_closed", "push_load", "push_cas", "push_lock", "push_pred"}}

Notices == IF pc[Consumer] = "pop_notify" THEN 1 ELSE 0

ReadableWake ==
  pc[Consumer] \in {"pop_block", "pop_wait"} /\ IsCurrentSlotReadable =>
    \E p \in Producers : pc[p] = "push_notify"

ShutConsumerWake ==
  pc[Consumer] \in {"pop_pred", "pop_block", "pop_wait"} /\ closed =>
    \E t \in Threads : pc[t] = "close_empty"

ShutProducerWake ==
  (\E p \in Producers : pc[p] \in {"push_pred", "push_block", "push_wait"}) /\ closed =>
    \E t \in Threads : pc[t] \in {"close_empty", "close_full"}

\* There are at least as many producers awake, or about to be notified, as there
\* are free places while another producer sleeps.
RoomWake ==
  (\E p \in Producers : pc[p] \in {"push_block", "push_wait"}) /\ ~closed =>
    dequeue_pos + Capacity - enqueue_pos <= Cardinality(Awake) + Notices

WakeInv == ~lost => ReadableWake /\ ShutConsumerWake /\ ShutProducerWake /\ RoomWake

LEMMA InitWake == Init => WakeInv
BY ThreadsAssumption
   DEF Init, WakeInv, ReadableWake, ShutConsumerWake, ShutProducerWake, RoomWake, Threads

\* A lost notification is never found again.
LEMMA LostStays == ASSUME TypeInv, [CallerNext]_vars, lost PROVE lost'
<1> USE DEF callerVars, ringVars
<1>1. ASSUME NEW p \in Producers, ProducerStep(p) PROVE lost'
  BY <1>1 DEF ProducerStep, PushStep, Close, BeginPush, Retire, Fail, PushCheckClosed, PushLoad,
     PushReserve, PushRetry, PushWrite, PushPublish, PushNotify, PushWaitLock, PushWaitTest,
     PushSleep, CloseExchange, CloseNotifyEmpty, CloseNotifyFull
<1>2. ASSUME ConsumerStep PROVE lost'
  BY <1>2 DEF ConsumerStep, PopStep, Close, BeginPop, ConsumerClose, PopLoad, PopTake, PopFree,
     PopNotify, PopCheckClosed, PopWaitLock, PopWaitTest, PopSleep, CloseExchange,
     CloseNotifyEmpty, CloseNotifyFull
<1>3. CASE \E t \in Threads : SpuriousWakeup(t) \/ GoesToClose(t)
  BY <1>3 DEF SpuriousWakeup, GoesToClose
<1>4. CASE UNCHANGED vars
  BY <1>4 DEF vars
<1> QED
  BY <1>1, <1>2, <1>3, <1>4 DEF CallerNext, Next

\* A published slot is notified of by the producer that published it.
LEMMA StepReadable ==
  ASSUME TypeInv, [CallerNext]_vars, ~lost', ReadableWake
  PROVE  ReadableWake'
<1> USE ThreadsAssumption
    DEF TypeInv, ControlType, Threads, Goto, ringVars, callerVars, ReadableWake, IsCurrentSlotReadable
<1>1. ASSUME NEW p \in Producers, ProducerStep(p) PROVE ReadableWake'
  <2>1. CASE BeginPush(p) \/ Retire(p) \/ Fail(p)
    BY <2>1 DEF BeginPush, Retire, Fail
  <2>2. CASE PushCheckClosed(p) \/ PushLoad(p) \/ PushReserve(p) \/ PushRetry(p) \/ PushWrite(p)
    BY <2>2 DEF PushCheckClosed, PushLoad, PushReserve, PushRetry, PushWrite
  <2>3. CASE PushPublish(p)
    BY <2>3 DEF PushPublish
  <2>4. CASE PushNotify(p)
    BY <2>4 DEF PushNotify
  <2>5. CASE PushWaitLock(p) \/ PushWaitTest(p) \/ PushSleep(p)
    BY <2>5 DEF PushWaitLock, PushWaitTest, PushSleep
  <2>6. CASE CloseExchange(p) \/ CloseNotifyEmpty(p)
    BY <2>6 DEF CloseExchange, CloseNotifyEmpty, AfterClose
  <2>7. CASE CloseNotifyFull(p)
    BY <2>7 DEF CloseNotifyFull, AfterClose
  <2> QED
    BY <1>1, <2>1, <2>2, <2>3, <2>4, <2>5, <2>6, <2>7 DEF ProducerStep, PushStep, Close
<1>2. ASSUME ConsumerStep PROVE ReadableWake'
  <2>1. CASE BeginPop \/ ConsumerClose \/ PopLoad \/ PopTake \/ PopFree
    BY <2>1 DEF BeginPop, ConsumerClose, PopLoad, PopTake, PopFree
  <2>2. CASE PopNotify
    BY <2>2 DEF PopNotify
  <2>3. CASE PopCheckClosed \/ PopWaitLock \/ PopWaitTest \/ PopSleep
    BY <2>3 DEF PopCheckClosed, PopWaitLock, PopWaitTest, PopSleep
  <2>4. CASE CloseExchange(Consumer) \/ CloseNotifyEmpty(Consumer)
    BY <2>4 DEF CloseExchange, CloseNotifyEmpty, AfterClose
  <2>5. CASE CloseNotifyFull(Consumer)
    BY <2>5 DEF CloseNotifyFull, AfterClose
  <2> QED
    BY <1>2, <2>1, <2>2, <2>3, <2>4, <2>5 DEF ConsumerStep, PopStep, Close
<1>3. ASSUME NEW t \in Threads, SpuriousWakeup(t) \/ GoesToClose(t) PROVE ReadableWake'
  BY <1>3 DEF SpuriousWakeup, GoesToClose
<1>4. CASE UNCHANGED vars
  BY <1>4 DEF vars
<1> QED
  BY <1>1, <1>2, <1>3, <1>4 DEF CallerNext, Next

\* Close is on its way to everybody who went to sleep before it.
LEMMA StepShut ==
  ASSUME TypeInv, [CallerNext]_vars, ~lost', ShutConsumerWake, ShutProducerWake
  PROVE  ShutConsumerWake' /\ ShutProducerWake'
<1> DEFINE Woken == ShutConsumerWake' /\ ShutProducerWake'
<1> USE ThreadsAssumption
    DEF TypeInv, ControlType, Threads, Goto, ringVars, callerVars, ShutConsumerWake, ShutProducerWake
<1>1. ASSUME NEW p \in Producers, ProducerStep(p) PROVE Woken
  <2>1. CASE BeginPush(p) \/ Retire(p) \/ Fail(p)
    BY <2>1 DEF BeginPush, Retire, Fail
  <2>2. CASE PushCheckClosed(p) \/ PushLoad(p) \/ PushReserve(p) \/ PushRetry(p) \/ PushWrite(p)
    BY <2>2 DEF PushCheckClosed, PushLoad, PushReserve, PushRetry, PushWrite
  <2>3. CASE PushPublish(p) \/ PushNotify(p)
    BY <2>3 DEF PushPublish, PushNotify
  <2>4. CASE PushWaitLock(p) \/ PushWaitTest(p) \/ PushSleep(p)
    BY <2>4 DEF PushWaitLock, PushWaitTest, PushSleep
  <2>5. CASE CloseExchange(p)
    BY <2>5 DEF CloseExchange, AfterClose
  <2>6. CASE CloseNotifyEmpty(p)
    BY <2>6 DEF CloseNotifyEmpty
  <2>7. CASE CloseNotifyFull(p)
    BY <2>7 DEF CloseNotifyFull, AfterClose
  <2> QED
    BY <1>1, <2>1, <2>2, <2>3, <2>4, <2>5, <2>6, <2>7 DEF ProducerStep, PushStep, Close
<1>2. ASSUME ConsumerStep PROVE Woken
  <2>1. CASE BeginPop \/ ConsumerClose \/ PopLoad \/ PopTake \/ PopFree
    BY <2>1 DEF BeginPop, ConsumerClose, PopLoad, PopTake, PopFree
  <2>2. CASE PopNotify
    BY <2>2 DEF PopNotify
  <2>3. CASE PopCheckClosed \/ PopWaitLock \/ PopWaitTest \/ PopSleep
    BY <2>3 DEF PopCheckClosed, PopWaitLock, PopWaitTest, PopSleep
  <2>4. CASE CloseExchange(Consumer)
    BY <2>4 DEF CloseExchange, AfterClose
  <2>5. CASE CloseNotifyEmpty(Consumer)
    BY <2>5 DEF CloseNotifyEmpty
  <2>6. CASE CloseNotifyFull(Consumer)
    BY <2>6 DEF CloseNotifyFull, AfterClose
  <2> QED
    BY <1>2, <2>1, <2>2, <2>3, <2>4, <2>5, <2>6 DEF ConsumerStep, PopStep, Close
<1>3. ASSUME NEW t \in Threads, SpuriousWakeup(t) \/ GoesToClose(t) PROVE Woken
  BY <1>3 DEF SpuriousWakeup, GoesToClose
<1>4. CASE UNCHANGED vars
  BY <1>4 DEF vars
<1> QED
  BY <1>1, <1>2, <1>3, <1>4 DEF CallerNext, Next

Sleeping == \E p \in Producers : pc[p] \in {"push_block", "push_wait"}

LEMMA AwakeFinite == IsFiniteSet(Awake) /\ Cardinality(Awake) \in Nat
BY ProducersAssumption, FS_Subset, FS_CardinalityType DEF Awake

LEMMA AwakeFiniteNext == IsFiniteSet(Awake') /\ Cardinality(Awake') \in Nat
BY ProducersAssumption, FS_Subset, FS_CardinalityType DEF Awake

LEMMA MoreIsEnough ==
  ASSUME NEW d \in Nat, NEW c \in Nat, NEW e \in Nat, NEW n \in Nat,
         NEW a \in Nat, NEW b \in Nat, a <= b, d + c - e <= a + n
  PROVE  d + c - e <= b + n
OBVIOUS

Kept ==
  /\ Awake \subseteq Awake' /\ Notices' = Notices
  /\ dequeue_pos' = dequeue_pos /\ enqueue_pos' = enqueue_pos
  /\ closed => closed'
  /\ Sleeping' => Sleeping

\* Steps that take nobody's wakefulness and no place.
LEMMA RoomKept == ASSUME TypeInv, RoomWake, Kept PROVE RoomWake'
<1>1. IsFiniteSet(Awake') /\ Cardinality(Awake') \in Nat
  BY AwakeFiniteNext
<1>2. Cardinality(Awake) <= Cardinality(Awake') /\ Cardinality(Awake) \in Nat
  BY <1>1, AwakeFinite, FS_Subset DEF Kept
<1>3. dequeue_pos \in Nat /\ enqueue_pos \in Nat /\ Capacity \in Nat /\ Notices \in Nat
  BY CapacityAssumption DEF TypeInv, RingType, Notices
<1>4. SUFFICES ASSUME Sleeping', ~closed'
               PROVE  dequeue_pos + Capacity - enqueue_pos <= Cardinality(Awake') + Notices
  BY DEF RoomWake, Sleeping, Kept
<1>5. dequeue_pos + Capacity - enqueue_pos <= Cardinality(Awake) + Notices
  BY <1>4 DEF RoomWake, Sleeping, Kept
<1> QED
  BY <1>1, <1>2, <1>3, <1>5, MoreIsEnough

\* A producer that tests the ring and finds no place has none.
LEMMA NoPlace ==
  ASSUME TypeInv, SlotInv, ~CanProducerReserveSlot
  PROVE  enqueue_pos = dequeue_pos + Capacity
<1>1. enqueue_pos \in Nat /\ dequeue_pos \in Nat /\ Capacity \in Nat
  BY CapacityAssumption DEF TypeInv, RingType
<1>2. ~Free(enqueue_pos)
  BY <1>1 DEF CanProducerReserveSlot, Free
<1> QED
  BY <1>1, <1>2 DEF SlotInv, RingInv

LEMMA Place ==
  ASSUME TypeInv, SlotInv, Capacity >= 2, CanProducerReserveSlot
  PROVE  enqueue_pos < dequeue_pos + Capacity
<1>1. enqueue_pos \in Nat /\ dequeue_pos \in Nat /\ Capacity \in Nat
  BY CapacityAssumption DEF TypeInv, RingType
<1>2. SUFFICES ASSUME enqueue_pos = dequeue_pos + Capacity PROVE FALSE
  BY <1>1 DEF SlotInv, RingInv
<1>3. Index(enqueue_pos) = Index(dequeue_pos)
  BY <1>1, <1>2, NextLap
<1>4. Published(dequeue_pos) \/ Free(dequeue_pos)
  <2>1. Unread(dequeue_pos)
    BY <1>1, <1>2 DEF Unread
  <2> QED
    BY <1>1, <2>1 DEF SlotInv, RingInv, OwnerInv, Owns
<1> QED
  BY <1>1, <1>2, <1>3, <1>4 DEF CanProducerReserveSlot, Published, Free

LEMMA StepRoom ==
  ASSUME TypeInv, SlotInv, [CallerNext]_vars, ~lost', RoomWake
  PROVE  RoomWake'
<1>k. ASSUME Kept PROVE RoomWake'
  BY <1>k, RoomKept
<1> USE ThreadsAssumption DEF TypeInv, ControlType, Threads, Goto, ringVars, callerVars
<1>0. /\ dequeue_pos \in Nat /\ enqueue_pos \in Nat /\ Capacity \in Nat
      /\ IsFiniteSet(Awake) /\ Cardinality(Awake) \in Nat
      /\ IsFiniteSet(Awake') /\ Cardinality(Awake') \in Nat
  <2>1. IsFiniteSet(Awake') /\ Cardinality(Awake') \in Nat
    BY AwakeFiniteNext
  <2> QED
    BY <2>1, AwakeFinite, CapacityAssumption DEF RingType
<1>1. ASSUME NEW p \in Producers, ProducerStep(p) PROVE RoomWake'
  <2>1. CASE BeginPush(p) \/ Retire(p) \/ Fail(p)
    <3>1. Kept
      BY <2>1 DEF Kept, BeginPush, Retire, Fail, Awake, Notices, Sleeping
    <3> QED
      BY <3>1, <1>k
  <2>2. CASE PushCheckClosed(p)
    <3>1. CASE closed
      BY <2>2, <3>1 DEF PushCheckClosed, RoomWake
    <3>2. CASE ~closed
      <4>1. Kept
        BY <2>2, <3>2 DEF Kept, PushCheckClosed, Awake, Notices, Sleeping
      <4> QED
        BY <4>1, <1>k
    <3> QED
      BY <3>1, <3>2
  <2>3. CASE PushLoad(p) \/ PushRetry(p)
    <3>1. Kept
      BY <2>3 DEF Kept, PushLoad, PushRetry, Awake, Notices, Sleeping
    <3> QED
      BY <3>1, <1>k
  <2>4. CASE PushReserve(p)
    <3>1. /\ Awake' = Awake \ {p} /\ p \in Awake /\ Notices' = Notices /\ Notices \in Nat
          /\ dequeue_pos' = dequeue_pos /\ enqueue_pos' = enqueue_pos + 1
          /\ closed' = closed /\ (Sleeping' => Sleeping)
      BY <2>4 DEF PushReserve, Awake, Notices, Sleeping
    <3>2. Cardinality(Awake') = Cardinality(Awake) - 1
      BY <1>0, <3>1, FS_RemoveElement
    <3>3. Sleeping /\ ~closed => dequeue_pos + Capacity - enqueue_pos <= Cardinality(Awake) + Notices
      BY DEF RoomWake, Sleeping
    <3>4. Sleeping' /\ ~closed' =>
            dequeue_pos' + Capacity - enqueue_pos' <= Cardinality(Awake') + Notices'
      BY <1>0, <3>1, <3>2, <3>3
    <3> QED
      BY <3>4 DEF RoomWake, Sleeping
  <2>5. CASE PushWrite(p) \/ PushPublish(p)
    <3>1. Kept
      BY <2>5 DEF Kept, PushWrite, PushPublish, Awake, Notices, Sleeping
    <3> QED
      BY <3>1, <1>k
  <2>6. CASE PushNotify(p)
    <3>1. Kept
      BY <2>6 DEF Kept, PushNotify, Awake, Notices, Sleeping
    <3> QED
      BY <3>1, <1>k
  <2>7. CASE PushWaitLock(p) \/ PushSleep(p)
    <3>1. Kept
      BY <2>7 DEF Kept, PushWaitLock, PushSleep, Awake, Notices, Sleeping
    <3> QED
      BY <3>1, <1>k
  <2>8. CASE PushWaitTest(p)
    <3>1. CASE CanProducerReserveSlot
      <4>1. Kept
        BY <2>8, <3>1 DEF Kept, PushWaitTest, Awake, Notices, Sleeping
      <4> QED
        BY <4>1, <1>k
    <3>2. CASE ~CanProducerReserveSlot
      <4>1. enqueue_pos = dequeue_pos + Capacity
        BY <3>2, NoPlace
      <4>2. UNCHANGED <<enqueue_pos, dequeue_pos>> /\ Notices' \in Nat
        BY <2>8 DEF PushWaitTest, Notices
      <4>3. dequeue_pos' + Capacity - enqueue_pos' <= Cardinality(Awake') + Notices'
        BY <1>0, <4>1, <4>2
      <4> QED
        BY <4>3 DEF RoomWake
    <3> QED
      BY <3>1, <3>2
  <2>9. CASE CloseExchange(p)
    BY <2>9 DEF CloseExchange, RoomWake
  <2>10. CASE CloseNotifyEmpty(p)
    <3>1. Kept
      BY <2>10 DEF Kept, CloseNotifyEmpty, Awake, Notices, Sleeping
    <3> QED
      BY <3>1, <1>k
  <2>11. CASE CloseNotifyFull(p)
    <3>1. Kept
      BY <2>11 DEF Kept, CloseNotifyFull, AfterClose, Awake, Notices, Sleeping
    <3> QED
      BY <3>1, <1>k
  <2> QED
    BY <1>1, <2>1, <2>2, <2>3, <2>4, <2>5, <2>6, <2>7, <2>8, <2>9, <2>10, <2>11
    DEF ProducerStep, PushStep, Close
<1>2. ASSUME ConsumerStep PROVE RoomWake'
  <2>1. CASE BeginPop \/ ConsumerClose \/ PopLoad \/ PopTake
    <3>1. Kept
      BY <2>1 DEF Kept, BeginPop, ConsumerClose, PopLoad, PopTake, Awake, Notices, Sleeping
    <3> QED
      BY <3>1, <1>k
  <2>2. CASE PopFree
    <3>1. /\ Awake' = Awake /\ Notices = 0 /\ Notices' = 1
          /\ dequeue_pos' = dequeue_pos + 1 /\ enqueue_pos' = enqueue_pos
          /\ closed' = closed /\ (Sleeping' => Sleeping)
      BY <2>2 DEF PopFree, Awake, Notices, Sleeping
    <3>2. Sleeping /\ ~closed => dequeue_pos + Capacity - enqueue_pos <= Cardinality(Awake) + Notices
      BY DEF RoomWake, Sleeping
    <3>3. Sleeping' /\ ~closed' =>
            dequeue_pos' + Capacity - enqueue_pos' <= Cardinality(Awake') + Notices'
      BY <1>0, <3>1, <3>2
    <3> QED
      BY <3>3 DEF RoomWake, Sleeping
  <2>3. CASE PopNotify
    <3>1. ASSUME NEW p \in Producers, pc[p] = "push_wait",
                 pc' = [pc EXCEPT ![Consumer] = "idle", ![p] = "push_lock"]
          PROVE  RoomWake'
      <4>1. /\ p \notin Awake /\ Awake' = Awake \cup {p} /\ Notices = 1 /\ Notices' = 0
            /\ dequeue_pos' = dequeue_pos /\ enqueue_pos' = enqueue_pos
            /\ closed' = closed /\ (Sleeping' => Sleeping)
        BY <2>3, <3>1 DEF PopNotify, Awake, Notices, Sleeping
      <4>2. Cardinality(Awake') = Cardinality(Awake) + 1
        BY <1>0, <4>1, FS_AddElement
      <4>3. Sleeping /\ ~closed => dequeue_pos + Capacity - enqueue_pos <= Cardinality(Awake) + Notices
        BY DEF RoomWake, Sleeping
      <4>4. Sleeping' /\ ~closed' =>
              dequeue_pos' + Capacity - enqueue_pos' <= Cardinality(Awake') + Notices'
        BY <1>0, <4>1, <4>2, <4>3
      <4> QED
        BY <4>4 DEF RoomWake, Sleeping
    <3>2. ASSUME \A p \in Producers : pc[p] # "push_wait", pc' = [pc EXCEPT ![Consumer] = "idle"],
                 \A p \in Producers : pc[p] # "push_block"
          PROVE  RoomWake'
      BY <3>2 DEF RoomWake
    <3> QED
      BY <2>3, <3>1, <3>2 DEF PopNotify
  <2>4. CASE PopCheckClosed \/ PopWaitLock \/ PopWaitTest \/ PopSleep
    <3>1. Kept
      BY <2>4 DEF Kept, PopCheckClosed, PopWaitLock, PopWaitTest, PopSleep, Awake, Notices, Sleeping
    <3> QED
      BY <3>1, <1>k
  <2>5. CASE CloseExchange(Consumer)
    BY <2>5 DEF CloseExchange, RoomWake
  <2>6. CASE CloseNotifyEmpty(Consumer)
    <3>1. Kept
      BY <2>6 DEF Kept, CloseNotifyEmpty, Awake, Notices, Sleeping
    <3> QED
      BY <3>1, <1>k
  <2>7. CASE CloseNotifyFull(Consumer)
    <3>1. Kept
      BY <2>7 DEF Kept, CloseNotifyFull, AfterClose, Awake, Notices, Sleeping
    <3> QED
      BY <3>1, <1>k
  <2> QED
    BY <1>2, <2>1, <2>2, <2>3, <2>4, <2>5, <2>6, <2>7 DEF ConsumerStep, PopStep, Close
<1>3. ASSUME NEW t \in Threads, SpuriousWakeup(t) \/ GoesToClose(t) PROVE RoomWake'
  <2>1. Kept
    BY <1>3 DEF Kept, SpuriousWakeup, GoesToClose, Awake, Notices, Sleeping
  <2> QED
    BY <2>1, <1>k
<1>4. CASE UNCHANGED vars
  <2>1. Kept
    BY <1>4 DEF Kept, vars, Awake, Notices, Sleeping
  <2> QED
    BY <2>1, <1>k
<1> QED
  BY <1>1, <1>2, <1>3, <1>4 DEF CallerNext, Next

LEMMA StepWake == TypeInv /\ SlotInv /\ WakeInv /\ [CallerNext]_vars => WakeInv'
BY LostStays, StepReadable, StepShut, StepRoom DEF WakeInv

LEMMA NobodySleepsOverWork ==
  ASSUME TypeInv, SlotInv, WakeInv, Capacity >= 2
  PROVE  NoSleepOverWork
<1> SUFFICES ASSUME ~lost PROVE NoSleepOverWork
  BY DEF NoSleepOverWork
<1>1. ReadableWake /\ ShutConsumerWake /\ ShutProducerWake /\ RoomWake
  BY DEF WakeInv
<1>2. ASSUME NEW p \in Producers, pc[p] = "push_wait", CanProducerReserveSlot, ~closed,
             pc[Consumer] # "pop_notify"
      PROVE  Awake # {}
  <2>1. enqueue_pos < dequeue_pos + Capacity
    BY <1>2, Place
  <2>2. dequeue_pos + Capacity - enqueue_pos <= Cardinality(Awake)
    BY <1>1, <1>2, AwakeFinite DEF RoomWake, Notices
  <2>3. Cardinality(Awake) > 0
    BY <2>1, <2>2, AwakeFinite, CapacityAssumption DEF TypeInv, RingType
  <2> QED
    BY <2>3, FS_EmptySet
<1>3. (\E p \in Producers : pc[p] = "push_wait") /\ CanProducerReserveSlot /\ ~closed
        => \/ pc[Consumer] = "pop_notify"
           \/ \E p \in Producers :
                pc[p] \in {"push_closed", "push_load", "push_cas", "push_lock", "push_pred"}
  BY <1>2 DEF Awake
<1> QED
  BY <1>1, <1>3 DEF NoSleepOverWork, ReadableWake, ShutConsumerWake, ShutProducerWake

\* Push and Pop never let a thread sleep while there is work for it and nobody is
\* left to notify it, for any number of producers, as long as no notification
\* falls between a waiter's test of the predicate and its sleep.
THEOREM NobodySleepsOverWorkForGood == ASSUME Capacity >= 2 PROVE Spec => []NoSleepOverWork
<1>1. Init => WakeInv
  BY InitWake
<1>2. TypeInv /\ SlotInv /\ WakeInv /\ [Next]_vars => WakeInv'
  BY StepWake DEF CallerNext
<1>3. TypeInv /\ SlotInv /\ WakeInv => NoSleepOverWork
  BY NobodySleepsOverWork
<1> QED
  BY <1>1, <1>2, <1>3, AlwaysSlot, PTL DEF Spec
=============================================================================
