------------------------ MODULE PartitionPipeline_proofs ------------------------
(***************************************************************************)
(* The pipeline of one partition, for any number of batches and every      *)
(* queue of at least two slots: with the real callers the queue is still   *)
(* the FIFO channel and still wakes who has work, batches are written in   *)
(* the order they were generated, nothing is written after an error, and a *)
(* success lacks exactly what it left in the queue.                        *)
(***************************************************************************)
EXTENDS PartitionPipeline, BoundedMpscQueue_proofs

-----------------------------------------------------------------------------
(* The pipeline's threads use the queue as it allows *)

LEMMA TheProducer == Producer \in Producers /\ \A p \in Producers : p = Producer
BY OneProducer

\* The worker's steps outside the queue.
LEMMA WorkerCalls ==
  ASSUME TypeInv, Worker, ~ConsumerQueueStep
  PROVE  BeginPop \/ GoesToClose(Consumer) \/ UNCHANGED vars
<1> USE DEF Threads
<1>1. CASE OpenFails \/ OpenSucceeds \/ ResetThrows \/ ResetThrowsThrough \/ StartProducer
  BY <1>1 DEF OpenFails, OpenSucceeds, ResetThrows, ResetThrowsThrough, StartProducer
<1>2. CASE ConsumerPops
  BY <1>2 DEF ConsumerPops
<1>3. CASE HandleError \/ WriteFails
  BY <1>3 DEF HandleError, WriteFails, StopWith, Goto, GoesToClose
<1>4. CASE WriteBatch \/ SkipBatch \/ WriteThrows \/ EndOfStream \/ Join \/ ClosePartition \/ FinishBuffer
  BY <1>4 DEF WriteBatch, SkipBatch, WriteThrows, EndOfStream, Join, ClosePartition, FinishBuffer
<1> QED
  BY <1>1, <1>2, <1>3, <1>4 DEF Worker

\* Every step of the pipeline is a step of the queue, a call of it, or leaves it alone.
LEMMA StepIsCaller == ASSUME TypeInv, [PipelineNext]_allVars PROVE [CallerNext]_vars
<1>1. CASE Worker
  <2>1. CASE ConsumerQueueStep
    BY <1>1, <2>1 DEF ConsumerQueueStep, CallerNext, Next, ConsumerStep
  <2>2. CASE ~ConsumerQueueStep
    BY <1>1, <2>2, WorkerCalls DEF CallerNext, Next, ConsumerStep, Threads
  <2> QED
    BY <2>1, <2>2
<1>2. CASE GenerateBatch \/ GenerateThrows \/ ProducerQueueStep
  BY <1>2, TheProducer
  DEF GenerateBatch, GenerateThrows, ProducerQueueStep, CallerNext, Next, ProducerStep
<1>3. CASE ProducerCloses
  BY <1>3, TheProducer DEF ProducerCloses, Goto, GoesToClose, CallerNext, Threads
<1>4. CASE Wakeup
  BY <1>4 DEF Wakeup, CallerNext, Next
<1>5. CASE UNCHANGED allVars
  BY <1>5 DEF allVars
<1> QED
  BY <1>1, <1>2, <1>3, <1>4, <1>5 DEF PipelineNext, ProducerThread

LEMMA AlwaysQueue ==
  ASSUME Capacity >= 2
  PROVE  PipelineSpec => [](Inv /\ WakeInv)
<1>1. PipelineInit => Inv /\ WakeInv
  BY InitType, InitSlot, InitMessage, InitWake DEF PipelineInit, Inv
<1>2. Inv /\ WakeInv /\ [PipelineNext]_allVars => (Inv /\ WakeInv)'
  BY StepIsCaller, StepCaller, StepWake DEF Inv
<1> QED
  BY <1>1, <1>2, PTL DEF PipelineSpec

\* The queue of the pipeline, called by its real callers, implements the channel.
THEOREM PipelineQueueIsChannel == ASSUME Capacity >= 2 PROVE PipelineSpec => ImplementsChannel
<1>1. PipelineInit => Channel!Init
  BY InitChannel DEF PipelineInit
<1>2. ASSUME Inv, Inv', [PipelineNext]_allVars PROVE [Channel!Next]_(Channel!chanVars)
  BY <1>2, StepIsCaller, StepCallerChannel DEF Inv
<1> QED
  BY <1>1, <1>2, AlwaysQueue, PTL DEF PipelineSpec, ImplementsChannel, Channel!Spec

\* Neither the generating thread nor the worker sleeps while the other one has
\* left it something to do, as long as no notification was lost.
THEOREM PipelineNeverSleepsOverWork ==
  ASSUME Capacity >= 2 PROVE PipelineSpec => []NoSleepOverWork
<1>1. Inv /\ WakeInv => NoSleepOverWork
  BY NobodySleepsOverWork DEF Inv
<1> QED
  BY <1>1, AlwaysQueue, PTL

-----------------------------------------------------------------------------
(* The order of the batches *)

\* The n-th message of the only producer is the n-th in line.
OrderInv ==
  /\ pushed[Producer] = Len(delivered) + Len(Line)
  /\ \A i \in 1 .. Len(Line) : Line[i] = <<Producer, Len(delivered) + i>>
  /\ \A i \in 1 .. Len(delivered) : delivered[i] = <<Producer, i>>

LEMMA InitOrder == Init => OrderInv
<1> SUFFICES ASSUME Init PROVE OrderInv
  OBVIOUS
<1>1. /\ enqueue_pos = 0 /\ FirstUnread = 0 /\ pushed[Producer] = 0 /\ delivered = <<>>
  BY ThreadsAssumption, TheProducer DEF Init, Threads, FirstUnread
<1>2. Line = <<>>
  BY <1>1 DEF Line
<1> QED
  BY <1>1, <1>2 DEF OrderInv

\* It stays so whatever steps the channel takes.
LEMMA StepOrder ==
  ASSUME Inv, Inv', OrderInv, [Channel!Next]_(Channel!chanVars)
  PROVE  OrderInv'
<1>0. /\ Line \in Seq(AnyMessage) /\ delivered \in Seq(Messages \cup {NoMessage})
      /\ Len(Line) \in Nat /\ Len(delivered) \in Nat
  BY LineFacts DEF LineInv, Inv, TypeInv, RingType
<1>1. ASSUME NEW p \in Producers, Channel!TakePlace(p) PROVE OrderInv'
  <2>1. /\ Line' = Append(Line, <<Producer, pushed[Producer] + 1>>)
        /\ pushed' = [pushed EXCEPT ![Producer] = @ + 1] /\ delivered' = delivered
    BY <1>1, TheProducer DEF Channel!TakePlace, Line
  <2>2. /\ Len(Line') = Len(Line) + 1
        /\ \A i \in 1 .. Len(Line) : Line'[i] = Line[i]
        /\ Line'[Len(Line) + 1] = <<Producer, pushed[Producer] + 1>>
    <3>1. <<Producer, pushed[Producer] + 1>> \in AnyMessage
      BY TheProducer DEF AnyMessage, Inv, TypeInv, RingType
    <3> QED
      BY <1>0, <2>1, <3>1
  <2>3. pushed'[Producer] = pushed[Producer] + 1
    BY <2>1, TheProducer DEF Inv, TypeInv, RingType
  <2>4. ASSUME NEW i \in 1 .. Len(Line') PROVE Line'[i] = <<Producer, Len(delivered) + i>>
    <3>1. CASE i \in 1 .. Len(Line)
      BY <2>2, <3>1 DEF OrderInv
    <3>2. CASE i = Len(Line) + 1
      <4>1. pushed[Producer] + 1 = Len(delivered) + i
        BY <1>0, <3>2 DEF OrderInv
      <4> QED
        BY <2>2, <3>2, <4>1
    <3> QED
      BY <1>0, <2>2, <3>1, <3>2
  <2> QED
    BY <1>0, <2>1, <2>2, <2>3, <2>4 DEF OrderInv
<1>2. CASE Channel!Receive
  <2>1. /\ Line # <<>> /\ delivered' = Append(delivered, Head(Line)) /\ Line' = Tail(Line)
        /\ pushed' = pushed
    BY <1>2 DEF Channel!Receive, Channel!HeadReady, Line
  <2>2. /\ Len(Line) > 0 /\ Len(Line') = Len(Line) - 1
        /\ \A i \in 1 .. Len(Line') : Line'[i] = Line[i + 1]
        /\ Head(Line) = Line[1]
    BY <1>0, <2>1
  <2>3. /\ Len(delivered') = Len(delivered) + 1
        /\ \A i \in 1 .. Len(delivered) : delivered'[i] = delivered[i]
        /\ delivered'[Len(delivered) + 1] = Line[1]
    <3>1. Line[1] \in AnyMessage /\ delivered \in Seq(AnyMessage)
      BY <1>0, <2>2 DEF AnyMessage, Messages
    <3> QED
      BY <1>0, <2>1, <2>2, <3>1
  <2>4. ASSUME NEW i \in 1 .. Len(Line') PROVE Line'[i] = <<Producer, Len(delivered') + i>>
    <3>1. i + 1 \in 1 .. Len(Line) /\ Len(delivered) + (i + 1) = Len(delivered') + i
      BY <1>0, <2>2, <2>3
    <3> QED
      BY <2>2, <3>1 DEF OrderInv
  <2>5. ASSUME NEW i \in 1 .. Len(delivered') PROVE delivered'[i] = <<Producer, i>>
    <3>1. i \in 1 .. Len(delivered) \/ i = Len(delivered) + 1
      BY <1>0, <2>3
    <3>2. Line[1] = <<Producer, Len(delivered) + 1>>
      BY <1>0, <2>2 DEF OrderInv
    <3> QED
      BY <2>3, <3>1, <3>2 DEF OrderInv
  <2>6. pushed'[Producer] = Len(delivered') + Len(Line')
    BY <1>0, <2>1, <2>2, <2>3 DEF OrderInv
  <2> QED
    BY <2>4, <2>5, <2>6 DEF OrderInv
<1>3. ASSUME UNCHANGED <<Line, pushed, delivered>> PROVE OrderInv'
  BY <1>3 DEF OrderInv
<1>4. CASE \E p \in Producers : Channel!Publish(p)
  BY <1>3, <1>4 DEF Channel!Publish, Line
<1>5. CASE Channel!FindNothing \/ Channel!LookAgain \/ Channel!End \/ Channel!Shut
  BY <1>3, <1>5 DEF Channel!FindNothing, Channel!LookAgain, Channel!End, Channel!Shut, Line
<1>6. CASE UNCHANGED Channel!chanVars
  BY <1>3, <1>6 DEF Channel!chanVars, Line
<1> QED
  BY <1>1, <1>2, <1>4, <1>5, <1>6 DEF Channel!Next

-----------------------------------------------------------------------------
(* What a call of Push, Pop or Close does to the two threads *)

BeforePlace == {"push_closed", "push_load", "push_cas", "push_lock", "push_pred",
                "push_block", "push_wait"}
AfterPlace  == {"push_write", "push_publish", "push_notify"}
Looking     == {"pop_load", "pop_take", "pop_closed", "pop_lock", "pop_pred", "pop_block", "pop_wait"}
Closing     == {"close", "close_empty", "close_full"}

\* A thread stands where it stood, or was woken.
ProducerStays ==
  pc'[Producer] = pc[Producer] \/ (pc[Producer] = "push_wait" /\ pc'[Producer] = "push_lock")
ConsumerStays ==
  pc'[Consumer] = pc[Consumer] \/ (pc[Consumer] = "pop_wait" /\ pc'[Consumer] = "pop_lock")

Pushes ==
  /\ pc[Producer] \in BeforePlace /\ closed' = closed
  /\ \/ pc'[Producer] \in BeforePlace /\ pushed' = pushed
     \/ pc'[Producer] = "refused" /\ closed /\ pushed' = pushed
     \/ pc'[Producer] \in AfterPlace /\ pushed'[Producer] = pushed[Producer] + 1

Publishes ==
  /\ pc[Producer] \in AfterPlace /\ pc'[Producer] \in AfterPlace \cup {"idle"}
  /\ closed' = closed /\ pushed' = pushed

ProducerShuts ==
  /\ pc[Producer] \in Closing /\ pc'[Producer] \in {"close_empty", "close_full", "done"}
  /\ closed' \in {closed, TRUE} /\ pushed' = pushed

LEMMA ProducerMoves ==
  ASSUME TypeInv, PushStep(Producer) \/ Close(Producer)
  PROVE  /\ Pushes \/ Publishes \/ ProducerShuts
         /\ ConsumerStays /\ delivered' = delivered /\ remaining' = remaining
<1> USE TheProducer, ThreadsAssumption
    DEF TypeInv, RingType, ControlType, Threads, Goto, BeforePlace, AfterPlace, Closing,
        ConsumerStays, callerVars
<1>1. CASE \/ PushCheckClosed(Producer) \/ PushLoad(Producer) \/ PushRetry(Producer)
           \/ PushWaitLock(Producer) \/ PushWaitTest(Producer) \/ PushSleep(Producer)
  BY <1>1 DEF PushCheckClosed, PushLoad, PushRetry, PushWaitLock, PushWaitTest, PushSleep, Pushes
<1>2. CASE PushReserve(Producer)
  BY <1>2 DEF PushReserve, Pushes
<1>3. CASE PushWrite(Producer) \/ PushPublish(Producer)
  BY <1>3 DEF PushWrite, PushPublish, Publishes
<1>4. CASE PushNotify(Producer)
  BY <1>4 DEF PushNotify, Publishes
<1>5. CASE CloseExchange(Producer)
  BY <1>5 DEF CloseExchange, AfterClose, ProducerShuts
<1>6. CASE CloseNotifyEmpty(Producer)
  BY <1>6 DEF CloseNotifyEmpty, ProducerShuts
<1>7. CASE CloseNotifyFull(Producer)
  BY <1>7 DEF CloseNotifyFull, AfterClose, ProducerShuts, ConsumerPCs
<1> QED
  BY <1>1, <1>2, <1>3, <1>4, <1>5, <1>6, <1>7 DEF PushStep, Close

Looks ==
  /\ pc[Consumer] \in Looking /\ pc'[Consumer] \in Looking \cup {"ended"}
  /\ closed' = closed /\ delivered' = delivered

Takes ==
  /\ pc[Consumer] = "pop_take" /\ pc'[Consumer] = "pop_free"
  /\ closed' = closed /\ Len(delivered') = Len(delivered) + 1

Frees ==
  /\ \/ pc[Consumer] = "pop_free" /\ pc'[Consumer] = "pop_notify"
     \/ pc[Consumer] = "pop_notify" /\ pc'[Consumer] = "idle"
  /\ closed' = closed /\ delivered' = delivered

ConsumerShuts ==
  /\ pc[Consumer] \in Closing /\ pc'[Consumer] \in {"close_empty", "close_full", "idle"}
  /\ closed' \in {closed, TRUE} /\ delivered' = delivered

LEMMA ConsumerMoves ==
  ASSUME TypeInv, PopStep \/ Close(Consumer)
  PROVE  /\ Looks \/ Takes \/ Frees \/ ConsumerShuts
         /\ ProducerStays /\ pushed' = pushed /\ remaining' = remaining
<1> USE TheProducer, ThreadsAssumption
    DEF TypeInv, RingType, ControlType, Threads, Goto, Looking, Closing, ProducerStays, callerVars
<1>1. CASE PopLoad \/ PopCheckClosed \/ PopWaitLock \/ PopWaitTest \/ PopSleep
  BY <1>1 DEF PopLoad, PopCheckClosed, PopWaitLock, PopWaitTest, PopSleep, Looks
<1>2. CASE PopTake
  <2>1. value[Index(dequeue_pos)] \in Messages \cup {NoMessage}
    BY IndexInSlots
  <2>2. Len(delivered') = Len(delivered) + 1
    BY <1>2, <2>1 DEF PopTake
  <2> QED
    BY <1>2, <2>2 DEF PopTake, Takes
<1>3. CASE PopFree
  BY <1>3 DEF PopFree, Frees
<1>4. CASE PopNotify
  BY <1>4 DEF PopNotify, Frees
<1>5. CASE CloseExchange(Consumer)
  BY <1>5 DEF CloseExchange, AfterClose, ConsumerShuts
<1>6. CASE CloseNotifyEmpty(Consumer)
  BY <1>6 DEF CloseNotifyEmpty, ConsumerShuts
<1>7. CASE CloseNotifyFull(Consumer)
  BY <1>7 DEF CloseNotifyFull, AfterClose, ConsumerShuts
<1> QED
  BY <1>1, <1>2, <1>3, <1>4, <1>5, <1>6, <1>7 DEF PopStep, Close

LEMMA WakeupMoves ==
  ASSUME TypeInv, NEW t \in Threads, SpuriousWakeup(t)
  PROVE  ProducerStays /\ ConsumerStays /\ UNCHANGED <<closed, pushed, delivered, remaining>>
<1> USE TheProducer, ThreadsAssumption
    DEF TypeInv, ControlType, Threads, Goto, ringVars, callerVars
<1>1. \/ pc[t] = "push_wait" /\ pc' = [pc EXCEPT ![t] = "push_lock"]
      \/ pc[t] = "pop_wait" /\ pc' = [pc EXCEPT ![t] = "pop_lock"]
  BY DEF SpuriousWakeup
<1>2. ProducerStays
  BY <1>1 DEF ProducerStays, ProducerPCs
<1>3. ConsumerStays
  BY <1>1 DEF ConsumerStays, ConsumerPCs
<1> QED
  BY <1>2, <1>3 DEF SpuriousWakeup

-----------------------------------------------------------------------------
(* The invariant of the pipeline *)

PipeType ==
  /\ target \in {"file", "memory"}
  /\ phase \in {"start", "opened", "consuming", "joining", "closing", "returned", "aborted", "threw"}
  /\ rc \in {NoResult, 0, 2}
  /\ total \in 0 .. MaxBatches
  /\ errorAt \in Nat /\ stop \in BOOLEAN
  /\ error \in {"none", "setup", "generator", "write"}
  /\ handled \in Nat /\ written \in Nat
  /\ file \in {"absent", "temp", "published", "old"}
  /\ remaining = Cardinality(Producers)

\* What is true of the two threads in each phase of the worker.
PhaseInv ==
  /\ phase \in {"start", "opened"} =>
       /\ pc[Producer] = "idle" /\ pc[Consumer] = "idle"
       /\ pushed[Producer] = 0 /\ Len(delivered) = 0
       /\ error = "none" /\ rc = NoResult
  /\ phase \in {"consuming", "joining", "closing"} => rc = NoResult
  /\ stop <=> error \in {"generator", "write"}
  /\ error = "setup" => phase \in {"closing", "returned"}
  /\ phase = "joining" => pc[Consumer] = "ended"
  /\ phase = "closing" /\ error = "none" => pc[Consumer] = "ended" /\ pc[Producer] = "done"
  /\ rc = 0 => error = "none" /\ pc[Consumer] = "ended" /\ pc[Producer] = "done"

\* Without an error only the producer closes the queue, and it is never refused.
ClosedInv ==
  error = "none" =>
    /\ pc[Consumer] \notin Closing
    /\ pc[Producer] # "refused"
    /\ closed => pc[Producer] \in {"close_empty", "close_full", "done"}

\* The producer pushes the batches there are, or the ones before its exception
\* and the message that carries it.
ProducedInv ==
  /\ ~Thrown => /\ pushed[Producer] <= total
                /\ pc[Producer] \in BeforePlace => pushed[Producer] < total
  /\ Thrown => /\ errorAt <= total + 1
               /\ pushed[Producer] \in {errorAt - 1, errorAt}
               /\ pc[Producer] \in BeforePlace => pushed[Producer] = errorAt - 1
               /\ pc[Producer] \in AfterPlace \cup {"idle"} => pushed[Producer] = errorAt
  /\ error = "none" /\ pc[Producer] \in Closing \cup {"done"} =>
       pushed[Producer] = IF Thrown THEN errorAt ELSE total

\* The worker deals with each popped message before it pops the next; while it
\* knows of no error it has written all it has dealt with, and no error was among it.
HandledInv ==
  /\ handled \in {Len(delivered) - 1, Len(delivered)}
  /\ pc[Consumer] \in {"pop_free", "pop_notify"} => handled = Len(delivered) - 1
  /\ pc[Consumer] \in Looking \cup Closing \cup {"ended"} => handled = Len(delivered)
  /\ written <= total
  /\ error = "none" => written = handled /\ (Thrown => handled < errorAt)

PipeInv == PipeType /\ PhaseInv /\ ClosedInv /\ ProducedInv /\ HandledInv

LEMMA InitPipe == PipelineInit => PipeInv
<1> SUFFICES ASSUME PipelineInit PROVE PipeInv
  OBVIOUS
<1>1. /\ pc[Producer] = "idle" /\ pc[Consumer] = "idle" /\ ~closed
      /\ pushed[Producer] = 0 /\ Len(delivered) = 0
  BY TheProducer, ThreadsAssumption DEF PipelineInit, Init, Threads
<1>2. PipeType
  BY DEF PipelineInit, Init, PipeType
<1> USE <1>1, BatchesFit DEF PipelineInit, NoResult, Thrown, Looking, BeforePlace, AfterPlace, Closing
<1>3. PhaseInv /\ ClosedInv
  BY DEF PhaseInv, ClosedInv
<1>4. ProducedInv /\ HandledInv
  BY DEF ProducedInv, HandledInv
<1> QED
  BY <1>2, <1>3, <1>4 DEF PipeInv

LEMMA Counts ==
  ASSUME Inv, OrderInv
  PROVE  /\ pushed[Producer] \in Nat /\ Len(delivered) \in Nat
         /\ Len(delivered) <= pushed[Producer] /\ pushed[Producer] <= MaxPushes
<1>1. Len(Line) \in Nat
  BY LineFacts DEF LineInv
<1> QED
  BY <1>1, TheProducer, PushesAssumption DEF OrderInv, Inv, TypeInv, RingType

\* The worker's steps outside the queue.
LEMMA StepWorker ==
  ASSUME Inv, OrderInv, PipeInv, Worker, ~ConsumerQueueStep
  PROVE  PipeInv'
<1>0. /\ pushed[Producer] \in Nat /\ Len(delivered) \in Nat
      /\ Len(delivered) <= pushed[Producer] /\ pushed[Producer] <= MaxPushes
  BY Counts
<1> USE <1>0, TheProducer, ThreadsAssumption, BatchesFit
    DEF Thrown, Threads, vars, ringVars, callerVars
<1>u. ASSUME UNCHANGED <<vars, total, errorAt>>
      PROVE  /\ UNCHANGED <<pc, pushed, delivered, closed, remaining>>
             /\ ClosedInv /\ error' = error => ClosedInv'
             /\ ProducedInv /\ error' = error => ProducedInv'
             /\ HandledInv /\ UNCHANGED <<error, handled, written>> => HandledInv'
  BY <1>u DEF ClosedInv, ProducedInv, HandledInv
<1>1. CASE OpenFails \/ OpenSucceeds \/ StartProducer \/ ResetThrowsThrough
  <2> USE <1>1 DEF OpenFails, OpenSucceeds, StartProducer, ResetThrowsThrough, Return, PipeInv
  <2>1. PhaseInv'
    BY DEF PhaseInv
  <2>2. PipeType'
    BY DEF PipeType
  <2> QED
    BY <1>u, <2>1, <2>2
<1>2. CASE ResetThrows
  <2> USE <1>2 DEF ResetThrows, PipeInv
  <2>1. PhaseInv' /\ PipeType'
    BY DEF PhaseInv, PipeType
  <2>2. ClosedInv' /\ ProducedInv' /\ HandledInv'
    BY DEF ClosedInv, ProducedInv, HandledInv
  <2> QED
    BY <2>1, <2>2
<1>3. CASE ConsumerPops
  <2> USE <1>3 DEF ConsumerPops, BeginPop, Goto, pipelineVars, InHand, Consuming, PipeInv
  <2>0. pc'[Consumer] = "pop_load" /\ pc[Consumer] = "idle" /\ pc'[Producer] = pc[Producer]
    BY DEF Inv, TypeInv, ControlType
  <2>1. PhaseInv' /\ PipeType'
    BY <2>0 DEF PhaseInv, PipeType
  <2>2. ClosedInv' /\ ProducedInv'
    BY <2>0 DEF ClosedInv, ProducedInv, Closing
  <2>3. HandledInv'
    BY <2>0 DEF HandledInv, Looking, Closing, PipeType
  <2> QED
    BY <2>1, <2>2, <2>3
<1>4. CASE HandleError \/ WriteFails
  <2> USE DEF PipeInv
  <2>0. /\ pc[Consumer] = "idle" /\ phase = "consuming" /\ handled < Len(delivered)
        /\ \E origin \in {"generator", "write"} : StopWith(origin)
    BY <1>4 DEF HandleError, WriteFails, InHand, Consuming
  <2> USE <2>0 DEF StopWith, Goto
  <2>1. /\ pc'[Consumer] = "close" /\ pc'[Producer] = pc[Producer]
        /\ error' \in {"generator", "write"} /\ stop' = TRUE
        /\ phase' = "consuming" /\ rc' = NoResult
    BY DEF Inv, TypeInv, ControlType, PhaseInv, PipeType
  <2>2. PhaseInv'
    BY <2>1 DEF PhaseInv, NoResult
  <2>3. PipeType'
    BY <2>1 DEF PipeType
  <2>4. ClosedInv' /\ ProducedInv'
    BY <2>1 DEF ClosedInv, ProducedInv
  <2>5. HandledInv'
    BY <2>1 DEF HandledInv, PipeType
  <2> QED
    BY <2>2, <2>3, <2>4, <2>5
<1>5. CASE WriteBatch \/ SkipBatch
  <2>0. /\ UNCHANGED <<vars, target, phase, rc, total, errorAt, stop, error, file>>
        /\ handled' = handled + 1 /\ written' \in {written, written + 1}
    BY <1>5 DEF WriteBatch, SkipBatch, PipeInv
  <2>1. PhaseInv' /\ PipeType'
    <3>1. PhaseInv'
      BY <2>0 DEF PipeInv, PhaseInv
    <3>2. PipeType'
      BY <2>0 DEF PipeInv, PipeType
    <3> QED
      BY <3>1, <3>2
  <2> USE <1>5 DEF WriteBatch, SkipBatch, InHand, Consuming, PipeInv
  <2>2. ASSUME WriteBatch PROVE error = "none" /\ (Thrown => handled + 1 # errorAt)
    <3>1. delivered[handled + 1] = <<Producer, handled + 1>>
      <4>1. handled + 1 \in 1 .. Len(delivered)
        BY DEF PipeType
      <4> QED
        BY <4>1 DEF OrderInv
    <3> QED
      BY <2>2, <3>1 DEF InHandIsError, PhaseInv, PipeType
  <2>3. ASSUME SkipBatch PROVE error # "none"
    BY <2>3 DEF PhaseInv
  <2>4. HandledInv'
    BY <2>2, <2>3 DEF HandledInv, PipeType, ProducedInv, Looking, Closing
  <2> QED
    BY <1>u, <2>1, <2>4
<1>6. CASE WriteThrows \/ EndOfStream \/ Join
  <2> USE <1>6 DEF WriteThrows, EndOfStream, Join, InHand, Consuming, PipeInv
  <2>1. PhaseInv' /\ PipeType'
    BY DEF PhaseInv, PipeType
  <2> QED
    BY <1>u, <2>1
<1>7. CASE ClosePartition \/ FinishBuffer
  <2> USE <1>7 DEF ClosePartition, FinishBuffer, Return, PipeInv
  <2>1. PhaseInv' /\ PipeType'
    BY DEF PhaseInv, PipeType
  <2> QED
    BY <1>u, <2>1
<1> QED
  BY <1>1, <1>2, <1>3, <1>4, <1>5, <1>6, <1>7 DEF Worker

LEMMA StepConsumerQueue ==
  ASSUME Inv, OrderInv, OrderInv', Inv', PipeInv, ConsumerQueueStep
  PROVE  PipeInv'
<1> USE DEF ConsumerQueueStep, pipelineVars, PipeInv, Thrown
<1>0. /\ pushed[Producer] \in Nat /\ Len(delivered) \in Nat
      /\ Looks \/ Takes \/ Frees \/ ConsumerShuts
      /\ ProducerStays /\ pushed' = pushed /\ remaining' = remaining
  BY Counts, ConsumerMoves DEF Inv
<1>1. PipeType' /\ PhaseInv'
  BY <1>0 DEF PipeType, PhaseInv, Looks, Takes, Frees, ConsumerShuts, Looking, Closing
<1>2. ClosedInv'
  BY <1>0 DEF ClosedInv, Looks, Takes, Frees, ConsumerShuts, Looking, Closing, ProducerStays
<1>3. ProducedInv'
  BY <1>0 DEF ProducedInv, ProducerStays, BeforePlace, AfterPlace, Closing
<1>4. HandledInv'
  <2>1. CASE Looks
    BY <1>0, <2>1 DEF HandledInv, PipeType, Looks, Looking, Closing
  <2>2. CASE Takes
    BY <1>0, <2>2 DEF HandledInv, PipeType, Takes, Looking, Closing
  <2>3. CASE Frees
    BY <1>0, <2>3 DEF HandledInv, PipeType, Frees, Looking, Closing
  <2>4. CASE ConsumerShuts
    BY <1>0, <2>4 DEF HandledInv, PipeType, ConsumerShuts, Looking, Closing
  <2> QED
    BY <1>0, <2>1, <2>2, <2>3, <2>4
<1> QED
  BY <1>1, <1>2, <1>3, <1>4

LEMMA StepProducerThread ==
  ASSUME Inv, OrderInv, PipeInv, ProducerThread
  PROVE  PipeInv'
<1>0. /\ pushed[Producer] \in Nat /\ Len(delivered) \in Nat
      /\ Len(delivered) <= pushed[Producer] /\ pushed[Producer] <= MaxPushes
  BY Counts
<1> USE <1>0, TheProducer, ThreadsAssumption, BatchesFit
    DEF PipeInv, Thrown, Threads, pipelineVars, ringVars, callerVars, ThreadRuns, Producing
<1>1. CASE GenerateBatch \/ GenerateThrows
  <2> USE <1>1 DEF GenerateBatch, GenerateThrows, BeginPush, Goto
  <2>0. pc'[Producer] = "push_closed" /\ pc[Producer] = "idle" /\ pc'[Consumer] = pc[Consumer]
    BY DEF Inv, TypeInv, ControlType
  <2>1. PipeType' /\ PhaseInv'
    BY <2>0 DEF PipeType, PhaseInv
  <2>2. ClosedInv'
    BY <2>0 DEF ClosedInv
  <2>3. ProducedInv'
    BY <2>0 DEF ProducedInv, PipeType, BeforePlace, AfterPlace, Closing
  <2>4. HandledInv'
    BY <2>0 DEF HandledInv, PipeType
  <2> QED
    BY <2>1, <2>2, <2>3, <2>4
<1>2. CASE ProducerCloses
  <2> USE <1>2 DEF ProducerCloses, Goto
  <2>0. /\ pc'[Producer] = "close" /\ pc[Producer] \in {"idle", "refused"}
        /\ pc'[Consumer] = pc[Consumer]
        /\ pc[Producer] = "idle" => stop \/ Thrown \/ pushed[Producer] = total
    BY DEF Inv, TypeInv, ControlType
  <2>1. PipeType' /\ PhaseInv'
    BY <2>0 DEF PipeType, PhaseInv
  <2>2. ClosedInv'
    BY <2>0 DEF ClosedInv
  <2>3. ProducedInv'
    <3>1. error = "none" => /\ pc[Producer] = "idle" /\ ~stop
      BY <2>0 DEF ClosedInv, PhaseInv
    <3>2. error = "none" => pushed[Producer] = IF errorAt # 0 THEN errorAt ELSE total
      BY <2>0, <3>1 DEF ProducedInv
    <3> QED
      BY <2>0, <3>2 DEF ProducedInv, PipeType, BeforePlace, AfterPlace, Closing
  <2>4. HandledInv'
    BY <2>0 DEF HandledInv, PipeType
  <2> QED
    BY <2>1, <2>2, <2>3, <2>4
<1>3. CASE ProducerQueueStep
  <2> USE <1>3 DEF ProducerQueueStep
  <2>0. /\ Pushes \/ Publishes \/ ProducerShuts
        /\ ConsumerStays /\ delivered' = delivered /\ remaining' = remaining
    BY ProducerMoves DEF Inv
  <2>1. PipeType' /\ PhaseInv'
    <3>1. PipeType'
      BY <2>0 DEF PipeType
    <3>2. PhaseInv'
      BY <2>0 DEF PhaseInv, ConsumerStays, Pushes, Publishes, ProducerShuts, BeforePlace,
                  AfterPlace, Closing
    <3> QED
      BY <3>1, <3>2
  <2>2. ClosedInv'
    <3>1. error = "none" => pc'[Consumer] \notin Closing
      BY <2>0 DEF ClosedInv, ConsumerStays, Closing
    <3>2. CASE Pushes
      BY <2>0, <3>1, <3>2 DEF ClosedInv, Pushes, BeforePlace, AfterPlace
    <3>3. CASE Publishes
      BY <2>0, <3>1, <3>3 DEF ClosedInv, Publishes, AfterPlace
    <3>4. CASE ProducerShuts
      BY <2>0, <3>1, <3>4 DEF ClosedInv, ProducerShuts
    <3> QED
      BY <2>0, <3>2, <3>3, <3>4
  <2>3. ProducedInv'
    <3>1. CASE Pushes
      BY SMTT(30), <2>0, <3>1 DEF ProducedInv, PipeType, Pushes, BeforePlace, AfterPlace, Closing
    <3>2. CASE Publishes
      BY <2>0, <3>2 DEF ProducedInv, PipeType, Publishes, BeforePlace, AfterPlace, Closing
    <3>3. CASE ProducerShuts
      BY <2>0, <3>3 DEF ProducedInv, PipeType, ProducerShuts, BeforePlace, AfterPlace, Closing
    <3> QED
      BY <2>0, <3>1, <3>2, <3>3
  <2>4. HandledInv'
    BY <2>0 DEF HandledInv, PipeType, ConsumerStays, Looking, Closing
  <2> QED
    BY <2>1, <2>2, <2>3, <2>4
<1> QED
  BY <1>1, <1>2, <1>3 DEF ProducerThread

LEMMA StepWakeup ==
  ASSUME Inv, OrderInv, PipeInv, Wakeup
  PROVE  PipeInv'
<1> USE DEF Wakeup, pipelineVars, PipeInv, Thrown
<1>0. ProducerStays /\ ConsumerStays /\ UNCHANGED <<closed, pushed, delivered, remaining>>
  BY WakeupMoves DEF Inv
<1>1. PipeType' /\ PhaseInv'
  BY <1>0 DEF PipeType, PhaseInv, ProducerStays, ConsumerStays, ThreadRuns
<1>2. ClosedInv'
  BY <1>0 DEF ClosedInv, ProducerStays, ConsumerStays, Closing
<1>3. ProducedInv' /\ HandledInv'
  BY <1>0 DEF ProducedInv, HandledInv, ProducerStays, ConsumerStays, BeforePlace, AfterPlace,
              Closing, Looking
<1> QED
  BY <1>1, <1>2, <1>3

LEMMA StepPipe ==
  ASSUME Inv, Inv', OrderInv, OrderInv', PipeInv, [PipelineNext]_allVars
  PROVE  PipeInv'
<1>1. CASE UNCHANGED allVars
  BY <1>1 DEF allVars, vars, pipelineVars, ringVars, callerVars, PipeInv, PipeType, PhaseInv,
              ClosedInv, ProducedInv, HandledInv, Thrown
<1> QED
  BY <1>1, StepWorker, StepConsumerQueue, StepProducerThread, StepWakeup DEF PipelineNext

LEMMA AlwaysPipe ==
  ASSUME Capacity >= 2
  PROVE  PipelineSpec => [](Inv /\ OrderInv /\ PipeInv)
<1>1. PipelineInit => OrderInv /\ PipeInv
  BY InitOrder, InitPipe DEF PipelineInit
<1>2. ASSUME Inv, Inv', OrderInv, [PipelineNext]_allVars PROVE OrderInv'
  BY <1>2, StepIsCaller, StepCallerChannel, StepOrder DEF Inv
<1>3. Inv /\ Inv' /\ OrderInv /\ PipeInv /\ [PipelineNext]_allVars => OrderInv' /\ PipeInv'
  BY <1>2, StepPipe
<1> QED
  BY <1>1, <1>3, AlwaysQueue, PTL DEF PipelineSpec

-----------------------------------------------------------------------------
(* Results *)

\* The pipeline's variables, and the queue's in it, keep their types.
THEOREM PipelineTypeCorrect == ASSUME Capacity >= 2 PROVE PipelineSpec => []PipelineTypeOK
<1>1. ASSUME Inv, OrderInv, PipeInv PROVE PipelineTypeOK
  <2>1. TypeOK
    BY <1>1, ActiveFinite
    DEF Inv, TypeInv, RingType, ControlType, PipeInv, PipeType, TypeOK
  <2>2. handled \in 0 .. MaxPushes /\ written \in 0 .. MaxBatches /\ errorAt \in 0 .. MaxPushes
    BY <1>1, Counts, BatchesFit DEF PipeInv, PipeType, HandledInv, ProducedInv, Thrown
  <2> QED
    BY <1>1, <2>1, <2>2 DEF PipeInv, PipeType, PipelineTypeOK
<1> QED
  BY <1>1, AlwaysPipe, PTL

\* The worker writes the generator's batches in the order they were generated:
\* what Pop handed over is the sequence of the first messages pushed.
THEOREM BatchesInOrder ==
  ASSUME Capacity >= 2
  PROVE  PipelineSpec => [](\A i \in 1 .. Len(delivered) : delivered[i] = <<Producer, i>>)
<1>1. OrderInv => \A i \in 1 .. Len(delivered) : delivered[i] = <<Producer, i>>
  BY DEF OrderInv
<1> QED
  BY <1>1, AlwaysPipe, PTL

\* The batches of a complete partition, and its error if the generator threw, that a
\* pipeline which reported success did not see, are the ones left in its queue.
LossIsWhatIsLeft ==
  rc = 0 => written + (enqueue_pos - dequeue_pos) = IF Thrown THEN errorAt ELSE total

LEMMA SuccessLeaves == ASSUME Inv, OrderInv, PipeInv PROVE LossIsWhatIsLeft
<1> SUFFICES ASSUME rc = 0 PROVE written + (enqueue_pos - dequeue_pos) = IF Thrown THEN errorAt ELSE total
  BY DEF LossIsWhatIsLeft
<1>1. error = "none" /\ pc[Consumer] = "ended" /\ pc[Producer] = "done"
  BY DEF PipeInv, PhaseInv
<1>2. written = Len(delivered) /\ pushed[Producer] = IF Thrown THEN errorAt ELSE total
  BY <1>1 DEF PipeInv, HandledInv, ProducedInv
<1>3. Len(Line) = enqueue_pos - dequeue_pos
  BY <1>1, LineFacts DEF LineInv, FirstUnread
<1> QED
  BY <1>2, <1>3, Counts, LineFacts DEF OrderInv, LineInv

\* A success of GeneratePartitionToOwnFile or ToInMemory lacks exactly the messages
\* its consumer left in the queue when it saw closed_ after an empty slot.
THEOREM SuccessLacksWhatIsLeft == ASSUME Capacity >= 2 PROVE PipelineSpec => []LossIsWhatIsLeft
  BY SuccessLeaves, AlwaysPipe, PTL

\* A success with a drained queue is complete: every batch of a generator that
\* did not throw is in the file or buffer.
THEOREM DrainedSuccess == ASSUME Capacity >= 2 PROVE PipelineSpec => []DrainedSuccessIsComplete
<1>1. ASSUME Inv, OrderInv, PipeInv PROVE DrainedSuccessIsComplete
  <2> SUFFICES ASSUME rc = 0, enqueue_pos = dequeue_pos PROVE Complete
    BY DEF DrainedSuccessIsComplete
  <2>1. written = IF Thrown THEN errorAt ELSE total
    BY <1>1, SuccessLeaves DEF LossIsWhatIsLeft, Inv, TypeInv, RingType, PipeInv, PipeType
  <2>2. error = "none"
    BY <1>1 DEF PipeInv, PhaseInv
  <2>3. ~Thrown
    BY <1>1, <2>1, <2>2 DEF PipeInv, HandledInv, PipeType
  <2> QED
    BY <2>1, <2>3 DEF Complete
<1> QED
  BY <1>1, AlwaysPipe, PTL

\* Once the worker knows of an error it writes nothing more and reports no success,
\* whatever the producer still pushes.
THEOREM ErrorStopsWriting == ASSUME Capacity >= 2 PROVE PipelineSpec => NothingWrittenAfterError
<1>1. ASSUME Inv, OrderInv, PipeInv, PipeInv', [PipelineNext]_allVars
      PROVE  [error # "none" => written' = written /\ rc' # 0]_allVars
  <2> SUFFICES ASSUME error # "none", PipelineNext PROVE written' = written /\ rc' # 0
    BY <1>1
  <2>1. rc # 0
    BY <1>1 DEF PipeInv, PhaseInv
  <2>2. ASSUME WriteBatch PROVE FALSE
    BY <1>1, <2>2 DEF WriteBatch, InHand, Consuming, PipeInv, PhaseInv, PipeType
  <2>3. ASSUME Worker PROVE written' = written /\ rc' # 0
    BY <2>1, <2>2, <2>3
    DEF Worker, OpenFails, OpenSucceeds, ResetThrows, ResetThrowsThrough, StartProducer,
        ConsumerPops, ConsumerQueueStep, HandleError, WriteFails, StopWith, SkipBatch, WriteThrows,
        EndOfStream, Join, ClosePartition, FinishBuffer, Return, pipelineVars
  <2>4. ASSUME ProducerThread \/ Wakeup PROVE written' = written /\ rc' # 0
    BY <2>1, <2>4
    DEF ProducerThread, GenerateBatch, GenerateThrows, ProducerCloses, ProducerQueueStep, Wakeup,
        pipelineVars
  <2> QED
    BY <2>3, <2>4 DEF PipelineNext
<1> QED
  BY <1>1, AlwaysPipe, PTL DEF PipelineSpec, NothingWrittenAfterError
=============================================================================
