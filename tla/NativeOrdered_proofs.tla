------------------------- MODULE NativeOrdered_proofs -------------------------
(***************************************************************************)
(* The file of a native writer holds the batches of the table in order,    *)
(* and all of them when the call returns 0, for any number of partitions,  *)
(* batches, pool threads and places of the queue.                          *)
(***************************************************************************)
EXTENDS NativeOrdered, FiniteSetTheorems, TLAPS

\* The batches before a partition, and their number.
Before(sizes, p) == {b \in BatchesOf(sizes) : b[1] < p}
Count(sizes, p) == Cardinality(Before(sizes, p))

\* How many batches of a partition were written, whether its last message, an end
\* or an error, was received, and how many messages were received in all.
Written ==
  [p \in Parts |-> IF p < expected THEN total[p]
                   ELSE IF p = expected THEN Len(out) - Count(total, p) ELSE 0]

LastSeen == [p \in Parts |-> \E i \in 1 .. Len(received) : received[i] = <<p, special[p]>>]

Got == [p \in Parts |-> Written[p] + Len(early[p]) + IF LastSeen[p] THEN 1 ELSE 0]

\* The types of what TypeOK does not mention.
QueueTypeInv ==
  /\ channel \in Seq(Parts \X Nat)
  /\ received \in Seq(Parts \X Nat)
  /\ sent \in [Parts -> Nat]
  /\ total \in [Parts -> 0 .. MaxBatches]
  /\ special \in [Parts -> Nat]
  /\ completed \in [Parts -> BOOLEAN]
  /\ opened \in [Parts -> BOOLEAN]
  /\ out \in Seq(Parts \X Nat)

\* Who has not retired is counted.
RemainingInv ==
  /\ remaining = Cardinality({p \in Parts : code[p] # 0})
  /\ \A p \in Parts : pc[p] \notin {"close", "done"} => code[p] = NoResult
  /\ \A p \in Parts : pc[p] = "close" => (code[p] = 0 <=> kind[p] # "error")

\* A producer's messages: its batches, then at most one end or error.
KindInv ==
  \A p \in Parts :
    /\ kind[p] = "batch" => special[p] = 0 /\ sent[p] <= total[p]
    /\ kind[p] = "end" => special[p] = total[p] + 1 /\ sent[p] \in {total[p], total[p] + 1}
    /\ kind[p] = "error" => special[p] \in {sent[p], sent[p] + 1} /\ special[p] \in 1 .. total[p] + 1

\* Where in them a producer is.
PcInv ==
  \A p \in Parts :
    /\ pc[p] \in {"queued", "create"} => sent[p] = 0
    /\ pc[p] \in {"queued", "create", "loop", "after_loop"} => kind[p] = "batch"
    /\ pc[p] = "after_loop" => stop \/ sent[p] = total[p]
    /\ pc[p] \in {"push_check", "push"} =>
         IF kind[p] = "batch" THEN sent[p] < total[p] ELSE special[p] = sent[p] + 1
    /\ pc[p] = "stop" => kind[p] = "error"
    /\ pc[p] = "retire" => kind[p] # "error"

\* The queue holds what every producer sent and the task did not get, each
\* producer's messages in their order.
ChannelInv ==
  /\ \A i \in 1 .. Len(channel) :
       Got[channel[i][1]] < channel[i][2] /\ channel[i][2] <= sent[channel[i][1]]
  /\ \A i, j \in 1 .. Len(channel) :
       i < j /\ channel[i][1] = channel[j][1] => channel[i][2] < channel[j][2]
  /\ \A p \in Parts : \A n \in Got[p] + 1 .. sent[p] :
       \E i \in 1 .. Len(channel) : channel[i] = <<p, n>>

\* What the task got.
ReceivedInv ==
  /\ \A i \in 1 .. Len(received) : received[i][2] \in 1 .. Got[received[i][1]]
  /\ \A p \in Parts : Got[p] <= sent[p]

\* What it keeps of that: the batches that come next, and the end.
EarlyInv ==
  \A p \in Parts :
    /\ Written[p] \in 0 .. total[p] /\ Written[p] + Len(early[p]) <= total[p]
    /\ \A i \in 1 .. Len(early[p]) : early[p][i] = <<p, Written[p] + i>>
    /\ p < expected => early[p] = <<>> /\ LastSeen[p] /\ kind[p] = "end"
    /\ completed[p] => p >= expected /\ LastSeen[p] /\ kind[p] = "end"

\* The file.
OutInv ==
  /\ expected = PartCount + 1 => Len(out) = Cardinality(BatchesOf(total))
  /\ \A i \in 1 .. Len(out) :
       out[i] \in BatchesOf(total) /\ Count(total, out[i][1]) + out[i][2] = i

\* The result.
ResultInv ==
  /\ result # NoResult => cpc = "returned"
  /\ result = 0 => expected = PartCount + 1

IInv ==
  /\ TypeOK /\ QueueTypeInv /\ RemainingInv /\ KindInv /\ PcInv
  /\ ChannelInv /\ ReceivedInv /\ EarlyInv /\ OutInv /\ ResultInv

-----------------------------------------------------------------------------
(* The batches of the table, counted *)

LEMMA IntervalSize == ASSUME NEW n \in Nat PROVE IsFiniteSet(1 .. n) /\ Cardinality(1 .. n) = n
<1>1. IsFiniteSet(1 .. n) /\ Cardinality(1 .. n) = IF 1 > n THEN 0 ELSE n - 1 + 1
  BY FS_Interval
<1>2. (IF 1 > n THEN 0 ELSE n - 1 + 1) = n
  OBVIOUS
<1> QED
  BY <1>1, <1>2

LEMMA BatchesFinite == ASSUME NEW sizes PROVE IsFiniteSet(BatchesOf(sizes))
<1> USE PartsAssumption, BoundAssumption
<1>1. IsFiniteSet(Parts) /\ IsFiniteSet(1 .. MaxBatches)
  BY FS_Interval DEF Parts
<1>2. IsFiniteSet(Parts \X (1 .. MaxBatches))
  BY <1>1, FS_Product
<1>3. BatchesOf(sizes) \subseteq Parts \X (1 .. MaxBatches)
  BY DEF BatchesOf
<1> QED
  BY <1>2, <1>3, FS_Subset

LEMMA BeforeFinite ==
  ASSUME NEW sizes, NEW p
  PROVE  IsFiniteSet(Before(sizes, p)) /\ Count(sizes, p) \in Nat
<1>1. Before(sizes, p) \subseteq BatchesOf(sizes)
  BY DEF Before
<1>2. IsFiniteSet(Before(sizes, p))
  BY <1>1, BatchesFinite, FS_Subset
<1>3. Cardinality(Before(sizes, p)) \in Nat
  BY <1>2, FS_CardinalityType
<1> QED
  BY <1>2, <1>3 DEF Count

LEMMA CountNext ==
  ASSUME NEW sizes \in [Parts -> 0 .. MaxBatches], NEW p \in Parts
  PROVE  Count(sizes, p + 1) = Count(sizes, p) + sizes[p]
<1> USE PartsAssumption, BoundAssumption DEF Parts
<1> DEFINE Own == {p} \X (1 .. sizes[p])
<1>1. sizes[p] \in 0 .. MaxBatches /\ sizes[p] \in Nat
  OBVIOUS
<1>2. \A b : b \in Before(sizes, p + 1) <=> b \in Before(sizes, p) \/ b \in Own
  BY <1>1 DEF Before, BatchesOf
<1>3. Before(sizes, p + 1) = Before(sizes, p) \cup Own /\ Before(sizes, p) \cap Own = {}
  BY <1>2 DEF Before
<1>4. IsFiniteSet({p}) /\ Cardinality({p}) = 1
  BY FS_Singleton
<1>5. IsFiniteSet(1 .. sizes[p]) /\ Cardinality(1 .. sizes[p]) = sizes[p]
  BY <1>1, IntervalSize
<1>6. IsFiniteSet(Own) /\ Cardinality(Own) = Cardinality({p}) * Cardinality(1 .. sizes[p])
  BY <1>4, <1>5, FS_Product
<1>7. Cardinality(Before(sizes, p + 1)) =
        Cardinality(Before(sizes, p)) + Cardinality(Own) - Cardinality(Before(sizes, p) \cap Own)
  BY <1>3, <1>6, BeforeFinite, FS_Union
<1>8. Cardinality(Before(sizes, p) \cap Own) = 0
  BY <1>3, FS_EmptySet
<1>9. Cardinality(Before(sizes, p)) \in Nat
  BY BeforeFinite DEF Count
<1> QED
  BY <1>1, <1>4, <1>5, <1>6, <1>7, <1>8, <1>9 DEF Count

LEMMA CountEnds ==
  ASSUME NEW sizes
  PROVE  Count(sizes, 1) = 0 /\ Count(sizes, PartCount + 1) = Cardinality(BatchesOf(sizes))
<1> USE PartsAssumption, BoundAssumption DEF Parts
<1>1. Before(sizes, 1) = {} /\ Before(sizes, PartCount + 1) = BatchesOf(sizes)
  BY DEF Before, BatchesOf
<1> QED
  BY <1>1, FS_EmptySet DEF Count

LEMMA SameRank ==
  ASSUME NEW m PROVE Rank(m) = Count(total, m[1]) + m[2]
BY DEF Rank, Count, Before

-----------------------------------------------------------------------------
(* Types *)

LEMMA CountersTyped ==
  ASSUME TypeOK, QueueTypeInv
  PROVE  /\ Written \in [Parts -> Int] /\ LastSeen \in [Parts -> BOOLEAN] /\ Got \in [Parts -> Int]
         /\ expected \in 1 .. PartCount + 1
<1>1. expected \in 1 .. PartCount + 1 /\ Len(out) \in Nat
  BY DEF TypeOK, QueueTypeInv
<1>2. Written \in [Parts -> Int]
  <2>1. \A p \in Parts : Count(total, p) \in Nat /\ total[p] \in Int
    BY BeforeFinite DEF QueueTypeInv
  <2> QED
    BY <1>1, <2>1 DEF Written
<1>3. LastSeen \in [Parts -> BOOLEAN]
  BY DEF LastSeen
<1>4. \A p \in Parts : Len(early[p]) \in Nat
  BY DEF TypeOK
<1> QED
  BY <1>1, <1>2, <1>3, <1>4 DEF Got

LEMMA TotalTyped ==
  ASSUME QueueTypeInv, NEW p \in Parts
  PROVE  total[p] \in Nat /\ total[p] <= MaxBatches
<1>1. total[p] \in 0 .. MaxBatches
  BY DEF QueueTypeInv
<1> QED
  BY <1>1, BoundAssumption

LEMMA InitIInv == ASSUME Init PROVE IInv
<1> USE PartsAssumption, BoundAssumption
<1>1. TypeOK
  <2>1. early \in [Parts -> Seq(Parts \X (1 .. MaxBatches))]
    <3>1. <<>> \in Seq(Parts \X (1 .. MaxBatches))
      OBVIOUS
    <3> QED
      BY <3>1 DEF Init
  <2>2. remaining \in 0 .. PartCount /\ expected \in 1 .. PartCount + 1
    BY DEF Init
  <2> QED
    BY <2>1, <2>2 DEF Init, TypeOK, Queue!Init, NoResult
<1>2. QueueTypeInv
  BY DEF Init, QueueTypeInv, Queue!Init, NoResult, Parts
<1>3. Written = [p \in Parts |-> 0] /\ LastSeen = [p \in Parts |-> FALSE] /\ Got = [p \in Parts |-> 0]
  <2>1. Written = [p \in Parts |-> 0]
    <3>1. \A p \in Parts : ~(p < expected) /\ (p = expected => p = 1)
      BY DEF Init, Parts
    <3>2. Len(out) = 0 /\ Count(total, 1) = 0
      BY CountEnds DEF Init
    <3>3. \A p \in Parts : (IF p < expected THEN total[p]
                          ELSE IF p = expected THEN Len(out) - Count(total, p) ELSE 0) = 0
      BY <3>1, <3>2
    <3> QED
      BY <3>3 DEF Written
  <2>2. LastSeen = [p \in Parts |-> FALSE]
    BY DEF LastSeen, Init, Queue!Init
  <2>3. \A p \in Parts : Len(early[p]) = 0
    BY DEF Init
  <2> QED
    BY <2>1, <2>2, <2>3 DEF Got
<1>4. RemainingInv
  <2>1. {p \in Parts : code[p] # 0} = 1 .. PartCount
    BY DEF Init, NoResult, Parts
  <2>2. Cardinality(1 .. PartCount) = PartCount
    BY IntervalSize
  <2> QED
    BY <2>1, <2>2 DEF Init, RemainingInv
<1>5. KindInv /\ PcInv
  BY DEF Init, KindInv, PcInv, Queue!Init
<1>6. ChannelInv /\ ReceivedInv
  BY <1>3 DEF Init, ChannelInv, ReceivedInv, Queue!Init
<1>7. EarlyInv
  BY <1>3 DEF Init, EarlyInv, Parts
<1>8. OutInv /\ ResultInv
  BY DEF Init, OutInv, ResultInv, NoResult
<1> QED
  BY <1>1, <1>2, <1>4, <1>5, <1>6, <1>7, <1>8 DEF IInv

-----------------------------------------------------------------------------
(* What the steps do to the counts *)

LEMMA TotalStays == ASSUME Next PROVE total' = total
BY DEF Next, ProducerTask, TableTask, producerVars, Start, Throw, Generate, LeaveLoop, SkipEnd,
  PushEnd, PushCheckClosed, Refused, TakePlace, Publish, StopAll, Retire, CloseQueue,
  ReceiveError, ReceiveBatch, ReceiveEnd, PopWaits, PopReturnsFalse, TableStops, TableCloses,
  BeginPartition, WriteFront, FinishPartition, DrainFails, DrainReturns, Join, Finish

\* A producer's step, by what it does to its messages.
Quiet(p) ==
  /\ UNCHANGED <<channel, sent, kind, special>>

Announces(p) ==
  /\ pc[p] \in {"create", "loop", "after_loop"} /\ pc'[p] = "push_check"
  /\ special' = [special EXCEPT ![p] = sent[p] + 1]
  /\ \E k \in {"end", "error"} :
       /\ kind' = [kind EXCEPT ![p] = k]
       /\ k = "end" => sent[p] = total[p]
  /\ UNCHANGED <<channel, sent>>

Sends(p) ==
  /\ pc[p] = "push" /\ pc'[p] = "publish"
  /\ channel' = Append(channel, <<p, sent[p] + 1>>)
  /\ sent' = [sent EXCEPT ![p] = @ + 1]
  /\ UNCHANGED <<kind, special>>

\* No step of a producer changes what the table's task has.
LEMMA ProducerMoves ==
  ASSUME TypeOK, PcInv, NEW p \in Parts, ProducerTask(p)
  PROVE  /\ UNCHANGED <<received, early, completed, opened, expected, out, error, result, cpc, total>>
         /\ \A q \in Parts \ {p} : pc'[q] = pc[q] /\ code'[q] = code[q]
         /\ stop => stop'
         /\ Quiet(p) \/ Announces(p) \/ Sends(p)
<1> USE DEF Goto, FromLoop, queueVars, tableVars, drainVars, TypeOK, Quiet, Announces, Sends
<1>1. CASE Start(p)
  BY <1>1 DEF Start
<1>2. CASE Throw(p)
  BY <1>2 DEF Throw
<1>3. CASE Generate(p)
  BY <1>3 DEF Generate
<1>4. CASE LeaveLoop(p)
  BY <1>4 DEF LeaveLoop
<1>5. CASE SkipEnd(p)
  BY <1>5 DEF SkipEnd
<1>6. CASE PushEnd(p)
  <2>1. sent[p] = total[p]
    BY <1>6 DEF PushEnd, PcInv
  <2> QED
    BY <1>6, <2>1 DEF PushEnd
<1>7. CASE PushCheckClosed(p)
  BY <1>7 DEF PushCheckClosed
<1>8. CASE Refused(p)
  BY <1>8 DEF Refused
<1>9. CASE TakePlace(p)
  BY <1>9 DEF TakePlace, Queue!TakePlace
<1>10. CASE Publish(p)
  BY <1>10 DEF Publish, Queue!Publish
<1>11. CASE StopAll(p)
  BY <1>11 DEF StopAll
<1>12. CASE Retire(p)
  BY <1>12 DEF Retire
<1>13. CASE CloseQueue(p)
  BY <1>13 DEF CloseQueue, Queue!Shut
<1> QED
  BY <1>1, <1>2, <1>3, <1>4, <1>5, <1>6, <1>7, <1>8, <1>9, <1>10, <1>11, <1>12, <1>13
    DEF ProducerTask

\* A message is announced once, and none that was received.
LEMMA ProducerCounts ==
  ASSUME TypeOK, QueueTypeInv, KindInv, PcInv, ReceivedInv, NEW p \in Parts, ProducerTask(p)
  PROVE  Written' = Written /\ LastSeen' = LastSeen /\ Got' = Got
<1>1. UNCHANGED <<received, early, expected, out, total>>
  BY ProducerMoves
<1>2. Written' = Written
  BY <1>1 DEF Written
<1>3. LastSeen' = LastSeen
  <2>1. CASE special' = special
    BY <1>1, <2>1 DEF LastSeen
  <2>2. CASE Announces(p)
    <3>1. special[p] = 0 /\ special' = [special EXCEPT ![p] = sent[p] + 1] /\ sent[p] \in Nat
      BY <2>2 DEF Announces, KindInv, PcInv, QueueTypeInv
    <3>2. ASSUME NEW i \in 1 .. Len(received), NEW n, n = 0 \/ n = sent[p] + 1
          PROVE  received[i] # <<p, n>>
      <4>1. received[i] \in Parts \X Nat
        BY DEF QueueTypeInv
      <4>2. Got[received[i][1]] \in Int /\ Got[received[i][1]] <= sent[received[i][1]]
        BY <4>1, CountersTyped DEF ReceivedInv
      <4> QED
        BY <3>1, <3>2, <4>1, <4>2 DEF ReceivedInv
    <3>3. ~LastSeen[p]
      BY <3>1, <3>2 DEF LastSeen
    <3>4. ~ \E i \in 1 .. Len(received) : received[i] = <<p, special'[p]>>
      <4>1. special'[p] = sent[p] + 1
        BY <3>1 DEF QueueTypeInv
      <4> QED
        BY <3>2, <4>1
    <3>5. \A q \in Parts : LastSeen[q] <=> \E i \in 1 .. Len(received) : received[i] = <<q, special'[q]>>
      <4> TAKE q \in Parts
      <4>1. CASE q = p
        BY <3>3, <3>4, <4>1
      <4>2. CASE q # p
        <5>1. special'[q] = special[q]
          BY <3>1, <4>2 DEF QueueTypeInv
        <5> QED
          BY <5>1 DEF LastSeen
      <4> QED
        BY <4>1, <4>2
    <3>6. LastSeen = [q \in Parts |-> \E i \in 1 .. Len(received) : received[i] = <<q, special'[q]>>]
      BY <3>5, Zenon DEF LastSeen
    <3> QED
      BY <1>1, <3>6 DEF LastSeen
  <2> QED
    BY <2>1, <2>2, ProducerMoves DEF Quiet, Sends
<1> QED
  BY <1>1, <1>2, <1>3 DEF Got

\* The message at the head of the queue is the next one of its producer, and that
\* producer's last message was not received yet.
LEMMA HeadIsNext ==
  ASSUME TypeOK, QueueTypeInv, KindInv, ChannelInv, ReceivedInv, EarlyInv, channel # <<>>,
         NEW m, m = Head(channel)
  PROVE  /\ m \in Parts \X Nat /\ m[1] \in Parts /\ m = <<m[1], Got[m[1]] + 1>>
         /\ m[2] = Got[m[1]] + 1 /\ m[2] <= sent[m[1]] /\ m[2] > 0
         /\ m[1] >= expected /\ ~LastSeen[m[1]] /\ ~completed[m[1]]
         /\ Got[m[1]] = Written[m[1]] + Len(early[m[1]])
<1> DEFINE p == m[1]
<1>1. Len(channel) \in Nat /\ Len(channel) >= 1 /\ m = channel[1] /\ m \in Parts \X Nat
  BY DEF QueueTypeInv
<1>2. p \in Parts /\ m = <<p, m[2]>> /\ m[2] \in Nat
  BY <1>1
<1>3. /\ Written[p] \in Int /\ Got[p] \in Int /\ LastSeen[p] \in BOOLEAN /\ expected \in Int /\ p \in Int
      /\ Len(early[p]) \in Nat /\ sent[p] \in Nat /\ total[p] \in Nat /\ special[p] \in Nat
  <2>1. Written[p] \in Int /\ Got[p] \in Int /\ LastSeen[p] \in BOOLEAN
    BY <1>2, CountersTyped
  <2>2. expected \in Int /\ p \in Int /\ sent[p] \in Nat /\ total[p] \in Nat /\ special[p] \in Nat
    <3>1. expected \in Int /\ p \in Int
      BY <1>2, PartsAssumption DEF TypeOK, Parts
    <3>2. sent[p] \in Nat /\ special[p] \in Nat
      BY <1>2 DEF QueueTypeInv
    <3>3. total[p] \in Nat
      BY <1>2, TotalTyped
    <3> QED
      BY <3>1, <3>2, <3>3
  <2>3. early[p] \in Seq(Parts \X (1 .. MaxBatches))
    BY <1>2 DEF TypeOK
  <2> QED
    BY <2>1, <2>2, <2>3
<1>4. Got[p] = Written[p] + Len(early[p]) + (IF LastSeen[p] THEN 1 ELSE 0) /\ Written[p] >= 0
  BY <1>2, <1>3 DEF Got, EarlyInv
<1>5. Got[p] < m[2] /\ m[2] <= sent[p]
  BY <1>1 DEF ChannelInv
<1>6. m[2] = Got[p] + 1
  <2>1. PICK i \in 1 .. Len(channel) : channel[i] = <<p, Got[p] + 1>>
    <3>1. Got[p] + 1 \in Got[p] + 1 .. sent[p]
      BY <1>2, <1>3, <1>5
    <3> QED
      BY <1>2, <3>1 DEF ChannelInv
  <2>2. CASE i = 1
    BY <1>1, <2>1, <2>2
  <2>3. CASE i # 1
    <3>1. channel[1][2] < channel[i][2]
      BY <1>1, <1>2, <2>1, <2>3 DEF ChannelInv
    <3> QED
      BY <1>1, <1>2, <1>3, <1>5, <2>1, <3>1
  <2> QED
    BY <2>2, <2>3
<1>7. ~LastSeen[p]
  <2> SUFFICES ASSUME LastSeen[p] PROVE FALSE
    OBVIOUS
  <2>1. PICK i \in 1 .. Len(received) : received[i] = <<p, special[p]>>
    BY <1>2 DEF LastSeen
  <2>2. special[p] \in 1 .. Got[p]
    <3>1. received[i][2] \in 1 .. Got[received[i][1]]
      BY DEF ReceivedInv
    <3> QED
      BY <2>1, <3>1
  <2>3. sent[p] <= special[p]
    <3>1. kind[p] \in {"batch", "end", "error"}
      BY <1>2 DEF TypeOK
    <3> QED
      <4>1. special[p] > 0
        BY <1>3, <2>2
      <4>2. /\ kind[p] = "end" => special[p] = total[p] + 1 /\ sent[p] \in {total[p], total[p] + 1}
            /\ kind[p] = "batch" => special[p] = 0
            /\ kind[p] = "error" => special[p] \in {sent[p], sent[p] + 1}
        BY <1>2 DEF KindInv
      <4> QED
        BY <1>3, <3>1, <4>1, <4>2
  <2> QED
    BY <1>2, <1>3, <1>5, <2>2, <2>3, SMTT(30)
<1>8. p >= expected /\ ~completed[p]
  BY <1>2, <1>3, <1>7 DEF EarlyInv
<1> QED
  BY <1>1, <1>2, <1>3, <1>4, <1>5, <1>6, <1>7, <1>8, SMTT(30)

Takes ==
  /\ channel # <<>> /\ channel' = Tail(channel) /\ received' = Append(received, Head(channel))
  /\ UNCHANGED <<sent, producerVars, stop, opened, expected, out, result>>

LEMMA TakesCounts ==
  ASSUME TypeOK, QueueTypeInv, KindInv, ChannelInv, ReceivedInv, EarlyInv, Takes,
         NEW m, m = Head(channel)
  PROVE  Written' = Written /\ LastSeen' = [LastSeen EXCEPT ![m[1]] = (m[2] = special[m[1]])]
<1> USE DEF Takes, producerVars
<1>1. Written' = Written
  BY DEF Written
<1>2. m \in Parts \X Nat /\ m = <<m[1], m[2]>> /\ m[1] \in Parts /\ ~LastSeen[m[1]]
  BY HeadIsNext
<1>3. received' = Append(received, m) /\ received \in Seq(Parts \X Nat)
  BY DEF QueueTypeInv
<1>4. /\ Len(received') = Len(received) + 1 /\ Len(received) \in Nat
      /\ received'[Len(received) + 1] = m
      /\ \A i \in 1 .. Len(received) : received'[i] = received[i]
  BY <1>2, <1>3
<1>5. ASSUME NEW q \in Parts
      PROVE  (\E i \in 1 .. Len(received') : received'[i] = <<q, special[q]>>)
               <=> LastSeen[q] \/ m = <<q, special[q]>>
  BY <1>4, SMTT(30) DEF LastSeen
<1>6. ASSUME NEW q \in Parts
      PROVE  (\E i \in 1 .. Len(received') : received'[i] = <<q, special[q]>>)
               <=> (q = m[1] /\ m[2] = special[q]) \/ (q # m[1] /\ LastSeen[q])
  <2>1. CASE q = m[1]
    <3>1. m = <<q, special[q]>> <=> m[2] = special[q]
      BY <1>2, <2>1
    <3> QED
      BY <1>2, <1>5, <2>1, <3>1
  <2>2. CASE q # m[1]
    <3>1. m # <<q, special[q]>>
      BY <1>2, <2>2
    <3> QED
      BY <1>5, <2>2, <3>1
  <2> QED
    BY <2>1, <2>2
<1>7. LastSeen' = [q \in Parts |-> \E i \in 1 .. Len(received') : received'[i] = <<q, special[q]>>]
  BY DEF LastSeen
<1>8. LastSeen' = [q \in Parts |-> (q = m[1] /\ m[2] = special[q]) \/ (q # m[1] /\ LastSeen[q])]
  BY <1>6, <1>7, Zenon
<1>9. LastSeen = [q \in Parts |-> LastSeen[q]]
  BY DEF LastSeen
<1>10. [LastSeen EXCEPT ![m[1]] = (m[2] = special[m[1]])]
         = [q \in Parts |-> (q = m[1] /\ m[2] = special[q]) \/ (q # m[1] /\ LastSeen[q])]
  <2> DEFINE L == LastSeen
  <2>1. L \in [Parts -> BOOLEAN]
    BY CountersTyped
  <2> HIDE DEF L
  <2>2. [L EXCEPT ![m[1]] = (m[2] = special[m[1]])]
         = [q \in Parts |-> (q = m[1] /\ m[2] = special[q]) \/ (q # m[1] /\ L[q])]
    BY <1>2, <2>1
  <2> QED
    BY <2>2 DEF L
<1> QED
  BY <1>1, <1>8, <1>10

\* What the task does with a message: it counts a batch as early and any other
\* message as the last.
LEMMA ReceiveMoves ==
  ASSUME TypeOK, QueueTypeInv, KindInv, ChannelInv, ReceivedInv, EarlyInv,
         ReceiveError \/ ReceiveBatch \/ ReceiveEnd, NEW m, m = Head(channel)
  PROVE  /\ Takes /\ Got' = [Got EXCEPT ![m[1]] = @ + 1] /\ Written' = Written
         /\ \/ /\ ReceiveBatch
               /\ m[2] <= total[m[1]] /\ LastSeen' = LastSeen
               /\ early' = [early EXCEPT ![m[1]] = Append(@, m)] /\ completed' = completed
            \/ /\ m[2] = special[m[1]] /\ LastSeen' = [LastSeen EXCEPT ![m[1]] = TRUE] /\ early' = early
               /\ \/ completed' = completed
                  \/ kind[m[1]] = "end" /\ completed' = [completed EXCEPT ![m[1]] = TRUE]
<1> DEFINE p == m[1]
<1> USE DEF queueVars, drainVars
<1>1. Takes
  BY DEF ReceiveError, ReceiveBatch, ReceiveEnd, Queue!Receive, Queue!HeadReady, Takes
<1>2. p \in Parts /\ ~LastSeen[p] /\ m[2] = Got[p] + 1 /\ m[2] > 0 /\ m[2] <= sent[p] /\ m \in Parts \X Nat
  BY <1>1, HeadIsNext DEF Takes
<1>3. Written' = Written /\ LastSeen' = [LastSeen EXCEPT ![p] = (m[2] = special[p])]
  BY <1>1, TakesCounts
<1>4. /\ LastSeen \in [Parts -> BOOLEAN] /\ Written \in [Parts -> Int] /\ Got \in [Parts -> Int]
      /\ early \in [Parts -> Seq(Parts \X (1 .. MaxBatches))]
  BY CountersTyped DEF TypeOK
<1>5. Got = [q \in Parts |-> Written[q] + Len(early[q]) + IF LastSeen[q] THEN 1 ELSE 0]
  BY DEF Got
<1>6. Got' = [q \in Parts |-> Written[q] + Len(early'[q]) + IF LastSeen'[q] THEN 1 ELSE 0]
  BY <1>3 DEF Got
<1>7. CASE ReceiveBatch
  <2>1. m[2] # special[p]
    <3>1. m[2] = special[p] => kind[p] = "batch"
      BY <1>7 DEF ReceiveBatch, KindOf
    <3> QED
      BY <1>2, <3>1 DEF KindInv
  <2>2. m[2] <= total[p]
    <3>1. /\ sent[p] \in Nat /\ special[p] \in Nat /\ total[p] \in Nat /\ m[2] \in Nat
          /\ kind[p] \in {"batch", "end", "error"}
      BY <1>2 DEF QueueTypeInv, TypeOK
    <3> QED
      BY <1>2, <2>1, <3>1 DEF KindInv
  <2>3. LastSeen' = LastSeen
    BY <1>2, <1>3, <1>4, <2>1
  <2>4. early' = [early EXCEPT ![p] = Append(@, m)] /\ completed' = completed
    BY <1>7 DEF ReceiveBatch
  <2>5. Len(early'[p]) = Len(early[p]) + 1 /\ \A q \in Parts \ {p} : early'[q] = early[q]
    <3>1. early'[p] = Append(early[p], m)
      BY <1>2, <1>4, <2>4
    <3>2. early[p] \in Seq(Parts \X (1 .. MaxBatches))
      BY <1>2, <1>4
    <3>3. Len(early'[p]) = Len(early[p]) + 1
      BY <3>1, <3>2
    <3>4. \A q \in Parts \ {p} : early'[q] = early[q]
      BY <1>4, <2>4
    <3> QED
      BY <3>3, <3>4
  <2>6. ASSUME NEW q \in Parts
        PROVE  Written[q] + Len(early'[q]) + (IF LastSeen[q] THEN 1 ELSE 0)
                 = IF q = p THEN Got[q] + 1 ELSE Got[q]
    <3>1. Len(early[q]) \in Nat /\ Written[q] \in Int
          /\ Got[q] = Written[q] + Len(early[q]) + IF LastSeen[q] THEN 1 ELSE 0
      BY <1>4, <1>5
    <3> QED
      BY <2>5, <3>1, SMTT(30)
  <2>7. Got' = [q \in Parts |-> IF q = p THEN Got[q] + 1 ELSE Got[q]]
    BY <1>6, <2>3, <2>6, Zenon
  <2> HIDE DEF Got
  <2>8. Got' = [Got EXCEPT ![p] = @ + 1]
    BY <1>2, <1>4, <2>7
  <2> QED
    BY <1>1, <1>3, <1>7, <2>2, <2>3, <2>4, <2>8
<1>8. CASE ReceiveError \/ ReceiveEnd
  <2>1. m[2] = special[p] /\ early' = early
    BY <1>8 DEF ReceiveError, ReceiveEnd, KindOf
  <2>2. LastSeen' = [LastSeen EXCEPT ![p] = TRUE]
    BY <1>3, <2>1
  <2>3. \/ completed' = completed
        \/ kind[p] = "end" /\ completed' = [completed EXCEPT ![p] = TRUE]
    <3>1. CASE ReceiveError
      BY <3>1 DEF ReceiveError
    <3>2. CASE ReceiveEnd
      <4>1. KindOf(m) = "end" /\ completed' = [completed EXCEPT ![p] = TRUE]
        BY <3>2 DEF ReceiveEnd
      <4> QED
        BY <2>1, <4>1 DEF KindOf
    <3> QED
      BY <1>8, <3>1, <3>2
  <2>4. LastSeen'[p] /\ \A q \in Parts \ {p} : LastSeen'[q] = LastSeen[q]
    BY <1>2, <1>4, <2>2
  <2>5. ASSUME NEW q \in Parts
        PROVE  Written[q] + Len(early[q]) + (IF LastSeen'[q] THEN 1 ELSE 0)
                 = IF q = p THEN Got[q] + 1 ELSE Got[q]
    <3>1. Len(early[q]) \in Nat /\ Written[q] \in Int
          /\ Got[q] = Written[q] + Len(early[q]) + IF LastSeen[q] THEN 1 ELSE 0
      BY <1>4, <1>5
    <3> QED
      BY <1>2, <2>4, <3>1
  <2>6. Got' = [q \in Parts |-> IF q = p THEN Got[q] + 1 ELSE Got[q]]
    BY <1>6, <2>1, <2>5, Zenon
  <2> HIDE DEF Got
  <2>7. Got' = [Got EXCEPT ![p] = @ + 1]
    BY <1>2, <1>4, <2>6
  <2> QED
    BY <1>1, <1>3, <2>1, <2>2, <2>3, <2>7
<1> QED
  BY <1>7, <1>8

\* The batch written next is the first of the early ones of the expected
\* partition, and a partition is finished when all its batches were written.
Writes ==
  /\ expected \in Parts /\ early[expected] # <<>> /\ Head(early[expected]) = <<expected, Written[expected] + 1>>
  /\ Written[expected] + 1 <= total[expected] /\ Len(out) = Count(total, expected) + Written[expected]
  /\ out' = Append(out, <<expected, Written[expected] + 1>>)
  /\ early' = [early EXCEPT ![expected] = Tail(@)]
  /\ Written' = [Written EXCEPT ![expected] = @ + 1]
  /\ UNCHANGED <<completed, expected>>

Finishes ==
  /\ expected \in Parts /\ early[expected] = <<>>
  /\ LastSeen[expected] /\ kind[expected] = "end"
  /\ Len(out) = Count(total, expected + 1)
  /\ completed' = [completed EXCEPT ![expected] = FALSE] /\ expected' = expected + 1
  /\ UNCHANGED <<early, out>> /\ Written' = Written

LEMMA WriteMoves ==
  ASSUME TypeOK, QueueTypeInv, EarlyInv, WriteFront
  PROVE  Writes /\ Got' = Got /\ LastSeen' = LastSeen
<1> DEFINE e == expected
<1>1. e \in Parts /\ early[e] # <<>> /\ e \in Int
  BY PartsAssumption DEF WriteFront, MustWrite, HasBatch, Draining, TypeOK, Parts
<1>2. /\ out' = Append(out, Head(early[e])) /\ early' = [early EXCEPT ![e] = Tail(@)]
      /\ UNCHANGED <<received, special, total, completed, expected>>
  BY DEF WriteFront, queueVars, producerVars
<1>3. /\ Written \in [Parts -> Int] /\ LastSeen \in [Parts -> BOOLEAN] /\ Got \in [Parts -> Int]
      /\ early \in [Parts -> Seq(Parts \X (1 .. MaxBatches))] /\ out \in Seq(Parts \X Nat)
      /\ total[e] \in Nat
  BY <1>1, CountersTyped, TotalTyped DEF TypeOK, QueueTypeInv
<1>4. LastSeen' = LastSeen
  BY <1>2 DEF LastSeen
<1>5. early[e] \in Seq(Parts \X (1 .. MaxBatches)) /\ Len(early[e]) \in Nat /\ Len(early[e]) >= 1
  BY <1>1, <1>3
<1>6. Head(early[e]) = <<e, Written[e] + 1>> /\ Written[e] + 1 <= total[e]
  <2>1. Head(early[e]) = early[e][1] /\ 1 \in 1 .. Len(early[e])
    BY <1>1, <1>5
  <2>2. early[e][1] = <<e, Written[e] + 1>> /\ Written[e] + Len(early[e]) <= total[e]
    BY <1>1, <2>1 DEF EarlyInv
  <2>3. Written[e] \in Int
    BY <1>1, <1>3
  <2>4. \A w \in Int, l, t \in Nat : l >= 1 /\ w + l <= t => w + 1 <= t
    OBVIOUS
  <2>5. Written[e] + 1 <= total[e]
    BY <1>3, <1>5, <2>2, <2>3, <2>4
  <2> QED
    BY <2>1, <2>2, <2>5
<1>7. Written[e] = Len(out) - Count(total, e) /\ Count(total, e) \in Nat /\ Len(out) \in Nat
  <2>1. ~(e < expected)
    BY <1>1
  <2> QED
    BY <1>1, <1>3, <2>1, BeforeFinite DEF Written
<1>8. Len(out') = Len(out) + 1
  BY <1>2, <1>3, <1>6, <1>1
<1>9. Written' = [Written EXCEPT ![e] = @ + 1]
  <2>1. Written' = [q \in Parts |-> IF q < e THEN total[q]
                                   ELSE IF q = e THEN Len(out') - Count(total, q) ELSE 0]
    BY <1>2 DEF Written
  <2>2. ASSUME NEW q \in Parts
        PROVE  (IF q < e THEN total[q] ELSE IF q = e THEN Len(out') - Count(total, q) ELSE 0)
                 = IF q = e THEN Written[q] + 1 ELSE Written[q]
    <3>1. CASE q = e
      BY <1>1, <1>7, <1>8, <3>1
    <3>2. CASE q # e
      BY <3>2 DEF Written
    <3> QED
      BY <3>1, <3>2
  <2>3. Written' = [q \in Parts |-> IF q = e THEN Written[q] + 1 ELSE Written[q]]
    BY <2>1, <2>2, Zenon
  <2> HIDE DEF Written
  <2> QED
    BY <1>1, <1>3, <2>3
<1>10. Got' = Got
  <2>1. ASSUME NEW q \in Parts PROVE Written'[q] + Len(early'[q]) = Written[q] + Len(early[q])
    <3>1. CASE q = e
      <4>1. early'[e] = Tail(early[e]) /\ Len(Tail(early[e])) = Len(early[e]) - 1
        BY <1>1, <1>2, <1>3, <1>5
      <4>2. Written'[e] = Written[e] + 1 /\ Written[e] \in Int
        BY <1>1, <1>3, <1>9
      <4> QED
        BY <1>5, <3>1, <4>1, <4>2
    <3>2. CASE q # e
      BY <1>2, <1>3, <1>9, <3>2
    <3> QED
      BY <3>1, <3>2
  <2> QED
    BY <1>4, <2>1 DEF Got
<1> QED
  BY <1>1, <1>2, <1>4, <1>6, <1>7, <1>9, <1>10 DEF Writes

LEMMA FinishMoves ==
  ASSUME TypeOK, QueueTypeInv, KindInv, ReceivedInv, EarlyInv, FinishPartition
  PROVE  Finishes /\ Got' = Got /\ LastSeen' = LastSeen
<1> DEFINE e == expected
<1>1. e \in Parts /\ early[e] = <<>> /\ completed[e] /\ e \in Int
  BY PartsAssumption DEF FinishPartition, MustFinish, Draining, TypeOK, Parts
<1>2. /\ completed' = [completed EXCEPT ![e] = FALSE] /\ expected' = e + 1
      /\ UNCHANGED <<received, special, total, early, out>>
  BY DEF FinishPartition, queueVars, producerVars
<1>3. /\ Written \in [Parts -> Int] /\ LastSeen \in [Parts -> BOOLEAN] /\ Got \in [Parts -> Int]
      /\ total \in [Parts -> 0 .. MaxBatches] /\ total[e] \in Nat /\ special[e] \in Nat
  BY <1>1, CountersTyped, TotalTyped DEF QueueTypeInv
<1>4. LastSeen' = LastSeen
  BY <1>2 DEF LastSeen
<1>5. LastSeen[e] /\ kind[e] = "end" /\ special[e] = total[e] + 1 /\ Written[e] <= total[e]
  BY <1>1, <1>3 DEF EarlyInv, KindInv
<1>6. Written[e] = total[e]
  <2>1. PICK i \in 1 .. Len(received) : received[i] = <<e, special[e]>>
    BY <1>1, <1>5 DEF LastSeen
  <2>2. special[e] \in 1 .. Got[e]
    <3>1. received[i][2] \in 1 .. Got[received[i][1]]
      BY DEF ReceivedInv
    <3> QED
      BY <2>1, <3>1
  <2>3. Got[e] = Written[e] + Len(early[e]) + (IF LastSeen[e] THEN 1 ELSE 0)
    BY <1>1 DEF Got
  <2>4. Got[e] = Written[e] + 1 /\ Written[e] \in Int /\ Got[e] \in Int
    BY <1>1, <1>3, <1>5, <2>3
  <2> QED
    BY <1>3, <1>5, <2>2, <2>4
<1>7. Written[e] = Len(out) - Count(total, e) /\ Count(total, e) \in Nat /\ Len(out) \in Nat
  <2>1. ~(e < expected)
    BY <1>1
  <2> QED
    BY <1>1, <2>1, BeforeFinite DEF Written, QueueTypeInv
<1>8. Count(total, e + 1) = Count(total, e) + total[e]
  BY <1>1, <1>3, CountNext
<1>9. Len(out) = Count(total, e + 1)
  BY <1>3, <1>6, <1>7, <1>8
<1>10. Written' = Written
  <2>1. Written' = [q \in Parts |-> IF q < e + 1 THEN total[q]
                                   ELSE IF q = e + 1 THEN Len(out) - Count(total, q) ELSE 0]
    BY <1>2 DEF Written
  <2>2. ASSUME NEW q \in Parts
        PROVE  (IF q < e + 1 THEN total[q] ELSE IF q = e + 1 THEN Len(out) - Count(total, q) ELSE 0)
                 = Written[q]
    <3>0. q \in Int
      BY PartsAssumption DEF Parts
    <3>1. CASE q < e
      BY <1>1, <3>0, <3>1 DEF Written
    <3>2. CASE q = e
      BY <1>1, <1>6, <3>2
    <3>3. CASE q = e + 1
      <4>1. Written[q] = 0
        BY <1>1, <3>0, <3>3 DEF Written
      <4> QED
        BY <1>1, <1>7, <1>9, <3>3, <4>1
    <3>4. CASE q > e + 1
      BY <1>1, <3>0, <3>4 DEF Written
    <3> QED
      BY <1>1, <3>0, <3>1, <3>2, <3>3, <3>4
  <2>3. Written' = [q \in Parts |-> Written[q]]
    BY <2>1, <2>2, Zenon
  <2> HIDE DEF Written
  <2> QED
    BY <1>3, <2>3
<1>11. Got' = Got
  BY <1>2, <1>4, <1>10 DEF Got
<1> QED
  BY <1>1, <1>2, <1>4, <1>5, <1>9, <1>10, <1>11 DEF Finishes

\* Every other step leaves the messages alone.
Rests ==
  UNCHANGED <<channel, received, sent, producerVars, early, completed, expected, out, Written, LastSeen, Got>>

LEMMA StepMoves ==
  ASSUME [Next]_vars
  PROVE  \/ \E p \in Parts : ProducerTask(p)
         \/ ReceiveError \/ ReceiveBatch \/ ReceiveEnd
         \/ WriteFront \/ FinishPartition \/ Rests
<1> DEFINE Same == UNCHANGED <<channel, received, sent, producerVars, early, completed, expected, out>>
<1>1. Same => Rests
  BY DEF Rests, Written, LastSeen, Got, producerVars
<1>2. CASE UNCHANGED vars
  BY <1>1, <1>2 DEF vars, queueVars, producerVars, drainVars
<1>3. CASE PopWaits \/ PopReturnsFalse \/ TableStops \/ TableCloses
  BY <1>1, <1>3 DEF PopWaits, PopReturnsFalse, TableStops, TableCloses, queueVars, producerVars, drainVars,
    Queue!FindNothing, Queue!LookAgain, Queue!End, Queue!Shut
<1>4. CASE BeginPartition \/ DrainFails \/ DrainReturns \/ Join \/ Finish
  BY <1>1, <1>4 DEF BeginPartition, DrainFails, DrainReturns, Join, Finish, queueVars, producerVars, drainVars
<1> QED
  BY <1>2, <1>3, <1>4 DEF Next, TableTask

-----------------------------------------------------------------------------
(* The invariant, part by part *)

\* The steps of the table's task leave the producers alone, and stop_requested
\* is never taken back.
LEMMA TableFrame ==
  ASSUME [Next]_vars, ~ \E p \in Parts : ProducerTask(p)
  PROVE  UNCHANGED <<sent, producerVars>> /\ (stop => stop')
<1> USE DEF queueVars, producerVars
<1>1. CASE UNCHANGED vars
  BY <1>1 DEF vars
<1>2. CASE ReceiveError \/ ReceiveBatch \/ ReceiveEnd
  BY <1>2 DEF ReceiveError, ReceiveBatch, ReceiveEnd, Queue!Receive
<1>3. CASE PopWaits \/ PopReturnsFalse \/ TableStops \/ TableCloses
  BY <1>3 DEF PopWaits, PopReturnsFalse, TableStops, TableCloses,
    Queue!FindNothing, Queue!LookAgain, Queue!End, Queue!Shut
<1>4. CASE BeginPartition \/ WriteFront \/ FinishPartition \/ DrainFails \/ DrainReturns \/ Join \/ Finish
  BY <1>4 DEF BeginPartition, WriteFront, FinishPartition, DrainFails, DrainReturns, Join, Finish
<1> QED
  BY <1>1, <1>2, <1>3, <1>4 DEF Next, TableTask

LEMMA StepKind ==
  ASSUME TypeOK, QueueTypeInv, KindInv, PcInv, [Next]_vars
  PROVE  KindInv'
<1>1. ASSUME NEW p \in Parts, ProducerTask(p) PROVE KindInv'
  <2>1. total' = total /\ \A q \in Parts : total[q] \in Nat
    BY <1>1, ProducerMoves, TotalTyped
  <2>2. CASE Quiet(p)
    BY <2>1, <2>2 DEF Quiet, KindInv
  <2>3. CASE Announces(p)
    <3>1. kind[p] = "batch" /\ sent[p] \in Nat /\ sent[p] <= total[p]
      BY <2>3 DEF Announces, PcInv, KindInv, QueueTypeInv
    <3>2. PICK k \in {"end", "error"} :
            kind' = [kind EXCEPT ![p] = k] /\ (k = "end" => sent[p] = total[p])
      BY <2>3 DEF Announces
    <3>3. special' = [special EXCEPT ![p] = sent[p] + 1] /\ sent' = sent
      BY <2>3 DEF Announces
    <3>4. kind'[p] = k /\ special'[p] = sent[p] + 1
          /\ \A q \in Parts \ {p} : kind'[q] = kind[q] /\ special'[q] = special[q]
      BY <3>2, <3>3 DEF TypeOK, QueueTypeInv
    <3>5. ASSUME NEW q \in Parts
          PROVE  /\ kind'[q] = "batch" => special'[q] = 0 /\ sent'[q] <= total'[q]
                 /\ kind'[q] = "end" => special'[q] = total'[q] + 1 /\ sent'[q] \in {total'[q], total'[q] + 1}
                 /\ kind'[q] = "error" =>
                      special'[q] \in {sent'[q], sent'[q] + 1} /\ special'[q] \in 1 .. total'[q] + 1
      <4>1. CASE q = p
        BY <2>1, <3>1, <3>2, <3>3, <3>4, <4>1
      <4>2. CASE q # p
        BY <2>1, <3>3, <3>4, <4>2 DEF KindInv
      <4> QED
        BY <4>1, <4>2
    <3> QED
      BY <3>5 DEF KindInv
  <2>4. CASE Sends(p)
    <3>1. /\ sent'[p] = sent[p] + 1 /\ sent[p] \in Nat /\ \A q \in Parts \ {p} : sent'[q] = sent[q]
          /\ kind' = kind /\ special' = special /\ special[p] \in Nat
      BY <2>4 DEF Sends, QueueTypeInv
    <3>2. IF kind[p] = "batch" THEN sent[p] < total[p] ELSE special[p] = sent[p] + 1
      BY <2>4 DEF Sends, PcInv
    <3>3. ASSUME NEW q \in Parts
          PROVE  /\ kind'[q] = "batch" => special'[q] = 0 /\ sent'[q] <= total'[q]
                 /\ kind'[q] = "end" => special'[q] = total'[q] + 1 /\ sent'[q] \in {total'[q], total'[q] + 1}
                 /\ kind'[q] = "error" =>
                      special'[q] \in {sent'[q], sent'[q] + 1} /\ special'[q] \in 1 .. total'[q] + 1
      <4>1. CASE q = p
        BY <2>1, <3>1, <3>2, <4>1 DEF KindInv
      <4>2. CASE q # p
        BY <2>1, <3>1, <4>2 DEF KindInv
      <4> QED
        BY <4>1, <4>2
    <3> QED
      BY <3>3 DEF KindInv
  <2> QED
    BY <1>1, <2>2, <2>3, <2>4, ProducerMoves
<1>2. CASE ~ \E p \in Parts : ProducerTask(p)
  BY <1>2, TableFrame DEF KindInv, producerVars
<1> QED
  BY <1>1, <1>2

LEMMA StepPc ==
  ASSUME TypeOK, QueueTypeInv, KindInv, PcInv, [Next]_vars
  PROVE  PcInv'
<1>1. ASSUME NEW p \in Parts, ProducerTask(p) PROVE PcInv'
  <2> DEFINE Place(q) ==
        /\ pc[q] \in {"queued", "create"} => sent[q] = 0
        /\ pc[q] \in {"queued", "create", "loop", "after_loop"} => kind[q] = "batch"
        /\ pc[q] = "after_loop" => stop \/ sent[q] = total[q]
        /\ pc[q] \in {"push_check", "push"} =>
             IF kind[q] = "batch" THEN sent[q] < total[q] ELSE special[q] = sent[q] + 1
        /\ pc[q] = "stop" => kind[q] = "error"
        /\ pc[q] = "retire" => kind[q] # "error"
  <2>1. /\ total' = total /\ (stop => stop')
        /\ \A q \in Parts \ {p} : pc'[q] = pc[q]
        /\ Quiet(p) \/ Announces(p) \/ Sends(p)
    BY <1>1, ProducerMoves
  <2>2. ASSUME NEW q \in Parts \ {p} PROVE Place(q)'
    <3>1. pc'[q] = pc[q] /\ kind'[q] = kind[q] /\ sent'[q] = sent[q] /\ special'[q] = special[q]
      BY <2>1 DEF Quiet, Announces, Sends, TypeOK, QueueTypeInv
    <3>2. Place(q)
      BY DEF PcInv
    <3> QED
      BY <2>1, <3>1, <3>2
  <2>3. Place(p)'
    <3>0. /\ Place(p) /\ pc = [q \in Parts |-> pc[q]] /\ kind[p] \in {"batch", "end", "error"}
          /\ sent[p] \in Nat /\ total[p] \in Nat /\ sent \in [Parts -> Nat] /\ special \in [Parts -> Nat]
          /\ kind \in [Parts -> {"batch", "end", "error"}] /\ (kind[p] = "batch" => sent[p] <= total[p])
      <4>1. pc = [q \in Parts |-> pc[q]]
        BY DEF TypeOK
      <4> QED
        BY <4>1, TotalTyped DEF PcInv, TypeOK, QueueTypeInv, KindInv
    <3> USE <2>1, <3>0 DEF Goto, FromLoop, AfterPush, queueVars
    <3>1. CASE Start(p)
      BY <3>1 DEF Start
    <3>2. CASE Throw(p)
      BY <3>2 DEF Throw
    <3>3. CASE Generate(p)
      BY <3>3 DEF Generate
    <3>4. CASE LeaveLoop(p)
      BY <3>4 DEF LeaveLoop
    <3>5. CASE SkipEnd(p)
      BY <3>5 DEF SkipEnd
    <3>6. CASE PushEnd(p)
      BY <3>6 DEF PushEnd
    <3>7. CASE PushCheckClosed(p)
      BY <3>7 DEF PushCheckClosed
    <3>8. CASE Refused(p)
      BY <3>8 DEF Refused
    <3>9. CASE TakePlace(p)
      BY <3>9 DEF TakePlace, Queue!TakePlace
    <3>10. CASE Publish(p)
      BY <3>10 DEF Publish, Queue!Publish
    <3>11. CASE StopAll(p)
      BY <3>11 DEF StopAll
    <3>12. CASE Retire(p)
      BY <3>12 DEF Retire
    <3>13. CASE CloseQueue(p)
      BY <3>13 DEF CloseQueue, Queue!Shut
    <3> QED
      BY <1>1, <3>1, <3>2, <3>3, <3>4, <3>5, <3>6, <3>7, <3>8, <3>9, <3>10, <3>11, <3>12, <3>13
        DEF ProducerTask
  <2> HIDE DEF Place
  <2>4. \A q \in Parts : Place(q)'
    BY <2>2, <2>3
  <2> QED
    BY <2>4 DEF Place, PcInv
<1>2. CASE ~ \E p \in Parts : ProducerTask(p)
  BY <1>2, TableFrame DEF PcInv, producerVars
<1> QED
  BY <1>1, <1>2

\* Exactly one step takes a producer off the count.
LEMMA StepRemaining ==
  ASSUME TypeOK, RemainingInv, PcInv, [Next]_vars
  PROVE  RemainingInv'
<1> DEFINE Here == {p \in Parts : code[p] # 0}
<1>1. ASSUME NEW p \in Parts, ProducerTask(p) PROVE RemainingInv'
  <2>0. /\ pc = [q \in Parts |-> pc[q]] /\ code = [q \in Parts |-> code[q]]
        /\ code[p] \in {NoResult, 0, 2} /\ kind[p] \in {"batch", "end", "error"}
    <3>1. pc = [q \in Parts |-> pc[q]] /\ code = [q \in Parts |-> code[q]]
      BY DEF TypeOK
    <3> QED
      BY <3>1 DEF TypeOK
  <2>1. ASSUME remaining' = remaining, code' = code \/ (code' = [code EXCEPT ![p] = 2] /\ code[p] # 0)
        PROVE  remaining' = Cardinality(Here')
    <3>1. \A q \in Parts : code'[q] = 0 <=> code[q] = 0
      BY <2>0, <2>1
    <3>2. Here' = Here
      BY <3>1
    <3> QED
      BY <2>1, <3>2 DEF RemainingInv
  <2>2. ASSUME remaining' = remaining - 1, code' = [code EXCEPT ![p] = 0], code[p] # 0
        PROVE  remaining' = Cardinality(Here')
    <3>1. \A q \in Parts : code'[q] = 0 <=> q = p \/ code[q] = 0
      BY <2>0, <2>2
    <3>2. Here' = Here \ {p} /\ p \in Here
      BY <2>2, <3>1
    <3>3. IsFiniteSet(Here)
      <4>1. IsFiniteSet(Parts) /\ Here \subseteq Parts
        BY FS_Interval, PartsAssumption DEF Parts
      <4> QED
        BY <4>1, FS_Subset
    <3> QED
      BY <2>2, <3>2, <3>3, FS_RemoveElement DEF RemainingInv
  <2>3. /\ \A q \in Parts \ {p} : pc'[q] = pc[q] /\ code'[q] = code[q] /\ kind'[q] = kind[q]
    BY <1>1, ProducerMoves, ZenonT(30) DEF Quiet, Announces, Sends, TypeOK
  <2>4. ASSUME remaining' = Cardinality(Here'),
               pc'[p] \notin {"close", "done"} => code'[p] = NoResult,
               pc'[p] = "close" => (code'[p] = 0 <=> kind'[p] # "error")
        PROVE  RemainingInv'
    BY <2>3, <2>4 DEF RemainingInv
  <2>5. /\ pc[p] \notin {"close", "done"} => code[p] = NoResult /\ code[p] # 0
        /\ pc[p] = "close" => (code[p] = 0 <=> kind[p] # "error")
        /\ pc[p] = "stop" => kind[p] = "error"
        /\ pc[p] = "retire" => kind[p] # "error"
    BY DEF RemainingInv, PcInv, NoResult
  <2> HIDE DEF Here
  <2> USE <2>0, <2>5 DEF Goto, FromLoop, AfterPush, queueVars
  <2>6. CASE Start(p)
    BY <2>1, <2>4, <2>6 DEF Start
  <2>7. CASE Throw(p)
    BY <2>1, <2>4, <2>7 DEF Throw
  <2>8. CASE Generate(p)
    BY <2>1, <2>4, <2>8 DEF Generate
  <2>9. CASE LeaveLoop(p)
    BY <2>1, <2>4, <2>9 DEF LeaveLoop
  <2>10. CASE SkipEnd(p)
    BY <2>1, <2>4, <2>10 DEF SkipEnd
  <2>11. CASE PushEnd(p)
    BY <2>1, <2>4, <2>11 DEF PushEnd
  <2>12. CASE PushCheckClosed(p)
    BY <2>1, <2>4, <2>12 DEF PushCheckClosed
  <2>13. CASE Refused(p)
    BY <2>1, <2>4, <2>13 DEF Refused
  <2>14. CASE TakePlace(p)
    BY <2>1, <2>4, <2>14 DEF TakePlace
  <2>15. CASE Publish(p)
    BY <2>1, <2>4, <2>15 DEF Publish
  <2>16. CASE StopAll(p)
    BY <2>1, <2>4, <2>16 DEF StopAll
  <2>17. CASE Retire(p)
    <3>1. /\ remaining' = remaining - 1 /\ code' = [code EXCEPT ![p] = 0] /\ pc[p] = "retire"
          /\ kind' = kind /\ pc' = [pc EXCEPT ![p] = IF remaining = 1 THEN "close" ELSE "done"]
      BY <2>17 DEF Retire
    <3>2. remaining' = Cardinality(Here')
      BY <2>2, <3>1
    <3>3. code'[p] = 0 /\ kind'[p] # "error" /\ pc'[p] \in {"close", "done"}
      BY <3>1
    <3> QED
      BY <2>4, <3>2, <3>3
  <2>18. CASE CloseQueue(p)
    <3>1. /\ remaining' = remaining /\ pc[p] = "close" /\ pc'[p] = "done"
          /\ code' = [code EXCEPT ![p] = IF kind[p] = "error" THEN 2 ELSE 0]
      BY <2>18 DEF CloseQueue
    <3>2. CASE kind[p] = "error"
      BY <2>1, <2>4, <3>1, <3>2
    <3>3. CASE kind[p] # "error"
      <4>1. code' = code
        BY <3>1, <3>3
      <4> QED
        BY <2>1, <2>4, <3>1, <4>1
    <3> QED
      BY <3>2, <3>3
  <2> QED
    BY <1>1, <2>6, <2>7, <2>8, <2>9, <2>10, <2>11, <2>12, <2>13, <2>14, <2>15, <2>16, <2>17, <2>18
      DEF ProducerTask
<1>2. CASE ~ \E p \in Parts : ProducerTask(p)
  BY <1>2, TableFrame DEF RemainingInv, producerVars
<1> QED
  BY <1>1, <1>2

LEMMA StepChannel ==
  ASSUME TypeOK, QueueTypeInv, KindInv, PcInv, ChannelInv, ReceivedInv, EarlyInv, [Next]_vars
  PROVE  ChannelInv' /\ channel' \in Seq(Parts \X Nat)
<1>0. channel \in Seq(Parts \X Nat) /\ Len(channel) \in Nat /\ sent \in [Parts -> Nat]
      /\ Got \in [Parts -> Int] /\ \A i \in 1 .. Len(channel) : channel[i][1] \in Parts /\ channel[i][2] \in Nat
  <2>1. channel \in Seq(Parts \X Nat) /\ sent \in [Parts -> Nat]
    BY DEF QueueTypeInv
  <2>2. \A i \in 1 .. Len(channel) : channel[i] \in Parts \X Nat
    BY <2>1
  <2> QED
    BY <2>1, <2>2, CountersTyped, SMTT(30)
<1>1. ASSUME UNCHANGED <<channel, sent>>, Got' = Got PROVE ChannelInv' /\ channel' \in Seq(Parts \X Nat)
  BY <1>0, <1>1 DEF ChannelInv
<1>2. ASSUME NEW p \in Parts, ProducerTask(p) PROVE ChannelInv' /\ channel' \in Seq(Parts \X Nat)
  <2>1. Got' = Got
    BY <1>2, ProducerCounts
  <2>2. CASE Quiet(p) \/ Announces(p)
    BY <1>1, <2>1, <2>2 DEF Quiet, Announces
  <2>3. CASE Sends(p)
    <3>1. channel' = Append(channel, <<p, sent[p] + 1>>) /\ sent' = [sent EXCEPT ![p] = @ + 1]
      BY <2>3 DEF Sends
    <3>2. /\ channel' \in Seq(Parts \X Nat) /\ Len(channel') = Len(channel) + 1
          /\ channel'[Len(channel) + 1] = <<p, sent[p] + 1>>
          /\ \A i \in 1 .. Len(channel) : channel'[i] = channel[i]
      <4>1. <<p, sent[p] + 1>> \in Parts \X Nat
        BY <1>0
      <4> QED
        BY <1>0, <3>1, <4>1
    <3>3. sent'[p] = sent[p] + 1 /\ sent[p] \in Nat /\ \A q \in Parts \ {p} : sent'[q] = sent[q]
      BY <1>0, <3>1
    <3>4. Got[p] <= sent[p] /\ \A q \in Parts : Got[q] \in Int
      BY <1>0 DEF ReceivedInv
    <3>5. ASSUME NEW i \in 1 .. Len(channel')
          PROVE  Got'[channel'[i][1]] < channel'[i][2] /\ channel'[i][2] <= sent'[channel'[i][1]]
      <4>1. CASE i = Len(channel) + 1
        BY <2>1, <3>2, <3>3, <3>4, <4>1
      <4>2. CASE i # Len(channel) + 1
        <5>1. i \in 1 .. Len(channel)
          BY <1>0, <3>2, <4>2
        <5>2. Got[channel[i][1]] < channel[i][2] /\ channel[i][2] <= sent[channel[i][1]]
          BY <5>1 DEF ChannelInv
        <5>3. sent[channel[i][1]] <= sent'[channel[i][1]] /\ sent[channel[i][1]] \in Nat
              /\ sent'[channel[i][1]] \in Nat
          BY <1>0, <3>3, <5>1, SMTT(30)
        <5>4. channel'[i] = channel[i] /\ Got' = Got
          BY <2>1, <3>2, <5>1
        <5>5. \A a, b, c \in Nat : a <= b /\ b <= c => a <= c
          OBVIOUS
        <5>6. channel[i][2] <= sent'[channel[i][1]]
          BY <1>0, <5>1, <5>2, <5>3, <5>5
        <5> QED
          BY <5>2, <5>4, <5>6
      <4> QED
        BY <4>1, <4>2
    <3>6. ASSUME NEW i \in 1 .. Len(channel'), NEW j \in 1 .. Len(channel'), i < j, channel'[i][1] = channel'[j][1]
          PROVE  channel'[i][2] < channel'[j][2]
      <4>1. i \in 1 .. Len(channel)
        BY <1>0, <3>2, <3>6
      <4>2. CASE j = Len(channel) + 1
        <5>1. channel[i][1] = p /\ channel[i][2] <= sent[p] /\ channel[i][2] \in Nat
          <6>1. channel'[i] = channel[i] /\ channel'[j] = <<p, sent[p] + 1>>
            BY <3>2, <4>1, <4>2
          <6>2. channel[i][1] = p
            BY <3>6, <6>1
          <6> QED
            BY <1>0, <4>1, <6>2 DEF ChannelInv
        <5> QED
          BY <3>2, <3>3, <4>1, <4>2, <5>1
      <4>3. CASE j # Len(channel) + 1
        <5>1. j \in 1 .. Len(channel)
          BY <1>0, <3>2, <4>3
        <5> QED
          BY <3>2, <3>6, <4>1, <5>1 DEF ChannelInv
      <4> QED
        BY <4>2, <4>3
    <3>7. ASSUME NEW q \in Parts, NEW n \in Got'[q] + 1 .. sent'[q]
          PROVE  \E i \in 1 .. Len(channel') : channel'[i] = <<q, n>>
      <4>1. CASE q = p /\ n = sent[p] + 1
        <5>1. Len(channel) + 1 \in 1 .. Len(channel')
          BY <1>0, <3>2
        <5> QED
          BY <3>2, <4>1, <5>1
      <4>2. CASE ~(q = p /\ n = sent[p] + 1)
        <5>1. n \in Got[q] + 1 .. sent[q]
          BY <1>0, <2>1, <3>3, <3>4, <4>2
        <5>2. PICK i \in 1 .. Len(channel) : channel[i] = <<q, n>>
          BY <5>1 DEF ChannelInv
        <5>3. i \in 1 .. Len(channel')
          BY <1>0, <3>2
        <5> QED
          BY <3>2, <5>2, <5>3
      <4> QED
        BY <4>1, <4>2
    <3> QED
      BY <3>2, <3>5, <3>6, <3>7 DEF ChannelInv
  <2> QED
    BY <1>2, <2>2, <2>3, ProducerMoves
<1>3. CASE ReceiveError \/ ReceiveBatch \/ ReceiveEnd
  <2> DEFINE m == Head(channel)
             r == m[1]
  <2>1. channel # <<>> /\ channel' = Tail(channel) /\ sent' = sent /\ Got' = [Got EXCEPT ![r] = @ + 1]
    BY <1>3, ReceiveMoves DEF Takes
  <2>2. r \in Parts /\ m = <<r, Got[r] + 1>> /\ m = channel[1]
    <3>1. m = channel[1]
      BY <1>0, <2>1
    <3> QED
      BY <2>1, <3>1, HeadIsNext
  <2>3. /\ channel' \in Seq(Parts \X Nat) /\ Len(channel') = Len(channel) - 1 /\ Len(channel) >= 1
        /\ \A i \in 1 .. Len(channel') : channel'[i] = channel[i + 1] /\ i + 1 \in 1 .. Len(channel)
    BY <1>0, <2>1
  <2>4. Got'[r] = Got[r] + 1 /\ \A q \in Parts \ {r} : Got'[q] = Got[q]
    BY <1>0, <2>1, <2>2
  <2> HIDE DEF m, r
  <2>5. ASSUME NEW i \in 1 .. Len(channel')
        PROVE  Got'[channel'[i][1]] < channel'[i][2] /\ channel'[i][2] <= sent'[channel'[i][1]]
    <3>1. Got[channel[i + 1][1]] < channel[i + 1][2] /\ channel[i + 1][2] <= sent[channel[i + 1][1]]
      BY <2>3 DEF ChannelInv
    <3>2. CASE channel[i + 1][1] = r
      <4>1. channel[1][2] < channel[i + 1][2]
        <5>1. 1 < i + 1 /\ 1 \in 1 .. Len(channel) /\ channel[1][1] = channel[i + 1][1]
          BY <1>0, <2>2, <2>3, <3>2
        <5> QED
          BY <2>3, <5>1 DEF ChannelInv
      <4>2. Got[r] + 1 < channel[i + 1][2]
        BY <2>2, <4>1
      <4> QED
        BY <2>1, <2>3, <2>4, <3>1, <3>2, <4>2
    <3>3. CASE channel[i + 1][1] # r
      <4>1. channel[i + 1][1] \in Parts \ {r}
        BY <1>0, <2>3, <3>3
      <4> QED
        BY <2>1, <2>3, <2>4, <3>1, <4>1
    <3> QED
      BY <3>2, <3>3
  <2>6. ASSUME NEW i \in 1 .. Len(channel'), NEW j \in 1 .. Len(channel'), i < j, channel'[i][1] = channel'[j][1]
        PROVE  channel'[i][2] < channel'[j][2]
    <3>1. i + 1 < j + 1
      BY <2>6
    <3> QED
      BY <2>3, <2>6, <3>1 DEF ChannelInv
  <2>7. ASSUME NEW q \in Parts, NEW n \in Got'[q] + 1 .. sent'[q]
        PROVE  \E i \in 1 .. Len(channel') : channel'[i] = <<q, n>>
    <3>1. Got[q] \in Int /\ sent[q] \in Nat /\ Got'[q] \in Int /\ n \in Int
      BY <1>0, <2>1, <2>4, <2>7
    <3>2. n \in Got[q] + 1 .. sent[q] /\ (q = r => n # Got[r] + 1)
      BY <2>1, <2>4, <2>7, <3>1
    <3>3. PICK i \in 1 .. Len(channel) : channel[i] = <<q, n>>
      BY <3>2 DEF ChannelInv
    <3>4. i # 1
      BY <2>2, <3>2, <3>3
    <3>5. i - 1 \in 1 .. Len(channel') /\ channel'[i - 1] = channel[i]
      <4>1. i - 1 \in 1 .. Len(channel') /\ (i - 1) + 1 = i
        BY <1>0, <2>3, <3>4
      <4> QED
        BY <2>3, <4>1
    <3> QED
      BY <3>3, <3>5
  <2> QED
    BY <2>3, <2>5, <2>6, <2>7 DEF ChannelInv
<1>4. CASE WriteFront
  BY <1>1, <1>4, WriteMoves DEF WriteFront, queueVars
<1>5. CASE FinishPartition
  BY <1>1, <1>5, FinishMoves DEF FinishPartition, queueVars
<1>6. CASE Rests
  BY <1>1, <1>6 DEF Rests
<1> QED
  BY <1>2, <1>3, <1>4, <1>5, <1>6, StepMoves

LEMMA StepReceived ==
  ASSUME TypeOK, QueueTypeInv, KindInv, PcInv, ChannelInv, ReceivedInv, EarlyInv, [Next]_vars
  PROVE  ReceivedInv' /\ received' \in Seq(Parts \X Nat) /\ sent' \in [Parts -> Nat]
<1>0. /\ received \in Seq(Parts \X Nat) /\ sent \in [Parts -> Nat] /\ Got \in [Parts -> Int]
      /\ \A i \in 1 .. Len(received) : received[i][1] \in Parts /\ received[i][2] \in Nat
  <2>1. received \in Seq(Parts \X Nat) /\ sent \in [Parts -> Nat]
    BY DEF QueueTypeInv
  <2>2. \A i \in 1 .. Len(received) : received[i] \in Parts \X Nat
    BY <2>1
  <2> QED
    BY <2>1, <2>2, CountersTyped
<1>1. ASSUME UNCHANGED <<received, sent>>, Got' = Got
      PROVE  ReceivedInv' /\ received' \in Seq(Parts \X Nat) /\ sent' \in [Parts -> Nat]
  BY <1>0, <1>1 DEF ReceivedInv
<1>2. ASSUME NEW p \in Parts, ProducerTask(p)
      PROVE  ReceivedInv' /\ received' \in Seq(Parts \X Nat) /\ sent' \in [Parts -> Nat]
  <2>1. Got' = Got /\ received' = received
    BY <1>2, ProducerCounts, ProducerMoves
  <2>2. CASE Quiet(p) \/ Announces(p)
    BY <1>1, <2>1, <2>2 DEF Quiet, Announces
  <2>3. CASE Sends(p)
    <3>1. /\ sent' = [sent EXCEPT ![p] = @ + 1] /\ sent' \in [Parts -> Nat]
      BY <1>0, <2>3 DEF Sends
    <3>2. \A q \in Parts : Got'[q] <= sent'[q]
      <4> TAKE q \in Parts
      <4>1. Got[q] <= sent[q] /\ sent[q] <= sent'[q] /\ Got[q] \in Int /\ sent[q] \in Int /\ sent'[q] \in Int
        BY <1>0, <3>1 DEF ReceivedInv
      <4> QED
        BY <2>1, <4>1
    <3> QED
      BY <1>0, <2>1, <3>1, <3>2 DEF ReceivedInv
  <2> QED
    BY <1>2, <2>2, <2>3, ProducerMoves
<1>3. CASE ReceiveError \/ ReceiveBatch \/ ReceiveEnd
  <2> DEFINE m == Head(channel)
             r == m[1]
  <2>1. /\ channel # <<>> /\ received' = Append(received, m) /\ sent' = sent
        /\ Got' = [Got EXCEPT ![r] = @ + 1]
    BY <1>3, ReceiveMoves DEF Takes
  <2>2. m \in Parts \X Nat /\ r \in Parts /\ m[2] = Got[r] + 1 /\ m[2] <= sent[r] /\ m[2] > 0 /\ m[2] \in Nat
    <3>1. m \in Parts \X Nat /\ r \in Parts /\ m[2] = Got[r] + 1 /\ m[2] <= sent[r] /\ m[2] > 0
      BY <2>1, HeadIsNext
    <3> QED
      BY <3>1
  <2> HIDE DEF m, r
  <2>3. /\ received' \in Seq(Parts \X Nat) /\ Len(received') = Len(received) + 1
        /\ received'[Len(received) + 1] = m
        /\ \A i \in 1 .. Len(received) : received'[i] = received[i]
    BY <1>0, <2>1, <2>2
  <2>4. /\ Got'[r] = Got[r] + 1 /\ \A q \in Parts \ {r} : Got'[q] = Got[q]
    BY <1>0, <2>1, <2>2
  <2>5. ASSUME NEW i \in 1 .. Len(received') PROVE received'[i][2] \in 1 .. Got'[received'[i][1]]
    <3>1. CASE i = Len(received) + 1
      <4>1. received'[i] = m
        BY <2>3, <3>1
      <4> QED
        BY <2>2, <2>4, <4>1 DEF r
    <3>2. CASE i # Len(received) + 1
      <4>0. i \in 1 .. Len(received)
        <5>1. Len(received) \in Nat /\ Len(received') = Len(received) + 1
          BY <1>0, <2>3
        <5> QED
          BY <3>2, <5>1
      <4>1. i \in 1 .. Len(received) /\ received'[i] = received[i]
        BY <2>3, <4>0
      <4>2. received[i][2] \in 1 .. Got[received[i][1]] /\ received[i][1] \in Parts
        BY <1>0, <4>1 DEF ReceivedInv
      <4>3. Got[received[i][1]] \in Int /\ Got'[received[i][1]] \in {Got[received[i][1]], Got[received[i][1]] + 1}
        BY <1>0, <2>4, <4>2
      <4> QED
        BY <4>1, <4>2, <4>3
    <3> QED
      BY <3>1, <3>2
  <2>6. \A q \in Parts : Got'[q] <= sent'[q]
    BY <2>1, <2>2, <2>4 DEF ReceivedInv
  <2> QED
    BY <1>0, <2>1, <2>3, <2>5, <2>6 DEF ReceivedInv
<1>4. CASE WriteFront
  BY <1>1, <1>4, WriteMoves DEF WriteFront, queueVars
<1>5. CASE FinishPartition
  BY <1>1, <1>5, FinishMoves DEF FinishPartition, queueVars
<1>6. CASE Rests
  BY <1>1, <1>6 DEF Rests
<1> QED
  BY <1>2, <1>3, <1>4, <1>5, <1>6, StepMoves

LEMMA StepEarly ==
  ASSUME TypeOK, QueueTypeInv, KindInv, PcInv, ChannelInv, ReceivedInv, EarlyInv, [Next]_vars
  PROVE  /\ EarlyInv' /\ early' \in [Parts -> Seq(Parts \X (1 .. MaxBatches))]
         /\ completed' \in [Parts -> BOOLEAN]
<1> DEFINE Ready(p) ==
      /\ Written[p] \in 0 .. total[p] /\ Written[p] + Len(early[p]) <= total[p]
      /\ \A i \in 1 .. Len(early[p]) : early[p][i] = <<p, Written[p] + i>>
      /\ p < expected => early[p] = <<>> /\ LastSeen[p] /\ kind[p] = "end"
      /\ completed[p] => p >= expected /\ LastSeen[p] /\ kind[p] = "end"
    Typed == /\ early \in [Parts -> Seq(Parts \X (1 .. MaxBatches))]
             /\ completed \in [Parts -> BOOLEAN]
<1>0. /\ Typed /\ Written \in [Parts -> Int] /\ LastSeen \in [Parts -> BOOLEAN] /\ expected \in Int
      /\ kind \in [Parts -> {"batch", "end", "error"}] /\ \A p \in Parts : Ready(p) /\ p \in Int
  <2>1. Typed /\ expected \in Int /\ kind \in [Parts -> {"batch", "end", "error"}]
    BY PartsAssumption DEF TypeOK, QueueTypeInv
  <2>2. \A p \in Parts : Ready(p)
    BY DEF EarlyInv
  <2>3. \A p \in Parts : p \in Int
    BY PartsAssumption DEF Parts
  <2> QED
    BY <2>1, <2>2, <2>3, CountersTyped
<1>e. ASSUME \A p \in Parts : Ready(p)' PROVE EarlyInv'
  BY <1>e DEF EarlyInv
<1> SUFFICES (\A p \in Parts : Ready(p)') /\ Typed'
  BY <1>e
<1>s. ASSUME NEW q \in Parts, early'[q] = early[q], Written'[q] = Written[q], LastSeen'[q] = LastSeen[q],
             completed'[q] = completed[q], UNCHANGED <<expected, total, kind>>
      PROVE  Ready(q)'
  <2>1. Ready(q)
    BY <1>0
  <2> QED
    BY <1>s, <2>1
<1>1. ASSUME NEW p \in Parts, ProducerTask(p) PROVE (\A q \in Parts : Ready(q)') /\ Typed'
  <2>1. /\ UNCHANGED <<early, completed, expected, total>>
        /\ Written' = Written /\ LastSeen' = LastSeen
    BY <1>1, ProducerCounts, ProducerMoves
  <2>2. ASSUME NEW q \in Parts, kind[q] = "end" PROVE kind'[q] = "end"
    <3>1. CASE Announces(p)
      BY <1>0, <2>2, <3>1 DEF Announces, PcInv
    <3> QED
      BY <1>1, <2>2, <3>1, ProducerMoves DEF Quiet, Sends
  <2>3. ASSUME NEW q \in Parts PROVE Ready(q)'
    BY <1>0, <2>1, <2>2
  <2> QED
    BY <1>0, <2>1, <2>3
<1>2. CASE ReceiveError \/ ReceiveBatch \/ ReceiveEnd
  <2> DEFINE m == Head(channel)
             r == m[1]
  <2>0. Takes
    BY <1>2, ReceiveMoves
  <2>1. UNCHANGED <<expected, total, kind>> /\ Written' = Written /\ channel # <<>>
    BY <1>2, <2>0, ReceiveMoves DEF Takes, producerVars
  <2>2. /\ r \in Parts /\ m = <<r, Got[r] + 1>> /\ m[2] = Got[r] + 1 /\ m \in Parts \X Nat
        /\ r >= expected /\ Got[r] = Written[r] + Len(early[r]) /\ m[2] > 0
    BY <2>1, HeadIsNext
  <2>3. \/ /\ m[2] <= total[r] /\ LastSeen' = LastSeen
           /\ early' = [early EXCEPT ![r] = Append(@, m)] /\ completed' = completed
        \/ /\ LastSeen' = [LastSeen EXCEPT ![r] = TRUE] /\ early' = early
           /\ \/ completed' = completed
              \/ kind[r] = "end" /\ completed' = [completed EXCEPT ![r] = TRUE]
    BY <1>2, ReceiveMoves
  <2> HIDE DEF m, r
  <2>4. CASE /\ m[2] <= total[r] /\ LastSeen' = LastSeen
             /\ early' = [early EXCEPT ![r] = Append(@, m)] /\ completed' = completed
    <3>1. early[r] \in Seq(Parts \X (1 .. MaxBatches)) /\ Len(early[r]) \in Nat /\ Written[r] \in Int
          /\ total[r] \in Nat /\ total[r] <= MaxBatches
      BY <1>0, <2>2, TotalTyped
    <3>2. m \in Parts \X (1 .. MaxBatches)
      <4>1. m[2] \in Int /\ MaxBatches \in Int
        BY <2>2, BoundAssumption
      <4>2. m[2] \in 1 .. MaxBatches
        BY <2>2, <2>4, <3>1, <4>1
      <4> QED
        BY <2>2, <4>2
    <3>3. /\ early'[r] = Append(early[r], m) /\ early' \in [Parts -> Seq(Parts \X (1 .. MaxBatches))]
          /\ \A q \in Parts \ {r} : early'[q] = early[q]
      BY <1>0, <2>2, <2>4, <3>1, <3>2
    <3>4. /\ Len(early'[r]) = Len(early[r]) + 1 /\ early'[r][Len(early[r]) + 1] = m
          /\ \A i \in 1 .. Len(early[r]) : early'[r][i] = early[r][i]
      BY <3>1, <3>2, <3>3
    <3>5. ASSUME NEW q \in Parts PROVE Ready(q)'
      <4>1. CASE q = r
        <5>1. Written'[r] \in 0 .. total'[r] /\ Written'[r] + Len(early'[r]) <= total'[r]
          BY <1>0, <2>1, <2>2, <2>4, <3>1, <3>4, SMTT(30)
        <5>2. \A i \in 1 .. Len(early'[r]) : early'[r][i] = <<r, Written'[r] + i>>
          <6> TAKE i \in 1 .. Len(early'[r])
          <6>1. CASE i = Len(early[r]) + 1
            <7>1. Written[r] + i = Got[r] + 1
              BY <2>2, <3>1, <6>1
            <7> QED
              BY <2>1, <2>2, <3>4, <6>1, <7>1
          <6>2. CASE i # Len(early[r]) + 1
            <7>1. i \in 1 .. Len(early[r])
              BY <3>1, <3>4, <6>2
            <7> QED
              BY <1>0, <2>1, <2>2, <3>4, <7>1, ZenonT(30)
          <6> QED
            BY <6>1, <6>2
        <5>3. ~(r < expected)
          BY <1>0, <2>2
        <5> QED
          BY <1>0, <2>1, <2>2, <2>4, <4>1, <5>1, <5>2, <5>3
      <4>2. CASE q # r
        <5>1. early'[q] = early[q]
          BY <3>3, <4>2
        <5> QED
          BY <1>s, <2>1, <2>4, <5>1
      <4> QED
        BY <4>1, <4>2
    <3> QED
      BY <1>0, <2>4, <3>3, <3>5
  <2>5. CASE /\ LastSeen' = [LastSeen EXCEPT ![r] = TRUE] /\ early' = early
             /\ \/ completed' = completed
                \/ kind[r] = "end" /\ completed' = [completed EXCEPT ![r] = TRUE]
    <3>1. /\ LastSeen'[r] /\ \A q \in Parts \ {r} : LastSeen'[q] = LastSeen[q]
          /\ completed' \in [Parts -> BOOLEAN] /\ \A q \in Parts \ {r} : completed'[q] = completed[q]
          /\ completed'[r] => completed[r] \/ kind[r] = "end"
      BY <1>0, <2>2, <2>5, ZenonT(30)
    <3>2. ASSUME NEW q \in Parts PROVE Ready(q)'
      <4>1. CASE q = r
        BY <1>0, <2>1, <2>2, <2>5, <3>1, <4>1
      <4>2. CASE q # r
        BY <1>0, <2>1, <2>5, <3>1, <4>2, ZenonT(30)
      <4> QED
        BY <4>1, <4>2
    <3> QED
      BY <1>0, <2>5, <3>1, <3>2
  <2> QED
    BY <2>3, <2>4, <2>5
<1>3. CASE WriteFront
  <2> DEFINE e == expected
  <2>1. Writes /\ LastSeen' = LastSeen
    BY <1>3, WriteMoves
  <2>2. UNCHANGED <<total, kind>>
    BY <1>3 DEF WriteFront, producerVars
  <2>3. /\ e \in Parts /\ early[e] # <<>> /\ Written[e] + 1 <= total[e] /\ total[e] \in Nat /\ Written[e] \in Int
        /\ early[e] \in Seq(Parts \X (1 .. MaxBatches)) /\ Len(early[e]) \in Nat
    BY <1>0, <2>1, TotalTyped, SMTT(30) DEF Writes
  <2>4. /\ early' = [early EXCEPT ![e] = Tail(@)] /\ Written' = [Written EXCEPT ![e] = @ + 1]
        /\ UNCHANGED <<completed, expected>>
    BY <2>1 DEF Writes
  <2>5. /\ early'[e] = Tail(early[e]) /\ Tail(early[e]) \in Seq(Parts \X (1 .. MaxBatches))
        /\ Written'[e] = Written[e] + 1
        /\ \A q \in Parts \ {e} : early'[q] = early[q] /\ Written'[q] = Written[q]
    BY <1>0, <2>3, <2>4
  <2>6. /\ Len(early'[e]) = Len(early[e]) - 1 /\ Len(early[e]) >= 1
        /\ \A i \in 1 .. Len(early'[e]) : early'[e][i] = early[e][i + 1] /\ i + 1 \in 1 .. Len(early[e])
    BY <2>3, <2>5
  <2>7. Typed'
    BY <1>0, <2>3, <2>4, <2>5
  <2>8. ASSUME NEW q \in Parts PROVE Ready(q)'
    <3>1. CASE q = e
      <4>1. Written'[e] \in 0 .. total'[e] /\ Written'[e] + Len(early'[e]) <= total'[e]
        <5>1. Written[e] >= 0 /\ Written[e] + Len(early[e]) <= total[e]
          BY <1>0, <2>3
        <5>2. Len(early'[e]) = Len(early[e]) - 1 /\ Written'[e] = Written[e] + 1 /\ total'[e] = total[e]
          BY <2>2, <2>5, <2>6
        <5>3. \A w \in Int, l, t \in Nat : w >= 0 /\ w + l <= t /\ w + 1 <= t =>
                w + 1 \in 0 .. t /\ (w + 1) + (l - 1) <= t
          OBVIOUS
        <5> QED
          BY <2>3, <5>1, <5>2, <5>3
      <4>2. \A i \in 1 .. Len(early'[e]) : early'[e][i] = <<e, Written'[e] + i>>
        <5> TAKE i \in 1 .. Len(early'[e])
        <5>1. early[e][i + 1] = <<e, Written[e] + (i + 1)>>
          BY <1>0, <2>3, <2>6
        <5>2. Written[e] + (i + 1) = Written'[e] + i
          <6>1. i \in Int /\ Written[e] \in Int /\ Written'[e] = Written[e] + 1
            BY <2>3, <2>5
          <6>2. \A w, k \in Int : w + (k + 1) = (w + 1) + k
            OBVIOUS
          <6> QED
            BY <6>1, <6>2
        <5> QED
          BY <2>6, <5>1, <5>2
      <4>3. ~(e < expected')
        BY <1>0, <2>4
      <4> QED
        BY <1>0, <2>1, <2>2, <2>3, <2>4, <3>1, <4>1, <4>2, <4>3
    <3>2. CASE q # e
      BY <1>0, <2>1, <2>2, <2>4, <2>5, <3>2
    <3> QED
      BY <3>1, <3>2
  <2> QED
    BY <2>7, <2>8
<1>4. CASE FinishPartition
  <2> DEFINE e == expected
  <2>1. Finishes /\ LastSeen' = LastSeen /\ UNCHANGED <<total, kind>>
    BY <1>4, FinishMoves DEF FinishPartition, producerVars
  <2>2. /\ e \in Parts /\ early[e] = <<>> /\ LastSeen[e] /\ kind[e] = "end"
        /\ completed' = [completed EXCEPT ![e] = FALSE] /\ expected' = e + 1
        /\ early' = early /\ Written' = Written
    BY <2>1 DEF Finishes
  <2>3. ~completed'[e] /\ \A q \in Parts \ {e} : completed'[q] = completed[q]
    BY <1>0, <2>2
  <2>4. Typed'
    BY <1>0, <2>2
  <2>5. ASSUME NEW q \in Parts PROVE Ready(q)'
    <3>1. CASE q = e
      BY <1>0, <2>1, <2>2, <2>3, <3>1
    <3>2. CASE q # e
      <4>1. (q < expected' => q < e) /\ (q >= e => q >= expected')
        BY <1>0, <2>2, <3>2
      <4> QED
        BY <1>0, <2>1, <2>2, <2>3, <3>2, <4>1
    <3> QED
      BY <3>1, <3>2
  <2> QED
    BY <2>4, <2>5
<1>5. CASE Rests
  BY <1>0, <1>5 DEF Rests, producerVars
<1> QED
  BY <1>1, <1>2, <1>3, <1>4, <1>5, StepMoves

LEMMA StepOut ==
  ASSUME TypeOK, QueueTypeInv, KindInv, PcInv, ReceivedInv, EarlyInv, OutInv, [Next]_vars
  PROVE  OutInv' /\ out' \in Seq(Parts \X Nat)
<1>0. out \in Seq(Parts \X Nat) /\ Len(out) \in Nat
  BY DEF QueueTypeInv
<1>1. ASSUME UNCHANGED <<out, expected, total>> PROVE OutInv' /\ out' \in Seq(Parts \X Nat)
  BY <1>0, <1>1 DEF OutInv
<1>2. ASSUME NEW p \in Parts, ProducerTask(p) PROVE OutInv' /\ out' \in Seq(Parts \X Nat)
  BY <1>1, <1>2, ProducerMoves
<1>3. CASE ReceiveError \/ ReceiveBatch \/ ReceiveEnd
  BY <1>1, <1>3 DEF ReceiveError, ReceiveBatch, ReceiveEnd, drainVars, producerVars
<1>4. CASE WriteFront
  <2> DEFINE e == expected
             b == <<e, Written[e] + 1>>
  <2>1. Writes /\ total' = total
    BY <1>4, WriteMoves DEF WriteFront, producerVars
  <2>2. /\ e \in Parts /\ b \in Parts \X Nat /\ b \in BatchesOf(total)
        /\ Count(total, b[1]) + b[2] = Len(out) + 1
    <3>1. /\ e \in Parts /\ Written[e] + 1 <= total[e] /\ Len(out) = Count(total, e) + Written[e]
          /\ Written[e] \in 0 .. total[e]
      BY <2>1 DEF Writes, EarlyInv
    <3>2. total[e] \in Nat /\ total[e] <= MaxBatches /\ Count(total, e) \in Nat /\ MaxBatches \in Nat
      BY <3>1, TotalTyped, BeforeFinite, BoundAssumption
    <3>3. Written[e] + 1 \in 1 .. MaxBatches
      BY <3>1, <3>2
    <3> QED
      BY <3>1, <3>2, <3>3, SMTT(30) DEF BatchesOf
  <2>3. out' = Append(out, b) /\ expected' = e
    BY <2>1 DEF Writes
  <2>4. expected' # PartCount + 1
    BY <2>2, <2>3, PartsAssumption DEF Parts
  <2> HIDE DEF b
  <2>5. /\ out' \in Seq(Parts \X Nat) /\ Len(out') = Len(out) + 1 /\ out'[Len(out) + 1] = b
        /\ \A i \in 1 .. Len(out) : out'[i] = out[i]
    BY <1>0, <2>2, <2>3
  <2>6. ASSUME NEW i \in 1 .. Len(out')
        PROVE  out'[i] \in BatchesOf(total) /\ Count(total, out'[i][1]) + out'[i][2] = i
    <3>1. CASE i = Len(out) + 1
      BY <2>2, <2>5, <3>1
    <3>2. CASE i # Len(out) + 1
      <4>1. i \in 1 .. Len(out)
        BY <1>0, <2>5, <3>2
      <4> QED
        BY <2>5, <4>1 DEF OutInv
    <3> QED
      BY <3>1, <3>2
  <2> QED
    BY <2>1, <2>4, <2>5, <2>6 DEF OutInv
<1>5. CASE FinishPartition
  <2>1. Finishes /\ total' = total
    BY <1>5, FinishMoves DEF FinishPartition, producerVars
  <2>2. Len(out) = Count(total, expected + 1) /\ expected' = expected + 1 /\ out' = out
    BY <2>1 DEF Finishes
  <2>3. expected' = PartCount + 1 => Len(out') = Cardinality(BatchesOf(total'))
    BY <2>1, <2>2, CountEnds
  <2> QED
    BY <1>0, <2>1, <2>2, <2>3 DEF OutInv
<1>6. CASE Rests
  BY <1>1, <1>6 DEF Rests, producerVars
<1> QED
  BY <1>2, <1>3, <1>4, <1>5, <1>6, StepMoves

\* Only the last step of the task sets a result, and after it the task does nothing.
LEMMA StepResult ==
  ASSUME TypeOK, PcInv, ResultInv, [Next]_vars
  PROVE  ResultInv'
<1> USE DEF ResultInv, TableGoto, drainVars
<1>1. ASSUME NEW p \in Parts, ProducerTask(p) PROVE ResultInv'
  BY <1>1, ProducerMoves
<1>2. CASE UNCHANGED vars
  BY <1>2 DEF vars
<1>3. CASE ReceiveError \/ ReceiveBatch \/ ReceiveEnd
  BY <1>3 DEF ReceiveError, ReceiveBatch, ReceiveEnd
<1>4. CASE PopWaits \/ PopReturnsFalse \/ TableStops \/ TableCloses
  BY <1>4 DEF PopWaits, PopReturnsFalse, TableStops, TableCloses
<1>5. CASE BeginPartition \/ WriteFront \/ FinishPartition
  BY <1>5 DEF BeginPartition, WriteFront, FinishPartition, MustOpen, MustWrite, HasBatch, MustFinish,
    Draining, NoResult
<1>6. CASE DrainFails \/ DrainReturns \/ Join
  BY <1>6 DEF DrainFails, DrainReturns, Join
<1>7. CASE Finish
  <2>1. expected' = expected /\ cpc' = "returned"
    BY <1>7 DEF Finish
  <2>2. result' = 0 => expected = PartCount + 1
    BY <1>7 DEF Finish, FirstError
  <2> QED
    BY <2>1, <2>2
<1> QED
  BY <1>1, <1>2, <1>3, <1>4, <1>5, <1>6, <1>7 DEF Next, TableTask

LEMMA StepType ==
  ASSUME IInv, [Next]_vars, RemainingInv', early' \in [Parts -> Seq(Parts \X (1 .. MaxBatches))]
  PROVE  TypeOK'
<1>1. remaining' \in 0 .. PartCount
  <2> DEFINE Here == {p \in Parts : code[p] # 0}
  <2>1. IsFiniteSet(Parts) /\ Cardinality(Parts) = PartCount
    BY IntervalSize, PartsAssumption DEF Parts
  <2>2. Here' \subseteq Parts
    OBVIOUS
  <2>3. Cardinality(Here') \in Nat /\ Cardinality(Here') <= PartCount
    BY <2>1, <2>2, FS_Subset, FS_CardinalityType
  <2>4. remaining' = Cardinality(Here')
    BY DEF RemainingInv
  <2> HIDE DEF Here
  <2> QED
    BY <2>3, <2>4, PartsAssumption
<1> DEFINE PcType == pc \in [Parts -> {"queued", "create", "loop", "after_loop", "push_check", "push",
                                       "publish", "stop", "close", "retire", "done"}]
           KindType == kind \in [Parts -> {"batch", "end", "error"}]
           CodeType == code \in [Parts -> {NoResult, 0, 2}]
           FlagType == stop \in BOOLEAN /\ shut \in BOOLEAN
           TaskType == /\ cpc \in {"pop", "stop", "close", "drain", "final", "join", "finish", "returned"}
                       /\ expected \in 1 .. PartCount + 1
                       /\ error \in {"none", "producer", "sink", "missing", "close"}
                       /\ result \in {NoResult, 0, 2}
<1>2. PcType /\ KindType /\ CodeType /\ FlagType /\ TaskType
  BY DEF IInv, TypeOK
<1>3. ASSUME NEW p \in Parts, ProducerTask(p) PROVE (PcType /\ KindType /\ CodeType /\ FlagType /\ TaskType)'
  <2>1. TaskType'
    BY <1>2, <1>3, ProducerMoves DEF IInv
  <2> HIDE DEF TaskType
  <2> USE <1>2 DEF Goto, FromLoop, AfterPush, queueVars
  <2>2. CASE Start(p)
    BY <2>1, <2>2 DEF Start
  <2>3. CASE Throw(p)
    BY <2>1, <2>3 DEF Throw
  <2>4. CASE Generate(p)
    BY <2>1, <2>4 DEF Generate
  <2>5. CASE LeaveLoop(p)
    BY <2>1, <2>5 DEF LeaveLoop
  <2>6. CASE SkipEnd(p)
    BY <2>1, <2>6 DEF SkipEnd
  <2>7. CASE PushEnd(p)
    BY <2>1, <2>7 DEF PushEnd
  <2>8. CASE PushCheckClosed(p)
    BY <2>1, <2>8 DEF PushCheckClosed
  <2>9. CASE Refused(p)
    BY <2>1, <2>9 DEF Refused
  <2>10. CASE TakePlace(p)
    BY <2>1, <2>10 DEF TakePlace, Queue!TakePlace
  <2>11. CASE Publish(p)
    BY <2>1, <2>11 DEF Publish, Queue!Publish
  <2>12. CASE StopAll(p)
    BY <2>1, <2>12 DEF StopAll
  <2>13. CASE Retire(p)
    BY <2>1, <2>13 DEF Retire
  <2>14. CASE CloseQueue(p)
    BY <2>1, <2>14 DEF CloseQueue, Queue!Shut
  <2> QED
    BY <1>3, <2>2, <2>3, <2>4, <2>5, <2>6, <2>7, <2>8, <2>9, <2>10, <2>11, <2>12, <2>13, <2>14
      DEF ProducerTask
<1>4. ASSUME ~ \E p \in Parts : ProducerTask(p)
      PROVE (PcType /\ KindType /\ CodeType /\ FlagType /\ TaskType)'
  <2>1. (PcType /\ KindType /\ CodeType)'
    BY <1>2, <1>4, TableFrame DEF producerVars
  <2>2. (FlagType /\ TaskType)'
    <3> HIDE DEF PcType, KindType, CodeType
    <3> USE <1>2 DEF TableGoto, queueVars, drainVars, FirstError
    <3>1. CASE UNCHANGED vars
      BY <3>1 DEF vars
    <3>2. CASE ReceiveError \/ ReceiveBatch \/ ReceiveEnd
      BY <3>2 DEF ReceiveError, ReceiveBatch, ReceiveEnd, Queue!Receive
    <3>3. CASE PopWaits \/ PopReturnsFalse \/ TableStops \/ TableCloses
      BY <3>3 DEF PopWaits, PopReturnsFalse, TableStops, TableCloses,
        Queue!FindNothing, Queue!LookAgain, Queue!End, Queue!Shut
    <3>4. CASE BeginPartition \/ WriteFront
      BY <3>4 DEF BeginPartition, WriteFront
    <3>5. CASE FinishPartition
      <4>1. expected' = expected + 1 /\ expected <= PartCount
        BY <3>5 DEF FinishPartition, MustFinish, Draining
      <4>2. expected' \in 1 .. PartCount + 1
        BY <4>1, PartsAssumption
      <4> QED
        BY <3>5, <4>2 DEF FinishPartition
    <3>6. CASE DrainFails \/ DrainReturns \/ Join
      BY <3>6 DEF DrainFails, DrainReturns, Join
    <3>7. CASE Finish
      BY <3>7 DEF Finish
    <3> QED
      BY <1>4, <3>1, <3>2, <3>3, <3>4, <3>5, <3>6, <3>7 DEF Next, TableTask
  <2> QED
    BY <2>1, <2>2
<1>5. (PcType /\ KindType /\ CodeType /\ FlagType /\ TaskType)'
  BY <1>3, <1>4
<1> QED
  BY <1>1, <1>5 DEF TypeOK

LEMMA StepQueueType ==
  ASSUME IInv, [Next]_vars,
         channel' \in Seq(Parts \X Nat), received' \in Seq(Parts \X Nat), sent' \in [Parts -> Nat],
         completed' \in [Parts -> BOOLEAN], out' \in Seq(Parts \X Nat)
  PROVE  QueueTypeInv'
<1>1. special \in [Parts -> Nat] /\ opened \in [Parts -> BOOLEAN] /\ total \in [Parts -> 0 .. MaxBatches]
      /\ sent \in [Parts -> Nat]
  BY DEF IInv, QueueTypeInv
<1>2. total' = total
  BY TotalStays DEF vars, producerVars
<1>3. special' \in [Parts -> Nat]
  <2>1. ASSUME NEW p \in Parts, ProducerTask(p) PROVE special' \in [Parts -> Nat]
    <3>1. Quiet(p) \/ Announces(p) \/ Sends(p)
      BY <2>1, ProducerMoves DEF IInv
    <3>2. special' = special \/ special' = [special EXCEPT ![p] = sent[p] + 1]
      BY <3>1 DEF Quiet, Announces, Sends
    <3>3. sent[p] + 1 \in Nat
      BY <1>1
    <3> QED
      BY <1>1, <3>2, <3>3
  <2>2. CASE ~ \E p \in Parts : ProducerTask(p)
    BY <1>1, <2>2, TableFrame DEF producerVars
  <2> QED
    BY <2>1, <2>2
<1>4. opened' \in [Parts -> BOOLEAN]
  <2>1. ASSUME NEW p \in Parts, ProducerTask(p) PROVE opened' \in [Parts -> BOOLEAN]
    BY <1>1, <2>1, ProducerMoves DEF IInv
  <2> USE DEF drainVars
  <2>2. CASE UNCHANGED vars
    BY <1>1, <2>2 DEF vars
  <2>3. CASE ReceiveError \/ ReceiveBatch \/ ReceiveEnd
    BY <1>1, <2>3 DEF ReceiveError, ReceiveBatch, ReceiveEnd
  <2>4. CASE PopWaits \/ PopReturnsFalse \/ TableStops \/ TableCloses
    BY <1>1, <2>4 DEF PopWaits, PopReturnsFalse, TableStops, TableCloses
  <2>5. CASE BeginPartition \/ WriteFront \/ FinishPartition
    BY <1>1, <2>5 DEF BeginPartition, WriteFront, FinishPartition
  <2>6. CASE DrainFails \/ DrainReturns \/ Join \/ Finish
    BY <1>1, <2>6 DEF DrainFails, DrainReturns, Join, Finish
  <2> QED
    BY <2>1, <2>2, <2>3, <2>4, <2>5, <2>6 DEF Next, TableTask
<1> QED
  BY <1>1, <1>2, <1>3, <1>4 DEF QueueTypeInv

LEMMA StepIInv == IInv /\ [Next]_vars => IInv'
<1> SUFFICES ASSUME IInv, [Next]_vars PROVE IInv'
  OBVIOUS
<1>1. /\ TypeOK /\ QueueTypeInv /\ RemainingInv /\ KindInv /\ PcInv
      /\ ChannelInv /\ ReceivedInv /\ EarlyInv /\ OutInv /\ ResultInv
  BY DEF IInv
<1>2. KindInv' /\ PcInv' /\ RemainingInv' /\ ResultInv'
  BY <1>1, StepKind, StepPc, StepRemaining, StepResult
<1>3. ChannelInv' /\ channel' \in Seq(Parts \X Nat)
  BY <1>1, StepChannel
<1>4. ReceivedInv' /\ received' \in Seq(Parts \X Nat) /\ sent' \in [Parts -> Nat]
  BY <1>1, StepReceived
<1>5. /\ EarlyInv' /\ early' \in [Parts -> Seq(Parts \X (1 .. MaxBatches))]
      /\ completed' \in [Parts -> BOOLEAN]
  BY <1>1, StepEarly
<1>6. OutInv' /\ out' \in Seq(Parts \X Nat)
  BY <1>1, StepOut
<1>7. TypeOK'
  BY <1>2, <1>5, StepType
<1>8. QueueTypeInv'
  BY <1>3, <1>4, <1>5, <1>6, StepQueueType
<1> QED
  BY <1>2, <1>3, <1>4, <1>5, <1>6, <1>7, <1>8 DEF IInv

-----------------------------------------------------------------------------
LEMMA SpecIInv == Spec => []IInv
<1>1. Init => IInv
  BY InitIInv
<1> QED
  BY <1>1, StepIInv, PTL DEF Spec

\* The types of the ordered writer's state; in particular remaining_producers
\* never goes negative and expected_part stays within the partitions.
THEOREM TypeCorrect == Spec => []TypeOK
<1>1. IInv => TypeOK
  BY DEF IInv
<1> QED
  BY <1>1, SpecIInv, PTL

\* At every moment the file of the native writer holds the first batches of the
\* table in table order, whatever the order of the messages, whatever failed in
\* the drain and was tried again, for any number of partitions and batches.
THEOREM WritesInTableOrder == Spec => []OutputInTableOrder
<1>1. IInv => OutputInTableOrder
  <2> SUFFICES ASSUME IInv PROVE OutputInTableOrder
    OBVIOUS
  <2>1. \A i \in 1 .. Len(out) : Rank(out[i]) = Count(total, out[i][1]) + out[i][2]
    BY SameRank
  <2> QED
    BY <2>1 DEF IInv, OutInv, OutputInTableOrder
<1> QED
  BY <1>1, SpecIInv, PTL

\* RunNativeMultiplexedOrdered returns 0 only if every batch of every partition
\* is in the file, also when the queue was found empty and shut too early.
THEOREM SuccessIsWhole == Spec => []SuccessIsComplete
<1>1. IInv => SuccessIsComplete
  BY DEF IInv, OutInv, ResultInv, SuccessIsComplete
<1> QED
  BY <1>1, SpecIInv, PTL
=============================================================================
