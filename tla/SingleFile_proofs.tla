--------------------------- MODULE SingleFile_proofs ---------------------------
(***************************************************************************)
(* A table of one file or dataset, for any number of partitions, batches,  *)
(* workers and places of the channel.  ParallelEncode alone: the row       *)
(* groups are merged in partition order, only a whole file gets the final  *)
(* name, and a failed encoding makes the call fail.  Then the two machines *)
(* of SingleFile: they keep what is proved of ParallelEncode, the stream   *)
(* to a Lance or Vortex thread loses nothing and is bounded, and what is   *)
(* shown as finished is whole.                                             *)
(***************************************************************************)
EXTENDS SingleFile, FiniteSetTheorems, TLAPS

-----------------------------------------------------------------------------
(* The parallel encoding of one file.                                       *)

Results == [part : Parts, ok : BOOLEAN]

\* What the workers have pushed so far.
Pushed == {r \in Results : \E w \in Workers : \E n \in 1 .. Len(results[w]) : results[w][n] = r}

\* A worker has drawn a partition and not pushed its result yet.
Holds(w) == pc[w] \in {"encode", "push_check", "push"}

PcInv == pc \in [Workers -> {"queued", "loop", "pop", "draw", "encode", "push_check", "push",
                             "publish", "retire", "close", "done", "threw"}]

\* Workers that have not counted themselves out, and workers that are on their way out.
Unretired == {w \in Workers : pc[w] \notin {"close", "done"}}
Leaving == {w \in Workers : pc[w] \in {"retire", "close", "done"}}

\* remaining_workers counts them; the partition counter overshoots once for each.
CountInv ==
  /\ next \in Nat \ {0}
  /\ remaining = Cardinality(Unretired)
  /\ next <= PartCount + 1 + Cardinality(Leaving)

\* A message on the queue is a place in its worker's list of results.
QueueInv ==
  /\ results \in [Workers -> Seq(Results)]
  /\ sent = [w \in Workers |-> Len(results[w])]
  /\ channel \in Seq(Workers \X Nat)
  /\ \A i \in 1 .. Len(channel) : channel[i][2] \in 1 .. Len(results[channel[i][1]])

\* A partition number is drawn once: what a worker holds nobody else holds, and
\* its result was not pushed before.
DrawInv ==
  /\ part \in [Workers -> 0 .. PartCount]
  /\ \A r \in Pushed : r.part < next
  /\ \A w \in Workers : Holds(w) =>
       /\ part[w] \in Parts /\ part[w] < next
       /\ \A v \in Workers : Holds(v) /\ part[v] = part[w] => v = w
       /\ \A r \in Pushed : r.part # part[w]

\* A failed encoding stays its worker's last one and has no good result: the
\* worker finds stop_requested set, and nobody draws that partition again.
FailInv ==
  /\ ok \in [Workers -> BOOLEAN]
  /\ \A w \in Workers : ~ok[w] =>
       /\ stop /\ pc[w] \in {"push_check", "push", "publish", "loop", "retire", "close", "done"}
       /\ part[w] \in Parts /\ part[w] < next
       /\ \A r \in Pushed : r.part = part[w] => ~r.ok
       /\ \A v \in Workers : v # w /\ Holds(v) => part[v] # part[w]

\* The file is made of the good results of the partitions before expected_part.
MergeInv ==
  /\ expected \in 1 .. PartCount + 1
  /\ out \in Seq(Parts)
  /\ Len(out) < expected
  /\ error = "none" => Len(out) = expected - 1
  /\ \A i \in 1 .. Len(out) : out[i] = i /\ [part |-> i, ok |-> TRUE] \in Pushed
  /\ pending \subseteq Pushed

\* Where the table's task is tells what the file and the workers are.
TaskInv ==
  /\ cpc \in {"open", "pop", "merge", "stop", "close_parts", "close_results", "join",
              "finish", "returned"}
  /\ error \in {"none", "sink", "partition", "worker"}
  /\ file \in {"absent", "temp", "published", "old"}
  /\ result \in {NoResult, 0, 2}
  /\ closed \in BOOLEAN /\ stop \in BOOLEAN /\ shut \in BOOLEAN
  /\ cpc = "returned" <=> result # NoResult
  /\ cpc = "open" => error = "none" /\ file # "published" /\ \A w \in Workers : pc[w] = "queued" /\ ok[w]
  /\ cpc \notin {"open", "returned"} => file = "temp"
  /\ cpc = "finish" => \A w \in Workers : pc[w] = "done" \/ (pc[w] = "threw" /\ error # "none")

\* The call has returned.
ReturnInv ==
  /\ result = 0 => /\ file \in {"old", "published"}
                   /\ \A w \in Workers : ok[w] /\ pc[w] \in {"queued", "done"}
  /\ result = 2 => file # "published"
  /\ file = "published" => Len(out) = PartCount

IInv == PcInv /\ CountInv /\ QueueInv /\ DrawInv /\ FailInv /\ MergeInv /\ TaskInv /\ ReturnInv

-----------------------------------------------------------------------------
LEMMA InitInv == Init => IInv
<1> SUFFICES ASSUME Init PROVE IInv
  OBVIOUS
<1> USE PartsAssumption, WorkersAssumption DEF Init, Queue!Init
<1>1. PcInv
  BY DEF PcInv
<1>2. CountInv
  <2>1. Unretired = Workers /\ Leaving = {}
    BY DEF Unretired, Leaving
  <2> QED
    BY <2>1, FS_EmptySet DEF CountInv
<1>3. results = [w \in Workers |-> <<>>] /\ Pushed = {}
  BY DEF Pushed
<1>4. QueueInv
  BY <1>3 DEF QueueInv
<1>5. DrawInv /\ FailInv
  BY <1>3 DEF DrawInv, FailInv, Holds, Parts
<1>6. MergeInv
  BY <1>3 DEF MergeInv, Parts
<1>7. result = NoResult /\ NoResult \notin {0, 2} /\ file \in {"absent", "temp", "old"}
  BY DEF NoResult
<1>8. TaskInv
  BY <1>7 DEF TaskInv
<1>9. ReturnInv
  BY <1>7 DEF ReturnInv
<1> QED
  BY <1>1, <1>2, <1>4, <1>5, <1>6, <1>8, <1>9 DEF IInv

-----------------------------------------------------------------------------
(* Which variables the steps leave alone *)

\* The table's task does not touch the workers.
LEMMA TaskKeepsWorkers ==
  ASSUME TableTask
  PROVE  UNCHANGED <<workerVars, sent>>
BY DEF TableTask, SkipExisting, OpenFails, Open, Receive, PopWaits, PopReturnsFalse, MergeNext,
       MergeFails, MergeDone, StopWorkers, CloseParts, CloseResults, Join, Discard, FinishFails,
       FinishOk, workerVars, queueVars, Queue!Receive, Queue!FindNothing, Queue!LookAgain,
       Queue!End, Queue!Shut

\* A worker does not touch the table's task.
LEMMA WorkerKeepsTask ==
  ASSUME NEW w \in Workers, Worker(w)
  PROVE  UNCHANGED <<closed, tableVars>>
BY DEF Worker, Start, CheckStop, PopCheckClosed, PopDraw, EncodeOk, EncodeFails, EncodeThrows,
       PushCheckClosed, Refused, TakePlace, Publish, Retire, CloseQueue, tableVars

\* Only TakePlace pushes.
LEMMA WorkerKeepsResults ==
  ASSUME NEW w \in Workers, Worker(w), ~TakePlace(w)
  PROVE  UNCHANGED <<results, sent, channel>>
BY DEF Worker, Start, CheckStop, PopCheckClosed, PopDraw, EncodeOk, EncodeFails, EncodeThrows,
       PushCheckClosed, Refused, Publish, Retire, CloseQueue, queueVars, Queue!Publish, Queue!Shut

LEMMA PushedStays == results' = results => Pushed' = Pushed
BY DEF Pushed

LEMMA PushedGrows ==
  ASSUME PcInv, QueueInv, DrawInv, FailInv, NEW w \in Workers, TakePlace(w)
  PROVE  Pushed' = Pushed \cup {[part |-> part[w], ok |-> ok[w]]}
<1> DEFINE r == [part |-> part[w], ok |-> ok[w]]
<1>1. r \in Results
  BY DEF DrawInv, FailInv, TakePlace, Goto, Holds, Results
<1>2. /\ results' = [results EXCEPT ![w] = Append(@, r)]
      /\ results \in [Workers -> Seq(Results)]
  BY DEF TakePlace, QueueInv
<1> HIDE DEF r
<1>3. /\ Len(results'[w]) = Len(results[w]) + 1 /\ Len(results[w]) \in Nat
      /\ results'[w][Len(results[w]) + 1] = r
      /\ \A n \in 1 .. Len(results[w]) : results'[w][n] = results[w][n]
      /\ \A v \in Workers : v # w => results'[v] = results[v]
  BY <1>1, <1>2
<1>4. ASSUME NEW q \in Pushed PROVE q \in Pushed'
  <2>0. PICK v \in Workers : \E n \in 1 .. Len(results[v]) : results[v][n] = q
    BY <1>4 DEF Pushed
  <2>1. PICK n \in 1 .. Len(results[v]) : results[v][n] = q
    BY <2>0
  <2>2. n \in 1 .. Len(results'[v]) /\ results'[v][n] = q
    BY <2>1, <1>3
  <2> QED
    BY <2>2, <1>4 DEF Pushed
<1>5. r \in Pushed'
  <2>1. Len(results[w]) + 1 \in 1 .. Len(results'[w])
    BY <1>3
  <2> QED
    BY <2>1, <1>1, <1>3 DEF Pushed
<1>6. ASSUME NEW q \in Pushed' PROVE q \in Pushed \/ q = r
  <2>0. PICK v \in Workers : \E n \in 1 .. Len(results'[v]) : results'[v][n] = q
    BY <1>6 DEF Pushed
  <2>1. PICK n \in 1 .. Len(results'[v]) : results'[v][n] = q
    BY <2>0
  <2>2. q \in Results
    BY <1>6 DEF Pushed
  <2>3. CASE v = w /\ n = Len(results[w]) + 1
    BY <2>1, <2>3, <1>3
  <2>4. CASE ~(v = w /\ n = Len(results[w]) + 1)
    <3>1. n \in 1 .. Len(results[v]) /\ results[v][n] = q
      BY <2>1, <2>4, <1>3
    <3> QED
      BY <3>1, <2>2 DEF Pushed
  <2> QED
    BY <2>3, <2>4
<1>7. Pushed' = Pushed \cup {r}
  BY <1>4, <1>5, <1>6
<1> QED
  BY <1>7 DEF r

\* What is pushed stays pushed.
LEMMA PushedOnlyGrows ==
  ASSUME PcInv, QueueInv, DrawInv, FailInv, [Next]_vars
  PROVE  Pushed \subseteq Pushed'
<1>1. CASE \E w \in Workers : TakePlace(w)
  BY <1>1, PushedGrows
<1>2. CASE UNCHANGED results
  BY <1>2, PushedStays
<1> QED
  BY <1>1, <1>2, WorkerKeepsResults, TaskKeepsWorkers DEF Next, vars, workerVars

-----------------------------------------------------------------------------
(* The parts of the invariant, one by one *)

LEMMA StepPc == PcInv /\ [Next]_vars => PcInv'
<1> SUFFICES ASSUME PcInv, [Next]_vars PROVE PcInv'
  OBVIOUS
<1> USE DEF PcInv, Goto
<1>1. ASSUME NEW w \in Workers, Worker(w) PROVE PcInv'
  BY <1>1 DEF Worker, Start, CheckStop, PopCheckClosed, PopDraw, EncodeOk, EncodeFails,
       EncodeThrows, PushCheckClosed, Refused, TakePlace, Publish, Retire, CloseQueue
<1>2. CASE TableTask
  BY <1>2, TaskKeepsWorkers DEF workerVars
<1>3. CASE UNCHANGED vars
  BY <1>3 DEF vars, workerVars
<1> QED
  BY <1>1, <1>2, <1>3 DEF Next

LEMMA FiniteGroups ==
  /\ IsFiniteSet(Unretired) /\ Cardinality(Unretired) \in Nat
  /\ IsFiniteSet(Leaving) /\ Cardinality(Leaving) \in Nat
  /\ Cardinality(Leaving) <= Cardinality(Workers) /\ Cardinality(Unretired) <= Cardinality(Workers)
  /\ Cardinality(Workers) \in Nat
<1>1. Unretired \subseteq Workers /\ Leaving \subseteq Workers
  BY DEF Unretired, Leaving
<1> QED
  BY <1>1, WorkersAssumption, FS_Subset, FS_CardinalityType

LEMMA StepCount == PcInv /\ CountInv /\ [Next]_vars => CountInv'
<1> SUFFICES ASSUME PcInv, CountInv, [Next]_vars PROVE CountInv'
  OBVIOUS
<1> USE PartsAssumption, FiniteGroups
<1>1. ASSUME NEW w \in Workers, Worker(w) PROVE CountInv'
  <2>0. PcInv'
    BY StepPc
  <2>1. \A v \in Workers : v # w => pc'[v] = pc[v]
    BY <1>1 DEF PcInv, Worker, Start, CheckStop, PopCheckClosed, PopDraw, EncodeOk, EncodeFails,
         EncodeThrows, PushCheckClosed, Refused, TakePlace, Publish, Retire, CloseQueue, Goto
  <2>2. w \in Leaving => w \in Leaving'
    BY <1>1, <2>0 DEF PcInv, Leaving, Worker, Start, CheckStop, PopCheckClosed, PopDraw, EncodeOk,
         EncodeFails, EncodeThrows, PushCheckClosed, Refused, TakePlace, Publish, Retire,
         CloseQueue, Goto
  <2>3. IF w \in Leaving' /\ w \notin Leaving
        THEN Leaving' = Leaving \cup {w} ELSE Leaving' = Leaving
    BY <2>1, <2>2 DEF Leaving
  <2>4. /\ Cardinality(Leaving) <= Cardinality(Leaving')
        /\ w \in Leaving' /\ w \notin Leaving => Cardinality(Leaving') = Cardinality(Leaving) + 1
        /\ Cardinality(Leaving') \in Nat
    <3>1. CASE w \in Leaving' /\ w \notin Leaving
      <4>1. Leaving' = Leaving \cup {w}
        BY <2>3, <3>1
      <4>2. Cardinality(Leaving') = Cardinality(Leaving) + 1
        BY <3>1, <4>1, FS_AddElement
      <4> QED
        BY <4>2
    <3>2. CASE ~(w \in Leaving' /\ w \notin Leaving)
      BY <2>3, <3>2
    <3> QED
      BY <3>1, <3>2
  <2>5. next' \in Nat \ {0} /\ next' <= PartCount + 1 + Cardinality(Leaving')
    <3>1. CASE PopDraw(w)
      <4>1. CASE next <= PartCount
        BY <3>1, <4>1, <2>4 DEF PopDraw, CountInv
      <4>2. CASE next > PartCount
        <5>1. w \in Leaving' /\ w \notin Leaving
          BY <3>1, <4>2, <2>0 DEF PopDraw, Goto, Leaving, CountInv, PcInv
        <5> QED
          BY <3>1, <5>1, <2>4 DEF PopDraw, CountInv
      <4> QED
        BY <4>1, <4>2 DEF CountInv
    <3>2. CASE ~PopDraw(w)
      <4>1. next' = next
        BY <1>1, <3>2 DEF Worker, Start, CheckStop, PopCheckClosed, EncodeOk, EncodeFails,
             EncodeThrows, PushCheckClosed, Refused, TakePlace, Publish, Retire, CloseQueue
      <4> QED
        BY <4>1, <2>4 DEF CountInv
    <3> QED
      BY <3>1, <3>2
  <2>6. remaining' = Cardinality(Unretired')
    <3>1. CASE Retire(w)
      <4>1. w \in Unretired /\ Unretired' = Unretired \ {w}
        BY <3>1, <2>0, <2>1 DEF Retire, Goto, Unretired, PcInv
      <4>2. Cardinality(Unretired') = Cardinality(Unretired) - 1
        BY <4>1, FS_RemoveElement
      <4> QED
        BY <3>1, <4>2 DEF Retire, CountInv
    <3>2. CASE ~Retire(w)
      <4>1. remaining' = remaining /\ (w \in Unretired <=> w \in Unretired')
        BY <1>1, <3>2, <2>0 DEF PcInv, Unretired, Worker, Start, CheckStop, PopCheckClosed, PopDraw,
             EncodeOk, EncodeFails, EncodeThrows, PushCheckClosed, Refused, TakePlace, Publish,
             CloseQueue, Goto
      <4>2. Unretired' = Unretired
        BY <4>1, <2>1 DEF Unretired
      <4> QED
        BY <4>1, <4>2 DEF CountInv
    <3> QED
      BY <3>1, <3>2
  <2> QED
    BY <2>5, <2>6 DEF CountInv
<1>2. CASE TableTask
  BY <1>2, TaskKeepsWorkers DEF workerVars, CountInv, Unretired, Leaving
<1>3. CASE UNCHANGED vars
  BY <1>3 DEF vars, workerVars, CountInv, Unretired, Leaving
<1> QED
  BY <1>1, <1>2, <1>3 DEF Next

LEMMA StepQueue == PcInv /\ QueueInv /\ DrawInv /\ FailInv /\ [Next]_vars => QueueInv'
<1> SUFFICES ASSUME PcInv, QueueInv, DrawInv, FailInv, [Next]_vars PROVE QueueInv'
  OBVIOUS
<1>1. ASSUME NEW w \in Workers, TakePlace(w) PROVE QueueInv'
  <2> DEFINE r == [part |-> part[w], ok |-> ok[w]]
             n == Len(results[w])
  <2>1. r \in Results
    BY <1>1 DEF DrawInv, FailInv, TakePlace, Goto, Holds, Results
  <2>2. /\ results' = [results EXCEPT ![w] = Append(@, r)]
        /\ sent' = [sent EXCEPT ![w] = @ + 1]
        /\ channel' = Append(channel, <<w, n + 1>>)
        /\ n \in Nat
    BY <1>1 DEF TakePlace, Queue!TakePlace, QueueInv
  <2> HIDE DEF r
  <2>3. /\ results' \in [Workers -> Seq(Results)]
        /\ Len(results'[w]) = n + 1
        /\ \A v \in Workers : v # w => results'[v] = results[v]
    BY <2>1, <2>2 DEF QueueInv
  <2>4. sent' = [v \in Workers |-> Len(results'[v])]
    BY <2>2, <2>3 DEF QueueInv
  <2>5. channel' \in Seq(Workers \X Nat) /\ Len(channel') = Len(channel) + 1
    BY <2>2 DEF QueueInv
  <2>6. ASSUME NEW i \in 1 .. Len(channel')
        PROVE  channel'[i][2] \in 1 .. Len(results'[channel'[i][1]])
    <3>1. CASE i = Len(channel) + 1
      <4>1. channel'[i] = <<w, n + 1>>
        BY <2>2, <3>1 DEF QueueInv
      <4> QED
        BY <4>1, <2>2, <2>3
    <3>2. CASE i \in 1 .. Len(channel)
      <4>1. channel'[i] = channel[i] /\ channel[i] \in Workers \X Nat
        BY <2>2, <3>2 DEF QueueInv
      <4>2. channel[i][2] \in 1 .. Len(results[channel[i][1]])
        BY <3>2 DEF QueueInv
      <4>3. CASE channel[i][1] = w
        BY <4>1, <4>2, <4>3, <2>2, <2>3
      <4>4. CASE channel[i][1] # w
        BY <4>1, <4>2, <4>4, <2>3
      <4> QED
        BY <4>3, <4>4
    <3> QED
      BY <3>1, <3>2, <2>5 DEF QueueInv
  <2> QED
    BY <2>3, <2>4, <2>5, <2>6 DEF QueueInv
<1>2. ASSUME NEW w \in Workers, Worker(w), ~TakePlace(w) PROVE QueueInv'
  BY <1>2, WorkerKeepsResults DEF QueueInv
<1>3. CASE Receive
  <2>1. results' = results /\ sent' = sent
    BY <1>3, TaskKeepsWorkers DEF TableTask, workerVars
  <2>2. channel # <<>> /\ channel' = Tail(channel)
    BY <1>3 DEF Receive, Queue!Receive, Queue!HeadReady
  <2>3. /\ channel' \in Seq(Workers \X Nat)
        /\ \A i \in 1 .. Len(channel') : i + 1 \in 1 .. Len(channel) /\ channel'[i] = channel[i + 1]
    BY <2>2 DEF QueueInv
  <2> QED
    BY <2>1, <2>3 DEF QueueInv
<1>4. CASE TableTask /\ ~Receive
  <2>1. results' = results /\ sent' = sent
    BY <1>4, TaskKeepsWorkers DEF workerVars
  <2>2. channel' = channel
    BY <1>4 DEF TableTask, SkipExisting, OpenFails, Open, PopWaits, PopReturnsFalse, MergeNext,
       MergeFails, MergeDone, StopWorkers, CloseParts, CloseResults, Join, Discard, FinishFails,
       FinishOk, queueVars, Queue!FindNothing, Queue!LookAgain, Queue!End, Queue!Shut
  <2> QED
    BY <2>1, <2>2 DEF QueueInv
<1>5. CASE UNCHANGED vars
  BY <1>5 DEF vars, workerVars, queueVars, QueueInv
<1> QED
  BY <1>1, <1>2, <1>3, <1>4, <1>5 DEF Next

LEMMA StepDraw == PcInv /\ CountInv /\ QueueInv /\ DrawInv /\ FailInv /\ [Next]_vars => DrawInv'
<1> SUFFICES ASSUME PcInv, CountInv, QueueInv, DrawInv, FailInv, [Next]_vars PROVE DrawInv'
  OBVIOUS
<1> USE PartsAssumption DEF Holds
<1>1. ASSUME NEW w \in Workers, TakePlace(w) PROVE DrawInv'
  <2>1. /\ Pushed' = Pushed \cup {[part |-> part[w], ok |-> ok[w]]}
        /\ Holds(w) /\ part' = part /\ next' = next /\ pc' = [pc EXCEPT ![w] = "publish"]
    BY <1>1, PushedGrows DEF TakePlace, Goto
  <2> QED
    BY <2>1 DEF DrawInv, PcInv
<1>2. ASSUME NEW w \in Workers, PopDraw(w) PROVE DrawInv'
  <2>1. Pushed' = Pushed
    BY <1>2, PushedStays DEF PopDraw
  <2>2. CASE next > PartCount
    <3>1. part' = part /\ next' = next + 1 /\ pc' = [pc EXCEPT ![w] = "retire"]
      BY <1>2, <2>2 DEF PopDraw, Goto
    <3>2. (\A v \in Workers : Holds(v)' => Holds(v)) /\ next \in Nat
      BY <3>1 DEF PcInv, CountInv
    <3>3. \A r \in Pushed : r.part \in Parts
      BY DEF Pushed, Results
    <3> QED
      BY <2>1, <3>1, <3>2, <3>3 DEF DrawInv, Parts
  <2>3. CASE next <= PartCount
    <3>0. ~(next > PartCount) /\ next \in Parts
      BY <2>3 DEF CountInv, Parts
    <3>1. /\ part' = [part EXCEPT ![w] = next] /\ next' = next + 1 /\ next \in Parts
          /\ pc' = [pc EXCEPT ![w] = "encode"]
      BY <1>2, <3>0 DEF PopDraw, Goto
    <3>2. part' \in [Workers -> 0 .. PartCount]
      BY <3>1 DEF DrawInv, Parts
    <3>3. \A r \in Pushed' : r.part < next'
      <4>1. \A r \in Pushed : r.part \in Parts /\ r.part < next
        BY DEF DrawInv, Pushed, Results
      <4>2. \A a \in Parts : a < next => a < next + 1
        BY <3>1 DEF Parts
      <4> QED
        BY <2>1, <3>1, <4>1, <4>2
    <3>4. ASSUME NEW v \in Workers, Holds(v)'
          PROVE  /\ part'[v] \in Parts /\ part'[v] < next'
                 /\ \A u \in Workers : Holds(u)' /\ part'[u] = part'[v] => u = v
                 /\ \A r \in Pushed' : r.part # part'[v]
      <4>1. CASE v = w
        BY <2>1, <3>1, <4>1 DEF DrawInv, PcInv, CountInv, Parts
      <4>2. CASE v # w
        BY <2>1, <3>1, <3>4, <4>2 DEF DrawInv, PcInv, CountInv, Parts
      <4> QED
        BY <4>1, <4>2
    <3> QED
      BY <3>2, <3>3, <3>4 DEF DrawInv
  <2> QED
    BY <2>2, <2>3 DEF CountInv
<1>3. ASSUME NEW w \in Workers, Worker(w), ~TakePlace(w), ~PopDraw(w) PROVE DrawInv'
  <2>1. Pushed' = Pushed /\ part' = part /\ next' = next
    BY <1>3, PushedStays DEF Worker, Start, CheckStop, PopCheckClosed, EncodeOk, EncodeFails,
       EncodeThrows, PushCheckClosed, Refused, Publish, Retire, CloseQueue
  <2>2. \A v \in Workers : Holds(v)' => Holds(v)
    BY <1>3 DEF PcInv, Worker, Start, CheckStop, PopCheckClosed, EncodeOk, EncodeFails,
       EncodeThrows, PushCheckClosed, Refused, Publish, Retire, CloseQueue, Goto
  <2> QED
    BY <2>1, <2>2 DEF DrawInv
<1>4. CASE TableTask
  BY <1>4, TaskKeepsWorkers, PushedStays DEF workerVars, DrawInv
<1>5. CASE UNCHANGED vars
  BY <1>5, PushedStays DEF vars, workerVars, DrawInv
<1> QED
  BY <1>1, <1>2, <1>3, <1>4, <1>5 DEF Next

LEMMA StepFail == PcInv /\ CountInv /\ QueueInv /\ DrawInv /\ FailInv /\ TaskInv /\ [Next]_vars => FailInv'
<1> SUFFICES ASSUME PcInv, CountInv, QueueInv, DrawInv, FailInv, TaskInv, [Next]_vars PROVE FailInv'
  OBVIOUS
<1> USE PartsAssumption DEF Holds
<1>1. ASSUME NEW w \in Workers, TakePlace(w) PROVE FailInv'
  <2>1. /\ Pushed' = Pushed \cup {[part |-> part[w], ok |-> ok[w]]}
        /\ Holds(w) /\ UNCHANGED <<part, next, ok, stop>> /\ pc' = [pc EXCEPT ![w] = "publish"]
    BY <1>1, PushedGrows DEF TakePlace, Goto
  <2> QED
    BY <2>1 DEF FailInv, PcInv
<1>2. ASSUME NEW w \in Workers, PopDraw(w) PROVE FailInv'
  <2>1. Pushed' = Pushed
    BY <1>2, PushedStays DEF PopDraw
  <2>2. /\ UNCHANGED <<ok, stop>> /\ next' = next + 1 /\ next \in Nat /\ ok[w]
        /\ \A v \in Workers : v # w => pc'[v] = pc[v] /\ part'[v] = part[v]
        /\ pc'[w] = "encode" => part'[w] = next
        /\ pc'[w] \in {"retire", "encode"}
    BY <1>2 DEF PopDraw, Goto, FailInv, PcInv, CountInv, DrawInv
  <2> QED
    BY <2>1, <2>2 DEF FailInv, Parts
<1>3. ASSUME NEW w \in Workers, EncodeFails(w) PROVE FailInv'
  <2>1. Pushed' = Pushed
    BY <1>3, PushedStays DEF EncodeFails
  <2>2. /\ Holds(w) /\ ok' = [ok EXCEPT ![w] = FALSE] /\ stop' = TRUE
        /\ pc' = [pc EXCEPT ![w] = "push_check"] /\ part' = part /\ next' = next
    BY <1>3 DEF EncodeFails, Goto
  <2> QED
    BY <2>1, <2>2 DEF FailInv, PcInv, DrawInv
<1>4. ASSUME NEW w \in Workers, Worker(w), ~TakePlace(w), ~PopDraw(w), ~EncodeFails(w) PROVE FailInv'
  <2>1. Pushed' = Pushed /\ UNCHANGED <<part, next, stop>>
    BY <1>4, PushedStays DEF Worker, Start, CheckStop, PopCheckClosed, EncodeOk,
       EncodeThrows, PushCheckClosed, Refused, Publish, Retire, CloseQueue
  <2>2. \A v \in Workers : Holds(v)' => Holds(v)
    BY <1>4 DEF PcInv, Worker, Start, CheckStop, PopCheckClosed, EncodeOk,
       EncodeThrows, PushCheckClosed, Refused, Publish, Retire, CloseQueue, Goto
  <2>3. ok' \in [Workers -> BOOLEAN] /\ \A v \in Workers : ~ok'[v] => ~ok[v]
    BY <1>4 DEF FailInv, Worker, Start, CheckStop, PopCheckClosed, EncodeOk,
       EncodeThrows, PushCheckClosed, Refused, Publish, Retire, CloseQueue, Goto
  <2>4. ~ok[w] => pc'[w] \in {"push_check", "push", "publish", "loop", "retire", "close", "done"}
    BY <1>4 DEF FailInv, PcInv, Worker, Start, CheckStop, PopCheckClosed, EncodeOk,
       EncodeThrows, PushCheckClosed, Refused, Publish, Retire, CloseQueue, Goto
  <2>5. \A v \in Workers : v # w => pc'[v] = pc[v]
    BY <1>4 DEF PcInv, Worker, Start, CheckStop, PopCheckClosed, EncodeOk,
       EncodeThrows, PushCheckClosed, Refused, Publish, Retire, CloseQueue, Goto
  <2> QED
    BY <2>1, <2>2, <2>3, <2>4, <2>5 DEF FailInv
<1>5. CASE TableTask
  <2>1. UNCHANGED workerVars /\ Pushed' = Pushed
    BY <1>5, TaskKeepsWorkers, PushedStays DEF workerVars
  <2>2. stop => stop'
    BY <1>5 DEF TableTask, SkipExisting, OpenFails, Open, Receive, PopWaits, PopReturnsFalse,
       MergeNext, MergeFails, MergeDone, StopWorkers, CloseParts, CloseResults, Join, Discard,
       FinishFails, FinishOk
  <2> QED
    BY <2>1, <2>2 DEF workerVars, FailInv
<1>6. CASE UNCHANGED vars
  BY <1>6, PushedStays DEF vars, workerVars, FailInv
<1> QED
  BY <1>1, <1>2, <1>3, <1>4, <1>5, <1>6 DEF Next

LEMMA StepMerge ==
  PcInv /\ QueueInv /\ DrawInv /\ FailInv /\ TaskInv /\ MergeInv /\ [Next]_vars => MergeInv'
<1> SUFFICES ASSUME PcInv, QueueInv, DrawInv, FailInv, TaskInv, MergeInv, [Next]_vars PROVE MergeInv'
  OBVIOUS
<1> USE PartsAssumption
<1>1. Pushed \subseteq Pushed'
  BY PushedOnlyGrows
<1>2. CASE Receive
  <2>1. PICK m \in Workers \X Nat : /\ m = Head(channel) /\ m[2] \in 1 .. Len(results[m[1]])
                                    /\ pending' = pending \cup {results[m[1]][m[2]]}
    <3>1. channel # <<>> /\ pending' = pending \cup {results[Head(channel)[1]][Head(channel)[2]]}
      BY <1>2 DEF Receive, Queue!Receive, Queue!HeadReady
    <3>2. Head(channel) = channel[1] /\ 1 \in 1 .. Len(channel) /\ channel[1] \in Workers \X Nat
      BY <3>1 DEF QueueInv
    <3> QED
      BY <3>1, <3>2 DEF QueueInv
  <2>2. results[m[1]][m[2]] \in Pushed
    BY <2>1 DEF QueueInv, Pushed
  <2>3. UNCHANGED <<expected, out, error>>
    BY <1>2 DEF Receive
  <2> QED
    BY <1>1, <2>1, <2>2, <2>3 DEF MergeInv
<1>3. CASE MergeNext
  <2>1. PICK r \in pending : /\ Ready(r) /\ r.ok
                             /\ out' = Append(out, r.part)
                             /\ pending' = pending \ {r}
                             /\ expected' = expected + 1
                             /\ UNCHANGED error
    BY <1>3 DEF MergeNext
  <2>2. r \in Pushed /\ r.part = expected /\ error = "none" /\ r.part \in Parts
    BY <2>1 DEF MergeInv, Ready, Pushed, Results
  <2>3. r = [part |-> expected, ok |-> TRUE]
    BY <2>1, <2>2 DEF Pushed, Results
  <2>4. Len(out) = expected - 1 /\ out' \in Seq(Parts) /\ Len(out') = expected
    BY <2>1, <2>2 DEF MergeInv
  <2>5. \A i \in 1 .. Len(out') : out'[i] = i /\ [part |-> i, ok |-> TRUE] \in Pushed
    <3>1. ASSUME NEW i \in 1 .. Len(out'), i # expected
          PROVE  out'[i] = i /\ [part |-> i, ok |-> TRUE] \in Pushed
      <4>1. i \in 1 .. Len(out) /\ out'[i] = out[i]
        BY <3>1, <2>1, <2>2, <2>4 DEF MergeInv
      <4> QED
        BY <4>1 DEF MergeInv
    <3>2. out'[expected] = expected
      BY <2>1, <2>2, <2>4 DEF MergeInv
    <3> QED
      BY <3>1, <3>2, <2>2, <2>3
  <2>6. expected' \in 1 .. PartCount + 1
    BY <2>1, <2>2 DEF Parts
  <2> QED
    BY <1>1, <2>1, <2>4, <2>5, <2>6 DEF MergeInv
<1>4. CASE MergeFails
  <2>1. PICK r \in pending : /\ Ready(r) /\ error' # "none"
                             /\ pending' = pending \ {r}
                             /\ expected' = expected + 1
                             /\ UNCHANGED out
    BY <1>4 DEF MergeFails
  <2>2. expected \in Parts
    BY <2>1 DEF MergeInv, Ready, Pushed, Results
  <2> QED
    BY <1>1, <2>1, <2>2 DEF MergeInv, Parts
<1>5. CASE TableTask /\ ~Receive /\ ~MergeNext /\ ~MergeFails
  <2>1. UNCHANGED <<pending, expected, out>> /\ (error' = "none" => error = "none")
    <3>1. CASE Open
      BY <3>1 DEF Open, TableGoto, TaskInv, mergeVars
    <3>2. CASE Join
      BY <3>2 DEF Join, FirstError, mergeVars
    <3> QED
      BY <1>5, <3>1, <3>2 DEF TableTask, SkipExisting, OpenFails, PopWaits, PopReturnsFalse,
         MergeDone, StopWorkers, CloseParts, CloseResults, Discard, FinishFails, FinishOk,
         mergeVars, tableVars
  <2> QED
    BY <1>1, <2>1 DEF MergeInv
<1>6. CASE \E w \in Workers : Worker(w)
  <2>1. UNCHANGED <<pending, expected, out, error>>
    BY <1>6, WorkerKeepsTask DEF tableVars, mergeVars
  <2> QED
    BY <1>1, <2>1 DEF MergeInv
<1>7. CASE UNCHANGED vars
  BY <1>1, <1>7 DEF vars, tableVars, mergeVars, MergeInv
<1> QED
  BY <1>2, <1>3, <1>4, <1>5, <1>6, <1>7 DEF Next

LEMMA NoResultIsNone == NoResult \notin {0, 2}
BY DEF NoResult

\* Workers that have not been started take no step while the table's task is
\* before Open or has returned, and workers that have ended take none at all.
LEMMA WorkerIsRunning ==
  ASSUME NEW w \in Workers, Worker(w)
  PROVE  pc[w] \notin {"done", "threw"} /\ (pc[w] = "queued" => cpc \notin {"open", "returned"})
BY DEF Worker, Start, CheckStop, PopCheckClosed, PopDraw, EncodeOk, EncodeFails, EncodeThrows,
       PushCheckClosed, Refused, TakePlace, Publish, Retire, CloseQueue, Goto

LEMMA StepTask == PcInv /\ FailInv /\ TaskInv /\ [Next]_vars => TaskInv'
<1> SUFFICES ASSUME PcInv, FailInv, TaskInv, [Next]_vars PROVE TaskInv'
  OBVIOUS
<1> USE NoResultIsNone
<1>1. ASSUME NEW w \in Workers, Worker(w) PROVE TaskInv'
  <2>1. cpc \notin {"open", "finish"}
    BY <1>1, WorkerIsRunning DEF TaskInv
  <2>2. stop' \in BOOLEAN /\ shut' \in BOOLEAN
    BY <1>1 DEF TaskInv, Worker, Start, CheckStop, PopCheckClosed, PopDraw, EncodeOk, EncodeFails,
       EncodeThrows, PushCheckClosed, Refused, TakePlace, Publish, Retire, CloseQueue, queueVars,
       Queue!TakePlace, Queue!Publish, Queue!Shut
  <2> QED
    BY <1>1, <2>1, <2>2, WorkerKeepsTask DEF TaskInv, tableVars
<1>2. CASE TableTask
  <2>1. pc' = pc /\ ok' = ok
    BY <1>2, TaskKeepsWorkers DEF workerVars
  <2>2. CASE SkipExisting \/ OpenFails \/ Open
    BY <2>1, <2>2 DEF TaskInv, SkipExisting, OpenFails, Open, TableGoto, queueVars, mergeVars
  <2>3. CASE Receive \/ PopWaits \/ PopReturnsFalse
    BY <2>1, <2>3 DEF TaskInv, Receive, PopWaits, PopReturnsFalse, TableGoto, tableVars, mergeVars,
       Queue!Receive, Queue!FindNothing, Queue!LookAgain, Queue!End
  <2>4. CASE MergeNext \/ MergeFails \/ MergeDone
    BY <2>1, <2>4 DEF TaskInv, MergeNext, MergeFails, MergeDone, Ready, TableGoto, queueVars
  <2>5. CASE StopWorkers \/ CloseParts \/ CloseResults
    BY <2>1, <2>5 DEF TaskInv, StopWorkers, CloseParts, CloseResults, TableGoto, queueVars,
       Queue!Shut
  <2>6. CASE Join
    BY <2>1, <2>6 DEF TaskInv, Join, FirstError, TableGoto, queueVars
  <2>7. CASE Discard \/ FinishFails \/ FinishOk
    BY <2>1, <2>7 DEF TaskInv, Discard, FinishFails, FinishOk, TableGoto, queueVars
  <2> QED
    BY <1>2, <2>2, <2>3, <2>4, <2>5, <2>6, <2>7 DEF TableTask
<1>3. CASE UNCHANGED vars
  BY <1>3 DEF vars, workerVars, queueVars, tableVars, TaskInv
<1> QED
  BY <1>1, <1>2, <1>3 DEF Next

\* Before the final rename: all partitions have a good result, so that none failed.
LEMMA AllMergedNoneFailed ==
  ASSUME IInv, error = "none", expected = PartCount + 1
  PROVE  \A w \in Workers : ok[w]
<1> SUFFICES ASSUME NEW w \in Workers, ~ok[w] PROVE FALSE
  BY DEF IInv, FailInv
<1>1. part[w] \in Parts /\ \A r \in Pushed : r.part = part[w] => ~r.ok
  BY DEF IInv, FailInv
<1>2. part[w] \in 1 .. Len(out)
  BY <1>1, PartsAssumption DEF IInv, MergeInv, Parts
<1>3. [part |-> part[w], ok |-> TRUE] \in Pushed
  BY <1>2 DEF IInv, MergeInv
<1> QED
  BY <1>1, <1>3

LEMMA StepReturn == IInv /\ [Next]_vars => ReturnInv'
<1> SUFFICES ASSUME IInv, [Next]_vars PROVE ReturnInv'
  OBVIOUS
<1> USE NoResultIsNone
<1>1. ASSUME NEW w \in Workers, Worker(w) PROVE ReturnInv'
  <2>1. result # 0
    BY <1>1, WorkerIsRunning DEF IInv, ReturnInv, TaskInv
  <2> QED
    BY <1>1, <2>1, WorkerKeepsTask DEF IInv, ReturnInv, tableVars, mergeVars
<1>2. CASE TableTask
  <2>1. pc' = pc /\ ok' = ok
    BY <1>2, TaskKeepsWorkers DEF workerVars
  <2>2. CASE SkipExisting \/ OpenFails
    BY <2>1, <2>2 DEF IInv, ReturnInv, TaskInv, SkipExisting, OpenFails, TableGoto, mergeVars
  <2>3. CASE FinishOk
    <3>1. /\ error = "none" /\ expected = PartCount + 1 /\ cpc = "finish" /\ out' = out
          /\ result' = 0 /\ file' = "published"
      BY <2>3 DEF FinishOk, TableGoto, mergeVars
    <3>2. \A w \in Workers : ok[w] /\ pc[w] = "done"
      BY <3>1, AllMergedNoneFailed DEF IInv, TaskInv
    <3>3. Len(out) = PartCount
      BY <3>1, PartsAssumption DEF IInv, MergeInv
    <3> QED
      BY <2>1, <3>1, <3>2, <3>3 DEF ReturnInv
  <2>4. CASE Discard \/ FinishFails
    BY <2>1, <2>4 DEF IInv, ReturnInv, TaskInv, Discard, FinishFails, TableGoto, mergeVars
  <2>5. CASE ~(SkipExisting \/ OpenFails \/ FinishOk \/ Discard \/ FinishFails)
    <3>1. cpc # "returned" /\ result' = result /\ file' # "published"
      BY <1>2, <2>5 DEF IInv, TaskInv, TableTask, Open, Receive, PopWaits, PopReturnsFalse,
         MergeNext, MergeFails, MergeDone, StopWorkers, CloseParts, CloseResults, Join, Ready,
         TableGoto, tableVars, Queue!Receive
    <3>2. result = NoResult
      BY <3>1 DEF IInv, TaskInv
    <3> QED
      BY <3>1, <3>2 DEF ReturnInv
  <2> QED
    BY <2>2, <2>3, <2>4, <2>5
<1>3. CASE UNCHANGED vars
  BY <1>3 DEF vars, workerVars, tableVars, mergeVars, IInv, ReturnInv
<1> QED
  BY <1>1, <1>2, <1>3 DEF Next

LEMMA AlwaysIInv == Spec => []IInv
<1>1. IInv /\ [Next]_vars => IInv'
  BY StepPc, StepCount, StepQueue, StepDraw, StepFail, StepMerge, StepTask, StepReturn DEF IInv
<1> QED
  BY <1>1, InitInv, PTL DEF Spec

-----------------------------------------------------------------------------
\* Type correctness: remaining_workers never goes below zero, the counter of the
\* PartitionRangeQueue overshoots by at most one draw per worker, and everything
\* the table's task buffers or merges is the result of an existing partition.
THEOREM TypeCorrect == Spec => []TypeOK
<1>1. IInv => TypeOK
  <2> SUFFICES ASSUME IInv PROVE TypeOK
    OBVIOUS
  <2>1. /\ next \in 1 .. PartCount + Cardinality(Workers) + 1
        /\ remaining \in 0 .. Cardinality(Workers)
    BY FiniteGroups, PartsAssumption DEF IInv, CountInv
  <2>2. pending \subseteq Results
    BY DEF IInv, MergeInv, Pushed
  <2> QED
    BY <2>1, <2>2 DEF IInv, PcInv, DrawInv, MergeInv, TaskInv, TypeOK, Results
<1> QED
  BY <1>1, AlwaysIInv, PTL

\* However many workers finish in whatever order, process_buffer appends the
\* row groups of the partitions in order and leaves no partition out.
THEOREM MergesInOrder == Spec => []MergedInOrder
<1>1. IInv => MergedInOrder
  BY DEF IInv, MergeInv, MergedInOrder
<1> QED
  BY <1>1, AlwaysIInv, PTL

\* RunParallelEncodeParquetOrdered moves its file to the final name only with
\* every partition in it, and returns 0 exactly then or when it found a file.
THEOREM PublishesWholeOnly == Spec => []PublishedIsWhole
<1>1. IInv => PublishedIsWhole
  BY NoResultIsNone DEF IInv, TaskInv, ReturnInv, PublishedIsWhole
<1> QED
  BY <1>1, AlwaysIInv, PTL

\* A status other than ok of GeneratePartitionToInMemory, or an exception of it,
\* is never followed by the result 0.
THEOREM ReportsEncodeErrors == Spec => []EncodeErrorReported
<1>1. IInv => EncodeErrorReported
  BY DEF IInv, ReturnInv, EncodeErrorReported
<1> QED
  BY <1>1, AlwaysIInv, PTL

-----------------------------------------------------------------------------
(* The stream to a Lance or Vortex thread, and the two machines together.   *)

Sizes == [Foreign!Parts -> 0 .. MaxBatches]

\* The batches of a table whose partitions have these sizes, those before
\* partition p, and the one of number n.
BatchesOf(sizes) == {b \in Foreign!Parts \X (1 .. MaxBatches) : b[2] <= sizes[b[1]]}
Size(sizes) == Cardinality(BatchesOf(sizes))
Before(sizes, p) == {b \in BatchesOf(sizes) : b[1] < p}
Count(sizes, p) == Cardinality(Before(sizes, p))
Numbered(sizes, n) == CHOOSE b \in BatchesOf(sizes) : Count(sizes, b[1]) + b[2] = n

N == Size(batches_of)

\* What was sent and is taken or waiting, in order.
At(taken, waiting, i) == IF i <= Len(taken) THEN taken[i] ELSE waiting[i - Len(taken)]

Total == Len(consumed) + Len(f_channel)
Sent(i) == At(consumed, f_channel, i)

Messages == Foreign!Batches \cup {Foreign!End, Foreign!EmptyBatch}

FlagTypeInv ==
  /\ is_open \in BOOLEAN /\ wrote \in BOOLEAN /\ sender \in BOOLEAN /\ joined \in BOOLEAN
  /\ handle \in BOOLEAN /\ failing \in BOOLEAN /\ f_receiver \in BOOLEAN /\ reported \in BOOLEAN

ControlTypeInv ==
  /\ format \in {"lance", "vortex"}
  /\ f_pc \in {"open", "begin", "next", "push", "flush", "close", "empty", "finish", "join",
               "destroy", "returned"}
  /\ status \in {"ok", "err"}
  /\ worker \in {"none", "starting", "running", "ok", "err"}
  /\ dataset \in {"absent", "partial", "committed", "old"}
  /\ f_result \in {0, 2, Foreign!NoResult}

CounterTypeInv ==
  /\ batches_of \in Sizes
  /\ f_part \in 1 .. InputParts + 1 /\ batch \in 0 .. MaxBatches
  /\ committed \in 0 .. N
  /\ parts_completed = f_part - 1

\* The end is not a batch that the thread could write.
QueueTypeInv ==
  /\ f_channel \in Seq(Messages)
  /\ consumed \in Seq(Messages \ {Foreign!End})

\* How far the task is in the table, by the batches it has counted.
PlaceInv ==
  /\ f_pc = "open" => f_part = 1 /\ committed = 0
  /\ f_pc \in {"next", "push", "flush"} => f_part \in Foreign!Parts /\ batch <= batches_of[f_part]
  /\ f_pc = "begin" => committed = Count(batches_of, f_part)
  /\ f_pc = "next" => committed = Count(batches_of, f_part) + batch
  /\ f_pc \in {"push", "flush"} => batch > 0 /\ committed + 1 = Count(batches_of, f_part) + batch
  /\ (f_pc \in {"close", "empty", "finish", "join", "destroy"} /\ ~failing) \/ f_result = 0 =>
       committed = N /\ f_part = InputParts + 1

\* The committed batches were sent, in the order of the table, and after them at
\* most one message: the batch to be flushed, the end, or Vortex's empty batch.
StreamInv ==
  /\ Total \in {committed, committed + 1}
  /\ \A i \in 1 .. committed : Sent(i) = Numbered(batches_of, i) /\ Sent(i) \in BatchesOf(batches_of)
  /\ f_pc \in {"open", "begin", "next", "push", "close", "empty"} => Total = committed
  /\ f_pc = "flush" => /\ format = "vortex" /\ Total = committed + 1
                       /\ Sent(Total) = <<f_part, batch>>
  /\ f_pc \in {"finish", "join", "destroy", "returned"} /\ Total = committed + 1 =>
       \/ /\ format = "lance" /\ f_pc # "finish"
          /\ Sent(Total) = Foreign!End
       \/ format = "vortex" /\ committed = 0 /\ Sent(Total) = Foreign!EmptyBatch

\* The channel is over its bound only while a Vortex push waits for that to end.
RoomInv ==
  /\ Len(f_channel) <= Capacity + 1
  /\ worker = "err" \/ f_pc = "flush" \/ Len(f_channel) <= Capacity

\* Vortex knows whether it has written anything.
WroteInv ==
  /\ format = "vortex" /\ f_pc \in {"begin", "next", "push", "close"} => (wrote <=> committed > 0)
  /\ f_pc = "empty" => format = "vortex" /\ ~wrote /\ committed = 0
  /\ format = "vortex" /\ f_pc \in {"finish", "join", "destroy"} /\ committed = 0 =>
       status = "err" \/ Total = 1

\* The life of the thread and of its handle.
HandleInv ==
  /\ f_receiver <=> worker \in {"starting", "running"}
  /\ f_pc = "open" => worker = "none" /\ ~handle /\ ~sender /\ ~joined /\ dataset \in {"absent", "old"}
  /\ f_pc \in {"begin", "next", "push", "flush", "close", "empty", "finish"} =>
       worker \in {"starting", "running", "err"} /\ handle /\ sender /\ ~joined
  /\ f_pc = "join" => worker # "none" /\ handle /\ ~sender /\ ~joined
  /\ f_pc = "destroy" => worker \in {"ok", "err"} /\ handle /\ ~sender /\ joined
  /\ f_pc = "returned" => Foreign!NoThreadLeft
  /\ f_pc \in {"join", "destroy"} /\ format = "lance" /\ worker # "err" => Total = committed + 1
  /\ worker = "ok" => /\ dataset = "committed" /\ ~sender
                      /\ IF format = "lance" THEN Len(f_channel) = 1 /\ Sent(Total) = Foreign!End
                         ELSE f_channel = <<>>

\* What the task is going to return.
OutcomeInv ==
  /\ f_pc = "returned" <=> f_result # Foreign!NoResult
  /\ f_pc # "returned" => (reported <=> failing)
  /\ f_pc = "open" => ~failing /\ status = "ok"
  /\ f_pc \in {"begin", "next", "push", "flush"} => ~failing
  /\ f_pc \notin {"destroy", "finish", "join", "returned"} => status = "ok"
  /\ f_pc = "destroy" /\ status = "ok" => worker = "ok"
  /\ f_result = 0 => Foreign!SuccessIsComplete

StreamIInv ==
  /\ FlagTypeInv /\ ControlTypeInv /\ CounterTypeInv /\ QueueTypeInv
  /\ PlaceInv /\ StreamInv /\ RoomInv /\ WroteInv /\ HandleInv /\ OutcomeInv

\* The machine that was not chosen has not moved.
ChoiceInv ==
  /\ output_format \in {"parquet", "lance", "vortex"}
  /\ requested \in Strategies \cup {"auto"}
  /\ step \in {"resolve", "parallel-encode", "foreign-streaming", "returned"}
  /\ finished \in BOOLEAN
  /\ step = "parallel-encode" => output_format = "parquet" /\ requested # "parallel-files"
  /\ step = "foreign-streaming" => output_format # "parquet" /\ requested # "parallel-files"
  /\ output_format = "parquet" => requested # "parallel-files"
  /\ step = "resolve" \/ requested = "parallel-files" => cpc = "open" /\ f_pc = "open"
  /\ output_format # "parquet" => cpc = "open"
  /\ output_format = "parquet" => f_pc = "open"
  /\ finished => step = "returned" /\ IF output_format = "parquet" THEN result = 0 ELSE f_result = 0

-----------------------------------------------------------------------------
(* The batches of the table, numbered in partition order *)

\* The instance has a copy of Cardinality.
LEMMA SameCardinality == ASSUME NEW S PROVE Foreign!Cardinality(S) = Cardinality(S)
BY DEF Cardinality, Foreign!Cardinality

LEMMA IntervalSize == ASSUME NEW n \in Nat PROVE IsFiniteSet(1 .. n) /\ Cardinality(1 .. n) = n
<1>1. IsFiniteSet(1 .. n) /\ Cardinality(1 .. n) = IF 1 > n THEN 0 ELSE n - 1 + 1
  BY FS_Interval
<1>2. (IF 1 > n THEN 0 ELSE n - 1 + 1) = n
  OBVIOUS
<1> QED
  BY <1>1, <1>2

LEMMA BatchesFinite ==
  ASSUME NEW sizes
  PROVE  /\ IsFiniteSet(BatchesOf(sizes))
         /\ Size(sizes) \in Nat
         /\ Size(sizes) = 0 <=> BatchesOf(sizes) = {}
<1> USE ForeignAssumption
<1>1. IsFiniteSet(Foreign!Parts) /\ IsFiniteSet(1 .. MaxBatches)
  BY FS_Interval DEF Foreign!Parts
<1>2. IsFiniteSet(Foreign!Parts \X (1 .. MaxBatches))
  BY <1>1, FS_Product
<1>3. BatchesOf(sizes) \subseteq Foreign!Parts \X (1 .. MaxBatches)
  BY DEF BatchesOf
<1>4. IsFiniteSet(BatchesOf(sizes))
  BY <1>2, <1>3, FS_Subset
<1> QED
  BY <1>4, FS_CardinalityType, FS_EmptySet DEF Size

LEMMA BeforeFinite ==
  ASSUME NEW sizes, NEW p
  PROVE  /\ IsFiniteSet(Before(sizes, p))
         /\ Count(sizes, p) = Cardinality(Before(sizes, p))
         /\ Count(sizes, p) \in Nat
         /\ Count(sizes, p) <= Size(sizes)
<1>1. Before(sizes, p) \subseteq BatchesOf(sizes)
  BY DEF Before
<1>2. IsFiniteSet(Before(sizes, p)) /\ Cardinality(Before(sizes, p)) <= Size(sizes)
  BY <1>1, BatchesFinite, FS_Subset DEF Size
<1>3. Count(sizes, p) = Cardinality(Before(sizes, p))
  BY DEF Count
<1> QED
  BY <1>2, <1>3, FS_CardinalityType

LEMMA CountNext ==
  ASSUME NEW sizes \in Sizes, NEW p \in Foreign!Parts
  PROVE  Count(sizes, p + 1) = Count(sizes, p) + sizes[p]
<1> USE ForeignAssumption DEF Foreign!Parts
<1> DEFINE Own == {p} \X (1 .. sizes[p])
<1>1. sizes[p] \in 0 .. MaxBatches
  BY DEF Sizes
<1>2. \A b : b \in Before(sizes, p + 1) <=> b \in Before(sizes, p) \/ b \in Own
  BY <1>1 DEF Before, BatchesOf
<1>3. Before(sizes, p + 1) = Before(sizes, p) \cup Own /\ Before(sizes, p) \cap Own = {}
  BY <1>2 DEF Before
<1>4. IsFiniteSet(Own) /\ Cardinality(Own) = sizes[p]
  <2>1. IsFiniteSet({p}) /\ Cardinality({p}) = 1
    BY FS_Singleton
  <2>2. IsFiniteSet(1 .. sizes[p]) /\ Cardinality(1 .. sizes[p]) = sizes[p]
    <3>1. sizes[p] \in Nat
      BY <1>1
    <3> QED
      BY <3>1, IntervalSize
  <2>3. IsFiniteSet(Own) /\ Cardinality(Own) = Cardinality({p}) * Cardinality(1 .. sizes[p])
    BY <2>1, <2>2, FS_Product
  <2> QED
    BY <1>1, <2>1, <2>2, <2>3
<1>5. Cardinality(Before(sizes, p + 1)) =
        Cardinality(Before(sizes, p)) + Cardinality(Own) - Cardinality(Before(sizes, p) \cap Own)
  BY <1>3, <1>4, BeforeFinite, FS_Union
<1>6. Cardinality(Before(sizes, p) \cap Own) = 0
  BY <1>3, FS_EmptySet
<1>7. /\ Count(sizes, p) = Cardinality(Before(sizes, p)) /\ Count(sizes, p) \in Nat
      /\ Count(sizes, p + 1) = Cardinality(Before(sizes, p + 1))
  BY BeforeFinite
<1> QED
  BY <1>1, <1>4, <1>5, <1>6, <1>7

LEMMA CountEnds ==
  ASSUME NEW sizes
  PROVE  Count(sizes, 1) = 0 /\ Count(sizes, InputParts + 1) = Size(sizes)
<1> USE ForeignAssumption DEF Foreign!Parts
<1>1. Before(sizes, 1) = {} /\ Before(sizes, InputParts + 1) = BatchesOf(sizes)
  BY DEF Before, BatchesOf
<1> QED
  BY <1>1, BeforeFinite, FS_EmptySet DEF Size

\* A partition starts after all batches of an earlier one.
LEMMA CountGrows ==
  ASSUME NEW sizes \in Sizes, NEW p \in Foreign!Parts, NEW q \in 1 .. InputParts + 1, p < q
  PROVE  Count(sizes, p) + sizes[p] <= Count(sizes, q)
<1> USE ForeignAssumption DEF Foreign!Parts
<1>1. Before(sizes, p + 1) \subseteq Before(sizes, q)
  BY DEF Before, BatchesOf
<1>2. Cardinality(Before(sizes, p + 1)) <= Cardinality(Before(sizes, q))
  BY <1>1, BeforeFinite, FS_Subset
<1> QED
  BY <1>2, BeforeFinite, CountNext

LEMMA NumberOfBatch ==
  ASSUME NEW sizes \in Sizes, NEW p \in Foreign!Parts, NEW b \in 1 .. sizes[p]
  PROVE  /\ <<p, b>> \in BatchesOf(sizes)
         /\ Count(sizes, p) + b \in 1 .. Size(sizes)
         /\ Numbered(sizes, Count(sizes, p) + b) = <<p, b>>
<1> USE ForeignAssumption DEF Foreign!Parts
<1>1. sizes[p] \in 0 .. MaxBatches
  BY DEF Sizes
<1>2. <<p, b>> \in BatchesOf(sizes)
  BY <1>1 DEF BatchesOf
<1>3. Count(sizes, p) \in Nat
  BY BeforeFinite
<1>4. Count(sizes, p) + b <= Size(sizes)
  BY <1>1, <1>3, CountGrows, CountEnds, BatchesFinite
<1>5. ASSUME NEW c \in BatchesOf(sizes), Count(sizes, c[1]) + c[2] = Count(sizes, p) + b
      PROVE  c = <<p, b>>
  <2>1. c = <<c[1], c[2]>> /\ c[1] \in Foreign!Parts /\ c[2] \in 1 .. sizes[c[1]] /\ sizes[c[1]] \in Nat
    BY DEF BatchesOf, Sizes
  <2>2. Count(sizes, c[1]) + c[2] = Count(sizes, p) + b /\ Count(sizes, c[1]) \in Nat
    BY <1>5, BeforeFinite
  <2>3. CASE c[1] < p
    BY <1>3, <2>1, <2>2, <2>3, CountGrows
  <2>4. CASE p < c[1]
    <3>1. Count(sizes, p) + sizes[p] <= Count(sizes, c[1])
      BY <2>1, <2>4, CountGrows
    <3> QED
      BY <1>1, <1>3, <2>1, <2>2, <3>1
  <2>5. CASE c[1] = p
    BY <1>3, <2>1, <2>2, <2>5
  <2> QED
    BY <2>1, <2>3, <2>4, <2>5
<1>6. Count(sizes, <<p, b>>[1]) + <<p, b>>[2] = Count(sizes, p) + b
  OBVIOUS
<1>7. Numbered(sizes, Count(sizes, p) + b) = <<p, b>>
  BY <1>2, <1>5, <1>6 DEF Numbered
<1> QED
  BY <1>1, <1>2, <1>3, <1>4, <1>7, BatchesFinite

\* What the module under proof calls by its own names.
LEMMA SameBatches ==
  /\ Foreign!Batches = BatchesOf(batches_of)
  /\ Foreign!Cardinality(Foreign!Batches) = N
<1>1. Foreign!Batches = BatchesOf(batches_of)
  BY DEF Foreign!Batches, BatchesOf
<1> QED
  BY <1>1, SameCardinality DEF N, Size

LEMMA SameNumber == ASSUME NEW n PROVE Foreign!BatchAt(n) = Numbered(batches_of, n)
<1>1. Foreign!Batches = BatchesOf(batches_of)
  BY SameBatches
<1>2. ASSUME NEW p PROVE Foreign!Count(p) = Count(batches_of, p)
  <2>1. {b \in Foreign!Batches : b[1] < p} = Before(batches_of, p)
    BY <1>1 DEF Before
  <2> QED
    BY <2>1, SameCardinality DEF Foreign!Count, Count
<1>3. \A b \in Foreign!Batches : Foreign!Count(b[1]) + b[2] = n <=> Count(batches_of, b[1]) + b[2] = n
  BY <1>2
<1> QED
  BY <1>1, <1>3 DEF Foreign!BatchAt, Numbered

-----------------------------------------------------------------------------
(* Messages that were sent *)

LEMMA AtAppend ==
  ASSUME NEW S, NEW c \in Seq(S), NEW q \in Seq(S), NEW m \in S
  PROVE  /\ Append(q, m) \in Seq(S) /\ Len(Append(q, m)) = Len(q) + 1
         /\ \A i \in 1 .. Len(c) + Len(q) : At(c, Append(q, m), i) = At(c, q, i)
         /\ At(c, Append(q, m), Len(c) + Len(q) + 1) = m
BY DEF At

LEMMA AtMove ==
  ASSUME NEW S, NEW c \in Seq(S), NEW q \in Seq(S), q # <<>>
  PROVE  /\ Head(q) \in S /\ Head(q) = At(c, q, Len(c) + 1)
         /\ Tail(q) \in Seq(S) /\ Len(Tail(q)) = Len(q) - 1
         /\ Append(c, Head(q)) \in Seq(S) /\ Len(Append(c, Head(q))) = Len(c) + 1
         /\ \A i \in 1 .. Len(c) + Len(q) : At(Append(c, Head(q)), Tail(q), i) = At(c, q, i)
BY DEF At

-----------------------------------------------------------------------------
(* The steps of a stream *)

\* What no step changes.
LEMMA InputsStay ==
  ASSUME Foreign!Next
  PROVE  UNCHANGED <<format, batches_of>> /\ N' = N /\ Messages' = Messages
<1>1. UNCHANGED <<format, batches_of>>
  BY DEF Foreign!Next, Foreign!Task, Foreign!Thread, Foreign!Failure, Foreign!GeneratorFails,
    Foreign!OpenRefused, Foreign!OpenLance, Foreign!OpenVortex, Foreign!BeginPartition,
    Foreign!NextBatch, Foreign!EndPartition, Foreign!SendLance, Foreign!SendVortex,
    Foreign!FlushVortex, Foreign!PushRefused, Foreign!BatchRejected, Foreign!Fail,
    Foreign!CloseLance, Foreign!CloseVortex, Foreign!PushEmptyBatch, Foreign!EmptyBatchFails,
    Foreign!EmptyColumnsFail, Foreign!FinishLance, Foreign!FinishVortex, Foreign!Join,
    Foreign!Destroy, Foreign!WorkerStarts, Foreign!WorkerReceives, Foreign!WorkerCommits,
    Foreign!WorkerFails, Foreign!inputVars
<1>2. Foreign!Batches' = Foreign!Batches
  BY <1>1 DEF Foreign!Batches
<1> QED
  BY <1>1, <1>2 DEF N, Messages

\* The task's place in the table does not get beyond the end of it.
LEMMA NotBeyond ==
  ASSUME CounterTypeInv, PlaceInv, f_pc \in {"push", "flush"}
  PROVE  /\ committed + 1 = Count(batches_of, f_part) + batch
         /\ committed + 1 \in 1 .. N
         /\ <<f_part, batch>> \in BatchesOf(batches_of)
         /\ Numbered(batches_of, committed + 1) = <<f_part, batch>>
<1>1. batches_of \in Sizes /\ f_part \in Foreign!Parts /\ batch \in 1 .. batches_of[f_part]
  BY DEF CounterTypeInv, PlaceInv, Sizes, Foreign!Parts
<1>2. committed + 1 = Count(batches_of, f_part) + batch
  BY DEF PlaceInv
<1> QED
  BY <1>1, <1>2, NumberOfBatch DEF N

\* Everything keeps its type.
LEMMA StepFlags == ASSUME FlagTypeInv, Foreign!Next PROVE FlagTypeInv'
<1> USE DEF FlagTypeInv,
      Foreign!inputVars, Foreign!genVars, Foreign!writerVars, Foreign!bridgeVars,
            Foreign!workerVars, Foreign!progressVars
<1>0. FALSE \in BOOLEAN /\ TRUE \in BOOLEAN
  OBVIOUS
<1>1. CASE Foreign!OpenRefused
  BY <1>0, <1>1 DEF Foreign!OpenRefused, Foreign!Goto
<1>2. CASE Foreign!OpenLance
  BY <1>0, <1>2 DEF Foreign!OpenLance, Foreign!WriterOpen, Foreign!Goto
<1>3. CASE Foreign!OpenVortex
  BY <1>0, <1>3 DEF Foreign!OpenVortex, Foreign!WriterOpen, Foreign!Goto
<1>4. CASE Foreign!BeginPartition
  BY <1>0, <1>4 DEF Foreign!BeginPartition, Foreign!Goto
<1>5. CASE Foreign!NextBatch
  BY <1>0, <1>5 DEF Foreign!NextBatch, Foreign!Goto
<1>6. CASE Foreign!EndPartition
  BY <1>0, <1>6 DEF Foreign!EndPartition, Foreign!Goto
<1>7. CASE Foreign!SendLance
  BY <1>0, <1>7 DEF Foreign!SendLance, Foreign!Room, Foreign!Goto
<1>8. CASE Foreign!SendVortex
  BY <1>0, <1>8 DEF Foreign!SendVortex, Foreign!Goto
<1>9. CASE Foreign!FlushVortex
  BY <1>0, <1>9 DEF Foreign!FlushVortex, Foreign!Goto
<1>10. CASE Foreign!PushRefused
  BY <1>0, <1>10 DEF Foreign!PushRefused, Foreign!Fail, Foreign!Goto
<1>11. CASE Foreign!CloseLance
  BY <1>0, <1>11 DEF Foreign!CloseLance, Foreign!CloseWriter, Foreign!Goto
<1>12. CASE Foreign!CloseVortex
  BY <1>0, <1>12 DEF Foreign!CloseVortex, Foreign!CloseWriter, Foreign!Goto
<1>13. CASE Foreign!PushEmptyBatch
  BY <1>0, <1>13 DEF Foreign!PushEmptyBatch, Foreign!Goto
<1>14. CASE Foreign!EmptyBatchFails
  BY <1>0, <1>14 DEF Foreign!EmptyBatchFails, Foreign!Goto
<1>15. CASE Foreign!FinishLance
  BY <1>0, <1>15 DEF Foreign!FinishLance, Foreign!Room, Foreign!Goto
<1>16. CASE Foreign!FinishVortex
  BY <1>0, <1>16 DEF Foreign!FinishVortex, Foreign!Goto
<1>17. CASE Foreign!Join
  BY <1>0, <1>17 DEF Foreign!Join, Foreign!Goto
<1>18. CASE Foreign!Destroy
  BY <1>0, <1>18 DEF Foreign!Destroy, Foreign!Return, Foreign!Goto
<1>19. CASE Foreign!WorkerStarts
  BY <1>0, <1>19 DEF Foreign!WorkerStarts, Foreign!Goto
<1>20. CASE Foreign!WorkerReceives
  BY <1>0, <1>20 DEF Foreign!WorkerReceives, Foreign!Goto
<1>21. CASE Foreign!WorkerCommits
  BY <1>0, <1>21 DEF Foreign!WorkerCommits, Foreign!Goto
<1>22. CASE Foreign!GeneratorFails
  BY <1>0, <1>22 DEF Foreign!GeneratorFails, Foreign!Fail, Foreign!Goto
<1>23. CASE Foreign!BatchRejected
  BY <1>0, <1>23 DEF Foreign!BatchRejected, Foreign!Fail, Foreign!Goto
<1>24. CASE Foreign!EmptyColumnsFail
  BY <1>0, <1>24 DEF Foreign!EmptyColumnsFail, Foreign!Return, Foreign!Goto
<1>25. CASE Foreign!WorkerFails
  BY <1>0, <1>25 DEF Foreign!WorkerFails, Foreign!Goto
<1> QED
  BY <1>1, <1>2, <1>3, <1>4, <1>5, <1>6, <1>7, <1>8, <1>9, <1>10, <1>11, <1>12, <1>13, <1>14,
    <1>15, <1>16, <1>17, <1>18, <1>19, <1>20, <1>21, <1>22, <1>23, <1>24, <1>25
  DEF Foreign!Next, Foreign!Task, Foreign!Thread, Foreign!Failure

LEMMA StepControl == ASSUME ControlTypeInv, Foreign!Next PROVE ControlTypeInv'
<1> USE DEF ControlTypeInv, Foreign!NoResult,
      Foreign!inputVars, Foreign!genVars, Foreign!writerVars, Foreign!bridgeVars,
            Foreign!workerVars, Foreign!progressVars
<1>0. format' = format
  BY InputsStay
<1>1. CASE Foreign!OpenRefused
  BY <1>0, <1>1 DEF Foreign!OpenRefused, Foreign!Goto
<1>2. CASE Foreign!OpenLance
  BY <1>0, <1>2 DEF Foreign!OpenLance, Foreign!WriterOpen, Foreign!Goto
<1>3. CASE Foreign!OpenVortex
  BY <1>0, <1>3 DEF Foreign!OpenVortex, Foreign!WriterOpen, Foreign!Goto
<1>4. CASE Foreign!BeginPartition
  BY <1>0, <1>4 DEF Foreign!BeginPartition, Foreign!Goto
<1>5. CASE Foreign!NextBatch
  BY <1>0, <1>5 DEF Foreign!NextBatch, Foreign!Goto
<1>6. CASE Foreign!EndPartition
  BY <1>0, <1>6 DEF Foreign!EndPartition, Foreign!Goto
<1>7. CASE Foreign!SendLance
  BY <1>0, <1>7 DEF Foreign!SendLance, Foreign!Room, Foreign!Goto
<1>8. CASE Foreign!SendVortex
  BY <1>0, <1>8 DEF Foreign!SendVortex, Foreign!Goto
<1>9. CASE Foreign!FlushVortex
  BY <1>0, <1>9 DEF Foreign!FlushVortex, Foreign!Goto
<1>10. CASE Foreign!PushRefused
  BY <1>0, <1>10 DEF Foreign!PushRefused, Foreign!Fail, Foreign!Goto
<1>11. CASE Foreign!CloseLance
  BY <1>0, <1>11 DEF Foreign!CloseLance, Foreign!CloseWriter, Foreign!Goto
<1>12. CASE Foreign!CloseVortex
  BY <1>0, <1>12 DEF Foreign!CloseVortex, Foreign!CloseWriter, Foreign!Goto
<1>13. CASE Foreign!PushEmptyBatch
  BY <1>0, <1>13 DEF Foreign!PushEmptyBatch, Foreign!Goto
<1>14. CASE Foreign!EmptyBatchFails
  BY <1>0, <1>14 DEF Foreign!EmptyBatchFails, Foreign!Goto
<1>15. CASE Foreign!FinishLance
  BY <1>0, <1>15 DEF Foreign!FinishLance, Foreign!Room, Foreign!Goto
<1>16. CASE Foreign!FinishVortex
  BY <1>0, <1>16 DEF Foreign!FinishVortex, Foreign!Goto
<1>17. CASE Foreign!Join
  BY <1>0, <1>17 DEF Foreign!Join, Foreign!Goto
<1>18. CASE Foreign!Destroy
  BY <1>0, <1>18 DEF Foreign!Destroy, Foreign!Return, Foreign!Goto
<1>19. CASE Foreign!WorkerStarts
  BY <1>0, <1>19 DEF Foreign!WorkerStarts, Foreign!Goto
<1>20. CASE Foreign!WorkerReceives
  BY <1>0, <1>20 DEF Foreign!WorkerReceives, Foreign!Goto
<1>21. CASE Foreign!WorkerCommits
  BY <1>0, <1>21 DEF Foreign!WorkerCommits, Foreign!Goto
<1>22. CASE Foreign!GeneratorFails
  BY <1>0, <1>22 DEF Foreign!GeneratorFails, Foreign!Fail, Foreign!Goto
<1>23. CASE Foreign!BatchRejected
  BY <1>0, <1>23 DEF Foreign!BatchRejected, Foreign!Fail, Foreign!Goto
<1>24. CASE Foreign!EmptyColumnsFail
  BY <1>0, <1>24 DEF Foreign!EmptyColumnsFail, Foreign!Return, Foreign!Goto
<1>25. CASE Foreign!WorkerFails
  BY <1>0, <1>25 DEF Foreign!WorkerFails, Foreign!Goto
<1> QED
  BY <1>1, <1>2, <1>3, <1>4, <1>5, <1>6, <1>7, <1>8, <1>9, <1>10, <1>11, <1>12, <1>13, <1>14,
    <1>15, <1>16, <1>17, <1>18, <1>19, <1>20, <1>21, <1>22, <1>23, <1>24, <1>25
  DEF Foreign!Next, Foreign!Task, Foreign!Thread, Foreign!Failure

LEMMA StepCounters == ASSUME CounterTypeInv, PlaceInv, Foreign!Next PROVE CounterTypeInv'
<1> USE ForeignAssumption DEF CounterTypeInv, Foreign!Parts,
      Foreign!inputVars, Foreign!genVars, Foreign!writerVars, Foreign!bridgeVars,
            Foreign!workerVars, Foreign!progressVars
<1>0. N \in Nat /\ batches_of' = batches_of /\ N' = N
  BY InputsStay, BatchesFinite DEF N
<1>a. f_pc = "next" =>
        f_part \in 1 .. InputParts /\ batch <= batches_of[f_part] /\ batches_of[f_part] \in 0 .. MaxBatches
  BY DEF PlaceInv, Sizes
<1>1. CASE Foreign!OpenRefused
  BY <1>0, <1>1 DEF Foreign!OpenRefused, Foreign!Goto
<1>2. CASE Foreign!OpenLance
  BY <1>0, <1>2 DEF Foreign!OpenLance, Foreign!WriterOpen, Foreign!Goto
<1>3. CASE Foreign!OpenVortex
  BY <1>0, <1>3 DEF Foreign!OpenVortex, Foreign!WriterOpen, Foreign!Goto
<1>4. CASE Foreign!BeginPartition
  BY <1>0, <1>4 DEF Foreign!BeginPartition, Foreign!Goto
<1>5. CASE Foreign!NextBatch
  BY <1>0, <1>5, <1>a DEF Foreign!NextBatch, Foreign!Goto
<1>6. CASE Foreign!EndPartition
  BY <1>0, <1>6, <1>a DEF Foreign!EndPartition, Foreign!Goto
<1>7. CASE Foreign!SendLance
  BY <1>0, <1>7, NotBeyond DEF Foreign!SendLance, Foreign!Room, Foreign!Goto
<1>8. CASE Foreign!SendVortex
  BY <1>0, <1>8 DEF Foreign!SendVortex, Foreign!Goto
<1>9. CASE Foreign!FlushVortex
  BY <1>0, <1>9, NotBeyond DEF Foreign!FlushVortex, Foreign!Goto
<1>10. CASE Foreign!PushRefused
  BY <1>0, <1>10 DEF Foreign!PushRefused, Foreign!Fail, Foreign!Goto
<1>11. CASE Foreign!CloseLance
  BY <1>0, <1>11 DEF Foreign!CloseLance, Foreign!CloseWriter, Foreign!Goto
<1>12. CASE Foreign!CloseVortex
  BY <1>0, <1>12 DEF Foreign!CloseVortex, Foreign!CloseWriter, Foreign!Goto
<1>13. CASE Foreign!PushEmptyBatch
  BY <1>0, <1>13 DEF Foreign!PushEmptyBatch, Foreign!Goto
<1>14. CASE Foreign!EmptyBatchFails
  BY <1>0, <1>14 DEF Foreign!EmptyBatchFails, Foreign!Goto
<1>15. CASE Foreign!FinishLance
  BY <1>0, <1>15 DEF Foreign!FinishLance, Foreign!Room, Foreign!Goto
<1>16. CASE Foreign!FinishVortex
  BY <1>0, <1>16 DEF Foreign!FinishVortex, Foreign!Goto
<1>17. CASE Foreign!Join
  BY <1>0, <1>17 DEF Foreign!Join, Foreign!Goto
<1>18. CASE Foreign!Destroy
  BY <1>0, <1>18 DEF Foreign!Destroy, Foreign!Return, Foreign!Goto
<1>19. CASE Foreign!WorkerStarts
  BY <1>0, <1>19 DEF Foreign!WorkerStarts, Foreign!Goto
<1>20. CASE Foreign!WorkerReceives
  BY <1>0, <1>20 DEF Foreign!WorkerReceives, Foreign!Goto
<1>21. CASE Foreign!WorkerCommits
  BY <1>0, <1>21 DEF Foreign!WorkerCommits, Foreign!Goto
<1>22. CASE Foreign!GeneratorFails
  BY <1>0, <1>22 DEF Foreign!GeneratorFails, Foreign!Fail, Foreign!Goto
<1>23. CASE Foreign!BatchRejected
  BY <1>0, <1>23 DEF Foreign!BatchRejected, Foreign!Fail, Foreign!Goto
<1>24. CASE Foreign!EmptyColumnsFail
  BY <1>0, <1>24 DEF Foreign!EmptyColumnsFail, Foreign!Return, Foreign!Goto
<1>25. CASE Foreign!WorkerFails
  BY <1>0, <1>25 DEF Foreign!WorkerFails, Foreign!Goto
<1> QED
  BY <1>1, <1>2, <1>3, <1>4, <1>5, <1>6, <1>7, <1>8, <1>9, <1>10, <1>11, <1>12, <1>13, <1>14,
    <1>15, <1>16, <1>17, <1>18, <1>19, <1>20, <1>21, <1>22, <1>23, <1>24, <1>25
  DEF Foreign!Next, Foreign!Task, Foreign!Thread, Foreign!Failure

-----------------------------------------------------------------------------
(* What is on its way to the thread *)

\* A step sends a message, takes one, or does neither.
Quiet == UNCHANGED <<f_channel, consumed>>
Sends(m) == f_channel' = Append(f_channel, m) /\ consumed' = consumed
Takes ==
  /\ f_channel # <<>> /\ Head(f_channel) # Foreign!End
  /\ f_channel' = Tail(f_channel)
  /\ consumed' = Append(consumed, Head(f_channel))

LEMMA QuietSteps ==
  ASSUME Foreign!Next
  PROVE  \/ Quiet
         \/ Foreign!SendLance \/ Foreign!SendVortex \/ Foreign!PushEmptyBatch
         \/ Foreign!FinishLance \/ Foreign!WorkerReceives
BY DEF Quiet, Foreign!Next, Foreign!Task, Foreign!Thread, Foreign!Failure, Foreign!GeneratorFails,
    Foreign!OpenRefused, Foreign!OpenLance, Foreign!OpenVortex, Foreign!BeginPartition,
    Foreign!NextBatch, Foreign!EndPartition,
    Foreign!FlushVortex, Foreign!PushRefused, Foreign!BatchRejected, Foreign!Fail,
    Foreign!CloseLance, Foreign!CloseVortex, Foreign!EmptyBatchFails,
    Foreign!EmptyColumnsFail, Foreign!FinishVortex, Foreign!Join,
    Foreign!Destroy, Foreign!WorkerStarts, Foreign!WorkerCommits,
    Foreign!WorkerFails, Foreign!bridgeVars, Foreign!workerVars

LEMMA QuietSent ==
  ASSUME Quiet
  PROVE  Total' = Total /\ \A i : At(consumed', f_channel', i) = At(consumed, f_channel, i)
BY DEF Quiet, Total

LEMMA SendsOne ==
  ASSUME QueueTypeInv, NEW m \in Messages, Sends(m)
  PROVE  /\ f_channel' \in Seq(Messages) /\ consumed' = consumed
         /\ Total \in Nat /\ Total' = Total + 1 /\ Len(f_channel') = Len(f_channel) + 1
         /\ \A i \in 1 .. Total : At(consumed', f_channel', i) = At(consumed, f_channel, i)
         /\ At(consumed', f_channel', Total + 1) = m
<1>1. f_channel \in Seq(Messages) /\ consumed \in Seq(Messages)
  BY DEF QueueTypeInv
<1>2. f_channel' = Append(f_channel, m) /\ consumed' = consumed
  BY DEF Sends
<1>3. /\ Append(f_channel, m) \in Seq(Messages) /\ Len(Append(f_channel, m)) = Len(f_channel) + 1
      /\ \A i \in 1 .. Len(consumed) + Len(f_channel) :
           At(consumed, Append(f_channel, m), i) = At(consumed, f_channel, i)
      /\ At(consumed, Append(f_channel, m), Len(consumed) + Len(f_channel) + 1) = m
  BY <1>1, AtAppend
<1>4. Total' = Total + 1 /\ Total \in Nat /\ Total = Len(consumed) + Len(f_channel)
  BY <1>1, <1>2, <1>3 DEF Total
<1> QED
  BY <1>2, <1>3, <1>4

LEMMA TakesOne ==
  ASSUME QueueTypeInv, Takes
  PROVE  /\ f_channel' \in Seq(Messages) /\ consumed' \in Seq(Messages \ {Foreign!End})
         /\ Total \in Nat /\ Total' = Total
         /\ Len(f_channel') = Len(f_channel) - 1 /\ Len(consumed') = Len(consumed) + 1
         /\ \A i \in 1 .. Total : At(consumed', f_channel', i) = At(consumed, f_channel, i)
<1>1. f_channel \in Seq(Messages) /\ consumed \in Seq(Messages) /\ f_channel # <<>>
  BY DEF QueueTypeInv, Takes
<1>2. Head(f_channel) \in Messages \ {Foreign!End}
  BY <1>1 DEF Takes
<1>3. consumed' \in Seq(Messages \ {Foreign!End})
  BY <1>2 DEF Takes, QueueTypeInv
<1> QED
  BY <1>1, <1>3, AtMove DEF Takes, Total

LEMMA StepMoves ==
  ASSUME CounterTypeInv, PlaceInv, Foreign!Next
  PROVE  Quiet \/ Takes \/ \E m \in Messages : Sends(m)
<1>1. CASE Quiet
  BY <1>1
<1>2. CASE Foreign!SendLance \/ Foreign!SendVortex
  <2>1. f_pc = "push" /\ Sends(<<f_part, batch>>)
    BY <1>2 DEF Foreign!SendLance, Foreign!SendVortex, Foreign!Goto, Foreign!workerVars, Sends
  <2> QED
    BY <2>1, NotBeyond, SameBatches DEF Messages
<1>3. CASE Foreign!PushEmptyBatch
  BY <1>3 DEF Foreign!PushEmptyBatch, Foreign!workerVars, Sends, Messages
<1>4. CASE Foreign!FinishLance
  BY <1>4 DEF Foreign!FinishLance, Foreign!workerVars, Sends, Quiet, Messages
<1>5. CASE Foreign!WorkerReceives
  BY <1>5 DEF Foreign!WorkerReceives, Takes
<1> QED
  BY <1>1, <1>2, <1>3, <1>4, <1>5, QuietSteps

LEMMA StepQueueType ==
  ASSUME CounterTypeInv, QueueTypeInv, PlaceInv, Foreign!Next
  PROVE  QueueTypeInv'
<1>1. Messages' = Messages
  BY InputsStay
<1>2. Foreign!End' = Foreign!End
  BY DEF Foreign!End
<1>3. CASE Quiet
  BY <1>1, <1>2, <1>3 DEF QueueTypeInv, Quiet
<1>4. CASE Takes
  BY <1>1, <1>2, <1>4, TakesOne DEF QueueTypeInv
<1>5. CASE \E m \in Messages : Sends(m)
  BY <1>1, <1>2, <1>5, SendsOne DEF QueueTypeInv
<1> QED
  BY <1>3, <1>4, <1>5, StepMoves

-----------------------------------------------------------------------------
(* The task's place in the table *)

LEMMA StepPlace ==
  ASSUME CounterTypeInv, PlaceInv, OutcomeInv, Foreign!Next
  PROVE  PlaceInv'
<1> USE ForeignAssumption DEF PlaceInv, Foreign!Parts,
      Foreign!inputVars, Foreign!genVars, Foreign!writerVars, Foreign!bridgeVars,
            Foreign!workerVars, Foreign!progressVars
<1>0. batches_of' = batches_of /\ N' = N
  BY InputsStay
<1>a. f_pc # "returned" => f_result \notin {0, 2}
  BY DEF OutcomeInv, Foreign!NoResult
<1>b. /\ batches_of \in Sizes /\ Count(batches_of, 1) = 0 /\ Count(batches_of, InputParts + 1) = N
      /\ f_part \in 1 .. InputParts + 1 /\ committed \in 0 .. N /\ N \in Nat
  BY CountEnds, BatchesFinite DEF CounterTypeInv, N
<1>c. f_part \in Foreign!Parts =>
        /\ Count(batches_of, f_part + 1) = Count(batches_of, f_part) + batches_of[f_part]
        /\ Count(batches_of, f_part) \in Nat /\ batches_of[f_part] \in Nat
  BY <1>b, CountNext, BeforeFinite, SMTT(30) DEF Sizes
<1>d. f_pc \in {"next", "push", "flush"} => batch \in Nat
  BY DEF CounterTypeInv
<1>1. CASE Foreign!OpenRefused
  BY <1>0, <1>a, <1>b, <1>c, <1>d, <1>1 DEF Foreign!OpenRefused, Foreign!Goto
<1>2. CASE Foreign!OpenLance
  BY <1>0, <1>a, <1>b, <1>c, <1>d, <1>2 DEF Foreign!OpenLance, Foreign!WriterOpen, Foreign!Goto
<1>3. CASE Foreign!OpenVortex
  BY <1>0, <1>a, <1>b, <1>c, <1>d, <1>3 DEF Foreign!OpenVortex, Foreign!WriterOpen, Foreign!Goto
<1>4. CASE Foreign!BeginPartition
  BY <1>0, <1>a, <1>b, <1>c, <1>d, <1>4 DEF Foreign!BeginPartition, Foreign!Goto
<1>5. CASE Foreign!NextBatch
  BY <1>0, <1>a, <1>b, <1>c, <1>d, <1>5 DEF Foreign!NextBatch, Foreign!Goto
<1>6. CASE Foreign!EndPartition
  BY <1>0, <1>a, <1>b, <1>c, <1>d, <1>6 DEF Foreign!EndPartition, Foreign!Goto
<1>7. CASE Foreign!SendLance
  BY <1>0, <1>a, <1>b, <1>c, <1>d, <1>7 DEF Foreign!SendLance, Foreign!Room, Foreign!Goto
<1>8. CASE Foreign!SendVortex
  BY <1>0, <1>a, <1>b, <1>c, <1>d, <1>8 DEF Foreign!SendVortex, Foreign!Goto
<1>9. CASE Foreign!FlushVortex
  BY <1>0, <1>a, <1>b, <1>c, <1>d, <1>9 DEF Foreign!FlushVortex, Foreign!Goto
<1>10. CASE Foreign!PushRefused
  BY <1>0, <1>a, <1>b, <1>c, <1>d, <1>10 DEF Foreign!PushRefused, Foreign!Fail, Foreign!Goto
<1>11. CASE Foreign!CloseLance
  BY <1>0, <1>a, <1>b, <1>c, <1>d, <1>11 DEF Foreign!CloseLance, Foreign!CloseWriter
<1>12. CASE Foreign!CloseVortex
  BY <1>0, <1>a, <1>b, <1>c, <1>d, <1>12 DEF Foreign!CloseVortex, Foreign!CloseWriter
<1>13. CASE Foreign!PushEmptyBatch
  BY <1>0, <1>a, <1>b, <1>c, <1>d, <1>13 DEF Foreign!PushEmptyBatch, Foreign!Goto
<1>14. CASE Foreign!EmptyBatchFails
  BY <1>0, <1>a, <1>b, <1>c, <1>d, <1>14 DEF Foreign!EmptyBatchFails, Foreign!Goto
<1>15. CASE Foreign!FinishLance
  BY <1>0, <1>a, <1>b, <1>c, <1>d, <1>15 DEF Foreign!FinishLance, Foreign!Room, Foreign!Goto
<1>16. CASE Foreign!FinishVortex
  BY <1>0, <1>a, <1>b, <1>c, <1>d, <1>16 DEF Foreign!FinishVortex, Foreign!Goto
<1>17. CASE Foreign!Join
  BY <1>0, <1>a, <1>b, <1>c, <1>d, <1>17 DEF Foreign!Join, Foreign!Goto
<1>18. CASE Foreign!Destroy
  BY <1>0, <1>a, <1>b, <1>c, <1>d, <1>18 DEF Foreign!Destroy, Foreign!Return
<1>19. CASE Foreign!WorkerStarts
  BY <1>0, <1>a, <1>b, <1>c, <1>d, <1>19 DEF Foreign!WorkerStarts
<1>20. CASE Foreign!WorkerReceives
  BY <1>0, <1>a, <1>b, <1>c, <1>d, <1>20 DEF Foreign!WorkerReceives
<1>21. CASE Foreign!WorkerCommits
  BY <1>0, <1>a, <1>b, <1>c, <1>d, <1>21 DEF Foreign!WorkerCommits
<1>22. CASE Foreign!GeneratorFails
  BY <1>0, <1>a, <1>b, <1>c, <1>d, <1>22 DEF Foreign!GeneratorFails, Foreign!Fail, Foreign!Goto
<1>23. CASE Foreign!BatchRejected
  BY <1>0, <1>a, <1>b, <1>c, <1>d, <1>23 DEF Foreign!BatchRejected, Foreign!Fail, Foreign!Goto
<1>24. CASE Foreign!EmptyColumnsFail
  BY <1>0, <1>a, <1>b, <1>c, <1>d, <1>24 DEF Foreign!EmptyColumnsFail, Foreign!Return
<1>25. CASE Foreign!WorkerFails
  BY <1>0, <1>a, <1>b, <1>c, <1>d, <1>25 DEF Foreign!WorkerFails
<1> QED
  BY <1>1, <1>2, <1>3, <1>4, <1>5, <1>6, <1>7, <1>8, <1>9, <1>10, <1>11, <1>12, <1>13, <1>14,
    <1>15, <1>16, <1>17, <1>18, <1>19, <1>20, <1>21, <1>22, <1>23, <1>24, <1>25
  DEF Foreign!Next, Foreign!Task, Foreign!Thread, Foreign!Failure

-----------------------------------------------------------------------------
(* Nothing is lost, doubled or overtaken *)

LEMMA StepStream ==
  ASSUME CounterTypeInv, QueueTypeInv, PlaceInv, WroteInv, StreamInv, Foreign!Next
  PROVE  StreamInv'
<1> USE DEF StreamInv, Sent, Foreign!inputVars, Foreign!genVars, Foreign!writerVars,
      Foreign!bridgeVars, Foreign!workerVars, Foreign!progressVars
<1>0. UNCHANGED <<format, batches_of>>
  BY InputsStay
<1>a. /\ Total \in Nat /\ committed \in Nat
      /\ Foreign!End' = Foreign!End /\ Foreign!EmptyBatch' = Foreign!EmptyBatch
  BY BatchesFinite DEF CounterTypeInv, QueueTypeInv, Total, N, Foreign!End, Foreign!EmptyBatch
<1>1. CASE Foreign!OpenRefused
  <2>1. Quiet /\ committed' = committed
    BY <1>1 DEF Quiet, Foreign!OpenRefused, Foreign!Goto
  <2> QED
    BY <1>0, <1>a, <1>1, <2>1, QuietSent DEF Foreign!OpenRefused, Foreign!Goto
<1>2. CASE Foreign!OpenLance
  <2>1. Quiet /\ committed' = committed
    BY <1>2 DEF Quiet, Foreign!OpenLance, Foreign!WriterOpen, Foreign!Goto
  <2> QED
    BY <1>0, <1>a, <1>2, <2>1, QuietSent DEF Foreign!OpenLance, Foreign!WriterOpen, Foreign!Goto
<1>3. CASE Foreign!OpenVortex
  <2>1. Quiet /\ committed' = committed
    BY <1>3 DEF Quiet, Foreign!OpenVortex, Foreign!WriterOpen, Foreign!Goto
  <2> QED
    BY <1>0, <1>a, <1>3, <2>1, QuietSent DEF Foreign!OpenVortex, Foreign!WriterOpen, Foreign!Goto
<1>4. CASE Foreign!BeginPartition
  <2>1. Quiet /\ committed' = committed
    BY <1>4 DEF Quiet, Foreign!BeginPartition, Foreign!Goto
  <2> QED
    BY <1>0, <1>a, <1>4, <2>1, QuietSent DEF Foreign!BeginPartition, Foreign!Goto
<1>5. CASE Foreign!NextBatch
  <2>1. Quiet /\ committed' = committed
    BY <1>5 DEF Quiet, Foreign!NextBatch, Foreign!Goto
  <2> QED
    BY <1>0, <1>a, <1>5, <2>1, QuietSent DEF Foreign!NextBatch, Foreign!Goto
<1>6. CASE Foreign!EndPartition
  <2>1. Quiet /\ committed' = committed
    BY <1>6 DEF Quiet, Foreign!EndPartition, Foreign!Goto
  <2> QED
    BY <1>0, <1>a, <1>6, <2>1, QuietSent DEF Foreign!EndPartition, Foreign!Goto
<1>7. CASE Foreign!SendLance
  <2>1. /\ Sends(<<f_part, batch>>) /\ committed' = committed + 1
        /\ f_pc = "push" /\ f_pc' = "next"
    BY <1>7 DEF Sends, Foreign!SendLance, Foreign!Goto
  <2>2. /\ <<f_part, batch>> \in Messages /\ <<f_part, batch>> \in BatchesOf(batches_of)
        /\ Numbered(batches_of, committed + 1) = <<f_part, batch>>
    BY <2>1, NotBeyond, SameBatches DEF Messages
  <2> QED
    BY <1>0, <1>a, <2>1, <2>2, SendsOne
<1>8. CASE Foreign!SendVortex
  <2>1. /\ Sends(<<f_part, batch>>) /\ committed' = committed /\ UNCHANGED <<f_part, batch>>
        /\ f_pc = "push" /\ f_pc' = "flush" /\ format = "vortex"
    BY <1>8 DEF Sends, Foreign!SendVortex, Foreign!Goto
  <2>2. <<f_part, batch>> \in Messages
    BY <2>1, NotBeyond, SameBatches DEF Messages
  <2> QED
    BY <1>0, <1>a, <2>1, <2>2, SendsOne
<1>9. CASE Foreign!FlushVortex
  <2>1. Quiet /\ committed' = committed + 1 /\ f_pc = "flush" /\ f_pc' = "next"
    BY <1>9 DEF Quiet, Foreign!FlushVortex, Foreign!Goto
  <2>2. /\ Total = committed + 1 /\ Sent(committed + 1) = Numbered(batches_of, committed + 1)
        /\ Sent(committed + 1) \in BatchesOf(batches_of)
    BY <2>1, NotBeyond DEF Sent
  <2> QED
    BY <1>0, <1>a, <2>1, <2>2, QuietSent
<1>10. CASE Foreign!PushRefused
  <2>1. Quiet /\ committed' = committed
    BY <1>10 DEF Quiet, Foreign!PushRefused, Foreign!Fail, Foreign!Goto
  <2> QED
    BY <1>0, <1>a, <1>10, <2>1, QuietSent DEF Foreign!PushRefused, Foreign!Fail, Foreign!Goto
<1>11. CASE Foreign!CloseLance
  <2>1. Quiet /\ committed' = committed
    BY <1>11 DEF Quiet, Foreign!CloseLance, Foreign!CloseWriter
  <2> QED
    BY <1>0, <1>a, <1>11, <2>1, QuietSent DEF Foreign!CloseLance, Foreign!CloseWriter
<1>12. CASE Foreign!CloseVortex
  <2>1. Quiet /\ committed' = committed
    BY <1>12 DEF Quiet, Foreign!CloseVortex, Foreign!CloseWriter
  <2> QED
    BY <1>0, <1>a, <1>12, <2>1, QuietSent DEF Foreign!CloseVortex, Foreign!CloseWriter
<1>13. CASE Foreign!PushEmptyBatch
  <2>1. /\ Sends(Foreign!EmptyBatch) /\ committed' = committed
        /\ f_pc = "empty" /\ f_pc' = "finish" /\ format = "vortex" /\ committed = 0
    BY <1>13 DEF Sends, Foreign!PushEmptyBatch, Foreign!Goto, WroteInv
  <2>2. Foreign!EmptyBatch \in Messages /\ Foreign!EmptyBatch' = Foreign!EmptyBatch
    BY DEF Messages, Foreign!EmptyBatch
  <2> QED
    BY <1>0, <1>a, <2>1, <2>2, SendsOne
<1>14. CASE Foreign!EmptyBatchFails
  <2>1. Quiet /\ committed' = committed
    BY <1>14 DEF Quiet, Foreign!EmptyBatchFails, Foreign!Goto
  <2> QED
    BY <1>0, <1>a, <1>14, <2>1, QuietSent DEF Foreign!EmptyBatchFails, Foreign!Goto
<1>15. CASE Foreign!FinishLance
  <2>1. /\ committed' = committed /\ f_pc = "finish" /\ f_pc' = "join" /\ format = "lance"
        /\ Sends(Foreign!End) \/ Quiet
    BY <1>15 DEF Sends, Quiet, Foreign!FinishLance, Foreign!Goto
  <2>2. Foreign!End \in Messages /\ Foreign!End' = Foreign!End
    BY DEF Messages, Foreign!End
  <2>3. Total = committed
    BY <1>0, <2>1
  <2>4. CASE Quiet
    BY <1>0, <1>a, <2>1, <2>3, <2>4, QuietSent
  <2>5. CASE Sends(Foreign!End)
    BY <1>0, <1>a, <2>1, <2>2, <2>3, <2>5, SendsOne
  <2> QED
    BY <2>1, <2>4, <2>5
<1>16. CASE Foreign!FinishVortex
  <2>1. Quiet /\ committed' = committed
    BY <1>16 DEF Quiet, Foreign!FinishVortex, Foreign!Goto
  <2> QED
    BY <1>0, <1>a, <1>16, <2>1, QuietSent DEF Foreign!FinishVortex, Foreign!Goto
<1>17. CASE Foreign!Join
  <2>1. Quiet /\ committed' = committed
    BY <1>17 DEF Quiet, Foreign!Join, Foreign!Goto
  <2> QED
    BY <1>0, <1>a, <1>17, <2>1, QuietSent DEF Foreign!Join, Foreign!Goto
<1>18. CASE Foreign!Destroy
  <2>1. Quiet /\ committed' = committed
    BY <1>18 DEF Quiet, Foreign!Destroy, Foreign!Return
  <2> QED
    BY <1>0, <1>a, <1>18, <2>1, QuietSent DEF Foreign!Destroy, Foreign!Return
<1>19. CASE Foreign!WorkerStarts
  <2>1. Quiet /\ committed' = committed
    BY <1>19 DEF Quiet, Foreign!WorkerStarts
  <2> QED
    BY <1>0, <1>a, <1>19, <2>1, QuietSent DEF Foreign!WorkerStarts
<1>20. CASE Foreign!WorkerReceives
  <2>1. Takes /\ UNCHANGED <<committed, f_pc, f_part, batch>>
    BY <1>20 DEF Takes, Foreign!WorkerReceives
  <2> QED
    BY <1>0, <1>a, <2>1, TakesOne
<1>21. CASE Foreign!WorkerCommits
  <2>1. Quiet /\ committed' = committed
    BY <1>21 DEF Quiet, Foreign!WorkerCommits
  <2> QED
    BY <1>0, <1>a, <1>21, <2>1, QuietSent DEF Foreign!WorkerCommits
<1>22. CASE Foreign!GeneratorFails
  <2>1. Quiet /\ committed' = committed
    BY <1>22 DEF Quiet, Foreign!GeneratorFails, Foreign!Fail, Foreign!Goto
  <2> QED
    BY <1>0, <1>a, <1>22, <2>1, QuietSent DEF Foreign!GeneratorFails, Foreign!Fail, Foreign!Goto
<1>23. CASE Foreign!BatchRejected
  <2>1. Quiet /\ committed' = committed
    BY <1>23 DEF Quiet, Foreign!BatchRejected, Foreign!Fail, Foreign!Goto
  <2> QED
    BY <1>0, <1>a, <1>23, <2>1, QuietSent DEF Foreign!BatchRejected, Foreign!Fail, Foreign!Goto
<1>24. CASE Foreign!EmptyColumnsFail
  <2>1. Quiet /\ committed' = committed
    BY <1>24 DEF Quiet, Foreign!EmptyColumnsFail, Foreign!Return
  <2> QED
    BY <1>0, <1>a, <1>24, <2>1, QuietSent DEF Foreign!EmptyColumnsFail, Foreign!Return
<1>25. CASE Foreign!WorkerFails
  <2>1. Quiet /\ committed' = committed
    BY <1>25 DEF Quiet, Foreign!WorkerFails
  <2> QED
    BY <1>0, <1>a, <1>25, <2>1, QuietSent DEF Foreign!WorkerFails
<1> QED
  BY <1>1, <1>2, <1>3, <1>4, <1>5, <1>6, <1>7, <1>8, <1>9, <1>10, <1>11, <1>12, <1>13, <1>14,
    <1>15, <1>16, <1>17, <1>18, <1>19, <1>20, <1>21, <1>22, <1>23, <1>24, <1>25
  DEF Foreign!Next, Foreign!Task, Foreign!Thread, Foreign!Failure

-----------------------------------------------------------------------------
(* The room of the channel *)

LEMMA StepRoom ==
  ASSUME CounterTypeInv, QueueTypeInv, PlaceInv, StreamInv, WroteInv, HandleInv, RoomInv, Foreign!Next
  PROVE  RoomInv'
<1> USE ForeignAssumption DEF RoomInv, Foreign!inputVars, Foreign!genVars, Foreign!writerVars,
      Foreign!bridgeVars, Foreign!workerVars, Foreign!progressVars
<1>0. Len(f_channel) \in Nat
  BY DEF QueueTypeInv
<1>1. CASE Foreign!SendLance
  <2>1. /\ Sends(<<f_part, batch>>) /\ worker' = worker
        /\ f_pc = "push" /\ f_pc' = "next" /\ Len(f_channel) < Capacity
    BY <1>1 DEF Sends, Foreign!SendLance, Foreign!Goto, Foreign!Room
  <2>2. <<f_part, batch>> \in Messages
    BY <2>1, NotBeyond, SameBatches DEF Messages
  <2> QED
    BY <1>0, <2>1, <2>2, SendsOne
<1>2. CASE Foreign!SendVortex
  <2>1. /\ Sends(<<f_part, batch>>) /\ f_receiver
        /\ f_pc = "push" /\ f_pc' = "flush"
    BY <1>2 DEF Sends, Foreign!SendVortex, Foreign!Goto
  <2>2. <<f_part, batch>> \in Messages
    BY <2>1, NotBeyond, SameBatches DEF Messages
  <2>3. Len(f_channel) <= Capacity
    BY <2>1 DEF HandleInv
  <2> QED
    BY <1>0, <2>1, <2>2, <2>3, SendsOne
<1>3. CASE Foreign!PushEmptyBatch
  <2>1. Sends(Foreign!EmptyBatch) /\ f_pc = "empty" /\ worker' = worker
    BY <1>3 DEF Sends, Foreign!PushEmptyBatch, Foreign!Goto
  <2>2. Foreign!EmptyBatch \in Messages
    BY DEF Messages
  <2>3. Total = 0 /\ Len(consumed) \in Nat
    BY <2>1 DEF WroteInv, StreamInv, QueueTypeInv
  <2>4. Len(f_channel) = 0
    BY <1>0, <2>3 DEF Total
  <2>5. Len(f_channel') = 1
    BY <2>1, <2>2, <2>4, SendsOne
  <2> QED
    BY <2>5
<1>4. CASE Foreign!FinishLance
  <2>1. /\ Quiet \/ (Sends(Foreign!End) /\ Len(f_channel) < Capacity)
        /\ worker' = worker /\ f_pc = "finish" /\ f_pc' = "join"
    BY <1>4 DEF Quiet, Sends, Foreign!FinishLance, Foreign!Goto, Foreign!Room, HandleInv
  <2>2. Foreign!End \in Messages
    BY DEF Messages
  <2>3. CASE Quiet
    BY <2>1, <2>3 DEF Quiet
  <2>4. CASE Sends(Foreign!End) /\ Len(f_channel) < Capacity
    BY <1>0, <2>1, <2>2, <2>4, SendsOne
  <2> QED
    BY <2>1, <2>3, <2>4
<1>5. CASE Foreign!WorkerReceives
  <2>1. Takes /\ UNCHANGED <<worker, f_pc>>
    BY <1>5 DEF Takes, Foreign!WorkerReceives
  <2> QED
    BY <1>0, <2>1, TakesOne
<1>6. CASE Foreign!FlushVortex
  BY <1>6 DEF Foreign!FlushVortex, Foreign!Goto, HandleInv
<1>7. CASE Quiet /\ ~Foreign!FlushVortex
  <2>1. worker = "err" => worker' = "err"
    BY DEF Foreign!Next, Foreign!Task, Foreign!Thread, Foreign!Failure, Foreign!GeneratorFails,
      Foreign!OpenRefused, Foreign!OpenLance, Foreign!OpenVortex, Foreign!BeginPartition,
      Foreign!NextBatch, Foreign!EndPartition, Foreign!SendLance, Foreign!SendVortex,
      Foreign!FlushVortex, Foreign!PushRefused, Foreign!BatchRejected, Foreign!Fail,
      Foreign!CloseLance, Foreign!CloseVortex, Foreign!PushEmptyBatch, Foreign!EmptyBatchFails,
      Foreign!EmptyColumnsFail, Foreign!FinishLance, Foreign!FinishVortex, Foreign!Join,
      Foreign!Destroy, Foreign!WorkerStarts, Foreign!WorkerReceives, Foreign!WorkerCommits,
      Foreign!WorkerFails, Foreign!WriterOpen, HandleInv, Foreign!Goto
  <2>2. f_pc = "flush" => f_pc' = f_pc
    BY <1>7 DEF Foreign!Next, Foreign!Task, Foreign!Thread, Foreign!Failure, Foreign!GeneratorFails,
      Foreign!OpenRefused, Foreign!OpenLance, Foreign!OpenVortex, Foreign!BeginPartition,
      Foreign!NextBatch, Foreign!EndPartition, Foreign!SendLance, Foreign!SendVortex,
      Foreign!PushRefused, Foreign!BatchRejected, Foreign!Fail, Foreign!CloseWriter,
      Foreign!CloseLance, Foreign!CloseVortex, Foreign!PushEmptyBatch, Foreign!EmptyBatchFails,
      Foreign!EmptyColumnsFail, Foreign!FinishLance, Foreign!FinishVortex, Foreign!Join,
      Foreign!Destroy, Foreign!WorkerStarts, Foreign!WorkerReceives, Foreign!WorkerCommits,
      Foreign!WorkerFails, Foreign!Goto
  <2> QED
    BY <1>7, <2>1, <2>2 DEF Quiet
<1> QED
  BY <1>1, <1>2, <1>3, <1>4, <1>5, <1>6, <1>7, QuietSteps

-----------------------------------------------------------------------------
(* What Vortex has written *)

LEMMA StepWrote ==
  ASSUME CounterTypeInv, QueueTypeInv, PlaceInv, StreamInv, WroteInv, Foreign!Next
  PROVE  WroteInv'
<1> USE DEF WroteInv, Foreign!inputVars, Foreign!genVars, Foreign!writerVars, Foreign!bridgeVars,
      Foreign!workerVars, Foreign!progressVars
<1>0. format' = format
  BY InputsStay
<1>a. committed \in Nat /\ (f_pc = "open" => committed = 0)
  BY BatchesFinite DEF CounterTypeInv, PlaceInv, N
<1>1. CASE Foreign!OpenRefused
  <2>1. Quiet
    BY <1>1 DEF Quiet, Foreign!OpenRefused, Foreign!Goto
  <2> QED
    BY <1>0, <1>a, <1>1, <2>1, QuietSent DEF Foreign!OpenRefused, Foreign!Goto
<1>2. CASE Foreign!OpenLance
  <2>1. Quiet
    BY <1>2 DEF Quiet, Foreign!OpenLance, Foreign!WriterOpen, Foreign!Goto
  <2> QED
    BY <1>0, <1>a, <1>2, <2>1, QuietSent DEF Foreign!OpenLance, Foreign!WriterOpen, Foreign!Goto
<1>3. CASE Foreign!OpenVortex
  <2>1. Quiet
    BY <1>3 DEF Quiet, Foreign!OpenVortex, Foreign!WriterOpen, Foreign!Goto
  <2> QED
    BY <1>0, <1>a, <1>3, <2>1, QuietSent DEF Foreign!OpenVortex, Foreign!WriterOpen, Foreign!Goto
<1>4. CASE Foreign!BeginPartition
  <2>1. Quiet
    BY <1>4 DEF Quiet, Foreign!BeginPartition, Foreign!Goto
  <2> QED
    BY <1>0, <1>a, <1>4, <2>1, QuietSent DEF Foreign!BeginPartition, Foreign!Goto
<1>5. CASE Foreign!NextBatch
  <2>1. Quiet
    BY <1>5 DEF Quiet, Foreign!NextBatch, Foreign!Goto
  <2> QED
    BY <1>0, <1>a, <1>5, <2>1, QuietSent DEF Foreign!NextBatch, Foreign!Goto
<1>6. CASE Foreign!EndPartition
  <2>1. Quiet
    BY <1>6 DEF Quiet, Foreign!EndPartition, Foreign!Goto
  <2> QED
    BY <1>0, <1>a, <1>6, <2>1, QuietSent DEF Foreign!EndPartition, Foreign!Goto
<1>7. CASE Foreign!SendLance
  BY <1>0, <1>7 DEF Foreign!SendLance, Foreign!Goto
<1>8. CASE Foreign!SendVortex
  BY <1>0, <1>8 DEF Foreign!SendVortex, Foreign!Goto
<1>9. CASE Foreign!FlushVortex
  <2>1. Quiet
    BY <1>9 DEF Quiet, Foreign!FlushVortex, Foreign!Goto
  <2> QED
    BY <1>0, <1>a, <1>9, <2>1, QuietSent DEF Foreign!FlushVortex, Foreign!Goto
<1>10. CASE Foreign!PushRefused
  <2>1. Quiet
    BY <1>10 DEF Quiet, Foreign!PushRefused, Foreign!Fail, Foreign!Goto
  <2> QED
    BY <1>0, <1>a, <1>10, <2>1, QuietSent DEF Foreign!PushRefused, Foreign!Fail, Foreign!Goto
<1>11. CASE Foreign!CloseLance
  <2>1. Quiet
    BY <1>11 DEF Quiet, Foreign!CloseLance, Foreign!CloseWriter
  <2> QED
    BY <1>0, <1>a, <1>11, <2>1, QuietSent DEF Foreign!CloseLance, Foreign!CloseWriter
<1>12. CASE Foreign!CloseVortex
  <2>1. Quiet
    BY <1>12 DEF Quiet, Foreign!CloseVortex, Foreign!CloseWriter
  <2> QED
    BY <1>0, <1>a, <1>12, <2>1, QuietSent DEF Foreign!CloseVortex, Foreign!CloseWriter
<1>13. CASE Foreign!PushEmptyBatch
  <2>1. /\ Sends(Foreign!EmptyBatch) /\ UNCHANGED <<committed, wrote, status>>
        /\ f_pc = "empty" /\ f_pc' = "finish"
    BY <1>13 DEF Sends, Foreign!PushEmptyBatch, Foreign!Goto
  <2>2. Foreign!EmptyBatch \in Messages /\ Total = 0
    BY <2>1 DEF Messages, StreamInv
  <2>3. Total' = 1
    BY <2>1, <2>2, SendsOne
  <2> QED
    BY <2>1, <2>3
<1>14. CASE Foreign!EmptyBatchFails
  <2>1. Quiet
    BY <1>14 DEF Quiet, Foreign!EmptyBatchFails, Foreign!Goto
  <2> QED
    BY <1>0, <1>a, <1>14, <2>1, QuietSent DEF Foreign!EmptyBatchFails, Foreign!Goto
<1>15. CASE Foreign!FinishLance
  BY <1>0, <1>15 DEF Foreign!FinishLance, Foreign!Goto
<1>16. CASE Foreign!FinishVortex
  <2>1. Quiet
    BY <1>16 DEF Quiet, Foreign!FinishVortex, Foreign!Goto
  <2> QED
    BY <1>0, <1>a, <1>16, <2>1, QuietSent DEF Foreign!FinishVortex, Foreign!Goto
<1>17. CASE Foreign!Join
  <2>1. Quiet
    BY <1>17 DEF Quiet, Foreign!Join, Foreign!Goto
  <2> QED
    BY <1>0, <1>a, <1>17, <2>1, QuietSent DEF Foreign!Join, Foreign!Goto
<1>18. CASE Foreign!Destroy
  <2>1. Quiet
    BY <1>18 DEF Quiet, Foreign!Destroy, Foreign!Return
  <2> QED
    BY <1>0, <1>a, <1>18, <2>1, QuietSent DEF Foreign!Destroy, Foreign!Return
<1>19. CASE Foreign!WorkerStarts
  <2>1. Quiet
    BY <1>19 DEF Quiet, Foreign!WorkerStarts
  <2> QED
    BY <1>0, <1>a, <1>19, <2>1, QuietSent DEF Foreign!WorkerStarts
<1>20. CASE Foreign!WorkerReceives
  <2>1. Takes /\ UNCHANGED <<committed, wrote, status, f_pc>>
    BY <1>20 DEF Takes, Foreign!WorkerReceives
  <2> QED
    BY <1>0, <1>a, <2>1, TakesOne
<1>21. CASE Foreign!WorkerCommits
  <2>1. Quiet
    BY <1>21 DEF Quiet, Foreign!WorkerCommits
  <2> QED
    BY <1>0, <1>a, <1>21, <2>1, QuietSent DEF Foreign!WorkerCommits
<1>22. CASE Foreign!GeneratorFails
  <2>1. Quiet
    BY <1>22 DEF Quiet, Foreign!GeneratorFails, Foreign!Fail, Foreign!Goto
  <2> QED
    BY <1>0, <1>a, <1>22, <2>1, QuietSent DEF Foreign!GeneratorFails, Foreign!Fail, Foreign!Goto
<1>23. CASE Foreign!BatchRejected
  <2>1. Quiet
    BY <1>23 DEF Quiet, Foreign!BatchRejected, Foreign!Fail, Foreign!Goto
  <2> QED
    BY <1>0, <1>a, <1>23, <2>1, QuietSent DEF Foreign!BatchRejected, Foreign!Fail, Foreign!Goto
<1>24. CASE Foreign!EmptyColumnsFail
  <2>1. Quiet
    BY <1>24 DEF Quiet, Foreign!EmptyColumnsFail, Foreign!Return
  <2> QED
    BY <1>0, <1>a, <1>24, <2>1, QuietSent DEF Foreign!EmptyColumnsFail, Foreign!Return
<1>25. CASE Foreign!WorkerFails
  <2>1. Quiet
    BY <1>25 DEF Quiet, Foreign!WorkerFails
  <2> QED
    BY <1>0, <1>a, <1>25, <2>1, QuietSent DEF Foreign!WorkerFails
<1> QED
  BY <1>1, <1>2, <1>3, <1>4, <1>5, <1>6, <1>7, <1>8, <1>9, <1>10, <1>11, <1>12, <1>13, <1>14,
    <1>15, <1>16, <1>17, <1>18, <1>19, <1>20, <1>21, <1>22, <1>23, <1>24, <1>25
  DEF Foreign!Next, Foreign!Task, Foreign!Thread, Foreign!Failure

-----------------------------------------------------------------------------
(* The thread and its handle *)

LEMMA TakenIsNoEnd ==
  ASSUME QueueTypeInv, CounterTypeInv, StreamInv, Total = committed + 1, f_channel = <<>>
  PROVE  Sent(Total) # Foreign!End
<1>1. Total = Len(consumed) /\ Total \in Nat \ {0} /\ committed \in Nat
  BY BatchesFinite DEF QueueTypeInv, CounterTypeInv, Total, N
<1>2. consumed[Total] # Foreign!End
  BY <1>1 DEF QueueTypeInv
<1> QED
  BY <1>1, <1>2 DEF Sent, At

LEMMA EndIsLast ==
  ASSUME ControlTypeInv, CounterTypeInv, QueueTypeInv, StreamInv, f_channel # <<>>,
        Head(f_channel) = Foreign!End
  PROVE  /\ format = "lance" /\ f_pc \in {"join", "destroy", "returned"} /\ Total = committed + 1
         /\ Len(f_channel) = 1 /\ Sent(Total) = Foreign!End
<1> DEFINE n == Len(consumed) + 1
<1>1. /\ Len(consumed) \in Nat /\ Len(f_channel) \in Nat \ {0} /\ committed \in Nat
      /\ f_channel[1] = Foreign!End
  BY BatchesFinite DEF QueueTypeInv, CounterTypeInv, N
<1>2. n \in 1 .. Total /\ Sent(n) = Foreign!End
  BY <1>1 DEF Total, Sent, At
<1>3. Foreign!End \notin BatchesOf(batches_of) /\ Foreign!End # Foreign!EmptyBatch
  BY DEF BatchesOf, Foreign!End, Foreign!EmptyBatch, Foreign!Parts
<1>4. n > committed
  BY <1>1, <1>2, <1>3 DEF StreamInv
<1>5. Total = committed + 1 /\ n = Total /\ Sent(Total) = Foreign!End
  BY <1>1, <1>2, <1>4 DEF StreamInv
<1>6. f_pc # "flush"
  <2>1. f_pc = "flush" => Sent(Total) = <<f_part, batch>> /\ f_part # 0
    BY DEF StreamInv, CounterTypeInv
  <2> QED
    BY <1>5, <2>1 DEF Foreign!End
<1>7. f_pc \in {"finish", "join", "destroy", "returned"}
  BY <1>1, <1>5, <1>6 DEF StreamInv, ControlTypeInv
<1>8. format = "lance" /\ f_pc # "finish"
  BY <1>3, <1>5, <1>7 DEF StreamInv
<1>9. Len(f_channel) = 1
  <2>1. Len(consumed) + 1 = Len(consumed) + Len(f_channel)
    BY <1>5 DEF Total
  <2>2. Len(consumed) \in Nat /\ Len(f_channel) \in Nat
    BY <1>1
  <2>3. \A a, b \in Nat : a + 1 = a + b => b = 1
    OBVIOUS
  <2> QED
    BY <2>1, <2>2, <2>3
<1> QED
  BY <1>5, <1>7, <1>8, <1>9

LEMMA StepHandle ==
  ASSUME ControlTypeInv, CounterTypeInv, QueueTypeInv, StreamInv, OutcomeInv, WroteInv, HandleInv,
        Foreign!Next
  PROVE  HandleInv'
<1> USE DEF HandleInv, Sent, Foreign!NoThreadLeft, Foreign!NoResult, Foreign!inputVars,
      Foreign!genVars, Foreign!writerVars, Foreign!bridgeVars, Foreign!workerVars, Foreign!progressVars
<1>0. format' = format /\ Foreign!End' = Foreign!End
  BY InputsStay DEF Foreign!End
<1>a. /\ f_pc = "returned" <=> f_result # -1
      /\ f_pc = "empty" => format = "vortex" /\ ~wrote
      /\ Total \in Nat /\ committed \in Nat
  BY BatchesFinite DEF OutcomeInv, WroteInv, CounterTypeInv, QueueTypeInv, Total, N
<1>1. CASE Foreign!OpenRefused
  <2>1. Quiet /\ committed' = committed
    BY <1>1 DEF Quiet, Foreign!OpenRefused, Foreign!Goto
  <2> QED
    BY <1>0, <1>a, <1>1, <2>1, QuietSent DEF Quiet, Foreign!OpenRefused, Foreign!Goto
<1>2. CASE Foreign!OpenLance
  <2>1. Quiet /\ committed' = committed
    BY <1>2 DEF Quiet, Foreign!OpenLance, Foreign!WriterOpen, Foreign!Goto
  <2> QED
    BY <1>0, <1>a, <1>2, <2>1, QuietSent DEF Quiet, Foreign!OpenLance, Foreign!WriterOpen, Foreign!Goto
<1>3. CASE Foreign!OpenVortex
  <2>1. Quiet /\ committed' = committed
    BY <1>3 DEF Quiet, Foreign!OpenVortex, Foreign!WriterOpen, Foreign!Goto
  <2> QED
    BY <1>0, <1>a, <1>3, <2>1, QuietSent DEF Quiet, Foreign!OpenVortex, Foreign!WriterOpen, Foreign!Goto
<1>4. CASE Foreign!BeginPartition
  <2>1. Quiet /\ committed' = committed
    BY <1>4 DEF Quiet, Foreign!BeginPartition, Foreign!Goto
  <2> QED
    BY <1>0, <1>a, <1>4, <2>1, QuietSent DEF Quiet, Foreign!BeginPartition, Foreign!Goto
<1>5. CASE Foreign!NextBatch
  <2>1. Quiet /\ committed' = committed
    BY <1>5 DEF Quiet, Foreign!NextBatch, Foreign!Goto
  <2> QED
    BY <1>0, <1>a, <1>5, <2>1, QuietSent DEF Quiet, Foreign!NextBatch, Foreign!Goto
<1>6. CASE Foreign!EndPartition
  <2>1. Quiet /\ committed' = committed
    BY <1>6 DEF Quiet, Foreign!EndPartition, Foreign!Goto
  <2> QED
    BY <1>0, <1>a, <1>6, <2>1, QuietSent DEF Quiet, Foreign!EndPartition, Foreign!Goto
<1>7. CASE Foreign!SendLance
  BY <1>0, <1>a, <1>7 DEF Foreign!SendLance, Foreign!Goto
<1>8. CASE Foreign!SendVortex
  BY <1>0, <1>a, <1>8 DEF Foreign!SendVortex, Foreign!Goto
<1>9. CASE Foreign!FlushVortex
  BY <1>0, <1>a, <1>9 DEF Foreign!FlushVortex, Foreign!Goto
<1>10. CASE Foreign!PushRefused
  <2>1. Quiet /\ committed' = committed
    BY <1>10 DEF Quiet, Foreign!PushRefused, Foreign!Fail, Foreign!Goto
  <2> QED
    BY <1>0, <1>a, <1>10, <2>1, QuietSent DEF Quiet, Foreign!PushRefused, Foreign!Fail, Foreign!Goto
<1>11. CASE Foreign!CloseLance
  <2>1. Quiet /\ committed' = committed
    BY <1>11 DEF Quiet, Foreign!CloseLance, Foreign!CloseWriter
  <2> QED
    BY <1>0, <1>a, <1>11, <2>1, QuietSent DEF Quiet, Foreign!CloseLance, Foreign!CloseWriter
<1>12. CASE Foreign!CloseVortex
  <2>1. Quiet /\ committed' = committed
    BY <1>12 DEF Quiet, Foreign!CloseVortex, Foreign!CloseWriter
  <2> QED
    BY <1>0, <1>a, <1>12, <2>1, QuietSent DEF Quiet, Foreign!CloseVortex, Foreign!CloseWriter
<1>13. CASE Foreign!PushEmptyBatch
  BY <1>0, <1>a, <1>13 DEF Foreign!PushEmptyBatch, Foreign!Goto
<1>14. CASE Foreign!EmptyBatchFails
  <2>1. Quiet /\ committed' = committed
    BY <1>14 DEF Quiet, Foreign!EmptyBatchFails, Foreign!Goto
  <2> QED
    BY <1>0, <1>a, <1>14, <2>1, QuietSent DEF Quiet, Foreign!EmptyBatchFails, Foreign!Goto
<1>15. CASE Foreign!FinishLance
  <2>1. /\ f_pc = "finish" /\ f_pc' = "join" /\ format = "lance" /\ sender' = FALSE
        /\ UNCHANGED <<worker, committed, f_receiver, handle, joined, dataset>>
        /\ IF f_receiver THEN Sends(Foreign!End) ELSE Quiet
    BY <1>15 DEF Sends, Quiet, Foreign!FinishLance, Foreign!Goto
  <2>2. Foreign!End \in Messages /\ Total = committed
    BY <1>0, <2>1 DEF Messages, StreamInv
  <2>3. f_receiver => Total' = committed' + 1
    BY <2>1, <2>2, SendsOne
  <2> QED
    BY <1>0, <1>a, <2>1, <2>3
<1>16. CASE Foreign!FinishVortex
  <2>1. Quiet /\ committed' = committed
    BY <1>16 DEF Quiet, Foreign!FinishVortex, Foreign!Goto
  <2> QED
    BY <1>0, <1>a, <1>16, <2>1, QuietSent DEF Quiet, Foreign!FinishVortex, Foreign!Goto
<1>17. CASE Foreign!Join
  <2>1. Quiet /\ committed' = committed
    BY <1>17 DEF Quiet, Foreign!Join, Foreign!Goto
  <2> QED
    BY <1>0, <1>a, <1>17, <2>1, QuietSent DEF Quiet, Foreign!Join, Foreign!Goto
<1>18. CASE Foreign!Destroy
  <2>1. Quiet /\ committed' = committed
    BY <1>18 DEF Quiet, Foreign!Destroy, Foreign!Return
  <2> QED
    BY <1>0, <1>a, <1>18, <2>1, QuietSent DEF Quiet, Foreign!Destroy, Foreign!Return
<1>19. CASE Foreign!WorkerStarts
  <2>1. Quiet /\ committed' = committed
    BY <1>19 DEF Quiet, Foreign!WorkerStarts
  <2> QED
    BY <1>0, <1>a, <1>19, <2>1, QuietSent DEF Quiet, Foreign!WorkerStarts
<1>20. CASE Foreign!WorkerReceives
  <2>1. Takes /\ worker = "running" /\ UNCHANGED <<committed, f_pc, worker, f_receiver, sender,
        handle, joined, dataset, wrote, f_result>>
    BY <1>20 DEF Takes, Foreign!WorkerReceives
  <2> QED
    BY <1>0, <1>a, <2>1, TakesOne
<1>21. CASE Foreign!WorkerCommits
  <2>1. /\ worker = "running" /\ worker' = "ok" /\ dataset' = "committed" /\ f_receiver' = FALSE
        /\ Quiet /\ UNCHANGED <<f_pc, handle, sender, joined, wrote, f_result, committed>>
    BY <1>21 DEF Quiet, Foreign!WorkerCommits
  <2>2. CASE f_channel # <<>> /\ Head(f_channel) = Foreign!End
    <3>1. /\ format = "lance" /\ f_pc \in {"join", "destroy", "returned"} /\ Total = committed + 1
          /\ Len(f_channel) = 1 /\ Sent(Total) = Foreign!End
      BY <2>2, EndIsLast
    <3>2. f_pc = "join"
      BY <1>a, <2>1, <3>1
    <3> QED
      BY <1>0, <1>a, <2>1, <3>1, <3>2, QuietSent DEF Quiet
  <2>3. CASE f_channel = <<>> /\ ~sender
    <3>1. f_pc = "join" \/ (f_pc = "returned" /\ format = "vortex")
      BY <1>a, <2>1, <2>3 DEF ControlTypeInv
    <3>2. format # "lance"
      BY <2>1, <2>3, <3>1, TakenIsNoEnd DEF StreamInv
    <3> QED
      BY <1>0, <1>a, <2>1, <2>3, <3>1, <3>2, QuietSent DEF Quiet, ControlTypeInv
  <2> QED
    BY <1>21, <2>2, <2>3 DEF Foreign!WorkerCommits
<1>22. CASE Foreign!GeneratorFails
  <2>1. Quiet /\ committed' = committed
    BY <1>22 DEF Quiet, Foreign!GeneratorFails, Foreign!Fail, Foreign!Goto
  <2> QED
    BY <1>0, <1>a, <1>22, <2>1, QuietSent DEF Quiet, Foreign!GeneratorFails, Foreign!Fail, Foreign!Goto
<1>23. CASE Foreign!BatchRejected
  <2>1. Quiet /\ committed' = committed
    BY <1>23 DEF Quiet, Foreign!BatchRejected, Foreign!Fail, Foreign!Goto
  <2> QED
    BY <1>0, <1>a, <1>23, <2>1, QuietSent DEF Quiet, Foreign!BatchRejected, Foreign!Fail, Foreign!Goto
<1>24. CASE Foreign!EmptyColumnsFail
  <2>1. Quiet /\ committed' = committed
    BY <1>24 DEF Quiet, Foreign!EmptyColumnsFail, Foreign!Return
  <2> QED
    BY <1>0, <1>a, <1>24, <2>1, QuietSent DEF Quiet, Foreign!EmptyColumnsFail, Foreign!Return
<1>25. CASE Foreign!WorkerFails
  <2>1. Quiet /\ committed' = committed
    BY <1>25 DEF Quiet, Foreign!WorkerFails
  <2> QED
    BY <1>0, <1>a, <1>25, <2>1, QuietSent DEF Quiet, Foreign!WorkerFails
<1> QED
  BY <1>1, <1>2, <1>3, <1>4, <1>5, <1>6, <1>7, <1>8, <1>9, <1>10, <1>11, <1>12, <1>13, <1>14,
    <1>15, <1>16, <1>17, <1>18, <1>19, <1>20, <1>21, <1>22, <1>23, <1>24, <1>25
  DEF Foreign!Next, Foreign!Task, Foreign!Thread, Foreign!Failure

-----------------------------------------------------------------------------
(* What the task returns *)

\* CloseTable has joined a thread that ended well, and nothing failed before.
LEMMA WholeAtTheEnd ==
  ASSUME StreamIInv, f_pc = "destroy", status = "ok", ~failing
  PROVE  /\ dataset = "committed" /\ ~reported
         /\ consumed = IF Foreign!Batches = {} /\ format = "vortex" THEN <<Foreign!EmptyBatch>>
                       ELSE Foreign!AllBatches
         /\ committed = Foreign!Cardinality(Foreign!Batches) /\ parts_completed = InputParts
<1>1. worker = "ok" /\ ~reported
  BY DEF StreamIInv, OutcomeInv
<1>2. dataset = "committed"
  BY <1>1 DEF StreamIInv, HandleInv
<1>3. /\ committed = N /\ f_part = InputParts + 1 /\ parts_completed = InputParts
      /\ N \in Nat /\ (N = 0 <=> Foreign!Batches = {}) /\ Foreign!Cardinality(Foreign!Batches) = N
      /\ N = Cardinality(BatchesOf(batches_of))
  BY ForeignAssumption, BatchesFinite, SameBatches DEF StreamIInv, PlaceInv, CounterTypeInv, N, Size
<1>4. Foreign!AllBatches = [n \in 1 .. N |-> Numbered(batches_of, n)]
  BY <1>3, SameNumber DEF Foreign!AllBatches
<1>5. consumed \in Seq(Messages) /\ f_channel \in Seq(Messages)
  BY DEF StreamIInv, QueueTypeInv
<1>6. \A n \in 1 .. N : At(consumed, f_channel, n) = Numbered(batches_of, n)
  BY <1>3 DEF StreamIInv, StreamInv, Sent
<1>7. ASSUME Len(consumed) = N PROVE consumed = Foreign!AllBatches
  <2>1. consumed = [n \in 1 .. N |-> consumed[n]]
    BY <1>5, <1>7
  <2>2. \A n \in 1 .. N : consumed[n] = Numbered(batches_of, n)
    BY <1>3, <1>6, <1>7 DEF At
  <2> QED
    BY <1>4, <2>1, <2>2
<1>8. CASE format = "lance"
  <2>1. Len(f_channel) = 1 /\ Total = N + 1
    BY <1>1, <1>3, <1>8 DEF StreamIInv, HandleInv
  <2>2. Len(consumed) + 1 = N + 1 /\ Len(consumed) \in Nat
    BY <1>5, <2>1 DEF Total
  <2>3. Len(consumed) = N
    BY <1>3, <2>2
  <2> QED
    BY <1>1, <1>2, <1>3, <1>7, <1>8, <2>3
<1>9. CASE format = "vortex"
  <2>1. f_channel = <<>> /\ Total = Len(consumed) /\ Total \in {N, N + 1} /\ Total \in Nat
    BY <1>1, <1>3, <1>5, <1>9 DEF StreamIInv, HandleInv, StreamInv, Total
  <2>2. CASE N = 0
    <3>1. Total = 1
      BY <1>3, <1>9, <2>2 DEF StreamIInv, WroteInv
    <3>2. Sent(Total) = Foreign!EmptyBatch
      BY <1>3, <1>9, <2>2, <3>1 DEF StreamIInv, StreamInv
    <3>3. Len(consumed) = 1 /\ consumed[1] = Foreign!EmptyBatch
      BY <2>1, <3>1, <3>2 DEF Sent, At
    <3>4. consumed = <<Foreign!EmptyBatch>>
      BY <1>5, <3>3
    <3> QED
      BY <1>1, <1>2, <1>3, <1>9, <2>2, <3>4
  <2>3. CASE N # 0
    <3>1. Total # N + 1
      BY <1>3, <1>9, <2>3 DEF StreamIInv, StreamInv
    <3>2. Len(consumed) = N
      BY <2>1, <3>1
    <3> QED
      BY <1>1, <1>2, <1>3, <1>7, <2>3, <3>2
  <2> QED
    BY <2>2, <2>3
<1> QED
  BY <1>8, <1>9 DEF StreamIInv, ControlTypeInv

AllOf(sizes) == [n \in 1 .. Size(sizes) |-> Numbered(sizes, n)]

SameTableInv ==
  /\ Foreign!AllBatches = AllOf(batches_of)
  /\ Foreign!Cardinality(Foreign!Batches) = Size(batches_of)
  /\ Foreign!Batches = BatchesOf(batches_of)

LEMMA SameTable == SameTableInv
<1>1. Foreign!Cardinality(Foreign!Batches) = Size(batches_of) /\ Foreign!Batches = BatchesOf(batches_of)
  BY SameBatches DEF N
<1> QED
  BY <1>1, SameNumber DEF SameTableInv, Foreign!AllBatches, AllOf

LEMMA TableStays ==
  ASSUME Foreign!Next
  PROVE  UNCHANGED <<Foreign!Batches, Foreign!AllBatches, Foreign!Cardinality(Foreign!Batches)>>
<1>1. SameTableInv'
  BY SameTable, PTL
<1>2. batches_of' = batches_of
  BY InputsStay
<1> QED
  BY <1>1, <1>2, SameTable DEF SameTableInv

LEMMA StepOutcome == ASSUME StreamIInv, Foreign!Next PROVE OutcomeInv'
<1> USE DEF OutcomeInv, Foreign!NoResult, Foreign!inputVars, Foreign!genVars, Foreign!writerVars,
      Foreign!bridgeVars, Foreign!workerVars, Foreign!progressVars
<1>0. format' = format /\ batches_of' = batches_of /\ f_result \in {0, 2, -1}
  BY InputsStay DEF StreamIInv, ControlTypeInv
<1>a. /\ OutcomeInv
      /\ f_result = 0 => worker \notin {"starting", "running"}
      /\ f_pc = "destroy" => worker \notin {"starting", "running"}
  BY DEF StreamIInv, HandleInv, Foreign!NoThreadLeft
<1>b. worker \in {"starting", "running"} => f_result # 0
  BY <1>a
<1>1. CASE Foreign!OpenRefused
  BY <1>0, <1>a, <1>1 DEF Foreign!OpenRefused, Foreign!Goto
<1>2. CASE Foreign!OpenLance
  BY <1>0, <1>a, <1>2 DEF Foreign!OpenLance, Foreign!WriterOpen, Foreign!Goto
<1>3. CASE Foreign!OpenVortex
  BY <1>0, <1>a, <1>3 DEF Foreign!OpenVortex, Foreign!WriterOpen, Foreign!Goto
<1>4. CASE Foreign!BeginPartition
  BY <1>0, <1>a, <1>4 DEF Foreign!BeginPartition, Foreign!Goto
<1>5. CASE Foreign!NextBatch
  BY <1>0, <1>a, <1>5 DEF Foreign!NextBatch, Foreign!Goto
<1>6. CASE Foreign!EndPartition
  BY <1>0, <1>a, <1>6 DEF Foreign!EndPartition, Foreign!Goto
<1>7. CASE Foreign!SendLance
  BY <1>0, <1>a, <1>7 DEF Foreign!SendLance, Foreign!Room, Foreign!Goto
<1>8. CASE Foreign!SendVortex
  BY <1>0, <1>a, <1>8 DEF Foreign!SendVortex, Foreign!Goto
<1>9. CASE Foreign!FlushVortex
  BY <1>0, <1>a, <1>9 DEF Foreign!FlushVortex, Foreign!Goto
<1>10. CASE Foreign!PushRefused
  BY <1>0, <1>a, <1>10 DEF Foreign!PushRefused, Foreign!Fail, Foreign!Goto
<1>11. CASE Foreign!CloseLance
  BY <1>0, <1>a, <1>11 DEF Foreign!CloseLance, Foreign!CloseWriter
<1>12. CASE Foreign!CloseVortex
  BY <1>0, <1>a, <1>12 DEF Foreign!CloseVortex, Foreign!CloseWriter
<1>13. CASE Foreign!PushEmptyBatch
  BY <1>0, <1>a, <1>13 DEF Foreign!PushEmptyBatch, Foreign!Goto
<1>14. CASE Foreign!EmptyBatchFails
  BY <1>0, <1>a, <1>14 DEF Foreign!EmptyBatchFails, Foreign!Goto
<1>15. CASE Foreign!FinishLance
  BY <1>0, <1>a, <1>15 DEF Foreign!FinishLance, Foreign!Room, Foreign!Goto
<1>16. CASE Foreign!FinishVortex
  BY <1>0, <1>a, <1>16 DEF Foreign!FinishVortex, Foreign!Goto
<1>17. CASE Foreign!Join
  BY <1>0, <1>a, <1>17 DEF Foreign!Join, Foreign!Goto
<1>18. CASE Foreign!Destroy
  <2>1. CASE status = "ok" /\ ~failing
    <3>1. f_pc = "destroy" /\ f_pc' = "returned" /\ f_result' = 0
      BY <1>18, <2>1 DEF Foreign!Destroy, Foreign!Return
    <3>2. ~reported' /\ UNCHANGED <<dataset, consumed, committed, parts_completed>>
      BY <1>18, <2>1, <3>1, WholeAtTheEnd DEF Foreign!Destroy, Foreign!Return
    <3>3. Foreign!SuccessIsComplete'
      BY <1>0, <2>1, <3>1, <3>2, WholeAtTheEnd, TableStays DEF Foreign!SuccessIsComplete,
        Foreign!EmptyBatch
    <3> QED
      BY <3>1, <3>3
  <2>2. CASE ~(status = "ok" /\ ~failing)
    <3>1. f_pc' = "returned" /\ f_result' = 2
      BY <1>18, <2>2 DEF Foreign!Destroy, Foreign!Return
    <3> QED
      BY <3>1
  <2> QED
    BY <2>1, <2>2
<1>19. CASE Foreign!WorkerStarts
  <2>1. /\ worker \in {"starting", "running"}
        /\ UNCHANGED <<f_pc, f_result, reported, failing, status>>
    BY <1>19 DEF Foreign!WorkerStarts
  <2> QED
    BY <1>a, <2>1
<1>20. CASE Foreign!WorkerReceives
  <2>1. /\ worker \in {"starting", "running"}
        /\ UNCHANGED <<f_pc, f_result, reported, failing, status>>
    BY <1>20 DEF Foreign!WorkerReceives
  <2> QED
    BY <1>a, <2>1
<1>21. CASE Foreign!WorkerCommits
  <2>1. /\ worker \in {"starting", "running"}
        /\ UNCHANGED <<f_pc, f_result, reported, failing, status>>
    BY <1>21 DEF Foreign!WorkerCommits
  <2> QED
    BY <1>a, <2>1
<1>22. CASE Foreign!GeneratorFails
  BY <1>0, <1>a, <1>22 DEF Foreign!GeneratorFails, Foreign!Fail, Foreign!Goto
<1>23. CASE Foreign!BatchRejected
  BY <1>0, <1>a, <1>23 DEF Foreign!BatchRejected, Foreign!Fail, Foreign!Goto
<1>24. CASE Foreign!EmptyColumnsFail
  BY <1>0, <1>a, <1>24 DEF Foreign!EmptyColumnsFail, Foreign!Return
<1>25. CASE Foreign!WorkerFails
  <2>1. /\ worker \in {"starting", "running"}
        /\ UNCHANGED <<f_pc, f_result, reported, failing, status>>
    BY <1>25 DEF Foreign!WorkerFails
  <2> QED
    BY <1>a, <2>1
<1> QED
  BY <1>1, <1>2, <1>3, <1>4, <1>5, <1>6, <1>7, <1>8, <1>9, <1>10, <1>11, <1>12, <1>13, <1>14,
    <1>15, <1>16, <1>17, <1>18, <1>19, <1>20, <1>21, <1>22, <1>23, <1>24, <1>25
  DEF Foreign!Next, Foreign!Task, Foreign!Thread, Foreign!Failure

-----------------------------------------------------------------------------
LEMMA InitStream == Foreign!Init => StreamIInv
<1> SUFFICES ASSUME Foreign!Init PROVE StreamIInv
  OBVIOUS
<1> USE ForeignAssumption DEF Foreign!Init, Foreign!Parts, Foreign!NoResult
<1>1. FlagTypeInv
  BY DEF FlagTypeInv
<1>2. ControlTypeInv
  BY DEF ControlTypeInv
<1>3. CounterTypeInv
  BY BatchesFinite DEF CounterTypeInv, Sizes, N
<1>4. QueueTypeInv /\ Total = 0
  BY DEF QueueTypeInv, Total
<1>5. PlaceInv /\ WroteInv
  BY DEF PlaceInv, WroteInv
<1>6. StreamInv
  BY <1>4 DEF StreamInv
<1>7. RoomInv
  BY DEF RoomInv
<1>8. HandleInv
  BY DEF HandleInv
<1>9. OutcomeInv
  BY DEF OutcomeInv
<1> QED
  BY <1>1, <1>2, <1>3, <1>4, <1>5, <1>6, <1>7, <1>8, <1>9 DEF StreamIInv

LEMMA QuietStream == ASSUME StreamIInv, UNCHANGED foreignVars PROVE StreamIInv'
<1> USE DEF foreignVars, StreamIInv
<1>0. UNCHANGED foreignVars
  OBVIOUS
<1>1. SameTableInv'
  BY SameTable, PTL
<1>2. /\ N' = N /\ Foreign!Batches' = Foreign!Batches /\ Foreign!AllBatches' = Foreign!AllBatches
      /\ Foreign!Cardinality(Foreign!Batches)' = Foreign!Cardinality(Foreign!Batches)
  BY <1>1, SameTable DEF SameTableInv, N
<1>3. FlagTypeInv' /\ ControlTypeInv'
  BY DEF FlagTypeInv, ControlTypeInv, Foreign!NoResult
<1>4. CounterTypeInv' /\ PlaceInv' /\ RoomInv'
  BY <1>2 DEF CounterTypeInv, PlaceInv, RoomInv, Foreign!Parts
<1>5. QueueTypeInv' /\ StreamInv' /\ WroteInv' /\ HandleInv'
  BY <1>2 DEF QueueTypeInv, StreamInv, WroteInv, HandleInv, Messages, Total, Sent,
    Foreign!End, Foreign!EmptyBatch, Foreign!NoThreadLeft, Foreign!NoResult
<1>6. OutcomeInv'
  BY <1>2 DEF OutcomeInv, Foreign!SuccessIsComplete, Foreign!EmptyBatch, Foreign!NoResult
<1> QED
  BY <1>3, <1>4, <1>5, <1>6

LEMMA StepStreamIInv == StreamIInv /\ [Foreign!Next]_foreignVars => StreamIInv'
<1>1. StreamIInv /\ Foreign!Next => StreamIInv'
  BY StepFlags, StepControl, StepCounters, StepQueueType, StepPlace, StepStream, StepRoom,
    StepWrote, StepHandle, StepOutcome DEF StreamIInv
<1> QED
  BY <1>1, QuietStream

-----------------------------------------------------------------------------
(* The task of a table *)

\* A step of the composition is one of each machine, or it leaves the machine alone.
LEMMA StepOfEach == [SingleFileNext]_allVars => [Next]_vars /\ [Foreign!Next]_foreignVars
<1> SUFFICES ASSUME [SingleFileNext]_allVars PROVE [Next]_vars /\ [Foreign!Next]_foreignVars
  OBVIOUS
<1>1. CASE Unsupported \/ Resolve \/ Return
  BY <1>1 DEF Unsupported, Resolve, Return
<1>2. CASE Encoding(TableTask) \/ \E w \in Workers : Encoding(Worker(w))
  BY <1>2 DEF Encoding, Next
<1>3. CASE Streaming(Foreign!Task) \/ Streaming(Foreign!Thread \/ Foreign!Failure)
  BY <1>3 DEF Streaming, Foreign!Next
<1>4. CASE UNCHANGED allVars
  BY <1>4 DEF allVars
<1> QED
  BY <1>1, <1>2, <1>3, <1>4 DEF SingleFileNext, TableThread

\* A table written by workers keeps what is proved of ParallelEncode.
THEOREM SingleFileImplementsParallelEncode == SingleFileSpec => Spec
<1>1. SingleFileInit => Init
  BY DEF SingleFileInit
<1> QED
  BY <1>1, StepOfEach, PTL DEF SingleFileSpec, Spec

LEMMA AlwaysStream == SingleFileSpec => []StreamIInv
<1>1. SingleFileInit => Foreign!Init
  BY DEF SingleFileInit
<1> QED
  BY <1>1, StepOfEach, InitStream, StepStreamIInv, PTL DEF SingleFileSpec

LEMMA AlwaysEncode == SingleFileSpec => []IInv
BY AlwaysIInv, SingleFileImplementsParallelEncode, PTL

LEMMA InitChoice == SingleFileInit => ChoiceInv
<1> SUFFICES ASSUME SingleFileInit PROVE ChoiceInv
  OBVIOUS
<1>1. cpc = "open" /\ f_pc = "open"
  BY DEF SingleFileInit, Init, Foreign!Init
<1>2. output_format = "parquet" => requested # "parallel-files"
  BY DEF SingleFileInit, ResolveSelectedWriteStrategy, SupportsStrategy
<1> QED
  BY <1>1, <1>2 DEF SingleFileInit, ChoiceInv, Strategies

\* Where Resolve goes is where the table's format is written.
LEMMA Resolved ==
  ASSUME ChoiceInv, Resolve
  PROVE  /\ requested # "parallel-files"
         /\ step' = IF output_format = "parquet" THEN "parallel-encode" ELSE "foreign-streaming"
<1>1. requested # "parallel-files"
  BY DEF Resolve, ResolveSelectedWriteStrategy
<1>2. output_format = "parquet" => OrderedExecutionModel(output_format) = "parallel-encode"
  BY DEF OrderedExecutionModel
<1>3. output_format \in {"lance", "vortex"} =>
        OrderedExecutionModel(output_format) = "foreign-streaming"
  BY DEF OrderedExecutionModel
<1> QED
  BY <1>1, <1>2, <1>3 DEF Resolve, ChoiceInv

LEMMA StepChoice == ChoiceInv /\ [SingleFileNext]_allVars => ChoiceInv'
<1> SUFFICES ASSUME ChoiceInv, [SingleFileNext]_allVars PROVE ChoiceInv'
  OBVIOUS
<1> USE DEF ChoiceInv, switchVars
<1>1. CASE Unsupported
  BY <1>1 DEF Unsupported, vars, tableVars, foreignVars
<1>2. CASE Resolve
  BY <1>2, Resolved DEF Resolve, vars, tableVars, foreignVars
<1>3. CASE Return
  BY <1>3 DEF Return, Outcome, vars, tableVars, foreignVars
<1>4. CASE Encoding(TableTask) \/ \E w \in Workers : Encoding(Worker(w))
  BY <1>4 DEF Encoding, foreignVars
<1>5. CASE Streaming(Foreign!Task) \/ Streaming(Foreign!Thread \/ Foreign!Failure)
  BY <1>5 DEF Streaming, vars, tableVars
<1>6. CASE UNCHANGED allVars
  BY <1>6 DEF allVars, vars, tableVars, foreignVars
<1> QED
  BY <1>1, <1>2, <1>3, <1>4, <1>5, <1>6 DEF SingleFileNext, TableThread

LEMMA AlwaysChoice == SingleFileSpec => []ChoiceInv
BY InitChoice, StepChoice, PTL DEF SingleFileSpec

-----------------------------------------------------------------------------
\* Type correctness of both machines and of what chooses between them; of the
\* stream: AddCommittedRows never counts more batches than the table has.
THEOREM SingleFileTypeCorrect == SingleFileSpec => []SingleFileTypeOK
<1>1. SingleFileSpec => []TypeOK
  BY SingleFileImplementsParallelEncode, TypeCorrect, PTL
<1>2. StreamIInv => Foreign!TypeOK
  <2> SUFFICES ASSUME StreamIInv PROVE Foreign!TypeOK
    OBVIOUS
  <2>1. {is_open, wrote, sender, joined, handle, failing, f_receiver, reported} \subseteq BOOLEAN
    BY DEF StreamIInv, FlagTypeInv
  <2>2. /\ f_pc \in {"open", "begin", "next", "push", "flush", "close", "empty", "finish", "join",
                     "destroy", "returned"}
        /\ worker \in {"none", "starting", "running", "ok", "err"}
        /\ dataset \in {"absent", "partial", "committed", "old"}
        /\ f_result \in {0, 2, Foreign!NoResult}
    BY DEF StreamIInv, ControlTypeInv
  <2>3. /\ f_part \in 1 .. InputParts + 1 /\ batch \in 0 .. MaxBatches
        /\ committed \in 0 .. Foreign!Cardinality(Foreign!Batches) /\ parts_completed \in 0 .. InputParts
    BY ForeignAssumption, SameBatches DEF StreamIInv, CounterTypeInv
  <2>4. /\ \A i \in DOMAIN f_channel : f_channel[i] \in Messages
        /\ \A i \in DOMAIN consumed : consumed[i] \in Messages \ {Foreign!End}
    BY DEF StreamIInv, QueueTypeInv
  <2> QED
    BY <2>1, <2>2, <2>3, <2>4 DEF Foreign!TypeOK, Messages
<1>3. ChoiceInv =>
        /\ step \in {"resolve", "parallel-encode", "foreign-streaming", "returned"}
        /\ finished \in BOOLEAN
  BY DEF ChoiceInv
<1> QED
  BY <1>1, <1>2, <1>3, AlwaysStream, AlwaysChoice, PTL DEF SingleFileTypeOK

\* A table that GenerateTableWithStrategy calls finished has its whole file, or its
\* whole Lance or Vortex dataset with every batch in partition order and no error
\* reported, and the strategy without support in the format has touched nothing.
THEOREM DatasetsAreWhole == SingleFileSpec => []DatasetIsWhole
<1>1. IInv /\ StreamIInv /\ ChoiceInv => DatasetIsWhole
  <2> SUFFICES ASSUME IInv, StreamIInv, ChoiceInv PROVE DatasetIsWhole
    OBVIOUS
  <2>1. Foreign!SuccessIsComplete
    <3>1. f_result = 0 => Foreign!SuccessIsComplete
      BY DEF StreamIInv, OutcomeInv
    <3> QED
      BY <3>1 DEF Foreign!SuccessIsComplete
  <2>2. finished => IF output_format = "parquet" THEN result = 0 ELSE f_result = 0
    BY DEF ChoiceInv
  <2>3. requested = "parallel-files" => file # "published" /\ dataset \in {"absent", "old"}
    BY DEF IInv, TaskInv, StreamIInv, HandleInv, ChoiceInv
  <2> QED
    BY <2>1, <2>2, <2>3 DEF DatasetIsWhole
<1> QED
  BY <1>1, AlwaysEncode, AlwaysStream, AlwaysChoice, PTL

\* The thread takes the batches that WriteBatch counted, in the order of the table,
\* and at most the capacity of the bridge's channel, and the batch of a Vortex push
\* that waits, are in memory between the task and the thread.
THEOREM StreamsAreBoundedPrefixes == SingleFileSpec => []BoundedPrefix
<1>1. StreamIInv => BoundedPrefix
  <2> SUFFICES ASSUME StreamIInv PROVE BoundedPrefix
    OBVIOUS
  <2>1. /\ Foreign!AllBatches = AllOf(batches_of) /\ Foreign!Cardinality(Foreign!Batches) = Size(batches_of)
        /\ N = Size(batches_of) /\ N \in Nat /\ committed \in 0 .. N
    BY SameTable, BatchesFinite DEF SameTableInv, N, StreamIInv, CounterTypeInv
  <2>2. /\ consumed \in Seq(Messages \ {Foreign!End}) /\ Len(consumed) \in Nat /\ Len(f_channel) \in Nat
        /\ DOMAIN consumed = 1 .. Len(consumed)
    BY DEF StreamIInv, QueueTypeInv
  <2>3. \A n \in 1 .. Len(consumed) : Sent(n) = consumed[n]
    BY DEF Sent, At
  <2>4. Len(consumed) <= Total /\ Total \in {committed, committed + 1}
    BY <2>2 DEF Total, StreamIInv, StreamInv
  <2>5. \A n \in 1 .. committed : Sent(n) = Numbered(batches_of, n)
    BY DEF StreamIInv, StreamInv
  <2>6. \A n \in 1 .. N : Foreign!AllBatches[n] = Numbered(batches_of, n)
    BY <2>1 DEF AllOf
  <2> DEFINE Prefix == /\ Len(consumed) <= Foreign!Cardinality(Foreign!Batches)
                       /\ \A n \in DOMAIN consumed : consumed[n] = Foreign!AllBatches[n]
  <2>7. Len(consumed) <= committed => Prefix
    BY <2>1, <2>2, <2>3, <2>5, <2>6
  <2>8. ASSUME Len(consumed) > committed PROVE Prefix \/ consumed = <<Foreign!EmptyBatch>>
    <3>1. /\ Total = committed + 1 /\ Len(consumed) = Total /\ Len(f_channel) = 0
          /\ consumed[Total] = Sent(Total)
      <4>1. \A a, b, c \in Nat : a + b \in {c, c + 1} /\ a > c => a = c + 1 /\ b = 0
        OBVIOUS
      <4>2. Len(consumed) + Len(f_channel) \in {committed, committed + 1} /\ committed \in Nat
        BY <2>1, <2>4 DEF Total
      <4>3. Len(consumed) = committed + 1 /\ Len(f_channel) = 0
        BY <2>2, <2>8, <4>1, <4>2
      <4> QED
        BY <2>1, <2>2, <2>3, <4>3 DEF Total
    <3>2. f_channel = <<>>
      BY <3>1 DEF StreamIInv, QueueTypeInv
    <3>3. Sent(Total) # Foreign!End
      BY <3>1, <3>2, TakenIsNoEnd DEF StreamIInv
    <3>4. CASE f_pc = "flush"
      <4>1. /\ Sent(Total) = <<f_part, batch>> /\ committed + 1 \in 1 .. N
            /\ Numbered(batches_of, committed + 1) = <<f_part, batch>>
        BY <3>4, NotBeyond DEF StreamIInv, StreamInv
      <4> QED
        BY <2>1, <2>2, <2>3, <2>5, <2>6, <3>1, <4>1
    <3>5. CASE f_pc # "flush"
      <4>1. committed = 0 /\ Sent(Total) = Foreign!EmptyBatch
        BY <3>1, <3>3, <3>5, <2>1 DEF StreamIInv, StreamInv, ControlTypeInv
      <4>2. Len(consumed) = 1 /\ consumed[1] = Foreign!EmptyBatch
        BY <3>1, <4>1
      <4> QED
        BY <2>2, <4>2
    <3> QED
      BY <3>4, <3>5
  <2>9. Prefix \/ consumed = <<Foreign!EmptyBatch>>
    BY <2>1, <2>2, <2>7, <2>8
  <2>10. worker # "err" => committed - Len(consumed) <= Capacity
    <3>1. committed <= Len(consumed) + Len(f_channel)
      BY <2>1, <2>2, <2>4 DEF Total
    <3>2. f_pc = "flush" => committed + 1 = Len(consumed) + Len(f_channel)
      BY DEF Total, StreamIInv, StreamInv
    <3> QED
      BY <2>1, <2>2, <3>1, <3>2, ForeignAssumption DEF StreamIInv, RoomInv
  <2>11. Len(f_channel) <= Capacity + 1
    BY DEF StreamIInv, RoomInv
  <2> QED
    BY <2>9, <2>10, <2>11 DEF BoundedPrefix, Foreign!BoundedPrefix
<1> QED
  BY <1>1, AlwaysStream, PTL

\* CloseTable has joined the writer thread, or there was none, when the task of the
\* table returns, except where the array of the empty batch cannot be allocated.
THEOREM NoThreadIsLeft == SingleFileSpec => []NoThreadLeft
<1>1. StreamIInv => NoThreadLeft
  BY DEF StreamIInv, OutcomeInv, HandleInv, NoThreadLeft, Foreign!NoThreadLeft
<1> QED
  BY <1>1, AlwaysStream, PTL

\* What is proved of ParallelEncode holds of a table that is written that way.
THEOREM FilesAreMergedWhole ==
  SingleFileSpec => [](MergedInOrder /\ PublishedIsWhole /\ EncodeErrorReported)
BY SingleFileImplementsParallelEncode, MergesInOrder, PublishesWholeOnly, ReportsEncodeErrors, PTL
=============================================================================
