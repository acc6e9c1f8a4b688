----------------------------- MODULE Program_proofs -----------------------------
(***************************************************************************)
(* The parallel partition files, alone and in the program.                 *)
(*                                                                         *)
(* Alone, for every set of workers and every number of partitions: no      *)
(* partition is generated twice, a call that returns 0 completed all of    *)
(* them, and the counter of the queue overshoots by at most one draw per   *)
(* worker.                                                                 *)
(*                                                                         *)
(* The program, with its controller, tasks and main, implements            *)
(* PartitionFiles: what is proved of the workers alone holds in it.        *)
(* Its entries, its screen and its exit code tell the truth, for any       *)
(* number of tables, workers, partitions and threads.                      *)
(***************************************************************************)
EXTENDS Program, FiniteSetTheorems, TLAPS

-----------------------------------------------------------------------------
(* The workers of PartitionFiles *)

\* What was drawn came from the counter.
DrawnInv ==
  /\ next > 0
  /\ \A w \in Workers : Holding(w) => part[w] \in Parts /\ part[w] < next
  /\ \A n \in completed \cup failed : n < next

\* stop_requested and closed_ are set by workers whose error is stored already.
StoppedInv ==
  /\ stop \/ closed => first_error = 2
  /\ \A w \in Workers : pc[w] \in {"stop", "close"} => first_error = 2

\* No failure is stored, and none is on its way to first_error.
Clean == first_error = 0 /\ \A w \in Workers : pc[w] \notin {"error", "threw"}

\* As long as no worker failed, a drawn partition is completed or in work, and
\* a worker only leaves when the counter is exhausted.
CoverInv ==
  Clean =>
    /\ \A n \in Parts : n < next => n \in completed \/ \E w \in Workers : Holding(w) /\ part[w] = n
    /\ \A w \in Workers : pc[w] \in {"done", "gotten"} => next > PartCount

\* Workers that left: the ones that drew beyond the last partition are among them.
Left == {w \in Workers : pc[w] \in {"done", "gotten"}}

OvershootInv == next <= PartCount + 1 + Cardinality(Left)

SafeInv == TypeOK /\ DrawnInv /\ NoPartTwice /\ StoppedInv /\ CoverInv

-----------------------------------------------------------------------------
LEMMA InitSafe == Init => SafeInv
<1> SUFFICES ASSUME Init PROVE SafeInv
  OBVIOUS
<1> USE PartCountAssumption DEF Init
<1>1. TypeOK
  <2>1. next \in Nat /\ first_error \in {0, 2} /\ closed \in BOOLEAN /\ stop \in BOOLEAN
    OBVIOUS
  <2>2. pc \in [Workers -> States]
    BY DEF States
  <2>3. part \in [Workers -> 0 .. PartCount]
    OBVIOUS
  <2>4. completed \subseteq Parts /\ failed \subseteq Parts
    OBVIOUS
  <2> QED
    BY <2>1, <2>2, <2>3, <2>4 DEF TypeOK
<1>2. DrawnInv
  BY DEF DrawnInv, Holding
<1>3. NoPartTwice
  BY DEF NoPartTwice, Holding
<1>4. StoppedInv /\ CoverInv
  BY DEF StoppedInv, CoverInv, Parts
<1> QED
  BY <1>1, <1>2, <1>3, <1>4 DEF SafeInv

LEMMA StepSafe == SafeInv /\ [Next]_vars => SafeInv'
<1> SUFFICES ASSUME SafeInv, [Next]_vars PROVE SafeInv'
  OBVIOUS
<1> USE PartCountAssumption DEF SafeInv, TypeOK, States, Parts, DrawnInv, NoPartTwice,
      StoppedInv, CoverInv, Clean, Holding, Goto
<1>1. ASSUME NEW w \in Workers, PopCheckClosed(w) PROVE SafeInv'
  BY <1>1 DEF PopCheckClosed
<1>2. ASSUME NEW w \in Workers, PopDraw(w) PROVE SafeInv'
  BY <1>2 DEF PopDraw
<1>3. ASSUME NEW w \in Workers, CheckStop(w) PROVE SafeInv'
  BY <1>3 DEF CheckStop
<1>4. ASSUME NEW w \in Workers, GenerateOk(w) PROVE SafeInv'
  <2>1. TypeOK'
    BY <1>4, ZenonT(30) DEF GenerateOk
  <2>2. DrawnInv'
    BY <1>4 DEF GenerateOk
  <2>3. NoPartTwice'
    BY <1>4 DEF GenerateOk
  <2>4. StoppedInv'
    BY <1>4 DEF GenerateOk
  <2>5. CoverInv'
    BY <1>4 DEF GenerateOk
  <2> QED
    BY <2>1, <2>2, <2>3, <2>4, <2>5
<1>5. ASSUME NEW w \in Workers, GenerateFails(w) PROVE SafeInv'
  <2>1. TypeOK'
    BY <1>5, ZenonT(30) DEF GenerateFails
  <2>2. DrawnInv'
    BY <1>5 DEF GenerateFails
  <2>3. NoPartTwice'
    BY <1>5 DEF GenerateFails
  <2>4. StoppedInv'
    BY <1>5 DEF GenerateFails
  <2>5. CoverInv'
    BY <1>5 DEF GenerateFails
  <2> QED
    BY <2>1, <2>2, <2>3, <2>4, <2>5
<1>6. ASSUME NEW w \in Workers, GenerateThrows(w) PROVE SafeInv'
  <2>1. TypeOK'
    BY <1>6, ZenonT(30) DEF GenerateThrows
  <2>2. DrawnInv'
    BY <1>6 DEF GenerateThrows
  <2>3. NoPartTwice'
    BY <1>6 DEF GenerateThrows
  <2>4. StoppedInv'
    BY <1>6 DEF GenerateThrows
  <2>5. CoverInv'
    BY <1>6 DEF GenerateThrows
  <2> QED
    BY <2>1, <2>2, <2>3, <2>4, <2>5
<1>7. ASSUME NEW w \in Workers, StoreError(w) PROVE SafeInv'
  BY <1>7 DEF StoreError
<1>8. ASSUME NEW w \in Workers, StoreStop(w) PROVE SafeInv'
  BY <1>8 DEF StoreStop
<1>9. ASSUME NEW w \in Workers, Close(w) PROVE SafeInv'
  BY <1>9 DEF Close
<1>10. ASSUME NEW w \in Workers, Get(w) PROVE SafeInv'
  BY <1>10 DEF Get
<1>11. CASE UNCHANGED vars
  BY <1>11 DEF vars
<1> QED
  BY <1>1, <1>2, <1>3, <1>4, <1>5, <1>6, <1>7, <1>8, <1>9, <1>10, <1>11 DEF Next, WorkerStep

LEMMA AlwaysSafe == Spec => []SafeInv
BY InitSafe, StepSafe, PTL DEF Spec

-----------------------------------------------------------------------------
\* Type correctness: every worker of RunParallelPartitionFiles is at a known
\* point, and only existing partitions are drawn, completed or failed.
THEOREM TypeCorrect == Spec => []TypeOK
<1>1. SafeInv => TypeOK
  BY DEF SafeInv
<1> QED
  BY <1>1, AlwaysSafe, PTL

\* However many workers draw from the PartitionRangeQueue, fail and stop each
\* other, no partition is in the hands of two of them or generated again.
THEOREM NoPartitionTwice == Spec => []NoPartTwice
<1>1. SafeInv => NoPartTwice
  BY DEF SafeInv
<1> QED
  BY <1>1, AlwaysSafe, PTL

\* RunParallelPartitionFiles returns 0 only when every partition has its file.
THEOREM SuccessIsEveryPartition == Spec => []SuccessIsAll
<1>1. SafeInv => SuccessIsAll
  <2> SUFFICES ASSUME SafeInv, Returned, first_error = 0 PROVE completed = Parts
    BY DEF SuccessIsAll
  <2>1. Clean
    BY DEF Clean, Returned
  <2>2. next > PartCount
    BY <2>1, WorkersAssumption DEF SafeInv, CoverInv, Returned
  <2>3. ASSUME NEW n \in Parts PROVE n \in completed
    BY <2>1, <2>2, <2>3, PartCountAssumption
    DEF SafeInv, CoverInv, TypeOK, Parts, Returned, Holding
  <2> QED
    BY <2>3 DEF SafeInv, TypeOK
<1> QED
  BY <1>1, AlwaysSafe, PTL

-----------------------------------------------------------------------------
LEMMA LeftFinite == IsFiniteSet(Left) /\ Cardinality(Left) \in Nat
                    /\ Cardinality(Left) <= Cardinality(Workers) /\ Cardinality(Workers) \in Nat
BY WorkersAssumption, FS_Subset, FS_CardinalityType DEF Left

\* Whoever leaves is counted once: Left only grows, by one worker at a time.
LEMMA LeftGrows ==
  ASSUME SafeInv, NEW w \in Workers, WorkerStep(w) \/ Get(w)
  PROVE  \/ Left' = Left
         \/ w \notin Left /\ Left' = Left \cup {w}
<1>1. /\ pc[w] \in {"done", "gotten"} => pc'[w] \in {"done", "gotten"}
      /\ \A v \in Workers : v # w => pc'[v] = pc[v]
  BY DEF SafeInv, TypeOK, WorkerStep, Goto, PopCheckClosed, PopDraw, CheckStop, GenerateOk,
         GenerateFails, GenerateThrows, StoreError, StoreStop, Close, Get
<1> QED
  BY <1>1 DEF Left

LEMMA StepOvershoot == SafeInv /\ OvershootInv /\ [Next]_vars => OvershootInv'
<1> SUFFICES ASSUME SafeInv, OvershootInv, [Next]_vars PROVE OvershootInv'
  OBVIOUS
<1> USE PartCountAssumption, LeftFinite DEF OvershootInv
<1>1. next \in Nat
  BY DEF SafeInv, TypeOK
<1>2. ASSUME NEW w \in Workers, WorkerStep(w) \/ Get(w) PROVE OvershootInv'
  <2>1. Cardinality(Left') >= Cardinality(Left) /\ Cardinality(Left') \in Nat
    <3>1. CASE Left' = Left
      BY <3>1
    <3>2. CASE w \notin Left /\ Left' = Left \cup {w}
      <4>1. Cardinality(Left') = Cardinality(Left) + 1
        BY <3>2, FS_AddElement
      <4> QED
        BY <4>1
    <3> QED
      BY <3>1, <3>2, <1>2, LeftGrows
  <2>2. CASE next' = next
    BY <2>1, <2>2, <1>1
  <2>3. CASE next' # next
    <3>1. PopDraw(w)
      BY <1>2, <2>3 DEF WorkerStep, PopCheckClosed, CheckStop, GenerateOk, GenerateFails,
                        GenerateThrows, StoreError, StoreStop, Close, Get
    <3>2. CASE next <= PartCount
      BY <2>1, <3>1, <3>2, <1>1 DEF PopDraw
    <3>3. CASE next > PartCount
      <4>1. w \notin Left /\ w \in Left'
        BY <3>1, <3>3, <1>1 DEF PopDraw, Goto, Left, SafeInv, TypeOK
      <4>2. Cardinality(Left') = Cardinality(Left) + 1
        BY <4>1, <1>2, LeftGrows, FS_AddElement
      <4> QED
        BY <4>2, <3>1, <1>1 DEF PopDraw
    <3> QED
      BY <3>2, <3>3, <1>1
  <2> QED
    BY <2>2, <2>3
<1>3. CASE UNCHANGED vars
  BY <1>3 DEF vars, Left
<1> QED
  BY <1>2, <1>3 DEF Next

\* next_ is an int32: it stays at most one draw per worker beyond part_count + 1.
THEOREM CounterNeverOverflows == Spec => []CounterBounded
<1>1. Init => OvershootInv
  BY PartCountAssumption, LeftFinite DEF Init, OvershootInv
<1>2. OvershootInv /\ SafeInv => CounterBounded
  BY PartCountAssumption, LeftFinite DEF OvershootInv, SafeInv, TypeOK, CounterBounded
<1> QED
  BY <1>1, <1>2, AlwaysSafe, StepOvershoot, PTL DEF Spec

-----------------------------------------------------------------------------
(* The program implements PartitionFiles *)

\* No step of a task does more to the partition files than the step it is made of.
LEMMA TaskStepKeepsFiles ==
  ASSUME NEW t \in Tables, TaskStep(t)
  PROVE  UNCHANGED vars
  BY DEF TaskStep, OptionsFail, TaskThrows, StartTable, FinishTable, FilesWritten,
         OrderedRows, OrderedPart, OrderedFails, OrderedGivesUp, OrderedSkips

\* The same of main and of the render thread.
LEMMA MainAndRenderKeepFiles ==
  ASSUME MainStep \/ RenderStep
  PROVE  UNCHANGED vars
  BY DEF MainStep, Collect, CollectException, Finalize, FinalizeFails, Stop, Join, RenderStep

\* A worker's step is a step of PartitionFiles, or a call of the controller.
LEMMA FilesStepIsStep ==
  ASSUME NEW w \in Workers, FilesStep(w)
  PROVE  Next \/ UNCHANGED vars
<1>1. CASE Schedules(w)
  BY <1>1 DEF Schedules, Next, WorkerStep
<1>2. CASE CommitRows(w) \/ MarkPart(w) \/ ReportPart(w) \/ ReportCleanup(w)
  BY <1>2 DEF CommitRows, MarkPart, ReportPart, ReportCleanup, Calls
<1>3. CASE PartOk(w) \/ PartFails(w) \/ PartThrows(w)
  BY <1>3 DEF PartOk, PartFails, PartThrows, Next, WorkerStep
<1> QED
  BY <1>1, <1>2, <1>3 DEF FilesStep

LEMMA ProgramStepIsStep ==
  ASSUME [ProgramNext]_programVars
  PROVE  [Next]_vars
<1>1. CASE \E t \in Tables : TaskStep(t)
  BY <1>1, TaskStepKeepsFiles
<1>2. CASE \E w \in Workers : FilesStep(w)
  BY <1>2, FilesStepIsStep
<1>3. CASE MainStep \/ RenderStep
  BY <1>3, MainAndRenderKeepFiles
<1>4. CASE UNCHANGED programVars
  BY <1>4 DEF programVars
<1> QED
  BY <1>1, <1>2, <1>3, <1>4 DEF ProgramNext

\* ProgramSpec implements the specification of PartitionFiles, its variables
\* mapped to themselves: the calls to the progress controller, the table's task
\* and main's steps leave the shared counter, the flags and the workers alone.
THEOREM ProgramImplementsPartitionFiles == ProgramSpec => Spec
<1>1. ProgramInit => Init
  BY DEF ProgramInit
<1>2. [ProgramNext]_programVars => [Next]_vars
  BY ProgramStepIsStep
<1> QED
  BY <1>1, <1>2, PTL DEF ProgramSpec, Spec

\* In the whole program no partition is generated twice, and workers that
\* returned without an error completed every partition of their table.
THEOREM ProgramWritesEveryPartOnce == ProgramSpec => [](NoPartTwice /\ SuccessIsAll)
  BY ProgramImplementsPartitionFiles, NoPartitionTwice, SuccessIsEveryPartition, PTL
-----------------------------------------------------------------------------
(* Sequences of cells *)

\* Overwriting from position c on, beyond the end if the new part is longer.
Overwrite(s, l, c) == SubSeq(s, 1, c - 1) \o l \o SubSeq(s, c + Len(l), Len(s))

LEMMA WriteAt ==
  ASSUME NEW S, NEW s \in Seq(S), NEW l \in Seq(S), NEW c \in 1 .. Len(s) + 1
  PROVE  LET r == Overwrite(s, l, c) IN
         /\ r \in Seq(S)
         /\ Len(r) = IF c + Len(l) - 1 > Len(s) THEN c + Len(l) - 1 ELSE Len(s)
         /\ \A i \in 1 .. c - 1 : r[i] = s[i]
         /\ \A i \in 1 .. Len(l) : r[c - 1 + i] = l[i]
<1> DEFINE A == SubSeq(s, 1, c - 1)
           Z == SubSeq(s, c + Len(l), Len(s))
<1>1. A \in Seq(S) /\ Len(A) = c - 1 /\ \A i \in 1 .. c - 1 : A[i] = s[i]
  OBVIOUS
<1>2. Z \in Seq(S) /\ Len(Z) = IF c + Len(l) - 1 > Len(s) THEN 0 ELSE Len(s) - (c + Len(l) - 1)
  OBVIOUS
<1>3. A \in Seq(S) /\ Z \in Seq(S)
  BY <1>1, <1>2
<1> HIDE DEF A, Z
<1>4. /\ A \o l \o Z \in Seq(S) /\ Len(A \o l \o Z) = Len(A) + Len(l) + Len(Z)
      /\ \A i \in 1 .. Len(A) : (A \o l \o Z)[i] = A[i]
      /\ \A i \in 1 .. Len(l) : (A \o l \o Z)[Len(A) + i] = l[i]
  BY <1>3
<1> DEFINE R == A \o l \o Z
<1> HIDE DEF R
<1>5. /\ R \in Seq(S) /\ Len(R) = Len(A) + Len(l) + Len(Z)
      /\ \A i \in 1 .. Len(A) : R[i] = A[i]
      /\ \A i \in 1 .. Len(l) : R[Len(A) + i] = l[i]
  BY <1>4, Zenon DEF R
<1>6. \A i \in 1 .. c - 1 : R[i] = s[i]
  BY <1>1, <1>5, Zenon
<1>7. \A i \in 1 .. Len(l) : R[c - 1 + i] = l[i]
  BY <1>1, <1>5, Zenon
<1>8. Len(R) = IF c + Len(l) - 1 > Len(s) THEN c + Len(l) - 1 ELSE Len(s)
  <2>1. Len(l) \in Nat /\ Len(s) \in Nat /\ c \in 1 .. Len(s) + 1
    OBVIOUS
  <2>2. Len(A) = c - 1
    BY <1>1
  <2>3. Len(Z) = IF c + Len(l) - 1 > Len(s) THEN 0 ELSE Len(s) - (c + Len(l) - 1)
    BY <1>2
  <2>4. Len(R) = Len(A) + Len(l) + Len(Z)
    BY <1>5
  <2>5. CASE c + Len(l) - 1 > Len(s)
    <3>1. Len(Z) = 0
      BY <2>3, <2>5
    <3>2. Len(R) = c - 1 + Len(l) + 0
      BY <2>2, <2>4, <3>1
    <3>3. c - 1 + Len(l) + 0 = c + Len(l) - 1
      BY <2>1
    <3> QED
      BY <2>5, <3>2, <3>3
  <2>6. CASE ~(c + Len(l) - 1 > Len(s))
    <3>1. Len(Z) = Len(s) - (c + Len(l) - 1)
      BY <2>3, <2>6
    <3>2. Len(R) = c - 1 + Len(l) + (Len(s) - (c + Len(l) - 1))
      BY <2>2, <2>4, <3>1
    <3>3. c - 1 + Len(l) + (Len(s) - (c + Len(l) - 1)) = Len(s)
      BY <2>1
    <3> QED
      BY <2>6, <3>2, <3>3
  <2> QED
    BY <2>5, <2>6
<1> QED
  BY <1>5, <1>6, <1>7, <1>8, Zenon DEF R, A, Z, Overwrite

-----------------------------------------------------------------------------
(* The terminal *)

Lines == [table : Tables, entry : Entry]
Cells == Lines \cup [message : Tables] \cup {Blank, Notice}
Display == [screen : Seq(Cells), cursor : Nat \ {0}, frame_drawn : BOOLEAN,
            rendered_lines : {0, TableCount}, dirty : BOOLEAN]

\* m messages and below them a frame, the cursor on the line that follows.
Framed(d, m) ==
  /\ d \in Display /\ d.frame_drawn /\ d.rendered_lines = TableCount
  /\ Len(d.screen) = m + TableCount
  /\ d.cursor = m + TableCount + 1

LEMMA TableCountIsNat == TableCount \in Nat /\ TableCount > 0
BY TableCountAssumption

LEMMA WriteCells ==
  ASSUME NEW d \in Display, NEW l \in Seq(Cells), d.cursor <= Len(d.screen) + 1
  PROVE  LET w == Write(d, l) IN
         /\ w \in Display /\ w.cursor = d.cursor + Len(l)
         /\ w.frame_drawn = d.frame_drawn /\ w.rendered_lines = d.rendered_lines
         /\ w.dirty = d.dirty
         /\ Len(w.screen) = IF d.cursor + Len(l) - 1 > Len(d.screen)
                              THEN d.cursor + Len(l) - 1 ELSE Len(d.screen)
         /\ \A i \in 1 .. d.cursor - 1 : w.screen[i] = d.screen[i]
         /\ \A i \in 1 .. Len(l) : w.screen[d.cursor - 1 + i] = l[i]
<1>1. d.screen \in Seq(Cells) /\ d.cursor \in 1 .. Len(d.screen) + 1 /\ Len(l) \in Nat
  BY DEF Display
<1> DEFINE w == Write(d, l)
           r == Overwrite(d.screen, l, d.cursor)
<1>2. /\ r \in Seq(Cells)
      /\ Len(r) = IF d.cursor + Len(l) - 1 > Len(d.screen)
                    THEN d.cursor + Len(l) - 1 ELSE Len(d.screen)
      /\ \A i \in 1 .. d.cursor - 1 : r[i] = d.screen[i]
      /\ \A i \in 1 .. Len(l) : r[d.cursor - 1 + i] = l[i]
  <2>1. ASSUME NEW q \in Seq(Cells), NEW c \in 1 .. Len(q) + 1
        PROVE  LET v == Overwrite(q, l, c) IN
               /\ v \in Seq(Cells)
               /\ Len(v) = IF c + Len(l) - 1 > Len(q) THEN c + Len(l) - 1 ELSE Len(q)
               /\ \A i \in 1 .. c - 1 : v[i] = q[i]
               /\ \A i \in 1 .. Len(l) : v[c - 1 + i] = l[i]
    BY WriteAt
  <2> QED
    BY <1>1, <2>1
<1>3. w = [d EXCEPT !.screen = r, !.cursor = @ + Len(l)]
  BY DEF Write, Overwrite
<1> HIDE DEF r, w
<1>4. /\ w.screen = r /\ w.cursor = d.cursor + Len(l) /\ w.frame_drawn = d.frame_drawn
      /\ w.rendered_lines = d.rendered_lines /\ w.dirty = d.dirty
  BY <1>3 DEF Display
<1>5. w \in Display
  <2>1. d.cursor + Len(l) \in Nat \ {0}
    BY <1>1
  <2> QED
    BY <1>2, <1>3, <2>1 DEF Display
<1> QED
  BY <1>2, <1>4, <1>5 DEF w

LEMMA UpStays ==
  ASSUME NEW d \in Display, NEW n \in Nat, n < d.cursor
  PROVE  LET u == Up(d, n) IN
         /\ u \in Display /\ u.screen = d.screen /\ u.cursor = d.cursor - n
<1>1. d.cursor - n \in Nat \ {0}
  BY DEF Display
<1> QED
  BY <1>1 DEF Up, Display

\* Lines drawn below m rows, as many as are there or more.
LEMMA DrawAt ==
  ASSUME NEW d \in Display, NEW m \in Nat, NEW l \in Seq(Cells), Len(l) >= TableCount,
         m <= Len(d.screen), Len(d.screen) <= m + Len(l),
         (IF d.frame_drawn THEN d.cursor - d.rendered_lines ELSE d.cursor) = m + 1
  PROVE  LET f == DrawLines(d, l) IN
         /\ Framed(f, m + Len(l) - TableCount) /\ ~f.dirty
         /\ \A i \in 1 .. m : f.screen[i] = d.screen[i]
         /\ \A i \in 1 .. Len(l) : f.screen[m + i] = l[i]
<1> USE TableCountIsNat
<1> DEFINE top == IF d.frame_drawn THEN Up(d, d.rendered_lines) ELSE d
           w == Write(top, l)
           f == DrawLines(d, l)
<1>0. Len(l) \in Nat
  OBVIOUS
<1>1. top \in Display /\ top.screen = d.screen /\ top.cursor = m + 1
  BY DEF Up, Display
<1>3. f = [w EXCEPT !.rendered_lines = TableCount, !.frame_drawn = TRUE, !.dirty = FALSE]
  BY DEF DrawLines
<1> HIDE DEF top
<1>4. top.cursor <= Len(top.screen) + 1
  BY <1>1 DEF Display
<1>5. /\ w \in Display /\ w.cursor = top.cursor + Len(l)
      /\ Len(top.screen) = Len(d.screen)
      /\ Len(w.screen) = IF top.cursor + Len(l) - 1 > Len(top.screen)
                           THEN top.cursor + Len(l) - 1 ELSE Len(top.screen)
      /\ \A i \in 1 .. top.cursor - 1 : w.screen[i] = top.screen[i]
      /\ \A i \in 1 .. Len(l) : w.screen[top.cursor - 1 + i] = l[i]
  BY <1>1, <1>4, WriteCells
<1> HIDE DEF w, f
<1>6. /\ f \in Display /\ f.screen = w.screen /\ f.cursor = w.cursor /\ ~f.dirty
      /\ f.frame_drawn /\ f.rendered_lines = TableCount
  BY <1>3, <1>5 DEF Display
<1>7. w.cursor = m + Len(l) + 1
  BY <1>0, <1>1, <1>5
<1>8. Len(w.screen) = m + Len(l)
  <2>1. top.cursor + Len(l) - 1 = m + Len(l) /\ Len(top.screen) \in Nat
    BY <1>0, <1>1 DEF Display
  <2>2. CASE m + Len(l) > Len(top.screen)
    BY <1>5, <2>1, <2>2
  <2>3. CASE ~(m + Len(l) > Len(top.screen))
    <3>1. Len(w.screen) = Len(top.screen)
      BY <1>5, <2>1, <2>3
    <3>2. Len(top.screen) <= m + Len(l)
      BY <1>5
    <3> QED
      BY <1>0, <2>1, <2>3, <3>1, <3>2
  <2> QED
    BY <2>2, <2>3
<1>9. \A i \in 1 .. m : w.screen[i] = d.screen[i]
  BY <1>1, <1>5
<1>10. \A i \in 1 .. Len(l) : w.screen[m + i] = l[i]
  <2> TAKE i \in 1 .. Len(l)
  <2>1. top.cursor - 1 + i = m + i
    BY <1>1
  <2> QED
    BY <1>5, <2>1
<1>11. (m + Len(l) - TableCount) + TableCount = m + Len(l)
  BY <1>0
<1> QED
  BY <1>6, <1>7, <1>8, <1>9, <1>10, <1>11 DEF Framed, f

LEMMA FrameLines ==
  ASSUME NEW es \in [Tables -> Entry]
  PROVE  /\ Frame(es) \in Seq(Cells) /\ Len(Frame(es)) = TableCount
         /\ \A t \in Tables : Frame(es)[t] = Line(t, es[t])
<1>1. \A t \in Tables : Line(t, es[t]) \in Cells
  BY DEF Line, Lines, Cells
<1> QED
  BY <1>1, TableCountIsNat DEF Tables, Frame

\* RenderFrameLocked with the first line of its frame below m rows.
LEMMA RenderAt ==
  ASSUME NEW d \in Display, NEW m \in Nat, m <= Len(d.screen), Len(d.screen) <= m + TableCount,
         (IF d.frame_drawn THEN d.cursor - d.rendered_lines ELSE d.cursor) = m + 1,
         NEW es \in [Tables -> Entry]
  PROVE  LET f == RenderFrame(d, es) IN
         /\ Framed(f, m) /\ ~f.dirty
         /\ \A i \in 1 .. m : f.screen[i] = d.screen[i]
         /\ \A t \in Tables : f.screen[m + t] = Line(t, es[t])
<1> USE TableCountIsNat
<1> DEFINE l == Frame(es)
<1>1. /\ l \in Seq(Cells) /\ Len(l) = TableCount /\ RenderFrame(d, es) = DrawLines(d, l)
      /\ \A t \in Tables : l[t] = Line(t, es[t])
  BY FrameLines DEF RenderFrame
<1> HIDE DEF l
<1>2. LET f == DrawLines(d, l) IN
      /\ Framed(f, m + Len(l) - TableCount) /\ ~f.dirty
      /\ \A i \in 1 .. m : f.screen[i] = d.screen[i]
      /\ \A i \in 1 .. Len(l) : f.screen[m + i] = l[i]
  <2>1. Len(l) >= TableCount /\ Len(d.screen) <= m + Len(l) /\ l \in Seq(Cells)
    BY <1>1
  <2> QED
    BY <2>1, DrawAt
<1>3. m + Len(l) - TableCount = m /\ Tables = 1 .. Len(l)
  BY <1>1 DEF Tables
<1> DEFINE f == DrawLines(d, l)
<1>4. /\ Framed(f, m) /\ ~f.dirty
      /\ \A i \in 1 .. m : f.screen[i] = d.screen[i]
      /\ \A t \in Tables : f.screen[m + t] = l[t]
  BY <1>2, <1>3, Zenon
<1> HIDE DEF f
<1>5. \A t \in Tables : f.screen[m + t] = Line(t, es[t])
  BY <1>1, <1>4
<1> QED
  BY <1>1, <1>4, <1>5, Zenon DEF f

\* RenderFrameLocked over the frame that is there.
LEMMA RenderFramed ==
  ASSUME NEW d, NEW m \in Nat, Framed(d, m), NEW es \in [Tables -> Entry]
  PROVE  LET f == RenderFrame(d, es) IN
         /\ Framed(f, m) /\ ~f.dirty
         /\ \A i \in 1 .. m : f.screen[i] = d.screen[i]
         /\ \A t \in Tables : f.screen[m + t] = Line(t, es[t])
<1>1. /\ d \in Display /\ m <= Len(d.screen) /\ Len(d.screen) <= m + TableCount
      /\ (IF d.frame_drawn THEN d.cursor - d.rendered_lines ELSE d.cursor) = m + 1
  BY TableCountIsNat DEF Framed
<1> HIDE DEF Framed
<1> QED
  BY <1>1, RenderAt

\* WriteFailureMessage: the message and below it a new frame.
LEMMA MessageAt ==
  ASSUME NEW d, NEW m \in Nat, Framed(d, m), NEW es \in [Tables -> Entry], NEW t \in Tables
  PROVE  LET f == WriteFailureMessage(d, es, t) IN
         /\ Framed(f, m + 1) /\ ~f.dirty
         /\ \A i \in 1 .. m : f.screen[i] = d.screen[i]
         /\ f.screen[m + 1] = Message(t)
         /\ \A u \in Tables : f.screen[m + 1 + u] = Line(u, es[u])
<1> USE TableCountIsNat
<1> DEFINE top == Up(d, d.rendered_lines)
           blanks == [i \in 1 .. d.rendered_lines |-> Blank]
           wiped == Write(top, blanks)
           c == Up(wiped, d.rendered_lines)
           told == Write(c, <<Message(t)>>)
           e == [told EXCEPT !.frame_drawn = FALSE, !.rendered_lines = 0]
           f == RenderFrame(e, es)
<1>0. f = WriteFailureMessage(d, es, t)
  BY DEF WriteFailureMessage, ClearFrame, Framed
<1>1. top \in Display /\ top.screen = d.screen /\ top.cursor = m + 1
  <2>1. d \in Display /\ d.rendered_lines = TableCount /\ d.cursor = m + TableCount + 1
    BY DEF Framed
  <2>2. d.rendered_lines \in Nat /\ d.rendered_lines < d.cursor
    BY <2>1
  <2>3. top \in Display /\ top.screen = d.screen /\ top.cursor = d.cursor - d.rendered_lines
    BY <2>1, <2>2, UpStays
  <2> HIDE DEF top
  <2> QED
    BY <2>1, <2>3
<1>2. blanks \in Seq(Cells) /\ Len(blanks) = TableCount
  <2>1. Blank \in Cells
    BY DEF Cells
  <2> QED
    BY <2>1 DEF Framed
<1>3. Len(d.screen) = m + TableCount /\ top.cursor <= Len(top.screen) + 1
  BY <1>1 DEF Framed
<1> HIDE DEF top, blanks
<1>4. /\ wiped \in Display /\ wiped.cursor = m + TableCount + 1
      /\ Len(wiped.screen) = m + TableCount
      /\ \A i \in 1 .. m : wiped.screen[i] = d.screen[i]
  <2>1. /\ wiped \in Display /\ wiped.cursor = top.cursor + Len(blanks)
        /\ Len(wiped.screen) = IF top.cursor + Len(blanks) - 1 > Len(top.screen)
                                 THEN top.cursor + Len(blanks) - 1 ELSE Len(top.screen)
        /\ \A i \in 1 .. top.cursor - 1 : wiped.screen[i] = top.screen[i]
    BY <1>1, <1>2, <1>3, WriteCells
  <2> HIDE DEF wiped
  <2>2. wiped.cursor = m + TableCount + 1
    BY <1>1, <1>2, <2>1
  <2>3. ~(top.cursor + Len(blanks) - 1 > Len(top.screen))
    BY <1>1, <1>2, <1>3
  <2>4. Len(wiped.screen) = m + TableCount
    BY <1>1, <1>3, <2>1, <2>3
  <2>5. \A i \in 1 .. m : wiped.screen[i] = d.screen[i]
    BY <1>1, <2>1
  <2> QED
    BY <2>1, <2>2, <2>4, <2>5
<1> HIDE DEF wiped
<1>5. c \in Display /\ c.screen = wiped.screen /\ c.cursor = m + 1
  <2>1. d.rendered_lines = TableCount
    BY DEF Framed
  <2>2. d.rendered_lines \in Nat /\ d.rendered_lines < wiped.cursor
    BY <1>4, <2>1
  <2>3. c \in Display /\ c.screen = wiped.screen /\ c.cursor = wiped.cursor - d.rendered_lines
    BY <1>4, <2>2, UpStays
  <2> HIDE DEF c
  <2> QED
    BY <1>4, <2>1, <2>3
<1> HIDE DEF c
<1>6. <<Message(t)>> \in Seq(Cells) /\ Len(<<Message(t)>>) = 1
  <2>1. Message(t) \in Cells
    BY DEF Message, Cells
  <2> QED
    BY <2>1
<1>7. /\ told \in Display /\ told.cursor = m + 2
      /\ Len(told.screen) = m + TableCount
      /\ \A i \in 1 .. m : told.screen[i] = d.screen[i]
      /\ told.screen[m + 1] = Message(t)
  <2>1. c.cursor <= Len(c.screen) + 1
    BY <1>4, <1>5
  <2>2. /\ told \in Display /\ told.cursor = c.cursor + Len(<<Message(t)>>)
        /\ Len(told.screen) = IF c.cursor + Len(<<Message(t)>>) - 1 > Len(c.screen)
                                THEN c.cursor + Len(<<Message(t)>>) - 1 ELSE Len(c.screen)
        /\ \A i \in 1 .. c.cursor - 1 : told.screen[i] = c.screen[i]
        /\ \A i \in 1 .. Len(<<Message(t)>>) :
             told.screen[c.cursor - 1 + i] = <<Message(t)>>[i]
    BY <1>5, <1>6, <2>1, WriteCells
  <2> HIDE DEF told
  <2>3. ~(c.cursor + Len(<<Message(t)>>) - 1 > Len(c.screen))
    BY <1>4, <1>5, <1>6
  <2>4. Len(told.screen) = m + TableCount
    BY <1>4, <1>5, <2>2, <2>3
  <2>5. told.screen[m + 1] = Message(t)
    <3>1. 1 \in 1 .. Len(<<Message(t)>>) /\ c.cursor - 1 + 1 = m + 1
      BY <1>5, <1>6
    <3>2. told.screen[c.cursor - 1 + 1] = <<Message(t)>>[1]
      BY <2>2, <3>1
    <3> QED
      BY <3>1, <3>2
  <2>6. \A i \in 1 .. m : told.screen[i] = d.screen[i]
    BY <1>4, <1>5, <2>2
  <2>7. told.cursor = m + 2
    BY <1>5, <1>6, <2>2
  <2> QED
    BY <2>2, <2>4, <2>5, <2>6, <2>7
<1> HIDE DEF told
<1>8. e \in Display /\ e.screen = told.screen /\ e.cursor = m + 2 /\ ~e.frame_drawn
  BY <1>7 DEF Display
<1> HIDE DEF e
<1>9. /\ m + 1 <= Len(e.screen) /\ Len(e.screen) <= m + 1 + TableCount
      /\ (IF e.frame_drawn THEN e.cursor - e.rendered_lines ELSE e.cursor) = m + 1 + 1
  BY <1>7, <1>8
<1>10. /\ Framed(f, m + 1) /\ ~f.dirty
       /\ \A i \in 1 .. m + 1 : f.screen[i] = e.screen[i]
       /\ \A u \in Tables : f.screen[m + 1 + u] = Line(u, es[u])
  BY <1>8, <1>9, RenderAt
<1> HIDE DEF f
<1>11. f.screen[m + 1] = Message(t) /\ \A i \in 1 .. m : f.screen[i] = d.screen[i]
  <2>1. m + 1 \in 1 .. m + 1 /\ \A i \in 1 .. m : i \in 1 .. m + 1
    OBVIOUS
  <2>2. f.screen[m + 1] = e.screen[m + 1] /\ \A i \in 1 .. m : f.screen[i] = e.screen[i]
    BY <1>10, <2>1
  <2> QED
    BY <1>7, <1>8, <2>2
<1> QED
  BY <1>0, <1>10, <1>11

\* A line of another writer, below the frame or inside the one being drawn: the
\* frame that comes next begins one row lower.
LEMMA NoticeAt ==
  ASSUME NEW d, NEW m \in Nat, Framed(d, m), NEW es \in [Tables -> Entry],
         NEW k \in 0 .. TableCount - 1,
         NEW f, f = Write(d, <<Notice>>) \/ f = FrameAround(d, es, k)
  PROVE  Framed(f, m + 1) /\ \A i \in 1 .. m : f.screen[i] = d.screen[i]
<1> USE TableCountIsNat
<1>1. <<Notice>> \in Seq(Cells) /\ Len(<<Notice>>) = 1
  BY DEF Cells
<1>2. CASE f = Write(d, <<Notice>>)
  <2>1. /\ d \in Display /\ d.cursor = m + TableCount + 1 /\ Len(d.screen) = m + TableCount
        /\ d.frame_drawn /\ d.rendered_lines = TableCount
    BY DEF Framed
  <2>2. d.cursor <= Len(d.screen) + 1
    BY <2>1
  <2> DEFINE l == <<Notice>>
  <2>3. l \in Seq(Cells) /\ Len(l) = 1 /\ f = Write(d, l)
    BY <1>1, <1>2
  <2> HIDE DEF l
  <2>3a. /\ f \in Display /\ f.cursor = d.cursor + Len(l)
         /\ f.frame_drawn = d.frame_drawn /\ f.rendered_lines = d.rendered_lines
         /\ Len(f.screen) = IF d.cursor + Len(l) - 1 > Len(d.screen)
                              THEN d.cursor + Len(l) - 1 ELSE Len(d.screen)
         /\ \A i \in 1 .. d.cursor - 1 : f.screen[i] = d.screen[i]
    BY <2>1, <2>2, <2>3, WriteCells
  <2>4. \A i \in 1 .. m : i \in 1 .. d.cursor - 1
    BY <2>1
  <2>5. Len(f.screen) = m + 1 + TableCount /\ f.cursor = m + 1 + TableCount + 1
    BY <2>1, <2>3, <2>3a
  <2> QED
    BY <2>1, <2>3a, <2>4, <2>5 DEF Framed
<1>3. CASE f = FrameAround(d, es, k)
  <2> DEFINE a == SubSeq(Frame(es), 1, k)
             z == SubSeq(Frame(es), k + 1, TableCount)
             l == a \o <<Notice>> \o z
  <2>1. /\ a \in Seq(Cells) /\ Len(a) = k
        /\ z \in Seq(Cells) /\ Len(z) = TableCount - k
    BY FrameLines
  <2>2. f = DrawLines(d, l)
    BY <1>3 DEF FrameAround
  <2> HIDE DEF a, z
  <2>3. l \in Seq(Cells) /\ Len(l) = TableCount + 1
    BY <1>1, <2>1
  <2> HIDE DEF l
  <2>4. /\ d \in Display /\ Len(l) >= TableCount /\ m <= Len(d.screen)
        /\ Len(d.screen) <= m + Len(l)
        /\ (IF d.frame_drawn THEN d.cursor - d.rendered_lines ELSE d.cursor) = m + 1
    BY <2>3 DEF Framed
  <2>5. /\ Framed(f, m + Len(l) - TableCount)
        /\ \A i \in 1 .. m : f.screen[i] = d.screen[i]
    BY <2>2, <2>3, <2>4, DrawAt
  <2>6. m + Len(l) - TableCount = m + 1
    BY <2>3
  <2> QED
    BY <2>5, <2>6
<1> QED
  BY <1>2, <1>3

-----------------------------------------------------------------------------
(* The calls of the controller *)

\* What the calls that are not ReportFailure do, when they do anything.
Updates(t) ==
  \E entry \in Entry, force, immediate \in BOOLEAN :
    /\ Update(t, entry, force, immediate)
    /\ Status(t) # "Failed"
    /\ entry.status \in {"Running", "Done"}
    /\ entry.status = "Done" => force

CliCall ==
  \/ UNCHANGED cliVars
  \/ \E t \in Tables : Updates(t) \/ ReportFailure(t)
  \/ RequestStop \/ LastFrame \/ RenderLoop

\* A call, or the line of main that is none.
CliStep == CliCall \/ ForeignLine

\* The controller's own types, and what is on the screen above and in the frame.
CliTypeInv ==
  /\ interactive_tty \in BOOLEAN
  /\ entries \in [Tables -> Entry]
  /\ stop_requested \in BOOLEAN
  /\ reported \in Seq(Tables)
  /\ display \in Display
  /\ appended \in [Tables -> Lines \cup {NoLine}]

ScreenInv ==
  interactive_tty =>
    /\ Framed(display, Len(reported))
    /\ \A i \in 1 .. Len(reported) : display.screen[i] = Message(reported[i])
    /\ \A t \in Tables : \E e \in Entry : display.screen[Len(reported) + t] = Line(t, e)

\* The frame is up to date.
FrameShows == \A t \in Tables : Shown(t) = Line(t, entries[t])

\* The render thread is there on a terminal, and ends only when it must.
ThreadInv ==
  /\ render_thread \in {"none", "test", "asleep", "ended"}
  /\ render_thread = "none" <=> ~interactive_tty
  /\ render_thread = "ended" => stop_requested

\* What the frame does not show yet is about to be drawn.
RenderInv ==
  interactive_tty /\ ~stop_requested =>
    FrameShows \/ (display.dirty /\ render_thread = "test")

\* The end of a table is always written to the log.
AppendInv ==
  ~interactive_tty =>
    \A t \in Tables : Status(t) \in {"Done", "Failed"} => appended[t] = Line(t, entries[t])

\* A table is failed because a failure of it was reported, and remains so.
FailedInv ==
  \A t \in Tables : Status(t) = "Failed" <=> \E i \in 1 .. Len(reported) : reported[i] = t

CliInv == CliTypeInv /\ ThreadInv /\ AppendInv /\ FailedInv

\* After the line of main the frame is one row further down.
NoticeInv ==
  interactive_tty =>
    /\ Framed(display, Len(reported) + 1)
    /\ \A i \in 1 .. Len(reported) : display.screen[i] = Message(reported[i])

SightInv == IF NoticeWritten THEN NoticeInv ELSE ScreenInv /\ RenderInv

LEMMA EntryFields ==
  ASSUME NEW e \in Entry
  PROVE  /\ e.status \in Statuses /\ e.rows_written \in 0 .. MaxRows
         /\ e.part_count \in Nat /\ e.completed_parts \in Nat
BY DEF Entry

\* The four calls of the tasks and workers are updates of an entry.
LEMMA CallsUpdate ==
  ASSUME CliTypeInv, NEW t \in Tables, NEW n \in Nat,
         \/ MarkTableStarted(t, n) \/ AddCommittedRows(t, n)
         \/ MarkPartCompleted(t) \/ MarkTableFinished(t)
  PROVE  UNCHANGED cliVars \/ Updates(t)
<1>0. entries[t] \in Entry /\ MaxRows \in Nat
  BY MaxRowsAssumption DEF CliTypeInv
<1>1. CASE MarkTableStarted(t, n)
  <2> DEFINE e == [entries[t] EXCEPT !.part_count = n, !.status = "Running"]
  <2>1. e \in Entry /\ e.status = "Running"
    BY <1>0 DEF Entry, Statuses
  <2>2. CASE Status(t) = "Failed"
    BY <1>1, <2>2 DEF MarkTableStarted
  <2>3. CASE Status(t) # "Failed"
    <3>1. Update(t, e, TRUE, FALSE)
      BY <1>1, <2>3 DEF MarkTableStarted
    <3> HIDE DEF e
    <3> QED
      BY <2>1, <2>3, <3>1 DEF Updates
  <2> QED
    BY <2>2, <2>3
<1>2. CASE AddCommittedRows(t, n)
  <2> DEFINE rows == IF MaxRows - entries[t].rows_written < n THEN MaxRows
                     ELSE entries[t].rows_written + n
             e == [entries[t] EXCEPT !.status = "Running", !.rows_written = rows]
  <2>1. rows \in 0 .. MaxRows
    BY <1>0, EntryFields
  <2>2. e \in Entry /\ e.status = "Running"
    <3> HIDE DEF rows
    <3> QED
      BY <1>0, <2>1 DEF Entry, Statuses
  <2>3. CASE n = 0 \/ Status(t) \in {"Failed", "Done"}
    BY <1>2, <2>3 DEF AddCommittedRows
  <2>4. CASE ~(n = 0 \/ Status(t) \in {"Failed", "Done"})
    <3>1. Update(t, e, FALSE, FALSE)
      BY <1>2, <2>4 DEF AddCommittedRows
    <3> HIDE DEF e
    <3> QED
      BY <2>2, <2>4, <3>1 DEF Updates
  <2> QED
    BY <2>3, <2>4
<1>3. CASE MarkPartCompleted(t)
  <2> DEFINE count == entries[t].completed_parts + 1
             bound == entries[t].part_count
             parts == IF bound \in 1 .. count THEN bound ELSE count
             e == [entries[t] EXCEPT !.status = "Running", !.completed_parts = parts]
  <2>1. parts \in Nat
    BY <1>0, EntryFields
  <2>2. e \in Entry /\ e.status = "Running"
    <3> HIDE DEF parts
    <3> QED
      BY <1>0, <2>1 DEF Entry, Statuses
  <2>3. CASE Status(t) \in {"Failed", "Done"}
    BY <1>3, <2>3 DEF MarkPartCompleted
  <2>4. CASE ~(Status(t) \in {"Failed", "Done"})
    <3>1. Update(t, e, FALSE, FALSE)
      BY <1>3, <2>4 DEF MarkPartCompleted
    <3> HIDE DEF e
    <3> QED
      BY <2>2, <2>4, <3>1 DEF Updates
  <2> QED
    BY <2>3, <2>4
<1>4. CASE MarkTableFinished(t)
  <2> DEFINE parts == IF entries[t].part_count > 0 THEN entries[t].part_count
                      ELSE entries[t].completed_parts
             e == [entries[t] EXCEPT !.status = "Done", !.completed_parts = parts]
  <2>1. parts \in Nat
    BY <1>0, EntryFields
  <2>2. e \in Entry /\ e.status = "Done"
    <3> HIDE DEF parts
    <3> QED
      BY <1>0, <2>1 DEF Entry, Statuses
  <2>3. CASE Status(t) = "Failed"
    BY <1>4, <2>3 DEF MarkTableFinished
  <2>4. CASE Status(t) # "Failed"
    <3>1. Update(t, e, TRUE, TRUE)
      BY <1>4, <2>4 DEF MarkTableFinished
    <3> HIDE DEF e
    <3> QED
      BY <2>2, <2>4, <3>1 DEF Updates
  <2> QED
    BY <2>3, <2>4
<1> QED
  BY <1>1, <1>2, <1>3, <1>4

\* What a call does to the terminal: nothing, a new frame, a message and a new
\* frame, or the mark that the frame is out of date.
LEMMA Drawn ==
  ASSUME CliTypeInv, ThreadInv, CliCall
  PROVE  /\ interactive_tty' = interactive_tty
         /\ \/ display' = display /\ reported' = reported
            \/ /\ display' = [display EXCEPT !.dirty = TRUE]
               /\ interactive_tty /\ reported' = reported
            \/ /\ display' = RenderFrame(display, entries')
               /\ interactive_tty /\ reported' = reported
            \/ \E t \in Tables :
                 /\ reported' = Append(reported, t)
                 /\ display' = IF interactive_tty THEN WriteFailureMessage(display, entries', t)
                               ELSE display
<1>1. CASE \E t \in Tables : Updates(t)
  BY <1>1 DEF Updates, Update, RequestRender
<1>2. CASE \E t \in Tables : ReportFailure(t)
  BY <1>2 DEF ReportFailure
<1>3. CASE RequestStop \/ UNCHANGED cliVars
  BY <1>3 DEF RequestStop, cliVars
<1>4. CASE LastFrame
  <2>1. entries' = entries /\ reported' = reported /\ interactive_tty' = interactive_tty
    BY <1>4 DEF LastFrame
  <2>2. display' = display \/ (interactive_tty /\ display' = RenderFrame(display, entries))
    BY <1>4 DEF LastFrame
  <2> QED
    BY <2>1, <2>2
<1>5. CASE RenderLoop
  <2>1. entries' = entries /\ reported' = reported /\ interactive_tty' = interactive_tty
    BY <1>5 DEF RenderLoop
  <2>2. display' = display \/ display' = RenderFrame(display, entries)
    BY <1>5 DEF RenderLoop
  <2>3. interactive_tty
    BY <1>5 DEF RenderLoop, ThreadInv, CliTypeInv
  <2> QED
    BY <2>1, <2>2, <2>3
<1> QED
  BY <1>1, <1>2, <1>3, <1>4, <1>5 DEF CliCall

LEMMA EntriesStep ==
  ASSUME CliTypeInv, CliStep
  PROVE  entries' \in [Tables -> Entry]
<1>1. CASE \E t \in Tables : Updates(t)
  BY <1>1 DEF Updates, Update, CliTypeInv
<1>2. CASE \E t \in Tables : ReportFailure(t)
  <2>1. PICK t \in Tables : entries' = [entries EXCEPT ![t].status = "Failed"]
    BY <1>2 DEF ReportFailure
  <2>2. [entries[t] EXCEPT !.status = "Failed"] \in Entry
    BY DEF CliTypeInv, Entry, Statuses
  <2>3. entries' = [entries EXCEPT ![t] = [entries[t] EXCEPT !.status = "Failed"]]
    BY <2>1 DEF CliTypeInv
  <2> QED
    BY <2>2, <2>3 DEF CliTypeInv
<1>3. CASE RequestStop \/ LastFrame \/ RenderLoop \/ ForeignLine \/ UNCHANGED cliVars
  BY <1>3 DEF RequestStop, LastFrame, RenderLoop, ForeignLine, cliVars, CliTypeInv
<1> QED
  BY <1>1, <1>2, <1>3 DEF CliStep, CliCall

LEMMA StepScreen ==
  CliTypeInv /\ ThreadInv /\ ScreenInv /\ CliCall =>
    /\ reported' \in Seq(Tables) /\ display' \in Display
    /\ ScreenInv'
<1> SUFFICES ASSUME CliTypeInv, ThreadInv, ScreenInv, CliCall
             PROVE  reported' \in Seq(Tables) /\ display' \in Display /\ ScreenInv'
  OBVIOUS
<1> DEFINE m == Len(reported)
<1>0. /\ reported \in Seq(Tables) /\ display \in Display /\ m \in Nat
      /\ entries' \in [Tables -> Entry] /\ interactive_tty' = interactive_tty
  BY EntriesStep, Drawn DEF CliTypeInv, CliStep
<1>1. CASE display' = display /\ reported' = reported
  BY <1>0, <1>1 DEF ScreenInv, Framed
<1>2. CASE display' = [display EXCEPT !.dirty = TRUE] /\ reported' = reported
  <2>1. /\ display' \in Display /\ display'.screen = display.screen
        /\ display'.cursor = display.cursor /\ display'.frame_drawn = display.frame_drawn
        /\ display'.rendered_lines = display.rendered_lines
    BY <1>0, <1>2 DEF Display
  <2> QED
    BY <1>0, <1>2, <2>1 DEF ScreenInv, Framed
<1>3. CASE /\ display' = RenderFrame(display, entries')
           /\ interactive_tty /\ reported' = reported
  <2>1. Framed(display, m)
    BY <1>3 DEF ScreenInv
  <2>2. /\ Framed(display', m)
        /\ \A i \in 1 .. m : display'.screen[i] = display.screen[i]
        /\ \A t \in Tables : display'.screen[m + t] = Line(t, entries'[t])
    BY <1>0, <1>3, <2>1, RenderFramed
  <2>3. \A i \in 1 .. m : display'.screen[i] = Message(reported'[i])
    BY <1>3, <2>2 DEF ScreenInv
  <2>4. \A t \in Tables : \E e \in Entry : display'.screen[m + t] = Line(t, e)
    BY <1>0, <2>2
  <2>5. display' \in Display
    BY <2>2 DEF Framed
  <2> QED
    BY <1>0, <1>3, <2>2, <2>3, <2>4, <2>5 DEF ScreenInv
<1>4. ASSUME NEW t \in Tables, reported' = Append(reported, t),
             display' = IF interactive_tty THEN WriteFailureMessage(display, entries', t)
                        ELSE display
      PROVE  reported' \in Seq(Tables) /\ display' \in Display /\ ScreenInv'
  <2>1. /\ reported' \in Seq(Tables) /\ Len(reported') = m + 1 /\ reported'[m + 1] = t
        /\ \A i \in 1 .. m : reported'[i] = reported[i]
    BY <1>0, <1>4
  <2>2. CASE ~interactive_tty
    BY <1>0, <1>4, <2>1, <2>2 DEF ScreenInv
  <2>3. CASE interactive_tty
    <3>1. Framed(display, m) /\ display' = WriteFailureMessage(display, entries', t)
      BY <1>4, <2>3 DEF ScreenInv
    <3>2. /\ Framed(display', m + 1)
          /\ \A i \in 1 .. m : display'.screen[i] = display.screen[i]
          /\ display'.screen[m + 1] = Message(t)
          /\ \A u \in Tables : display'.screen[m + 1 + u] = Line(u, entries'[u])
      <4>1. ASSUME NEW es \in [Tables -> Entry]
            PROVE  LET f == WriteFailureMessage(display, es, t) IN
                   /\ Framed(f, m + 1)
                   /\ \A i \in 1 .. m : f.screen[i] = display.screen[i]
                   /\ f.screen[m + 1] = Message(t)
                   /\ \A u \in Tables : f.screen[m + 1 + u] = Line(u, es[u])
        <5> HIDE DEF m
        <5>1. Framed(display, m) /\ m \in Nat
          BY <1>0, <3>1
        <5> QED
          BY <5>1, MessageAt
      <4> QED
        BY <1>0, <3>1, <4>1, Zenon
    <3>3. ASSUME NEW i \in 1 .. m + 1 PROVE display'.screen[i] = Message(reported'[i])
      <4>1. CASE i = m + 1
        BY <2>1, <3>2, <4>1
      <4>2. CASE i # m + 1
        <5>1. i \in 1 .. m
          BY <1>0, <4>2
        <5> QED
          BY <2>1, <2>3, <3>2, <5>1 DEF ScreenInv
      <4> QED
        BY <4>1, <4>2
    <3>4. \A u \in Tables : \E e \in Entry : display'.screen[m + 1 + u] = Line(u, e)
      BY <1>0, <3>2
    <3>5. display' \in Display
      BY <3>2 DEF Framed
    <3> QED
      BY <2>1, <3>2, <3>3, <3>4, <3>5 DEF ScreenInv
  <2> QED
    BY <2>2, <2>3
<1> QED
  BY <1>1, <1>2, <1>3, <1>4, Drawn

\* The line a call appends is one of the table it was made for.
LEMMA AppendedStep ==
  ASSUME CliTypeInv, CliStep
  PROVE  appended' \in [Tables -> Lines \cup {NoLine}]
<1>0. /\ entries' \in [Tables -> Entry] /\ appended \in [Tables -> Lines \cup {NoLine}]
      /\ \A t \in Tables : Line(t, entries'[t]) \in Lines
  BY EntriesStep DEF CliTypeInv, Line, Lines
<1>1. ASSUME NEW t \in Tables, NEW force \in BOOLEAN, MaybeEmitAppendOnly(t, force)
      PROVE  appended' \in [Tables -> Lines \cup {NoLine}]
  <2> DEFINE emitted == [appended EXCEPT ![t] = Line(t, entries'[t])]
  <2>1. appended' = appended \/ appended' = emitted
    BY <1>1 DEF MaybeEmitAppendOnly
  <2> QED
    BY <1>0, <2>1
<1>2. CASE \E t \in Tables : Updates(t)
  BY <1>1, <1>2 DEF Updates, Update
<1>3. CASE \E t \in Tables : ReportFailure(t)
  BY <1>1, <1>3 DEF ReportFailure
<1>4. CASE RequestStop \/ LastFrame \/ RenderLoop \/ ForeignLine \/ UNCHANGED cliVars
  BY <1>0, <1>4 DEF RequestStop, LastFrame, RenderLoop, ForeignLine, cliVars
<1> QED
  BY <1>2, <1>3, <1>4 DEF CliStep, CliCall

LEMMA StepThread == CliTypeInv /\ ThreadInv /\ CliStep => ThreadInv' /\ stop_requested' \in BOOLEAN
<1> SUFFICES ASSUME CliTypeInv, ThreadInv, CliStep
             PROVE  ThreadInv' /\ stop_requested' \in BOOLEAN
  OBVIOUS
<1> USE DEF ThreadInv, Notify
<1>0. stop_requested \in BOOLEAN
  BY DEF CliTypeInv
<1>1. CASE \E t \in Tables : Updates(t)
  BY <1>0, <1>1 DEF Updates, Update, RequestRender
<1>2. CASE \E t \in Tables : ReportFailure(t)
  BY <1>0, <1>2 DEF ReportFailure
<1>3. CASE RequestStop
  BY <1>3 DEF RequestStop
<1>4. CASE LastFrame \/ UNCHANGED cliVars
  BY <1>0, <1>4 DEF LastFrame, cliVars
<1>5. CASE RenderLoop
  BY <1>0, <1>5 DEF RenderLoop
<1>6. CASE ForeignLine
  BY <1>0, <1>6 DEF ForeignLine
<1> QED
  BY <1>1, <1>2, <1>3, <1>4, <1>5, <1>6 DEF CliStep, CliCall

\* A frame that was drawn in a call shows the entries as the call left them.
LEMMA FrameAfter ==
  ASSUME CliTypeInv, ThreadInv, ScreenInv, CliCall, interactive_tty,
         \/ display' = RenderFrame(display, entries') /\ reported' = reported
         \/ \E t \in Tables : /\ reported' = Append(reported, t)
                              /\ display' = WriteFailureMessage(display, entries', t)
  PROVE  FrameShows'
<1> DEFINE m == Len(reported)
<1>0. /\ reported \in Seq(Tables) /\ m \in Nat /\ Framed(display, m)
      /\ entries' \in [Tables -> Entry]
  BY EntriesStep DEF CliTypeInv, ScreenInv, CliStep
<1>1. CASE display' = RenderFrame(display, entries') /\ reported' = reported
  <2>1. /\ \A t \in Tables : display'.screen[m + t] = Line(t, entries'[t])
        /\ Framed(display', m)
    BY <1>0, <1>1, RenderFramed
  <2>2. Len(display'.screen) - TableCount = m
    BY <1>0, <2>1, TableCountIsNat DEF Framed
  <2> QED
    BY <2>1, <2>2 DEF FrameShows, Shown
<1>2. ASSUME NEW t \in Tables, reported' = Append(reported, t),
             display' = WriteFailureMessage(display, entries', t)
      PROVE  FrameShows'
  <2>1. ASSUME NEW es \in [Tables -> Entry]
        PROVE  LET f == WriteFailureMessage(display, es, t) IN
               Framed(f, m + 1) /\ \A u \in Tables : f.screen[m + 1 + u] = Line(u, es[u])
    <3> HIDE DEF m
    <3>1. Framed(display, m) /\ m \in Nat
      BY <1>0
    <3> QED
      BY <3>1, MessageAt
  <2>2. /\ Framed(display', m + 1)
        /\ \A u \in Tables : display'.screen[m + 1 + u] = Line(u, entries'[u])
    BY <1>0, <1>2, <2>1, Zenon
  <2>3. Len(display'.screen) - TableCount = m + 1
    BY <1>0, <2>2, TableCountIsNat DEF Framed
  <2> QED
    BY <2>2, <2>3 DEF FrameShows, Shown
<1> QED
  BY <1>1, <1>2

LEMMA StepRender == CliTypeInv /\ ThreadInv /\ ScreenInv /\ RenderInv /\ CliCall => RenderInv'
<1> SUFFICES ASSUME CliTypeInv, ThreadInv, ScreenInv, RenderInv, CliCall,
                    interactive_tty', ~stop_requested'
             PROVE  FrameShows' \/ (display'.dirty /\ render_thread' = "test")
  BY DEF RenderInv
<1>0. interactive_tty /\ display \in Display
  BY Drawn DEF CliTypeInv
<1>1. CASE \E t \in Tables : Updates(t)
  <2>1. stop_requested' = stop_requested /\ reported' = reported
    BY <1>1 DEF Updates, Update
  <2>2. PICK immediate \in BOOLEAN : RequestRender(immediate)
    BY <1>1 DEF Updates, Update
  <2>3. CASE immediate
    BY <1>0, <2>1, <2>2, <2>3, FrameAfter DEF RequestRender
  <2>4. CASE ~immediate
    <3>1. display' = [display EXCEPT !.dirty = TRUE] /\ Notify
      BY <1>0, <2>2, <2>4 DEF RequestRender
    <3>2. display'.dirty
      BY <1>0, <3>1 DEF Display
    <3>3. render_thread' = "test"
      BY <1>0, <2>1, <3>1 DEF Notify, ThreadInv
    <3> QED
      BY <3>2, <3>3
  <2> QED
    BY <2>3, <2>4
<1>2. CASE \E t \in Tables : ReportFailure(t)
  <2>1. \E t \in Tables : /\ reported' = Append(reported, t)
                          /\ display' = WriteFailureMessage(display, entries', t)
    BY <1>0, <1>2 DEF ReportFailure
  <2> QED
    BY <1>0, <2>1, FrameAfter
<1>3. CASE RequestStop
  BY <1>3 DEF RequestStop
<1>4. CASE LastFrame
  <2>1. display' = RenderFrame(display, entries') /\ reported' = reported
    BY <1>0, <1>4 DEF LastFrame
  <2> QED
    BY <1>0, <2>1, FrameAfter
<1>5. CASE RenderLoop
  <2>1. ~stop_requested /\ reported' = reported /\ entries' = entries
    BY <1>5 DEF RenderLoop
  <2>2. CASE display.dirty
    <3>1. display' = RenderFrame(display, entries')
      BY <1>5, <2>1, <2>2 DEF RenderLoop
    <3> QED
      BY <1>0, <2>1, <3>1, FrameAfter
  <2>3. CASE ~display.dirty
    <3>1. display' = display
      BY <1>5, <2>1, <2>3 DEF RenderLoop
    <3>2. FrameShows
      BY <1>0, <2>1, <2>3 DEF RenderInv
    <3> QED
      BY <2>1, <3>1, <3>2 DEF FrameShows, Shown
  <2> QED
    BY <2>2, <2>3
<1>6. CASE UNCHANGED cliVars
  BY <1>0, <1>6 DEF cliVars, RenderInv, FrameShows, Shown
<1> QED
  BY <1>1, <1>2, <1>3, <1>4, <1>5, <1>6 DEF CliCall

\* What a call does to the entry of its table, and to no other.
LEMMA EntryStep ==
  ASSUME CliTypeInv, NEW t \in Tables, Updates(t) \/ ReportFailure(t)
  PROVE  /\ \A u \in Tables : u # t => entries'[u] = entries[u] /\ appended'[u] = appended[u]
         /\ Updates(t) => /\ Status(t) # "Failed" /\ reported' = reported
                          /\ entries'[t].status \in {"Running", "Done"}
         /\ ReportFailure(t) => entries'[t].status = "Failed" /\ reported' = Append(reported, t)
         /\ ~interactive_tty /\ entries'[t].status \in {"Done", "Failed"} =>
              appended'[t] = Line(t, entries'[t])
<1> USE DEF CliTypeInv
<1>1. ASSUME NEW force \in BOOLEAN, MaybeEmitAppendOnly(t, force)
      PROVE  /\ \A u \in Tables : u # t => appended'[u] = appended[u]
             /\ ~interactive_tty /\ force => appended'[t] = Line(t, entries'[t])
  <2> DEFINE emitted == [appended EXCEPT ![t] = Line(t, entries'[t])]
  <2>1. appended' = appended \/ appended' = emitted
    BY <1>1 DEF MaybeEmitAppendOnly
  <2>2. ~interactive_tty /\ force => appended' = emitted
    BY <1>1 DEF MaybeEmitAppendOnly
  <2> QED
    BY <2>1, <2>2
<1>2. CASE Updates(t)
  <2>1. PICK entry \in Entry, force \in BOOLEAN :
          /\ entries' = [entries EXCEPT ![t] = entry]
          /\ MaybeEmitAppendOnly(t, force)
          /\ reported' = reported /\ Status(t) # "Failed"
          /\ entry.status \in {"Running", "Done"} /\ (entry.status = "Done" => force)
    BY <1>2 DEF Updates, Update
  <2>2. entries'[t] = entry /\ \A u \in Tables : u # t => entries'[u] = entries[u]
    BY <2>1
  <2>3. ~ReportFailure(t)
    <3>1. ReportFailure(t) => entries'[t].status = "Failed"
      BY DEF ReportFailure, Entry
    <3> QED
      BY <2>1, <2>2, <3>1
  <2> QED
    BY <1>1, <2>1, <2>2, <2>3
<1>3. CASE ReportFailure(t)
  <2>1. /\ entries' = [entries EXCEPT ![t].status = "Failed"]
        /\ MaybeEmitAppendOnly(t, TRUE) /\ reported' = Append(reported, t)
    BY <1>3 DEF ReportFailure
  <2>2. entries'[t].status = "Failed" /\ \A u \in Tables : u # t => entries'[u] = entries[u]
    BY <2>1 DEF Entry
  <2>3. ~Updates(t)
    BY <2>2 DEF Updates, Update
  <2> QED
    BY <1>1, <2>1, <2>2, <2>3
<1> QED
  BY <1>2, <1>3

LEMMA StepAppend == CliTypeInv /\ ThreadInv /\ AppendInv /\ CliStep => AppendInv'
<1> SUFFICES ASSUME CliTypeInv, ThreadInv, AppendInv, CliStep, ~interactive_tty',
                    NEW t \in Tables, entries'[t].status \in {"Done", "Failed"}
             PROVE  appended'[t] = Line(t, entries'[t])
  BY DEF AppendInv, Status
<1>0. ~interactive_tty
  BY Drawn DEF CliStep, ForeignLine
<1>1. ASSUME NEW u \in Tables, Updates(u) \/ ReportFailure(u)
      PROVE  appended'[t] = Line(t, entries'[t])
  <2>1. CASE u = t
    BY <1>0, <1>1, <2>1, EntryStep
  <2>2. CASE u # t
    <3>1. entries'[t] = entries[t] /\ appended'[t] = appended[t]
      BY <1>1, <2>2, EntryStep
    <3> QED
      BY <1>0, <3>1 DEF AppendInv, Status
  <2> QED
    BY <2>1, <2>2
<1>2. CASE RequestStop \/ LastFrame \/ RenderLoop \/ ForeignLine \/ UNCHANGED cliVars
  <2>1. entries' = entries /\ appended' = appended
    BY <1>2 DEF RequestStop, LastFrame, RenderLoop, ForeignLine, cliVars
  <2> QED
    BY <1>0, <2>1 DEF AppendInv, Status
<1> QED
  BY <1>1, <1>2 DEF CliStep, CliCall

LEMMA StepFailed == CliTypeInv /\ FailedInv /\ CliStep => FailedInv'
<1> SUFFICES ASSUME CliTypeInv, FailedInv, CliStep, NEW t \in Tables
             PROVE  entries'[t].status = "Failed" <=> \E i \in 1 .. Len(reported') : reported'[i] = t
  BY DEF FailedInv, Status
<1>0. /\ entries[t].status = "Failed" <=> \E i \in 1 .. Len(reported) : reported[i] = t
      /\ reported \in Seq(Tables)
  BY DEF FailedInv, Status, CliTypeInv
<1>1. ASSUME NEW u \in Tables, Updates(u)
      PROVE  entries'[t].status = "Failed" <=> \E i \in 1 .. Len(reported') : reported'[i] = t
  BY <1>0, <1>1, EntryStep DEF Status
<1>2. ASSUME NEW u \in Tables, ReportFailure(u)
      PROVE  entries'[t].status = "Failed" <=> \E i \in 1 .. Len(reported') : reported'[i] = t
  <2>1. /\ Len(reported') = Len(reported) + 1 /\ reported'[Len(reported) + 1] = u
        /\ \A i \in 1 .. Len(reported) : reported'[i] = reported[i]
    BY <1>0, <1>2, EntryStep
  <2>2. CASE u = t
    <3>1. entries'[t].status = "Failed"
      BY <1>2, <2>2, EntryStep
    <3>2. Len(reported') \in 1 .. Len(reported') /\ reported'[Len(reported')] = t
      BY <1>0, <2>1, <2>2
    <3> QED
      BY <3>1, <3>2
  <2>3. CASE u # t
    <3>1. entries'[t].status = entries[t].status
      BY <1>2, <2>3, EntryStep
    <3>2. ASSUME NEW i \in 1 .. Len(reported'), reported'[i] = t
          PROVE  \E j \in 1 .. Len(reported) : reported[j] = t
      <4>1. i # Len(reported) + 1
        BY <2>1, <2>3, <3>2
      <4>2. i \in 1 .. Len(reported)
        BY <1>0, <2>1, <4>1
      <4> QED
        BY <2>1, <3>2, <4>2
    <3>3. ASSUME NEW j \in 1 .. Len(reported), reported[j] = t
          PROVE  \E i \in 1 .. Len(reported') : reported'[i] = t
      <4>1. j \in 1 .. Len(reported') /\ reported'[j] = t
        BY <1>0, <2>1, <3>3
      <4> QED
        BY <4>1
    <3> QED
      BY <1>0, <3>1, <3>2, <3>3
  <2> QED
    BY <2>2, <2>3
<1>3. CASE RequestStop \/ LastFrame \/ RenderLoop \/ ForeignLine \/ UNCHANGED cliVars
  <2>1. entries' = entries /\ reported' = reported
    BY <1>3 DEF RequestStop, LastFrame, RenderLoop, ForeignLine, cliVars
  <2> QED
    BY <1>0, <2>1
<1> QED
  BY <1>1, <1>2, <1>3 DEF CliStep, CliCall

LEMMA StepCli == CliInv /\ CliStep /\ display' \in Display /\ reported' \in Seq(Tables)
                   /\ interactive_tty' = interactive_tty => CliInv'
<1> SUFFICES ASSUME CliInv, CliStep, display' \in Display, reported' \in Seq(Tables),
                    interactive_tty' = interactive_tty
             PROVE  CliInv'
  OBVIOUS
<1>0. CliTypeInv /\ ThreadInv /\ AppendInv /\ FailedInv
  BY DEF CliInv
<1>1. CliTypeInv'
  BY <1>0, EntriesStep, AppendedStep, StepThread DEF CliTypeInv
<1> QED
  BY <1>0, <1>1, StepThread, StepAppend, StepFailed DEF CliInv

LEMMA InitCli == CliInit => CliInv /\ ScreenInv /\ RenderInv
<1> SUFFICES ASSUME CliInit PROVE CliInv /\ ScreenInv /\ RenderInv
  OBVIOUS
<1>1. /\ interactive_tty \in BOOLEAN /\ stop_requested = FALSE /\ reported = <<>>
      /\ appended = [t \in Tables |-> NoLine]
      /\ render_thread = IF interactive_tty THEN "test" ELSE "none"
  BY DEF CliInit
<1>2. NewEntry \in Entry
  BY MaxRowsAssumption DEF NewEntry, Entry, Statuses
<1>3. /\ entries \in [Tables -> Entry]
      /\ \A t \in Tables : entries[t] = NewEntry /\ Status(t) = "Pending"
  BY <1>2 DEF CliInit, NewEntry, Status
<1>4. EmptyTerminal \in Display
  BY TableCountIsNat DEF EmptyTerminal, Display
<1>4a. reported \in Seq(Tables) /\ Len(reported) = 0
  BY <1>1
<1>4b. appended \in [Tables -> Lines \cup {NoLine}] /\ stop_requested \in BOOLEAN
  BY <1>1
<1>5. CASE interactive_tty
  <2>1. display = RenderFrame(EmptyTerminal, entries)
    BY <1>5 DEF CliInit
  <2>2. /\ Len(EmptyTerminal.screen) = 0 /\ ~EmptyTerminal.frame_drawn
        /\ EmptyTerminal.cursor = 1
    BY DEF EmptyTerminal
  <2>3. /\ Framed(display, 0)
        /\ \A t \in Tables : display.screen[0 + t] = Line(t, entries[t])
    <3>1. /\ 0 <= Len(EmptyTerminal.screen) /\ Len(EmptyTerminal.screen) <= 0 + TableCount
          /\ (IF EmptyTerminal.frame_drawn
                THEN EmptyTerminal.cursor - EmptyTerminal.rendered_lines
                ELSE EmptyTerminal.cursor) = 0 + 1
      BY <2>2, TableCountIsNat
    <3> QED
      BY <1>3, <1>4, <2>1, <3>1, RenderAt
  <2>4. CliTypeInv
    BY <1>1, <1>3, <1>4a, <1>4b, <2>3 DEF CliTypeInv, Framed
  <2>5. FrameShows
    <3>1. Len(display.screen) - TableCount = 0
      BY <2>3, TableCountIsNat DEF Framed
    <3> QED
      BY <2>3, <3>1 DEF FrameShows, Shown
  <2>6. ScreenInv
    BY <1>1, <1>3, <2>3 DEF ScreenInv
  <2> QED
    BY <1>1, <1>3, <1>5, <2>4, <2>5, <2>6
    DEF CliInv, ThreadInv, RenderInv, AppendInv, FailedInv
<1>6. CASE ~interactive_tty
  <2>1. display = EmptyTerminal
    BY <1>6 DEF CliInit
  <2>2. CliTypeInv
    BY <1>1, <1>3, <1>4, <1>4a, <1>4b, <2>1 DEF CliTypeInv
  <2> QED
    BY <1>1, <1>3, <1>6, <2>2 DEF CliInv, ThreadInv, ScreenInv, RenderInv, AppendInv, FailedInv
<1> QED
  BY <1>1, <1>5, <1>6

-----------------------------------------------------------------------------
(* Tasks, workers and main *)

\* What the tasks, the calls of the workers and main can be.
StepTypeInv ==
  /\ pool_threads \in PoolSizes
  /\ task \in [Tables -> {"queued", "writing", "rows", "part", "failing", "finish", "returned", "threw"}]
  /\ rc \in [Tables -> {0, 2}]
  /\ calls \in [Workers -> {"none", "rows", "marked", "reported", "cleaned"}]
  /\ main \in {"collect", "stop", "join", "exited",
               "stop_after_failure", "join_after_failure", "exited_after_failure"}
  /\ collected \in 0 .. TableCount
  /\ exit_code \in {0, 2}

\* main moves on when it has collected every table, and nothing is drawn after it exited.
MainInv ==
  /\ main # "collect" => collected = TableCount
  /\ \A t \in 1 .. collected : task[t] \in {"returned", "threw"}
  /\ Exited => render_thread \in {"none", "ended"}
  /\ Exited /\ interactive_tty => FrameShows

\* A failure of the partition files always is a failure of a partition.
ErrorInv == first_error # 0 \/ (\E w \in Workers : pc[w] \in {"error", "threw"}) => failed # {}

\* The calls of the workers, and when the workers run.
CallInv ==
  /\ \A w \in Workers : calls[w] # "none" => pc[w] = "generate"
  /\ task[FilesTable] \in {"queued", "threw"} =>
       completed = {} /\ failed = {} /\ \A w \in Workers : calls[w] = "none"
  /\ task[FilesTable] \in {"queued", "writing", "finish", "returned", "threw"}
  /\ task[FilesTable] = "finish" => Returned /\ first_error = 0

\* The status of a table whose task is at a certain point.
StatusInv ==
  /\ \A t \in Tables :
       /\ task[t] = "queued" => entries[t] = NewEntry
       /\ task[t] = "failing" => Status(t) = "Failed"
       /\ task[t] = "returned" /\ rc[t] = 0 => Status(t) \in {"Done", "Failed"}
       /\ task[t] = "returned" /\ rc[t] # 0 => Status(t) = "Failed" \/ failed # {}
  /\ task[FilesTable] \in {"writing", "finish"} => Status(FilesTable) \in {"Running", "Failed"}
  /\ \A w \in Workers : calls[w] \in {"reported", "cleaned"} => Status(FilesTable) = "Failed"
  /\ Status(FilesTable) = "Failed" /\ task[FilesTable] \in {"writing", "finish"} =>
       failed # {} \/ \E w \in Workers : calls[w] \in {"reported", "cleaned"}

\* A table of partition files that is done, or returned 0, is complete.
DoneInv ==
  /\ Status(FilesTable) = "Done" => completed = Parts
  /\ task[FilesTable] = "returned" /\ rc[FilesTable] = 0 => Status(FilesTable) = "Done"

\* What the exit code says of the tasks collected so far.
ExitInv ==
  /\ exit_code = 0 => \A t \in 1 .. collected : task[t] = "returned" /\ rc[t] = 0
  /\ exit_code # 0 =>
       \/ \E t \in Tables : Status(t) = "Failed"
       \/ failed # {}
       \/ main \in {"stop_after_failure", "join_after_failure", "exited_after_failure"}

TaskInv == StepTypeInv /\ MainInv /\ ErrorInv /\ CallInv /\ StatusInv /\ DoneInv /\ ExitInv

ProgramInv == SafeInv /\ CliInv /\ SightInv /\ TaskInv

\* Every step of the program makes at most one call of the controller,
\* but for the line main writes past it.
LEMMA StepIsCliCall ==
  ASSUME CliTypeInv, StepTypeInv, [ProgramNext]_programVars
  PROVE  CliCall \/ (FinalizeFails /\ ForeignLine)
<1>0. FilesTable \in Tables /\ PartCount \in Nat
  BY FilesTableAssumption, PartCountAssumption DEF Tables
<1>1. ASSUME NEW t \in Tables, TaskStep(t) PROVE CliCall
  <2>1. CASE OptionsFail(t) \/ OrderedFails(t) \/ OrderedGivesUp(t) \/ OrderedSkips(t)
    BY <2>1 DEF OptionsFail, OrderedFails, OrderedGivesUp, OrderedSkips, CliCall
  <2>2. CASE TaskThrows(t) \/ FilesWritten
    BY <2>2 DEF TaskThrows, FilesWritten, CliCall
  <2>3. CASE StartTable(t)
    <3>1. \E n \in Nat : MarkTableStarted(t, n)
      <4>1. CASE t = FilesTable
        BY <1>0, <2>3, <4>1 DEF StartTable
      <4>2. CASE t # FilesTable
        BY <2>3, <4>2 DEF StartTable
      <4> QED
        BY <4>1, <4>2
    <3> QED
      BY <3>1, CallsUpdate DEF CliCall
  <2>4. CASE OrderedRows(t) \/ OrderedPart(t) \/ FinishTable(t)
    <3>1. AddCommittedRows(t, 1) \/ MarkPartCompleted(t) \/ MarkTableFinished(t)
      BY <2>4 DEF OrderedRows, OrderedPart, FinishTable
    <3> QED
      BY <3>1, CallsUpdate DEF CliCall
  <2> QED
    BY <1>1, <2>1, <2>2, <2>3, <2>4 DEF TaskStep
<1>2. ASSUME NEW w \in Workers, FilesStep(w) PROVE CliCall
  <2>1. CASE Schedules(w) \/ PartOk(w) \/ PartFails(w) \/ PartThrows(w)
    BY <2>1 DEF Schedules, PartOk, PartFails, PartThrows, Leaves, CliCall
  <2>2. CASE CommitRows(w) \/ MarkPart(w)
    <3>1. AddCommittedRows(FilesTable, 1) \/ MarkPartCompleted(FilesTable)
      BY <2>2 DEF CommitRows, MarkPart
    <3> QED
      BY <1>0, <3>1, CallsUpdate DEF CliCall
  <2>3. CASE ReportPart(w) \/ ReportCleanup(w)
    BY <1>0, <2>3 DEF ReportPart, ReportCleanup, CliCall
  <2> QED
    BY <1>2, <2>1, <2>2, <2>3 DEF FilesStep
<1>3. CASE MainStep /\ ~FinalizeFails
  <2>1. CASE Collect \/ Finalize
    BY <2>1 DEF Collect, Finalize, CliCall
  <2>2. CASE CollectException
    <3>1. collected + 1 \in Tables /\ ReportFailure(collected + 1)
      BY <2>2, TableCountIsNat DEF CollectException, StepTypeInv, Tables
    <3> QED
      BY <3>1 DEF CliCall
  <2>3. CASE Stop \/ Join
    BY <2>3 DEF Stop, Join, CliCall
  <2> QED
    BY <1>3, <2>1, <2>2, <2>3 DEF MainStep
<1>4. CASE RenderStep
  BY <1>4 DEF RenderStep, CliCall
<1>5. CASE UNCHANGED programVars
  BY <1>5 DEF programVars, CliCall
<1>6. CASE FinalizeFails
  BY <1>6 DEF FinalizeFails
<1> QED
  BY <1>1, <1>2, <1>3, <1>4, <1>5, <1>6 DEF ProgramNext

\* What the calls write into the entry.
LEMMA CallEntries ==
  ASSUME CliTypeInv, NEW t \in Tables
  PROVE  /\ \A n \in Nat : MarkTableStarted(t, n) /\ Status(t) # "Failed" =>
              /\ entries'[t].status = "Running" /\ entries'[t].part_count = n
              /\ entries'[t].rows_written = entries[t].rows_written
              /\ entries'[t].completed_parts = entries[t].completed_parts
         /\ MarkTableFinished(t) /\ Status(t) # "Failed" => entries'[t].status = "Done"
         /\ AddCommittedRows(t, 1) \/ MarkPartCompleted(t) =>
              entries'[t] = entries[t] \/ entries'[t].status = "Running"
         /\ ReportFailure(t) => entries'[t].status = "Failed"
<1>0. entries \in [Tables -> Entry] /\ entries[t] \in Entry
  BY DEF CliTypeInv
<1>1. ASSUME NEW n \in Nat, MarkTableStarted(t, n), Status(t) # "Failed"
      PROVE  /\ entries'[t].status = "Running" /\ entries'[t].part_count = n
             /\ entries'[t].rows_written = entries[t].rows_written
             /\ entries'[t].completed_parts = entries[t].completed_parts
  BY <1>0, <1>1 DEF MarkTableStarted, Update, Entry
<1>2. ASSUME MarkTableFinished(t), Status(t) # "Failed"
      PROVE  entries'[t].status = "Done"
  BY <1>0, <1>2 DEF MarkTableFinished, Update, Entry
<1>3. ASSUME AddCommittedRows(t, 1)
      PROVE  entries'[t] = entries[t] \/ entries'[t].status = "Running"
  BY <1>0, <1>3 DEF AddCommittedRows, Update, Entry, cliVars
<1>4. ASSUME MarkPartCompleted(t)
      PROVE  entries'[t] = entries[t] \/ entries'[t].status = "Running"
  <2>1. CASE Status(t) \in {"Failed", "Done"}
    BY <1>4, <2>1 DEF MarkPartCompleted, cliVars
  <2>2. CASE Status(t) \notin {"Failed", "Done"}
    <3>1. PICK entry : entry.status = "Running" /\ entries' = [entries EXCEPT ![t] = entry]
      BY <1>0, <1>4, <2>2 DEF MarkPartCompleted, Update, Entry
    <3> QED BY <1>0, <3>1
  <2> QED BY <2>1, <2>2
<1>5. ReportFailure(t) => entries'[t].status = "Failed"
  BY EntryStep
<1> QED
  BY <1>1, <1>2, <1>3, <1>4, <1>5

\* A failed table stays failed, whatever its task or its workers report.
LEMMA FailedStays ==
  ASSUME CliTypeInv, CliStep, NEW t \in Tables, entries[t].status = "Failed"
  PROVE  entries'[t].status = "Failed"
<1>1. ASSUME NEW u \in Tables, Updates(u) PROVE entries'[t].status = "Failed"
  <2>1. u # t
    BY <1>1, EntryStep DEF Status
  <2> QED
    BY <1>1, <2>1, EntryStep
<1>2. ASSUME NEW u \in Tables, ReportFailure(u) PROVE entries'[t].status = "Failed"
  BY <1>2, EntryStep
<1>3. CASE RequestStop \/ LastFrame \/ RenderLoop \/ ForeignLine \/ UNCHANGED cliVars
  BY <1>3 DEF RequestStop, LastFrame, RenderLoop, ForeignLine, cliVars
<1> QED
  BY <1>1, <1>2, <1>3 DEF CliStep, CliCall

\* A step on a table's entry changes no other entry.
LEMMA OtherEntries ==
  ASSUME CliTypeInv, NEW t \in Tables, UNCHANGED cliVars \/ Updates(t) \/ ReportFailure(t)
  PROVE  \A u \in Tables : u # t => entries'[u] = entries[u]
<1>1. UNCHANGED cliVars => \A u \in Tables : entries'[u] = entries[u]
  BY DEF cliVars
<1> QED
  BY <1>1, EntryStep

\* A task's step, for what the invariants ask of it.
TaskMoves(t) ==
  \/ task[t] = "queued" /\ task'[t] = "returned" /\ rc'[t] = 2 /\ entries'[t].status = "Failed"
  \/ task[t] = "queued" /\ task'[t] = "threw" /\ entries'[t] = entries[t] /\ rc'[t] = rc[t]
  \/ /\ task[t] = "queued" /\ task'[t] = "writing" /\ rc'[t] = rc[t]
     /\ MarkTableStarted(t, IF t = FilesTable THEN PartCount ELSE 1)
  \/ /\ task[t] \in {"part", "finish"} /\ task'[t] = "returned" /\ rc'[t] = 0
     /\ MarkTableFinished(t)
  \/ /\ t = FilesTable /\ task[t] = "writing" /\ Returned /\ entries'[t] = entries[t]
     /\ \/ first_error = 0 /\ task'[t] = "finish" /\ rc'[t] = rc[t]
        \/ first_error # 0 /\ task'[t] = "returned" /\ rc'[t] = first_error
  \/ /\ t # FilesTable /\ task[t] \in {"writing", "rows", "part"}
     /\ task'[t] \in {"rows", "part", "failing", "finish"} /\ rc'[t] = rc[t]
     /\ task'[t] = "failing" => entries'[t].status = "Failed"
  \/ /\ t # FilesTable /\ task[t] = "failing" /\ task'[t] = "returned" /\ rc'[t] = 2
     /\ entries[t].status = "Failed" => entries'[t].status = "Failed"

LEMMA TaskFacts ==
  ASSUME CliTypeInv, StepTypeInv, NEW t \in Tables, TaskStep(t)
  PROVE  /\ TaskMoves(t)
         /\ UNCHANGED <<vars, calls, mainVars>>
         /\ \A u \in Tables : u # t => /\ task'[u] = task[u] /\ rc'[u] = rc[u]
                                       /\ entries'[u] = entries[u]
<1>0. /\ task \in [Tables -> {"queued", "writing", "rows", "part", "failing", "finish", "returned", "threw"}]
      /\ rc \in [Tables -> {0, 2}] /\ entries \in [Tables -> Entry]
  BY DEF StepTypeInv, CliTypeInv
<1>1. FilesTable \in Tables /\ PartCount \in Nat /\ OrderedTables = Tables \ {FilesTable}
  BY FilesTableAssumption, PartCountAssumption DEF Tables, OrderedTables
<1>2. CASE OptionsFail(t)
  <2>1. ReportFailure(t) /\ Returns(t, "queued", 2) /\ UNCHANGED <<vars, calls, mainVars>>
    BY <1>2 DEF OptionsFail
  <2>2. entries'[t].status = "Failed" /\ \A u \in Tables : u # t => entries'[u] = entries[u]
    BY <2>1, CallEntries, OtherEntries
  <2> QED
    BY <1>0, <2>1, <2>2 DEF TaskMoves, Returns, Moves
<1>3. CASE TaskThrows(t)
  BY <1>0, <1>3 DEF TaskThrows, TaskMoves, Moves, cliVars
<1>4. CASE StartTable(t)
  <2>1. /\ Moves(t, "queued", "writing") /\ UNCHANGED <<vars, rc, calls, mainVars>>
        /\ MarkTableStarted(t, IF t = FilesTable THEN PartCount ELSE 1)
    BY <1>4 DEF StartTable
  <2>2. \E n \in Nat : MarkTableStarted(t, n)
    <3>1. CASE t = FilesTable
      BY <1>1, <2>1, <3>1
    <3>2. CASE t # FilesTable
      BY <2>1, <3>2
    <3> QED
      BY <3>1, <3>2
  <2>3. \A u \in Tables : u # t => entries'[u] = entries[u]
    BY <2>2, CallsUpdate, OtherEntries
  <2>4. /\ task[t] = "queued" /\ task'[t] = "writing" /\ rc' = rc
        /\ \A u \in Tables : u # t => task'[u] = task[u]
    BY <1>0, <2>1 DEF Moves
  <2>5. TaskMoves(t)
    BY <2>1, <2>4 DEF TaskMoves
  <2> QED
    BY <2>1, <2>3, <2>4, <2>5
<1>5. CASE FinishTable(t)
  <2>1. /\ MarkTableFinished(t) /\ UNCHANGED <<vars, calls, mainVars>>
        /\ \E at \in {"part", "finish"} : Returns(t, at, 0)
    BY <1>5 DEF FinishTable
  <2>2. \A u \in Tables : u # t => entries'[u] = entries[u]
    BY <2>1, CallsUpdate, OtherEntries
  <2>3. /\ task[t] \in {"part", "finish"} /\ task'[t] = "returned" /\ rc'[t] = 0
        /\ \A u \in Tables : u # t => task'[u] = task[u] /\ rc'[u] = rc[u]
    BY <1>0, <2>1 DEF Returns, Moves
  <2>4. TaskMoves(t)
    BY <2>1, <2>3 DEF TaskMoves
  <2> QED
    BY <2>1, <2>2, <2>3, <2>4
<1>6. CASE t = FilesTable /\ FilesWritten
  BY <1>0, <1>6 DEF FilesWritten, TaskMoves, Moves, Returns, cliVars
<1>7. CASE t \in OrderedTables /\ (OrderedRows(t) \/ OrderedPart(t))
  <2>1. /\ AddCommittedRows(t, 1) \/ MarkPartCompleted(t)
        /\ Moves(t, "writing", "rows") \/ Moves(t, "rows", "part")
        /\ UNCHANGED <<vars, rc, calls, mainVars>>
    BY <1>7 DEF OrderedRows, OrderedPart
  <2>2. \A u \in Tables : u # t => entries'[u] = entries[u]
    BY <2>1, CallsUpdate, OtherEntries
  <2>3. TaskMoves(t) /\ \A u \in Tables : u # t => task'[u] = task[u]
    BY <1>0, <1>1, <1>7, <2>1 DEF TaskMoves, Moves
  <2> QED
    BY <2>1, <2>2, <2>3
<1>8. CASE t \in OrderedTables /\ (OrderedFails(t) \/ OrderedSkips(t))
  <2>1. /\ ReportFailure(t) /\ UNCHANGED <<vars, rc, calls, mainVars>>
        /\ \/ \E at \in {"writing", "rows", "part"} : Moves(t, at, "failing")
           \/ Moves(t, "writing", "finish")
    BY <1>8 DEF OrderedFails, OrderedSkips
  <2>2. entries'[t].status = "Failed" /\ \A u \in Tables : u # t => entries'[u] = entries[u]
    BY <2>1, CallEntries, OtherEntries
  <2>3. TaskMoves(t) /\ \A u \in Tables : u # t => task'[u] = task[u]
    BY <1>0, <1>1, <1>8, <2>1, <2>2 DEF TaskMoves, Moves
  <2> QED
    BY <2>1, <2>2, <2>3
<1>9. CASE t \in OrderedTables /\ OrderedGivesUp(t)
  <2>1. /\ ReportFailure(t) \/ UNCHANGED cliVars
        /\ Returns(t, "failing", 2) /\ UNCHANGED <<vars, calls, mainVars>>
    BY <1>9 DEF OrderedGivesUp
  <2>2. \A u \in Tables : u # t => entries'[u] = entries[u]
    BY <2>1, OtherEntries
  <2>3. entries[t].status = "Failed" => entries'[t].status = "Failed"
    BY <2>1, CallEntries DEF cliVars
  <2>4. TaskMoves(t) /\ \A u \in Tables : u # t => task'[u] = task[u] /\ rc'[u] = rc[u]
    BY <1>0, <1>1, <1>9, <2>1, <2>3 DEF TaskMoves, Moves, Returns
  <2> QED
    BY <2>1, <2>2, <2>4
<1> QED
  BY <1>2, <1>3, <1>4, <1>5, <1>6, <1>7, <1>8, <1>9 DEF TaskStep

\* What a worker's step leaves alone, and what it does to the calls.
LEMMA FilesFacts ==
  ASSUME CliTypeInv, StepTypeInv, NEW w \in Workers, FilesStep(w)
  PROVE  /\ task[FilesTable] = "writing" /\ UNCHANGED <<task, rc, mainVars>>
         /\ \A u \in Tables : u # FilesTable => entries'[u] = entries[u]
         /\ \A v \in Workers : v # w => calls'[v] = calls[v]
         /\ \/ entries'[FilesTable] = entries[FilesTable]
            \/ entries'[FilesTable].status = "Running"
            \/ entries'[FilesTable].status = "Failed" /\ calls'[w] \in {"reported", "cleaned"}
         /\ calls'[w] \in {"reported", "cleaned"} /\ calls[w] \notin {"reported", "cleaned"} =>
              entries'[FilesTable].status = "Failed"
<1>0. FilesTable \in Tables /\ calls \in [Workers -> {"none", "rows", "marked", "reported", "cleaned"}]
  BY FilesTableAssumption DEF Tables, StepTypeInv
<1>1. task[FilesTable] = "writing"
  BY DEF FilesStep
<1>2. CASE Schedules(w)
  BY <1>1, <1>2 DEF Schedules, cliVars, taskVars
<1>3. CASE PartOk(w) \/ PartFails(w) \/ PartThrows(w)
  BY <1>0, <1>1, <1>3 DEF PartOk, PartFails, PartThrows, Leaves, cliVars
<1>4. CASE CommitRows(w) \/ MarkPart(w)
  <2>1. /\ AddCommittedRows(FilesTable, 1) \/ MarkPartCompleted(FilesTable)
        /\ Calls(w, "none", "rows") \/ Calls(w, "rows", "marked")
    BY <1>4 DEF CommitRows, MarkPart
  <2>2. \A u \in Tables : u # FilesTable => entries'[u] = entries[u]
    BY <1>0, <2>1, CallsUpdate, OtherEntries
  <2>3. entries'[FilesTable] = entries[FilesTable] \/ entries'[FilesTable].status = "Running"
    BY <1>0, <2>1, CallEntries
  <2> QED
    BY <1>0, <1>1, <2>1, <2>2, <2>3 DEF Calls
<1>5. CASE ReportPart(w) \/ ReportCleanup(w)
  <2>1. /\ ReportFailure(FilesTable)
        /\ \E at, to \in {"none", "rows", "reported", "cleaned"} :
             Calls(w, at, to) /\ to \in {"reported", "cleaned"}
    BY <1>5 DEF ReportPart, ReportCleanup
  <2>2. \A u \in Tables : u # FilesTable => entries'[u] = entries[u]
    BY <1>0, <2>1, OtherEntries
  <2>3. entries'[FilesTable].status = "Failed"
    BY <1>0, <2>1, CallEntries
  <2> QED
    BY <1>0, <1>1, <2>1, <2>2, <2>3 DEF Calls
<1> QED
  BY <1>2, <1>3, <1>4, <1>5 DEF FilesStep

\* What main leaves alone; a report of main is of a table whose task threw.
LEMMA MainFacts ==
  ASSUME CliTypeInv, StepTypeInv, MainStep
  PROVE  /\ UNCHANGED <<vars, taskVars, pool_threads>>
         /\ \A u \in Tables :
              \/ entries'[u] = entries[u]
              \/ /\ CollectException /\ u = collected + 1 /\ task[u] = "threw"
                 /\ entries'[u].status = "Failed"
<1>1. CASE Collect \/ Finalize \/ FinalizeFails
  BY <1>1 DEF Collect, Finalize, FinalizeFails, ForeignLine, cliVars
<1>2. CASE Stop \/ Join
  BY <1>2 DEF Stop, Join, RequestStop, LastFrame
<1>3. CASE CollectException
  <2> DEFINE t == collected + 1
  <2>1. /\ t \in Tables /\ ReportFailure(t) /\ task[t] = "threw"
        /\ UNCHANGED <<vars, taskVars, pool_threads>>
    BY <1>3, TableCountIsNat DEF CollectException, StepTypeInv, Tables
  <2> HIDE DEF t
  <2>2. entries'[t].status = "Failed" /\ \A u \in Tables : u # t => entries'[u] = entries[u]
    BY <2>1, CallEntries, OtherEntries
  <2> QED
    BY <1>3, <2>1, <2>2 DEF t
<1> QED
  BY <1>1, <1>2, <1>3 DEF MainStep

LEMMA RenderKeeps ==
  ASSUME RenderStep \/ UNCHANGED programVars
  PROVE  UNCHANGED <<vars, taskVars, mainVars, entries>>
<1>1. CASE RenderStep
  BY <1>1 DEF RenderStep, RenderLoop
<1>2. CASE UNCHANGED programVars
  BY <1>2 DEF programVars, cliVars
<1> QED
  BY <1>1, <1>2

-----------------------------------------------------------------------------
(* The invariant is kept *)

\* Partitions that were completed, or failed, remain so.
LEMMA PartsGrow ==
  ASSUME [Next]_vars
  PROVE  completed \subseteq completed' /\ failed \subseteq failed'
BY DEF Next, WorkerStep, vars, PopCheckClosed, PopDraw, CheckStop, GenerateOk, GenerateFails,
       GenerateThrows, StoreError, StoreStop, Close, Get

LEMMA StepError == SafeInv /\ ErrorInv /\ [Next]_vars => ErrorInv'
<1> SUFFICES ASSUME SafeInv, ErrorInv, [Next]_vars PROVE ErrorInv'
  OBVIOUS
<1>0. pc \in [Workers -> States]
  BY DEF SafeInv, TypeOK
<1>1. ASSUME NEW w \in Workers, GenerateFails(w) \/ GenerateThrows(w) PROVE failed' # {}
  BY <1>1 DEF GenerateFails, GenerateThrows
<1>2. CASE failed # {}
  BY <1>2, PartsGrow DEF ErrorInv
<1>3. CASE failed = {}
  <2>1. first_error = 0 /\ \A w \in Workers : pc[w] \notin {"error", "threw"}
    BY <1>3 DEF ErrorInv
  <2>2. ASSUME NEW w \in Workers, WorkerStep(w) \/ Get(w), ~GenerateFails(w), ~GenerateThrows(w)
        PROVE  first_error' = 0 /\ \A v \in Workers : pc'[v] \notin {"error", "threw"}
    BY <1>0, <2>1, <2>2 DEF WorkerStep, Goto, PopCheckClosed, PopDraw, CheckStop, GenerateOk,
       StoreError, StoreStop, Close, Get
  <2>3. CASE UNCHANGED vars
    BY <2>1, <2>3 DEF vars, ErrorInv
  <2>4. CASE Next
    BY <1>1, <2>2, <2>4 DEF Next, ErrorInv
  <2> QED
    BY <2>3, <2>4
<1> QED
  BY <1>2, <1>3

LEMMA StepTypes ==
  SafeInv /\ CliTypeInv /\ StepTypeInv /\ [ProgramNext]_programVars => StepTypeInv'
<1> SUFFICES ASSUME SafeInv, CliTypeInv, StepTypeInv, [ProgramNext]_programVars
             PROVE  StepTypeInv'
  OBVIOUS
<1> DEFINE Places == {"queued", "writing", "rows", "part", "failing", "finish", "returned", "threw"}
<1>1. ASSUME NEW t \in Tables, TaskStep(t) PROVE StepTypeInv'
  <2>1. UNCHANGED <<calls, mainVars>>
    BY <1>1, TaskFacts
  <2>2. task' = [task EXCEPT ![t] = task'[t]] /\ task'[t] \in Places
    BY <1>1 DEF StepTypeInv, TaskStep, OptionsFail, TaskThrows, StartTable, FinishTable,
       FilesWritten, OrderedRows, OrderedPart, OrderedFails, OrderedGivesUp, OrderedSkips,
       Returns, Moves
  <2>3. rc' = rc \/ (rc' = [rc EXCEPT ![t] = rc'[t]] /\ rc'[t] \in {0, 2})
    <3>1. first_error \in {0, 2}
      BY DEF SafeInv, TypeOK
    <3> QED
      BY <1>1, <3>1 DEF StepTypeInv, TaskStep, OptionsFail, TaskThrows, StartTable, FinishTable,
         FilesWritten, OrderedRows, OrderedPart, OrderedFails, OrderedGivesUp, OrderedSkips,
         Returns, Moves
  <2>4. task' \in [Tables -> Places] /\ rc' \in [Tables -> {0, 2}]
    BY <2>2, <2>3 DEF StepTypeInv
  <2> QED
    BY <2>1, <2>4 DEF StepTypeInv, mainVars
<1>2. ASSUME NEW w \in Workers, FilesStep(w) PROVE StepTypeInv'
  <2>1. UNCHANGED <<task, rc, mainVars>>
    BY <1>2, FilesFacts
  <2>2. calls' = calls \/ \E to \in {"none", "rows", "marked", "reported", "cleaned"} :
                            calls' = [calls EXCEPT ![w] = to]
    BY <1>2 DEF FilesStep, Schedules, CommitRows, MarkPart, ReportPart, ReportCleanup, Calls,
       PartOk, PartFails, PartThrows, Leaves, taskVars
  <2>3. calls' \in [Workers -> {"none", "rows", "marked", "reported", "cleaned"}]
    BY <2>2 DEF StepTypeInv
  <2> QED
    BY <2>1, <2>3 DEF StepTypeInv, mainVars
<1>3. CASE MainStep
  <2>1. UNCHANGED <<taskVars, pool_threads>>
    BY <1>3, MainFacts
  <2>2. collected' \in 0 .. TableCount /\ exit_code' \in {0, 2}
    <3>1. collected' = collected \/ (collected < TableCount /\ collected' = collected + 1)
      BY <1>3 DEF MainStep, Collect, CollectException, Finalize, FinalizeFails, Stop, Join
    <3>2. exit_code' \in {0, 2}
      <4>1. CASE Collect
        <5>1. collected + 1 \in Tables
          BY <4>1, TableCountIsNat DEF Collect, StepTypeInv, Tables
        <5>2. rc[collected + 1] \in {0, 2}
          BY <5>1 DEF StepTypeInv
        <5> QED
          BY <4>1, <5>2 DEF Collect, StepTypeInv
      <4>2. CASE CollectException \/ Finalize \/ FinalizeFails \/ Stop \/ Join
        BY <4>2 DEF CollectException, Finalize, FinalizeFails, Stop, Join, StepTypeInv
      <4> QED
        BY <1>3, <4>1, <4>2 DEF MainStep
    <3> QED
      BY <3>1, <3>2, TableCountIsNat DEF StepTypeInv
  <2>3. main' = main \/ main' \in {"stop", "join", "exited", "stop_after_failure",
                                   "join_after_failure", "exited_after_failure"}
    BY <1>3 DEF MainStep, Collect, CollectException, Finalize, FinalizeFails, Stop, Join, MainMoves
  <2> QED
    BY <2>1, <2>2, <2>3 DEF StepTypeInv, taskVars
<1>4. CASE RenderStep \/ UNCHANGED programVars
  BY <1>4, RenderKeeps DEF StepTypeInv, taskVars, mainVars
<1> QED
  BY <1>1, <1>2, <1>3, <1>4 DEF ProgramNext

\* A worker's call and what it is about to do.
LEMMA CallPlaces ==
  ASSUME SafeInv, CallInv, StepTypeInv, NEW w \in Workers, FilesStep(w)
  PROVE  \A v \in Workers : calls'[v] # "none" => pc'[v] = "generate"
<1>0. pc \in [Workers -> States]
      /\ calls \in [Workers -> {"none", "rows", "marked", "reported", "cleaned"}]
      /\ \A v \in Workers : calls[v] # "none" => pc[v] = "generate"
  BY DEF SafeInv, TypeOK, StepTypeInv, CallInv
<1>1. CASE Schedules(w)
  <2>1. calls' = calls
    BY <1>1 DEF Schedules, taskVars
  <2>2. \A v \in Workers : pc[v] = "generate" => pc'[v] = "generate"
    BY <1>0, <1>1 DEF Schedules, Goto, PopCheckClosed, PopDraw, CheckStop,
       StoreError, StoreStop, Close, Get
  <2> QED
    BY <1>0, <2>1, <2>2
<1>2. CASE CommitRows(w) \/ MarkPart(w) \/ ReportPart(w) \/ ReportCleanup(w)
  BY <1>0, <1>2 DEF CommitRows, MarkPart, ReportPart, ReportCleanup, Calls, vars
<1>3. CASE PartOk(w) \/ PartFails(w) \/ PartThrows(w)
  BY <1>0, <1>3 DEF PartOk, PartFails, PartThrows, Leaves, GenerateOk, GenerateFails,
     GenerateThrows, Goto
<1> QED
  BY <1>1, <1>2, <1>3 DEF FilesStep

LEMMA StepCall ==
  SafeInv /\ CliTypeInv /\ StepTypeInv /\ CallInv /\ [ProgramNext]_programVars => CallInv'
<1> SUFFICES ASSUME SafeInv, CliTypeInv, StepTypeInv, CallInv, [ProgramNext]_programVars
             PROVE  CallInv'
  OBVIOUS
<1>0. FilesTable \in Tables
  BY FilesTableAssumption DEF Tables
<1>1. ASSUME NEW t \in Tables, TaskStep(t) PROVE CallInv'
  <2>1. /\ TaskMoves(t) /\ UNCHANGED <<vars, calls>>
        /\ t # FilesTable => task'[FilesTable] = task[FilesTable]
    BY <1>0, <1>1, TaskFacts
  <2>2. CASE t # FilesTable
    BY <2>1, <2>2 DEF CallInv, vars, Returned
  <2>3. CASE t = FilesTable
    BY <2>1, <2>3 DEF CallInv, vars, Returned, TaskMoves
  <2> QED
    BY <2>2, <2>3
<1>2. ASSUME NEW w \in Workers, FilesStep(w) PROVE CallInv'
  BY <1>2, CallPlaces, FilesFacts DEF CallInv
<1>3. CASE MainStep \/ RenderStep \/ UNCHANGED programVars
  <2>1. UNCHANGED <<vars, task, calls>>
    BY <1>3, MainFacts, RenderKeeps DEF taskVars
  <2> QED
    BY <2>1 DEF CallInv, vars, Returned
<1> QED
  BY <1>1, <1>2, <1>3 DEF ProgramNext

\* Workers that are collected have no call left to make.
LEMMA NoCalls ==
  ASSUME CallInv, Returned
  PROVE  \A w \in Workers : calls[w] = "none"
BY DEF CallInv, Returned

\* The status of one table.
TableStatus(t) ==
  /\ task[t] = "queued" => entries[t] = NewEntry
  /\ task[t] = "failing" => Status(t) = "Failed"
  /\ task[t] = "returned" /\ rc[t] = 0 => Status(t) \in {"Done", "Failed"}
  /\ task[t] = "returned" /\ rc[t] # 0 => Status(t) = "Failed" \/ failed # {}

LEMMA StepTableStatus ==
  ASSUME SafeInv, CliTypeInv, StepTypeInv, ErrorInv, CallInv, [ProgramNext]_programVars,
         NEW t \in Tables, TableStatus(t)
  PROVE  TableStatus(t)'
<1>0. FilesTable \in Tables
  BY FilesTableAssumption DEF Tables
<1> USE DEF TableStatus, Status
<1>1. failed # {} => failed' # {}
  BY ProgramStepIsStep, PartsGrow
<1>2. CASE TaskStep(t)
  <2>1. TaskMoves(t) /\ UNCHANGED <<vars, calls>>
    BY <1>2, TaskFacts
  <2>2. CASE task'[t] \notin {"failing", "returned"}
    BY <2>1, <2>2 DEF TaskMoves
  <2>3. CASE task'[t] = "failing"
    BY <2>1, <2>3 DEF TaskMoves
  <2>4. CASE task'[t] = "returned" /\ rc'[t] = 0
    <3>1. MarkTableFinished(t)
      BY <2>1, <2>4 DEF TaskMoves
    <3>2. entries'[t].status \in {"Done", "Failed"}
      <4>1. CASE Status(t) = "Failed"
        BY <3>1, <4>1 DEF MarkTableFinished, cliVars
      <4>2. CASE Status(t) # "Failed"
        BY <3>1, <4>2, CallEntries
      <4> QED
        BY <4>1, <4>2
    <3> QED
      BY <2>4, <3>2
  <2>5. CASE task'[t] = "returned" /\ rc'[t] # 0
    <3>1. entries'[t].status = "Failed" \/ first_error # 0
      BY <2>1, <2>5 DEF TaskMoves
    <3>2. first_error # 0 => failed' # {}
      BY <1>1 DEF ErrorInv
    <3> QED
      BY <2>5, <3>1, <3>2
  <2> QED
    BY <2>2, <2>3, <2>4, <2>5
<1>3. ASSUME NEW u \in Tables, u # t, TaskStep(u) PROVE TableStatus(t)'
  <2>1. task'[t] = task[t] /\ rc'[t] = rc[t] /\ entries'[t] = entries[t]
    BY <1>3, TaskFacts
  <2> QED
    BY <1>1, <2>1
<1>4. ASSUME NEW w \in Workers, FilesStep(w) PROVE TableStatus(t)'
  <2>1. task' = task /\ rc' = rc /\ task[FilesTable] = "writing"
        /\ (t # FilesTable => entries'[t] = entries[t])
    BY <1>4, FilesFacts
  <2>2. CASE t = FilesTable
    BY <2>1, <2>2
  <2>3. CASE t # FilesTable
    BY <1>1, <2>1, <2>3
  <2> QED
    BY <2>2, <2>3
<1>5. CASE MainStep
  <2>1. /\ task' = task /\ rc' = rc
        /\ entries'[t] = entries[t] \/ task[t] = "threw"
    BY <1>5, MainFacts DEF taskVars
  <2>2. CASE task[t] = "threw"
    BY <2>1, <2>2
  <2>3. CASE entries'[t] = entries[t]
    BY <1>1, <2>1, <2>3
  <2> QED
    BY <2>1, <2>2, <2>3
<1>6. CASE RenderStep \/ UNCHANGED programVars
  BY <1>1, <1>6, RenderKeeps DEF taskVars
<1> QED
  BY <1>2, <1>3, <1>4, <1>5, <1>6 DEF ProgramNext

\* A failure of the partition files is shown as soon as it is reported.
FilesStatus ==
  /\ task[FilesTable] \in {"writing", "finish"} => Status(FilesTable) \in {"Running", "Failed"}
  /\ \A w \in Workers : calls[w] \in {"reported", "cleaned"} => Status(FilesTable) = "Failed"
  /\ Status(FilesTable) = "Failed" /\ task[FilesTable] \in {"writing", "finish"} =>
       failed # {} \/ \E w \in Workers : calls[w] \in {"reported", "cleaned"}

LEMMA StepFilesStatus ==
  ASSUME SafeInv, CliTypeInv, StepTypeInv, CallInv, FilesStatus, TableStatus(FilesTable),
         [ProgramNext]_programVars
  PROVE  FilesStatus'
<1>0. FilesTable \in Tables /\ PartCount \in Nat
  BY FilesTableAssumption, PartCountAssumption DEF Tables
<1> USE DEF FilesStatus, Status
<1>1. failed # {} => failed' # {}
  BY ProgramStepIsStep, PartsGrow
<1>2. entries[FilesTable].status = "Failed" => entries'[FilesTable].status = "Failed"
  BY <1>0, StepIsCliCall, FailedStays DEF CliStep
<1>3. CASE TaskStep(FilesTable)
  <2>1. TaskMoves(FilesTable) /\ calls' = calls
    BY <1>0, <1>3, TaskFacts
  <2>2. CASE task'[FilesTable] \notin {"writing", "finish"}
    BY <1>2, <2>1, <2>2
  <2>3. CASE task'[FilesTable] = "writing"
    <3>1. task[FilesTable] = "queued" /\ MarkTableStarted(FilesTable, PartCount)
      BY <2>1, <2>3 DEF TaskMoves
    <3>2. Status(FilesTable) # "Failed"
      BY <3>1 DEF TableStatus, NewEntry
    <3>3. entries'[FilesTable].status = "Running"
      BY <1>0, <3>1, <3>2, CallEntries
    <3>4. \A w \in Workers : calls[w] = "none"
      BY <3>1 DEF CallInv
    <3> QED
      BY <2>1, <3>3, <3>4
  <2>4. CASE task'[FilesTable] = "finish"
    BY <1>1, <2>1, <2>4 DEF TaskMoves
  <2> QED
    BY <2>2, <2>3, <2>4
<1>4. ASSUME NEW u \in Tables, u # FilesTable, TaskStep(u) PROVE FilesStatus'
  <2>1. task'[FilesTable] = task[FilesTable] /\ calls' = calls
        /\ entries'[FilesTable] = entries[FilesTable]
    BY <1>0, <1>4, TaskFacts
  <2> QED
    BY <1>1, <2>1
<1>5. ASSUME NEW w \in Workers, FilesStep(w) PROVE FilesStatus'
  <2>1. /\ task' = task /\ task[FilesTable] = "writing"
        /\ \A v \in Workers : v # w => calls'[v] = calls[v]
        /\ \/ entries'[FilesTable] = entries[FilesTable]
           \/ entries'[FilesTable].status = "Running"
           \/ entries'[FilesTable].status = "Failed" /\ calls'[w] \in {"reported", "cleaned"}
        /\ calls'[w] \in {"reported", "cleaned"} /\ calls[w] \notin {"reported", "cleaned"} =>
             entries'[FilesTable].status = "Failed"
    BY <1>5, FilesFacts
  <2>2. entries'[FilesTable].status \in {"Running", "Failed"}
    BY <2>1
  <2>3. \A v \in Workers : calls'[v] \in {"reported", "cleaned"} =>
                             entries'[FilesTable].status = "Failed"
    BY <1>2, <2>1
  <2>4. ASSUME entries'[FilesTable].status = "Failed"
        PROVE  failed' # {} \/ \E v \in Workers : calls'[v] \in {"reported", "cleaned"}
    <3>1. CASE failed # {}
      BY <1>1, <3>1
    <3>2. CASE calls'[w] \in {"reported", "cleaned"}
      BY <3>2
    <3>3. CASE failed = {} /\ calls'[w] \notin {"reported", "cleaned"}
      <4>1. PICK v \in Workers : calls[v] \in {"reported", "cleaned"}
        BY <2>1, <2>4, <3>3
      <4>2. CASE v # w
        BY <2>1, <4>1, <4>2
      <4>3. CASE v = w
        <5>1. PartFails(w)
          BY <1>5, <3>3, <4>1, <4>3 DEF FilesStep, Schedules, CommitRows, MarkPart, ReportPart,
             ReportCleanup, Calls, PartOk, PartThrows, Leaves, taskVars, StepTypeInv
        <5> QED
          BY <5>1 DEF PartFails, GenerateFails
      <4> QED
        BY <4>2, <4>3
    <3> QED
      BY <3>1, <3>2, <3>3
  <2> QED
    BY <2>1, <2>2, <2>3, <2>4
<1>6. CASE MainStep
  <2>1. /\ task' = task /\ calls' = calls
        /\ \/ entries'[FilesTable] = entries[FilesTable]
           \/ task[FilesTable] = "threw" /\ entries'[FilesTable].status = "Failed"
    BY <1>0, <1>6, MainFacts DEF taskVars
  <2> QED
    BY <1>1, <2>1
<1>7. CASE RenderStep \/ UNCHANGED programVars
  BY <1>1, <1>7, RenderKeeps DEF taskVars
<1> QED
  BY <1>3, <1>4, <1>5, <1>6, <1>7 DEF ProgramNext

LEMMA StepStatus ==
  ASSUME SafeInv, CliTypeInv, StepTypeInv, ErrorInv, CallInv, StatusInv,
         [ProgramNext]_programVars
  PROVE  StatusInv'
<1>1. StatusInv <=> (\A t \in Tables : TableStatus(t)) /\ FilesStatus
  BY DEF StatusInv, TableStatus, FilesStatus
<1>2. StatusInv' <=> (\A t \in Tables : TableStatus(t)') /\ FilesStatus'
  BY DEF StatusInv, TableStatus, FilesStatus
<1>3. FilesTable \in Tables
  BY FilesTableAssumption DEF Tables
<1> QED
  BY <1>1, <1>2, <1>3, StepTableStatus, StepFilesStatus

\* Workers that returned without an error failed nothing.
LEMMA AllDone ==
  ASSUME SafeInv, Returned, first_error = 0
  PROVE  completed = Parts /\ failed = {}
<1>1. Clean
  BY DEF Clean, Returned
<1>2. next > PartCount
  BY <1>1, WorkersAssumption DEF SafeInv, CoverInv, Returned
<1>3. ASSUME NEW n \in Parts PROVE n \in completed
  BY <1>1, <1>2, <1>3, PartCountAssumption
  DEF SafeInv, CoverInv, TypeOK, Parts, Returned, Holding
<1>4. completed = Parts
  BY <1>3 DEF SafeInv, TypeOK
<1> QED
  BY <1>4 DEF SafeInv, TypeOK, NoPartTwice

LEMMA StepDone ==
  ASSUME SafeInv, CliTypeInv, StepTypeInv, CallInv, StatusInv, DoneInv, SafeInv',
         [ProgramNext]_programVars
  PROVE  DoneInv'
<1>0. FilesTable \in Tables
  BY FilesTableAssumption DEF Tables
<1> USE DEF DoneInv, Status
<1>1. completed = Parts => completed' = Parts
  <2>1. completed \subseteq completed' /\ completed' \subseteq Parts
    BY ProgramStepIsStep, PartsGrow DEF SafeInv, TypeOK, Parts
  <2> QED
    BY <2>1
<1>2. CASE TaskStep(FilesTable)
  <2>1. TaskMoves(FilesTable) /\ UNCHANGED <<vars, calls>>
    BY <1>0, <1>2, TaskFacts
  <2>2. CASE task'[FilesTable] = "returned" /\ rc'[FilesTable] = 0
    <3>1. task[FilesTable] = "finish" /\ MarkTableFinished(FilesTable)
      BY <2>1, <2>2 DEF TaskMoves, CallInv
    <3>2. completed = Parts /\ failed = {} /\ \A w \in Workers : calls[w] = "none"
      BY <3>1, AllDone, NoCalls DEF CallInv
    <3>3. Status(FilesTable) # "Failed"
      BY <3>1, <3>2 DEF StatusInv
    <3>4. entries'[FilesTable].status = "Done"
      BY <1>0, <3>1, <3>3, CallEntries
    <3> QED
      BY <1>1, <3>2, <3>4
  <2>3. CASE ~(task'[FilesTable] = "returned" /\ rc'[FilesTable] = 0)
    <3>1. entries'[FilesTable].status = "Done" => entries[FilesTable].status = "Done"
      <4>1. CASE task'[FilesTable] = "writing"
        <5>1. /\ task[FilesTable] = "queued"
              /\ MarkTableStarted(FilesTable, PartCount)
          BY <2>1, <4>1 DEF TaskMoves
        <5>2. Status(FilesTable) # "Failed"
          BY <1>0, <5>1 DEF StatusInv, NewEntry
        <5>3. entries'[FilesTable].status = "Running"
          BY <1>0, <5>1, <5>2, CallEntries, PartCountAssumption
        <5> QED
          BY <5>3
      <4>2. CASE task'[FilesTable] # "writing"
        BY <2>1, <2>3, <4>2 DEF TaskMoves
      <4> QED
        BY <4>1, <4>2
    <3> QED
      BY <1>1, <2>3, <3>1
  <2> QED
    BY <2>2, <2>3
<1>3. ASSUME NEW u \in Tables, u # FilesTable, TaskStep(u) PROVE DoneInv'
  <2>1. task'[FilesTable] = task[FilesTable] /\ rc'[FilesTable] = rc[FilesTable]
        /\ entries'[FilesTable] = entries[FilesTable]
    BY <1>0, <1>3, TaskFacts
  <2> QED
    BY <1>1, <2>1
<1>4. ASSUME NEW w \in Workers, FilesStep(w) PROVE DoneInv'
  <2>1. /\ task' = task /\ task[FilesTable] = "writing"
        /\ entries'[FilesTable] = entries[FilesTable] \/ entries'[FilesTable].status # "Done"
    BY <1>4, FilesFacts
  <2> QED
    BY <1>1, <2>1
<1>5. CASE MainStep
  <2>1. /\ task' = task /\ rc' = rc
        /\ \/ entries'[FilesTable] = entries[FilesTable]
           \/ task[FilesTable] = "threw" /\ entries'[FilesTable].status = "Failed"
    BY <1>0, <1>5, MainFacts DEF taskVars
  <2> QED
    BY <1>1, <2>1
<1>6. CASE RenderStep \/ UNCHANGED programVars
  BY <1>1, <1>6, RenderKeeps DEF taskVars
<1> QED
  BY <1>2, <1>3, <1>4, <1>5, <1>6 DEF ProgramNext

\* When main has collected the tables, only main and the render thread take steps.
LEMMA OnlyMainAndRender ==
  ASSUME CliTypeInv, StepTypeInv, MainInv, main # "collect", [ProgramNext]_programVars
  PROVE  Stop \/ Join \/ RenderStep \/ UNCHANGED programVars
<1>1. collected = TableCount /\ \A t \in Tables : task[t] \in {"returned", "threw"}
  BY DEF MainInv, Tables
<1>2. ASSUME NEW t \in Tables, TaskStep(t) PROVE FALSE
  <2>1. TaskMoves(t)
    BY <1>2, TaskFacts
  <2> QED
    BY <1>1, <2>1 DEF TaskMoves
<1>3. ASSUME NEW w \in Workers, FilesStep(w) PROVE FALSE
  BY <1>1, <1>3, FilesTableAssumption DEF FilesStep, Tables
<1>4. CASE MainStep
  BY <1>4 DEF MainStep, Collect, CollectException, Finalize, FinalizeFails, MainMoves
<1> QED
  BY <1>2, <1>3, <1>4 DEF ProgramNext

\* A program that exited takes no step.
LEMMA NothingAfterExit ==
  ASSUME CliTypeInv, StepTypeInv, MainInv, Exited, [ProgramNext]_programVars
  PROVE  UNCHANGED programVars
<1>1. ~Stop /\ ~Join
  BY DEF Stop, Join, MainMoves, Exited
<1>2. ~RenderStep
  BY DEF RenderStep, RenderLoop, MainInv
<1> QED
  BY <1>1, <1>2, OnlyMainAndRender DEF Exited

\* The line of main moves the frame down by one row; only that step does, and
\* after it no message is reported.
LEMMA StepSight ==
  ASSUME CliInv, SightInv, StepTypeInv, MainInv, [ProgramNext]_programVars
  PROVE  /\ display' \in Display /\ reported' \in Seq(Tables)
         /\ interactive_tty' = interactive_tty /\ SightInv'
<1> DEFINE m == Len(reported)
<1>0. /\ CliTypeInv /\ ThreadInv /\ reported \in Seq(Tables) /\ m \in Nat /\ display \in Display
      /\ entries \in [Tables -> Entry]
  BY DEF CliInv, CliTypeInv
<1>1. CASE FinalizeFails
  <2>1. /\ ~NoticeWritten /\ NoticeWritten' /\ ForeignLine
    BY <1>1 DEF FinalizeFails, MainMoves, NoticeWritten
  <2>2. ScreenInv
    BY <2>1 DEF SightInv
  <2>3. reported' = reported /\ interactive_tty' = interactive_tty
    BY <2>1 DEF ForeignLine
  <2>4. CASE ~interactive_tty
    <3>1. display' = display
      BY <1>0, <2>1, <2>4 DEF ForeignLine, ThreadInv
    <3> QED
      BY <1>0, <2>1, <2>3, <2>4, <3>1 DEF SightInv, NoticeInv
  <2>5. CASE interactive_tty
    <3>1. /\ Framed(display, m)
          /\ \A i \in 1 .. m : display.screen[i] = Message(reported[i])
      BY <2>2, <2>5 DEF ScreenInv
    <3>2. \E k \in 0 .. TableCount - 1 :
            display' = Write(display, <<Notice>>) \/ display' = FrameAround(display, entries, k)
      BY <2>1, <2>5, TableCountIsNat DEF ForeignLine
    <3>3. Framed(display', m + 1) /\ \A i \in 1 .. m : display'.screen[i] = display.screen[i]
      <4> HIDE DEF m
      <4> QED
        BY <1>0, <3>1, <3>2, NoticeAt
    <3>4. display' \in Display
      BY <3>3 DEF Framed
    <3> QED
      BY <1>0, <2>1, <2>3, <3>1, <3>3, <3>4 DEF SightInv, NoticeInv
  <2> QED
    BY <2>4, <2>5
<1>2. CASE ~NoticeWritten /\ ~FinalizeFails
  <2>1. CliCall
    BY <1>0, <1>2, StepIsCliCall
  <2>2. ~NoticeWritten'
    <3>1. ASSUME NEW t \in Tables, TaskStep(t) PROVE main' = main
      BY <1>0, <3>1, TaskFacts DEF mainVars
    <3>2. ASSUME NEW w \in Workers, FilesStep(w) PROVE main' = main
      BY <1>0, <3>2, FilesFacts DEF mainVars
    <3>3. CASE MainStep
      BY <1>2, <3>3
      DEF MainStep, Collect, CollectException, Finalize, Stop, Join, MainMoves, NoticeWritten
    <3>4. CASE RenderStep \/ UNCHANGED programVars
      BY <1>2, <3>4, RenderKeeps DEF mainVars, NoticeWritten
    <3> QED
      BY <1>2, <3>1, <3>2, <3>3, <3>4 DEF ProgramNext, NoticeWritten
  <2> QED
    BY <1>0, <1>2, <2>1, <2>2, StepScreen, StepRender, Drawn DEF SightInv
<1>3. CASE NoticeWritten
  <2>1. Stop \/ Join \/ RenderStep \/ UNCHANGED programVars
    BY <1>0, <1>3, OnlyMainAndRender DEF NoticeWritten
  <2>2. RequestStop \/ LastFrame \/ RenderLoop \/ UNCHANGED cliVars
    BY <2>1 DEF Stop, Join, RenderStep, programVars
  <2>3. NoticeWritten'
    BY <1>3, <2>1 DEF Stop, Join, MainMoves, RenderStep, mainVars, programVars, NoticeWritten
  <2>4. /\ reported' = reported /\ interactive_tty' = interactive_tty /\ entries' = entries
        /\ display' = display \/ (interactive_tty /\ display' = RenderFrame(display, entries))
    BY <1>0, <2>2 DEF RequestStop, LastFrame, RenderLoop, cliVars, ThreadInv
  <2>5. NoticeInv
    BY <1>3 DEF SightInv
  <2>6. CASE display' = display
    BY <1>0, <2>3, <2>4, <2>5, <2>6 DEF SightInv, NoticeInv
  <2>7. CASE interactive_tty /\ display' = RenderFrame(display, entries)
    <3>1. Framed(display, m + 1) /\ m + 1 \in Nat
      BY <1>0, <2>5, <2>7 DEF NoticeInv
    <3>2. /\ Framed(display', m + 1)
          /\ \A i \in 1 .. m + 1 : display'.screen[i] = display.screen[i]
      BY <1>0, <2>7, <3>1, RenderFramed
    <3>3. \A i \in 1 .. m : display'.screen[i] = Message(reported[i])
      BY <1>0, <2>5, <2>7, <3>2 DEF NoticeInv
    <3> QED
      BY <1>0, <2>3, <2>4, <3>2, <3>3 DEF SightInv, NoticeInv, Framed
  <2> QED
    BY <2>4, <2>6, <2>7
<1> QED
  BY <1>1, <1>2, <1>3

LEMMA StepMain ==
  ASSUME CliInv, SightInv, StepTypeInv, StepTypeInv', MainInv, [ProgramNext]_programVars
  PROVE  MainInv'
<1>0. /\ collected \in 0 .. TableCount /\ TableCount \in Nat
      /\ CliTypeInv /\ entries \in [Tables -> Entry] /\ Len(reported) \in Nat
  BY TableCountIsNat DEF StepTypeInv, CliInv, CliTypeInv
<1>1. main # "collect" => collected = TableCount
  BY DEF MainInv
<1>2. \A t \in 1 .. collected : t \in Tables /\ task[t] \in {"returned", "threw"}
  BY <1>0 DEF MainInv, Tables
<1>3. CASE Exited
  BY <1>0, <1>3, NothingAfterExit DEF MainInv, Exited, FrameShows, Shown, programVars, cliVars, mainVars, taskVars
<1>4. CASE ~Exited
  <2>1. ASSUME NEW t \in Tables, TaskStep(t) PROVE MainInv'
    <3>1. /\ TaskMoves(t) /\ UNCHANGED mainVars
          /\ \A u \in Tables : u # t => task'[u] = task[u]
      BY <1>0, <2>1, TaskFacts
    <3>2. task[t] \notin {"returned", "threw"}
      BY <3>1 DEF TaskMoves
    <3>3. \A u \in 1 .. collected : task'[u] = task[u]
      BY <1>2, <3>1, <3>2
    <3> QED
      BY <1>1, <1>2, <1>4, <3>1, <3>3 DEF MainInv, Exited, mainVars
  <2>2. ASSUME NEW w \in Workers, FilesStep(w) PROVE MainInv'
    <3>1. UNCHANGED <<task, mainVars>>
      BY <1>0, <2>2, FilesFacts
    <3> QED
      BY <1>1, <1>2, <1>4, <3>1 DEF MainInv, Exited, mainVars
  <2>3. CASE Collect \/ CollectException
    <3>1. /\ task' = task /\ main' = main /\ main = "collect" /\ collected' = collected + 1
          /\ task[collected + 1] \in {"returned", "threw"}
      BY <2>3 DEF Collect, CollectException, taskVars
    <3>2. ASSUME NEW t \in 1 .. collected' PROVE task'[t] \in {"returned", "threw"}
      <4>1. t = collected + 1 \/ t \in 1 .. collected
        BY <1>0, <3>1
      <4> QED
        BY <1>2, <3>1, <4>1
    <3> QED
      BY <3>1, <3>2 DEF MainInv, Exited
  <2>4. CASE Finalize \/ FinalizeFails
    <3>1. /\ task' = task /\ collected' = collected /\ collected = TableCount
          /\ main' \in {"stop", "stop_after_failure"}
      BY <2>4 DEF Finalize, FinalizeFails, MainMoves, taskVars
    <3> QED
      BY <1>2, <3>1 DEF MainInv, Exited
  <2>5. CASE Stop
    <3>1. /\ task' = task /\ collected' = collected /\ main # "collect"
          /\ main' \in {"join", "join_after_failure"}
      BY <2>5 DEF Stop, MainMoves, taskVars
    <3> QED
      BY <1>1, <1>2, <3>1 DEF MainInv, Exited
  <2>6. CASE Join
    <3>1. task' = task /\ collected' = collected /\ main # "collect" /\ LastFrame
      BY <2>6 DEF Join, MainMoves, taskVars
    <3>2. render_thread' \in {"none", "ended"} /\ interactive_tty' = interactive_tty
      BY <3>1 DEF LastFrame
    <3>3. ASSUME interactive_tty PROVE FrameShows'
      <4>1. display' = RenderFrame(display, entries) /\ entries' = entries
        BY <3>1, <3>3 DEF LastFrame
      <4>2. PICK m \in Nat : Framed(display, m)
        BY <1>0, <3>3 DEF SightInv, NoticeInv, ScreenInv
      <4>3. /\ Framed(display', m)
            /\ \A t \in Tables : display'.screen[m + t] = Line(t, entries[t])
        BY <1>0, <4>1, <4>2, RenderFramed
      <4>4. Len(display'.screen) - TableCount = m
        BY <4>3, TableCountIsNat DEF Framed
      <4> QED
        BY <4>1, <4>3, <4>4 DEF FrameShows, Shown
    <3> QED
      BY <1>1, <1>2, <3>1, <3>2, <3>3 DEF MainInv
  <2>7. CASE RenderStep \/ UNCHANGED programVars
    BY <1>1, <1>2, <1>4, <2>7, RenderKeeps DEF MainInv, Exited, mainVars, taskVars
  <2> QED
    BY <2>1, <2>2, <2>3, <2>4, <2>5, <2>6, <2>7 DEF ProgramNext, MainStep
<1> QED
  BY <1>3, <1>4

LEMMA StepExit ==
  ASSUME SafeInv, CliTypeInv, StepTypeInv, MainInv, StatusInv, ExitInv,
         [ProgramNext]_programVars
  PROVE  ExitInv'
<1>0. collected \in 0 .. TableCount /\ TableCount \in Nat
      /\ \A t \in 1 .. collected : t \in Tables /\ task[t] \in {"returned", "threw"}
  BY TableCountIsNat DEF StepTypeInv, MainInv, Tables
<1> USE DEF ExitInv, Status
<1>1. /\ failed # {} => failed' # {}
      /\ \A t \in Tables : entries[t].status = "Failed" => entries'[t].status = "Failed"
  BY ProgramStepIsStep, PartsGrow, StepIsCliCall, FailedStays DEF CliStep
<1>2. ASSUME NEW t \in Tables, TaskStep(t) PROVE ExitInv'
  <2>1. /\ TaskMoves(t) /\ UNCHANGED mainVars
        /\ \A u \in Tables : u # t => task'[u] = task[u] /\ rc'[u] = rc[u]
    BY <1>2, TaskFacts
  <2>2. task[t] \notin {"returned", "threw"}
    BY <2>1 DEF TaskMoves
  <2>3. \A u \in 1 .. collected : task'[u] = task[u] /\ rc'[u] = rc[u]
    BY <1>0, <2>1, <2>2
  <2> QED
    BY <1>1, <2>1, <2>3 DEF mainVars
<1>3. ASSUME NEW w \in Workers, FilesStep(w) PROVE ExitInv'
  <2>1. UNCHANGED <<task, rc, mainVars>>
    BY <1>3, FilesFacts
  <2> QED
    BY <1>1, <2>1 DEF mainVars
<1>4. CASE Collect
  <2>1. /\ task' = task /\ rc' = rc /\ main' = main /\ collected' = collected + 1
        /\ collected + 1 \in Tables /\ task[collected + 1] = "returned"
        /\ exit_code' = IF rc[collected + 1] # 0 THEN rc[collected + 1] ELSE exit_code
    BY <1>0, <1>4 DEF Collect, taskVars, Tables
  <2>2. CASE rc[collected + 1] # 0
    <3>1. (\E t \in Tables : entries[t].status = "Failed") \/ failed # {}
      BY <2>1, <2>2 DEF StatusInv
    <3> QED
      BY <1>1, <2>1, <2>2, <3>1
  <2>3. CASE rc[collected + 1] = 0
    <3>1. \A t \in 1 .. collected' : t = collected + 1 \/ t \in 1 .. collected
      BY <1>0, <2>1
    <3> QED
      BY <1>1, <2>1, <2>3, <3>1
  <2> QED
    BY <2>2, <2>3
<1>5. CASE CollectException
  <2>1. collected + 1 \in Tables /\ ReportFailure(collected + 1) /\ exit_code' = 2
    BY <1>0, <1>5 DEF CollectException, Tables
  <2>2. entries'[collected + 1].status = "Failed"
    BY <2>1, CallEntries
  <2> QED
    BY <2>1, <2>2
<1>6. CASE Finalize \/ FinalizeFails
  <2>1. /\ task' = task /\ rc' = rc /\ collected' = collected
        /\ \/ exit_code' = exit_code /\ main = "collect" /\ main' = "stop"
           \/ main' = "stop_after_failure" /\ exit_code' # 0
    BY <1>6 DEF Finalize, FinalizeFails, MainMoves, taskVars
  <2> QED
    BY <1>1, <2>1
<1>7. CASE Stop \/ Join
  <2>1. /\ task' = task /\ rc' = rc /\ collected' = collected /\ exit_code' = exit_code
        /\ \/ main = "stop_after_failure" /\ main' = "join_after_failure"
           \/ main = "join_after_failure" /\ main' = "exited_after_failure"
           \/ main \in {"stop", "join"}
    BY <1>7 DEF Stop, Join, MainMoves, taskVars
  <2> QED
    BY <1>1, <2>1
<1>8. CASE RenderStep \/ UNCHANGED programVars
  BY <1>1, <1>8, RenderKeeps DEF taskVars, mainVars
<1> QED
  BY <1>2, <1>3, <1>4, <1>5, <1>6, <1>7, <1>8 DEF ProgramNext, MainStep

LEMMA InitProgram == ProgramInit => CliInv /\ SightInv /\ TaskInv
<1> SUFFICES ASSUME ProgramInit PROVE CliInv /\ SightInv /\ TaskInv
  OBVIOUS
<1> USE DEF ProgramInit
<1>0. FilesTable \in Tables /\ 0 \in 0 .. TableCount /\ Tables # {}
  BY FilesTableAssumption, TableCountIsNat DEF Tables
<1>1. CliInv /\ SightInv
  BY InitCli DEF SightInv, NoticeWritten
<1>2. /\ \A t \in Tables : task[t] = "queued" /\ rc[t] = 0 /\ entries[t] = NewEntry
      /\ \A w \in Workers : calls[w] = "none" /\ pc[w] = "pop"
      /\ first_error = 0 /\ completed = {} /\ failed = {}
  BY DEF CliInit, Init
<1>3. StepTypeInv
  BY <1>0 DEF StepTypeInv
<1>4. MainInv
  <2>1. 1 .. collected = {}
    OBVIOUS
  <2> QED
    BY <2>1 DEF MainInv, Exited
<1>5. ErrorInv /\ CallInv
  BY <1>0, <1>2 DEF ErrorInv, CallInv
<1>6. Status(FilesTable) = "Pending"
  BY <1>0, <1>2 DEF Status, NewEntry
<1>7. StatusInv /\ DoneInv
  BY <1>0, <1>2, <1>6 DEF StatusInv, DoneInv
<1>8. ExitInv
  <2>1. 1 .. collected = {}
    OBVIOUS
  <2> QED
    BY <2>1 DEF ExitInv
<1> QED
  BY <1>1, <1>3, <1>4, <1>5, <1>7, <1>8 DEF TaskInv

LEMMA StepProgram == ProgramInv /\ SafeInv' /\ [ProgramNext]_programVars => ProgramInv'
<1> SUFFICES ASSUME ProgramInv, SafeInv', [ProgramNext]_programVars PROVE ProgramInv'
  OBVIOUS
<1>1. /\ SafeInv /\ CliInv /\ SightInv /\ CliTypeInv
      /\ StepTypeInv /\ MainInv /\ ErrorInv /\ CallInv /\ StatusInv /\ DoneInv /\ ExitInv
  BY DEF ProgramInv, CliInv, TaskInv
<1>2. CliInv' /\ SightInv'
  <2>1. CliStep
    BY <1>1, StepIsCliCall DEF CliStep
  <2> QED
    BY <1>1, <2>1, StepSight, StepCli
<1>3. StepTypeInv' /\ ErrorInv' /\ CallInv'
  BY <1>1, ProgramStepIsStep, StepTypes, StepError, StepCall
<1>4. StatusInv' /\ DoneInv' /\ ExitInv'
  BY <1>1, StepStatus, StepDone, StepExit
<1>5. MainInv'
  BY <1>1, <1>3, StepMain
<1> QED
  BY <1>2, <1>3, <1>4, <1>5 DEF ProgramInv, TaskInv

LEMMA AlwaysProgram == ProgramSpec => []ProgramInv
<1>1. ProgramInit /\ SafeInv => ProgramInv
  BY InitProgram DEF ProgramInv
<1> QED
  BY <1>1, StepProgram, ProgramImplementsPartitionFiles, AlwaysSafe, PTL DEF ProgramSpec

-----------------------------------------------------------------------------
\* Type correctness: tasks, workers, main, the render thread and the controller
\* are where the code can put them, whatever they have reported.
THEOREM ProgramTypeCorrect == ProgramSpec => []ProgramTypeOK
<1>1. ProgramInv => ProgramTypeOK
  <2> SUFFICES ASSUME ProgramInv PROVE ProgramTypeOK
    OBVIOUS
  <2>1. TypeOK /\ CliTypeInv /\ ThreadInv /\ StepTypeInv
    BY DEF ProgramInv, SafeInv, CliInv, TaskInv
  <2>2. CliTypeOK
    BY <2>1 DEF CliTypeOK, CliTypeInv, ThreadInv, Display
  <2> QED
    BY <2>1, <2>2 DEF ProgramTypeOK, StepTypeInv
<1> QED
  BY <1>1, AlwaysProgram, PTL

\* What CliProgressController shows is what happened: on a terminal every failure
\* message is still there above one whole frame, a frame that is out of date is
\* about to be redrawn, and after the exit the entries are shown as they are.
THEOREM DisplayIsTruthful == ProgramSpec => []DisplayTruthful
<1>1. ProgramInv => DisplayTruthful
  <2> SUFFICES ASSUME ProgramInv PROVE DisplayTruthful
    OBVIOUS
  <2>1. CliTypeInv /\ AppendInv /\ SightInv /\ MainInv
    BY DEF ProgramInv, CliInv, TaskInv
  <2>2. /\ Len(reported) \in Nat /\ DOMAIN reported = 1 .. Len(reported)
        /\ TableCount \in Nat
    BY <2>1, TableCountIsNat DEF CliTypeInv
  <2>3. MessagesKept
    BY <2>1, <2>2 DEF MessagesKept, SightInv, NoticeInv, ScreenInv
  <2>4. ScreenWhole(StrayLines)
    <3>1. CASE NoticeWritten
      <4>1. StrayLines = 1
        BY <3>1 DEF StrayLines
      <4>2. interactive_tty => /\ Len(display.screen) = Len(reported) + 1 + TableCount
                               /\ display.cursor = Len(display.screen) + 1
        BY <2>1, <2>2, <3>1 DEF SightInv, NoticeInv, Framed
      <4> QED
        BY <4>1, <4>2 DEF ScreenWhole
    <3>2. CASE ~NoticeWritten
      <4>1. StrayLines = 0
        BY <3>2 DEF StrayLines
      <4> SUFFICES ASSUME interactive_tty PROVE ScreenWhole(0)
        BY <4>1 DEF ScreenWhole
      <4>2. ScreenInv /\ Framed(display, Len(reported))
        BY <2>1, <3>2 DEF SightInv, ScreenInv
      <4>3. /\ Len(display.screen) = Len(reported) + 0 + TableCount
            /\ display.cursor = Len(display.screen) + 1
            /\ Len(display.screen) - TableCount = Len(reported)
        BY <2>2, <4>2 DEF Framed
      <4>4. ASSUME NEW t \in Tables PROVE "table" \in DOMAIN Shown(t) /\ Shown(t).table = t
        <5>1. PICK e \in Entry : Shown(t) = Line(t, e)
          BY <4>2, <4>3 DEF ScreenInv, Shown
        <5> QED
          BY <5>1 DEF Line
      <4> QED
        BY <4>3, <4>4 DEF ScreenWhole
    <3> QED
      BY <3>1, <3>2
  <2>5. NoticeWritten \/ StaleIsDirty
    BY <2>1 DEF SightInv, StaleIsDirty, RenderInv, FrameShows
  <2>6. Exited => ShowsEntries
    BY <2>1 DEF MainInv, ShowsEntries, FrameShows, AppendInv
  <2> QED
    BY <2>3, <2>4, <2>5, <2>6 DEF DisplayTruthful
<1> QED
  BY <1>1, AlwaysProgram, PTL

\* main's exit code is 0 only when every table is complete or was reported, and
\* is not 0 only when something failed.
THEOREM ExitCodeIsTruthful == ProgramSpec => []ExitCodeTruthful
<1>1. ProgramInv => ExitCodeTruthful
  <2> SUFFICES ASSUME ProgramInv, Exited PROVE ExitCodeTruthful
    BY DEF ExitCodeTruthful
  <2>1. StepTypeInv /\ MainInv /\ StatusInv /\ DoneInv /\ ExitInv
    BY DEF ProgramInv, TaskInv
  <2>2. collected = TableCount /\ main \in {"exited", "exited_after_failure"}
    BY <2>1 DEF MainInv, Exited
  <2>3. ASSUME exit_code = 0, NEW t \in Tables
        PROVE  /\ rc[t] = 0 /\ task[t] = "returned"
               /\ Status(t) # "Failed" => Status(t) = "Done"
               /\ t = FilesTable => Status(t) = "Done" /\ completed = Parts
    <3>1. rc[t] = 0 /\ task[t] = "returned"
      BY <2>1, <2>2, <2>3 DEF ExitInv, Tables
    <3>2. Status(t) \in {"Done", "Failed"}
      BY <2>1, <3>1 DEF StatusInv
    <3> QED
      BY <2>1, <3>1, <3>2 DEF DoneInv
  <2>4. exit_code # 0 => \/ \E t \in Tables : Status(t) = "Failed"
                         \/ failed # {}
                         \/ main = "exited_after_failure"
    BY <2>1, <2>2 DEF ExitInv
  <2> QED
    BY <2>3, <2>4 DEF ExitCodeTruthful
<1> QED
  BY <1>1, AlwaysProgram, PTL

-----------------------------------------------------------------------------
(* Counting *)

\* The entry of FilesTable counts what its workers did.
Committed == Cardinality(completed) + Cardinality(InCall({"rows", "marked"}))

RunningInv ==
  Status(FilesTable) = "Running" =>
    /\ entries[FilesTable].part_count = PartCount
    /\ entries[FilesTable].completed_parts = Cardinality(completed) + Cardinality(InCall({"marked"}))
    /\ entries[FilesTable].rows_written \in Committed .. Committed + Cardinality(failed)

LEMMA Finite ==
  ASSUME SafeInv, NEW set
  PROVE  /\ IsFiniteSet(completed) /\ Cardinality(completed) \in Nat
         /\ IsFiniteSet(failed) /\ Cardinality(failed) \in Nat
         /\ IsFiniteSet(InCall(set)) /\ Cardinality(InCall(set)) \in Nat
<1>1. IsFiniteSet(Parts)
  BY PartCountAssumption, FS_Interval DEF Parts
<1>2. IsFiniteSet(completed) /\ IsFiniteSet(failed)
  BY <1>1, FS_Subset DEF SafeInv, TypeOK
<1>3. IsFiniteSet(InCall(set))
  BY WorkersAssumption, FS_Subset DEF InCall
<1> QED
  BY <1>2, <1>3, FS_CardinalityType

\* The partitions that ended and the ones in work are different ones.
LEMMA Room ==
  ASSUME SafeInv
  PROVE  LET busy == {w \in Workers : pc[w] = "generate"} IN
         /\ IsFiniteSet(busy) /\ Cardinality(busy) \in Nat
         /\ Cardinality(completed) + Cardinality(failed) + Cardinality(busy) <= PartCount
<1> DEFINE busy == {w \in Workers : pc[w] = "generate"}
           ended == completed \cup failed
           free == Parts \ ended
<1>1. IsFiniteSet(Parts) /\ Cardinality(Parts) = PartCount
  BY PartCountAssumption, FS_Interval DEF Parts
<1>2. /\ IsFiniteSet(completed) /\ Cardinality(completed) \in Nat
      /\ IsFiniteSet(failed) /\ Cardinality(failed) \in Nat
  BY Finite
<1>3. IsFiniteSet(ended) /\ Cardinality(ended) = Cardinality(completed) + Cardinality(failed)
  <2>1. completed \cap failed = {}
    BY DEF SafeInv, NoPartTwice
  <2>2. Cardinality(completed \cap failed) = 0
    BY <2>1, FS_EmptySet
  <2>3. /\ IsFiniteSet(completed \cup failed)
        /\ Cardinality(completed \cup failed) =
             Cardinality(completed) + Cardinality(failed) - Cardinality(completed \cap failed)
    BY <1>2, FS_Union
  <2> QED
    BY <1>2, <2>2, <2>3
<1>4. IsFiniteSet(free) /\ Cardinality(free) \in Nat
  BY <1>1, FS_Subset, FS_CardinalityType
<1>5. Cardinality(ended) + Cardinality(free) = PartCount
  <2>1. ended \cup free = Parts /\ ended \cap free = {}
    BY DEF SafeInv, TypeOK
  <2>2. Cardinality(ended \cup free) =
          Cardinality(ended) + Cardinality(free) - Cardinality(ended \cap free)
    BY <1>3, <1>4, FS_Union
  <2>3. Cardinality(ended \cap free) = 0
    BY <2>1, FS_EmptySet
  <2> HIDE DEF ended, free
  <2>4. Cardinality(ended) \in Nat
    BY <1>3, FS_CardinalityType
  <2> QED
    BY <1>1, <1>4, <2>1, <2>2, <2>3, <2>4
<1>6. Cardinality(busy) <= Cardinality(free)
  <2> DEFINE f == [w \in busy |-> part[w]]
  <2>1. \A w \in busy : Holding(w)
    BY DEF Holding
  <2>2. \A w \in busy : part[w] \in free
    BY <2>1 DEF SafeInv, DrawnInv, NoPartTwice
  <2>3. \A v, w \in busy : part[v] = part[w] => v = w
    BY <2>1 DEF SafeInv, NoPartTwice
  <2>4. f \in Injection(busy, free)
    BY <2>2, <2>3 DEF Injection, IsInjective
  <2> HIDE DEF f, busy, free
  <2> QED
    BY <1>4, <2>4, FS_Injection
<1>7. IsFiniteSet(busy) /\ Cardinality(busy) \in Nat
  BY WorkersAssumption, FS_Subset, FS_CardinalityType
<1> HIDE DEF busy, ended, free
<1> QED
  BY <1>2, <1>3, <1>4, <1>5, <1>6, <1>7, PartCountAssumption DEF busy

\* A worker that has yet to make its call leaves room for it.
LEMMA RoomFor ==
  ASSUME SafeInv, CallInv, NEW w \in Workers, NEW set, w \notin InCall(set), pc[w] = "generate",
         "none" \notin set
  PROVE  Cardinality(completed) + Cardinality(failed) + Cardinality(InCall(set)) + 1 <= PartCount
<1> DEFINE busy == {v \in Workers : pc[v] = "generate"}
<1>1. /\ IsFiniteSet(busy) /\ Cardinality(busy) \in Nat
      /\ Cardinality(completed) + Cardinality(failed) + Cardinality(busy) <= PartCount
  BY Room
<1>2. IsFiniteSet(InCall(set)) /\ Cardinality(InCall(set)) \in Nat
      /\ Cardinality(completed) \in Nat /\ Cardinality(failed) \in Nat
  BY Finite
<1>3. InCall(set) \cup {w} \subseteq busy
  BY DEF InCall, CallInv
<1>4. IsFiniteSet(InCall(set) \cup {w}) /\ Cardinality(InCall(set) \cup {w}) = Cardinality(InCall(set)) + 1
  BY <1>2, FS_AddElement
<1> HIDE DEF busy
<1>5. Cardinality(InCall(set) \cup {w}) <= Cardinality(busy)
  BY <1>1, <1>3, FS_Subset
<1> QED
  BY <1>1, <1>2, <1>4, <1>5, PartCountAssumption

\* One more call, or one less.
LEMMA CallCounts ==
  ASSUME SafeInv, StepTypeInv, NEW w \in Workers, NEW to, calls' = [calls EXCEPT ![w] = to],
         NEW set
  PROVE  /\ calls[w] \in set /\ to \notin set =>
              Cardinality(InCall(set)') = Cardinality(InCall(set)) - 1
         /\ calls[w] \notin set /\ to \in set =>
              Cardinality(InCall(set)') = Cardinality(InCall(set)) + 1
         /\ (calls[w] \in set <=> to \in set) =>
              Cardinality(InCall(set)') = Cardinality(InCall(set))
<1>1. /\ calls'[w] = to /\ \A v \in Workers : v # w => calls'[v] = calls[v]
  BY DEF StepTypeInv
<1>2. IsFiniteSet(InCall(set))
  BY Finite
<1>3. CASE calls[w] \in set /\ to \notin set
  <2>1. InCall(set)' = InCall(set) \ {w} /\ w \in InCall(set)
    BY <1>1, <1>3 DEF InCall
  <2> QED
    BY <1>2, <1>3, <2>1, FS_RemoveElement
<1>4. CASE calls[w] \notin set /\ to \in set
  <2>1. InCall(set)' = InCall(set) \cup {w} /\ w \notin InCall(set)
    BY <1>1, <1>4 DEF InCall
  <2> QED
    BY <1>2, <1>4, <2>1, FS_AddElement
<1>5. CASE calls[w] \in set <=> to \in set
  <2>1. InCall(set)' = InCall(set)
    BY <1>1, <1>5 DEF InCall
  <2> QED
    BY <1>5, <2>1
<1> QED
  BY <1>3, <1>4, <1>5

\* What the two calls of a worker that generates write, with room for the row and
\* for the partition.
LEMMA GenerateEntries ==
  ASSUME CliTypeInv, NEW t \in Tables, Status(t) = "Running"
  PROVE  /\ AddCommittedRows(t, 1) /\ entries[t].rows_written < MaxRows =>
              /\ entries'[t].rows_written = entries[t].rows_written + 1
              /\ entries'[t].part_count = entries[t].part_count
              /\ entries'[t].completed_parts = entries[t].completed_parts
         /\ MarkPartCompleted(t) /\ entries[t].completed_parts < entries[t].part_count =>
              /\ entries'[t].rows_written = entries[t].rows_written
              /\ entries'[t].part_count = entries[t].part_count
              /\ entries'[t].completed_parts = entries[t].completed_parts + 1
<1>0. /\ entries \in [Tables -> Entry] /\ entries[t] \in Entry /\ MaxRows \in Nat
      /\ entries[t].rows_written \in Nat /\ entries[t].part_count \in Nat
      /\ entries[t].completed_parts \in Nat
  BY MaxRowsAssumption, EntryFields DEF CliTypeInv
<1>1. ASSUME AddCommittedRows(t, 1), entries[t].rows_written < MaxRows
      PROVE  /\ entries'[t].rows_written = entries[t].rows_written + 1
             /\ entries'[t].part_count = entries[t].part_count
             /\ entries'[t].completed_parts = entries[t].completed_parts
  <2>1. ~(MaxRows - entries[t].rows_written < 1)
    BY <1>0, <1>1
  <2>2. entries' = [entries EXCEPT ![t] =
          [entries[t] EXCEPT !.status = "Running", !.rows_written = entries[t].rows_written + 1]]
    BY <1>0, <1>1, <2>1 DEF AddCommittedRows, Update, Entry
  <2> QED
    BY <1>0, <2>2 DEF Entry
<1>2. ASSUME MarkPartCompleted(t), entries[t].completed_parts < entries[t].part_count
      PROVE  /\ entries'[t].rows_written = entries[t].rows_written
             /\ entries'[t].part_count = entries[t].part_count
             /\ entries'[t].completed_parts = entries[t].completed_parts + 1
  <2> DEFINE count == entries[t].completed_parts + 1
             bound == entries[t].part_count
             parts == IF bound \in 1 .. count THEN bound ELSE count
  <2>1. parts = count
    BY <1>0, <1>2
  <2>2. entries' = [entries EXCEPT ![t] =
          [entries[t] EXCEPT !.status = "Running", !.completed_parts = parts]]
    BY <1>2 DEF MarkPartCompleted, Update
  <2> HIDE DEF parts
  <2> QED
    BY <1>0, <2>1, <2>2 DEF Entry
<1> QED
  BY <1>1, <1>2

\* The numbers RunningInv speaks of, before and after a step of a worker.
LEMMA StepRunningFiles ==
  ASSUME PartCount <= MaxRows, SafeInv, CliTypeInv, StepTypeInv, CallInv, StatusInv, RunningInv,
         NEW w \in Workers, FilesStep(w), entries'[FilesTable].status = "Running"
  PROVE  RunningInv'
<1> DEFINE F == FilesTable
           done == Cardinality(completed)
           lost == Cardinality(failed)
           rowed == Cardinality(InCall({"rows", "marked"}))
           marked == Cardinality(InCall({"marked"}))
<1>0. F \in Tables /\ task[F] = "writing" /\ CliStep
  <2>1. [ProgramNext]_programVars
    BY DEF ProgramNext
  <2> QED
    BY <2>1, StepIsCliCall, FilesFacts, FilesTableAssumption DEF Tables, CliStep
<1>1. Status(F) = "Running"
  <2>1. Status(F) # "Failed"
    BY <1>0, FailedStays DEF Status
  <2> QED
    BY <1>0, <2>1 DEF StatusInv
<1>2. /\ entries[F].part_count = PartCount
      /\ entries[F].completed_parts = done + marked
      /\ entries[F].rows_written \in done + rowed .. done + rowed + lost
  BY <1>1 DEF RunningInv, Committed
<1>3. /\ done \in Nat /\ lost \in Nat /\ rowed \in Nat /\ marked \in Nat
      /\ IsFiniteSet(completed) /\ IsFiniteSet(failed)
  BY Finite
<1>4. SUFFICES /\ entries'[F].part_count = PartCount
               /\ entries'[F].completed_parts = done' + marked'
               /\ entries'[F].rows_written \in done' + rowed' .. done' + rowed' + lost'
  BY DEF RunningInv, Committed
<1> HIDE DEF F
<1>5. CASE Schedules(w)
  <2>1. entries' = entries /\ completed' = completed /\ failed' = failed /\ calls' = calls
    BY <1>5 DEF Schedules, cliVars, taskVars, PopCheckClosed, PopDraw, CheckStop,
       StoreError, StoreStop, Close, Get
  <2> QED
    BY <1>2, <2>1 DEF InCall
<1>6. CASE CommitRows(w)
  <2>1. /\ AddCommittedRows(F, 1) /\ calls' = [calls EXCEPT ![w] = "rows"] /\ calls[w] = "none"
        /\ pc[w] = "generate" /\ completed' = completed /\ failed' = failed
    BY <1>6 DEF CommitRows, Calls, vars, F
  <2>2. done + lost + rowed + 1 <= PartCount
    BY <2>1, RoomFor DEF InCall
  <2>3. entries[F].rows_written < MaxRows
    BY <1>2, <1>3, <2>2, PartCountAssumption, MaxRowsAssumption
  <2>4. rowed' = rowed + 1 /\ marked' = marked
    <3>1. /\ calls[w] \notin {"rows", "marked"} /\ "rows" \in {"rows", "marked"}
          /\ calls[w] \in {"marked"} <=> "rows" \in {"marked"}
      BY <2>1
    <3> QED
      BY <2>1, <3>1, CallCounts, Zenon
  <2>5. /\ entries'[F].rows_written = entries[F].rows_written + 1
        /\ entries'[F].part_count = entries[F].part_count
        /\ entries'[F].completed_parts = entries[F].completed_parts
    BY <1>0, <1>1, <2>1, <2>3, GenerateEntries
  <2>6. done' = done /\ lost' = lost
    BY <2>1
  <2> HIDE DEF done, lost, rowed, marked
  <2> QED
    BY <1>2, <1>3, <2>4, <2>5, <2>6
<1>7. CASE MarkPart(w)
  <2>1. /\ MarkPartCompleted(F) /\ calls' = [calls EXCEPT ![w] = "marked"] /\ calls[w] = "rows"
        /\ pc[w] = "generate" /\ completed' = completed /\ failed' = failed
    BY <1>7 DEF MarkPart, Calls, vars, F
  <2>2. done + lost + marked + 1 <= PartCount
    BY <2>1, RoomFor DEF InCall
  <2>3. entries[F].completed_parts < entries[F].part_count
    BY <1>2, <1>3, <2>2, PartCountAssumption
  <2>4. rowed' = rowed /\ marked' = marked + 1
    <3>1. /\ calls[w] \in {"rows", "marked"} <=> "marked" \in {"rows", "marked"}
          /\ calls[w] \notin {"marked"} /\ "marked" \in {"marked"}
      BY <2>1
    <3> QED
      BY <2>1, <3>1, CallCounts, Zenon
  <2>5. /\ entries'[F].rows_written = entries[F].rows_written
        /\ entries'[F].part_count = entries[F].part_count
        /\ entries'[F].completed_parts = entries[F].completed_parts + 1
    BY <1>0, <1>1, <2>1, <2>3, GenerateEntries
  <2>6. done' = done /\ lost' = lost
    BY <2>1
  <2> HIDE DEF done, lost, rowed, marked
  <2> QED
    BY <1>2, <1>3, <2>4, <2>5, <2>6
<1>8. CASE ReportPart(w) \/ ReportCleanup(w)
  <2>1. ReportFailure(F)
    BY <1>8 DEF ReportPart, ReportCleanup, F
  <2> QED
    BY <1>0, <2>1, CallEntries DEF F
<1>9. CASE PartOk(w)
  <2>1. /\ entries' = entries /\ calls' = [calls EXCEPT ![w] = "none"] /\ calls[w] = "marked"
        /\ pc[w] = "generate" /\ completed' = completed \cup {part[w]} /\ failed' = failed
    BY <1>9 DEF PartOk, Leaves, GenerateOk, Goto, cliVars
  <2>2. part[w] \notin completed
    BY <2>1 DEF SafeInv, NoPartTwice, Holding
  <2>3. done' = done + 1 /\ lost' = lost
    BY <1>3, <2>1, <2>2, FS_AddElement
  <2>4. rowed' = rowed - 1 /\ marked' = marked - 1
    <3>1. /\ calls[w] \in {"rows", "marked"} /\ "none" \notin {"rows", "marked"}
          /\ calls[w] \in {"marked"} /\ "none" \notin {"marked"}
      BY <2>1
    <3> QED
      BY <2>1, <3>1, CallCounts, Zenon
  <2> HIDE DEF done, lost, rowed, marked
  <2> QED
    BY <1>2, <1>3, <2>1, <2>3, <2>4
<1>10. CASE PartFails(w)
  <2>1. calls[w] \in {"reported", "cleaned"}
    BY <1>10 DEF PartFails, Leaves
  <2> QED
    BY <1>1, <2>1 DEF StatusInv, F
<1>11. CASE PartThrows(w)
  <2>1. /\ entries' = entries /\ calls' = [calls EXCEPT ![w] = "none"] /\ calls[w] \in {"none", "rows"}
        /\ pc[w] = "generate" /\ completed' = completed /\ failed' = failed \cup {part[w]}
    BY <1>11 DEF PartThrows, Leaves, GenerateThrows, Goto, cliVars
  <2>2. part[w] \notin failed
    BY <2>1 DEF SafeInv, NoPartTwice, Holding
  <2>3. done' = done /\ lost' = lost + 1
    BY <1>3, <2>1, <2>2, FS_AddElement
  <2>4. /\ rowed' = IF calls[w] = "rows" THEN rowed - 1 ELSE rowed
        /\ marked' = marked
    <3>1. CASE calls[w] = "rows"
      <4>1. /\ calls[w] \in {"rows", "marked"} /\ "none" \notin {"rows", "marked"}
            /\ calls[w] \in {"marked"} <=> "none" \in {"marked"}
        BY <3>1
      <4>2. rowed' = rowed - 1 /\ marked' = marked
        BY <2>1, <4>1, CallCounts, ZenonT(30)
      <4> QED
        BY <3>1, <4>2
    <3>2. CASE calls[w] = "none"
      <4>1. /\ calls[w] \in {"rows", "marked"} <=> "none" \in {"rows", "marked"}
            /\ calls[w] \in {"marked"} <=> "none" \in {"marked"}
        BY <3>2
      <4>2. rowed' = rowed /\ marked' = marked
        BY <2>1, <4>1, CallCounts, Zenon
      <4> QED
        BY <3>2, <4>2
    <3> QED
      BY <2>1, <3>1, <3>2
  <2> HIDE DEF done, lost, rowed, marked
  <2> QED
    BY <1>2, <1>3, <2>1, <2>3, <2>4
<1> QED
  BY <1>5, <1>6, <1>7, <1>8, <1>9, <1>10, <1>11 DEF FilesStep

LEMMA StepRunning ==
  ASSUME PartCount <= MaxRows, SafeInv, CliTypeInv, StepTypeInv, CallInv, StatusInv, RunningInv,
         [ProgramNext]_programVars
  PROVE  RunningInv'
<1>0. FilesTable \in Tables /\ PartCount \in Nat
  BY FilesTableAssumption, PartCountAssumption DEF Tables
<1> SUFFICES ASSUME entries'[FilesTable].status = "Running" PROVE RunningInv'
  BY DEF RunningInv, Status
<1>1. ASSUME UNCHANGED <<vars, calls>>, entries'[FilesTable] = entries[FilesTable]
      PROVE  RunningInv'
  BY <1>1 DEF RunningInv, Committed, InCall, Status, vars
<1>2. CASE TaskStep(FilesTable)
  <2>1. TaskMoves(FilesTable) /\ UNCHANGED <<vars, calls>>
    BY <1>0, <1>2, TaskFacts
  <2>2. CASE task[FilesTable] = "queued" /\ MarkTableStarted(FilesTable, PartCount)
    <3>1. entries[FilesTable] = NewEntry /\ Status(FilesTable) # "Failed"
      BY <1>0, <2>2 DEF StatusInv, NewEntry, Status
    <3>2. /\ entries'[FilesTable].part_count = PartCount
          /\ entries'[FilesTable].rows_written = 0 /\ entries'[FilesTable].completed_parts = 0
      BY <1>0, <2>2, <3>1, CallEntries DEF NewEntry
    <3>3. completed' = {} /\ failed' = {} /\ \A w \in Workers : calls'[w] = "none"
      BY <2>1, <2>2 DEF CallInv, vars
    <3>4. InCall({"marked"})' = {} /\ InCall({"rows", "marked"})' = {}
      BY <3>3 DEF InCall
    <3>5. /\ Cardinality(completed') = 0 /\ Cardinality(failed') = 0
          /\ Cardinality(InCall({"marked"})') = 0 /\ Cardinality(InCall({"rows", "marked"})') = 0
      BY <3>3, <3>4, FS_EmptySet
    <3> QED
      BY <3>2, <3>5 DEF RunningInv, Committed
  <2>3. CASE task[FilesTable] = "finish" /\ MarkTableFinished(FilesTable)
    <3>1. CASE Status(FilesTable) = "Failed"
      BY <2>3, <3>1 DEF MarkTableFinished, cliVars, Status
    <3>2. CASE Status(FilesTable) # "Failed"
      BY <1>0, <2>3, <3>2, CallEntries
    <3> QED
      BY <3>1, <3>2
  <2>4. CASE entries'[FilesTable] = entries[FilesTable]
    BY <1>1, <2>1, <2>4
  <2> QED
    BY <2>1, <2>2, <2>3, <2>4 DEF TaskMoves, CallInv
<1>3. ASSUME NEW u \in Tables, u # FilesTable, TaskStep(u) PROVE RunningInv'
  BY <1>0, <1>1, <1>3, TaskFacts
<1>4. ASSUME NEW w \in Workers, FilesStep(w) PROVE RunningInv'
  BY <1>4, StepRunningFiles
<1>5. CASE MainStep
  BY <1>0, <1>1, <1>5, MainFacts DEF taskVars
<1>6. CASE RenderStep \/ UNCHANGED programVars
  BY <1>1, <1>6, RenderKeeps DEF taskVars
<1> QED
  BY <1>2, <1>3, <1>4, <1>5, <1>6 DEF ProgramNext

\* The entries that CliProgressController shows are true to the files, as long as
\* the rows of a run can be counted: a table is failed exactly when a failure was
\* reported of it, done only when it has all its partitions, and counts exactly
\* the closed files while it is running.  With more rows than rows_written can
\* hold the count saturates.
THEOREM EntriesAreTruthful ==
  ASSUME PartCount <= MaxRows
  PROVE  ProgramSpec => []EntriesTruthful
<1>1. ProgramInit => RunningInv
  <2> SUFFICES ASSUME ProgramInit PROVE Status(FilesTable) # "Running"
    BY DEF RunningInv
  <2> QED
    BY FilesTableAssumption DEF ProgramInit, CliInit, NewEntry, Status, Tables
<1>2. ProgramInv /\ RunningInv /\ [ProgramNext]_programVars => RunningInv'
  BY StepRunning DEF ProgramInv, CliInv, TaskInv
<1>3. ProgramInv /\ RunningInv => EntriesTruthful
  <2> SUFFICES ASSUME ProgramInv, RunningInv PROVE EntriesTruthful
    OBVIOUS
  <2>1. CliTypeInv /\ FailedInv /\ DoneInv
    BY DEF ProgramInv, CliInv, TaskInv
  <2>2. DOMAIN reported = 1 .. Len(reported)
    BY <2>1 DEF CliTypeInv
  <2> QED
    BY <2>1, <2>2 DEF FailedInv, DoneInv, RunningInv, Committed, EntriesTruthful
<1> QED
  BY <1>1, <1>2, <1>3, AlwaysProgram, PTL DEF ProgramSpec
=============================================================================
