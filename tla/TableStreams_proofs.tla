-------------------------- MODULE TableStreams_proofs --------------------------
(***************************************************************************)
(* What the generators of src/Tables deliver, partition by partition and   *)
(* batch by batch: where a cursor is, how many rows it has delivered and   *)
(* under which keys; and which rows, where the streams of the iterator are *)
(* in every one of them.                                                   *)
(***************************************************************************)
EXTENDS TableRows_proofs

-----------------------------------------------------------------------------
(* The inductive invariant.                                                 *)

way == Head(todo).way
Delivered == Len(rows[table][way])

\* The jobs still to run are those of a list without repetition.
TodoInv ==
  /\ todo \in Seq([table : Tables, way : Ways])
  /\ \A i, j \in 1..Len(todo) : todo[i] = todo[j] => i = j

\* Nothing is left over between two jobs.
IdleInv == parts.num = 0 => parts = NoParts /\ iter = NoIterator /\ batch = <<>> /\ max = 0

\* The number of partitions comes from the option and the rows of the table.
CuttingInv ==
  parts.num > 0 =>
    /\ todo # <<>>
    /\ parts.count \in 1..MaxParts /\ parts.num \in 1..parts.count
    /\ parts.target \in Targets /\ (way = "full" <=> parts.target = 0)
    /\ parts.count = ResolvePartCountByTargetRows(RowCount(table, scale), parts.target)
    /\ max \in 1..MaxBatchRows

\* The iterator is in its partition.
PlaceInv ==
  parts.num > 0 =>
    /\ IsIterator(iter) /\ iter.scale_factor = scale
    /\ iter.end = PartEnd(table, parts.num, parts.count, scale)
    /\ PartStart(table, parts.num, parts.count, scale) <= iter.index /\ iter.index <= iter.end

RowsInv ==
  /\ DOMAIN rows = Tables
  /\ \A t \in Tables : DOMAIN rows[t] = Ways /\ \A w \in Ways : IsSeq(rows[t][w])
  /\ IsSeq(batch) /\ Len(batch) <= max

\* What has been delivered are the rows of the units before the iterator.
DeliveredInv ==
  parts.num > 0 /\ table # "lineitem" =>
    /\ parts.begin = RowsPerUnit(table) * PartStart(table, parts.num, parts.count, scale)
    /\ Delivered + Len(batch) = RowsPerUnit(table) * iter.index + iter.line
    /\ iter.line < RowsPerUnit(table)
    /\ iter.index = iter.end => iter.line = 0

KeysInv ==
  /\ \A t \in Tables \ {"lineitem"}, w \in Ways :
       \A k \in 1..Len(rows[t][w]) : HasKey(t, k, rows[t][w][k], scale)
  /\ parts.num > 0 /\ table # "lineitem" =>
       \A k \in 1..Len(batch) : HasKey(table, Delivered + k, batch[k], scale)

\* A job not yet begun has delivered nothing.
FreshInv ==
  \A i \in 1..Len(todo) : i > 1 \/ parts.num = 0 => rows[todo[i].table][todo[i].way] = <<>>

\* A job that is through has delivered the whole table.
DoneInv ==
  \A t \in Tables \ {"lineitem"}, w \in Ways :
    Finished(t, w) => Len(rows[t][w]) = RowsPerUnit(t) * EndRow(t, UnitsOf(t, scale))

StreamsInv ==
  /\ scale \in Scales
  /\ parts \in [num : Nat, count : Nat, target : Nat, begin : Nat]
  /\ TodoInv /\ IdleInv /\ CuttingInv /\ PlaceInv /\ RowsInv
  /\ DeliveredInv /\ KeysInv /\ FreshInv /\ DoneInv

LEMMA SeqHead ==
  ASSUME NEW S, NEW s \in Seq(S)
  PROVE  /\ \A i \in 1..Len(s) : s[i] \in S
         /\ Len(s) \in Nat
         /\ s # <<>> => /\ Len(s) \in Nat \ {0} /\ Head(s) = s[1]
                        /\ Tail(s) \in Seq(S) /\ Len(Tail(s)) = Len(s) - 1
                        /\ \A i \in 1..(Len(s) - 1) : Tail(s)[i] = s[i + 1]
OBVIOUS

\* The job at the head of the list.
LEMMA HeadJob ==
  ASSUME TodoInv, todo # <<>>
  PROVE  /\ table \in Tables /\ way \in Ways
         /\ 1 \in 1..Len(todo) /\ todo[1].table = table /\ todo[1].way = way
         /\ todo[1] = [table |-> table, way |-> way]
<1> DEFINE J == [table : Tables, way : Ways]
<1>1. todo \in Seq(J)
  BY DEF TodoInv
<1> HIDE DEF J
<1>2. Len(todo) \in Nat \ {0} /\ Head(todo) = todo[1]
  BY <1>1, SeqHead
<1>3. todo[1] \in J
  BY <1>1, <1>2, SeqHead
<1> QED BY <1>2, <1>3 DEF table, way, J

\* Jobs that are another one than the job at the head have rows of their own.
LEMMA OtherJobs ==
  ASSUME TodoInv, todo # <<>>, NEW i \in 1..Len(todo), i > 1
  PROVE  /\ todo[i].table \in Tables /\ todo[i].way \in Ways
         /\ todo[i].table # table \/ todo[i].way # way
<1>1. todo[i] \in [table : Tables, way : Ways] /\ todo[1] \in [table : Tables, way : Ways]
  BY HeadJob, SeqHead DEF TodoInv
<1>2. todo[i] # todo[1]
  BY HeadJob DEF TodoInv
<1> QED BY <1>1, <1>2, HeadJob

LEMMA InitStreams == Init => StreamsInv
<1> SUFFICES ASSUME Init PROVE StreamsInv
  OBVIOUS
<1>1. /\ scale \in Scales /\ parts = NoParts /\ iter = NoIterator /\ batch = <<>> /\ max = 0
      /\ todo = Jobs /\ rows = [t \in Tables |-> [w \in Ways |-> <<>>]]
  BY DEF Init
<1>2. parts \in [num : Nat, count : Nat, target : Nat, begin : Nat] /\ parts.num = 0
  BY <1>1 DEF NoParts
<1>3. Len(JobOrder) = 8 /\ \A n \in 1..8 : JobOrder[n] \in Tables
  BY DEF JobOrder, Tables
<1>4. \A m, n \in 1..8 : JobOrder[m] = JobOrder[n] => m = n
  BY DEF JobOrder
<1>5. \A i \in 1..16 : (i + 1) \div 2 \in 1..8
  OBVIOUS
<1>6. /\ todo = [i \in 1..16 |-> [table |-> JobOrder[(i + 1) \div 2], way |-> IF i % 2 = 1 THEN "full" ELSE "parted"]]
      /\ \A i \in 1..16 : [table |-> JobOrder[(i + 1) \div 2], way |-> IF i % 2 = 1 THEN "full" ELSE "parted"]
                            \in [table : Tables, way : Ways]
  BY <1>1, <1>3, <1>5 DEF Jobs, Ways
<1>7. todo \in Seq([table : Tables, way : Ways]) /\ Len(todo) = 16
  BY <1>6
<1>8. \A i, j \in 1..Len(todo) : todo[i] = todo[j] => i = j
  <2> SUFFICES ASSUME NEW i \in 1..16, NEW j \in 1..16, todo[i] = todo[j] PROVE i = j
    BY <1>7
  <2>1. JobOrder[(i + 1) \div 2] = JobOrder[(j + 1) \div 2] /\ (i % 2 = 1 <=> j % 2 = 1)
    BY <1>6
  <2>2. (i + 1) \div 2 = (j + 1) \div 2
    BY <1>4, <1>5, <2>1
  <2> QED BY <2>1, <2>2
<1>9. TodoInv
  BY <1>7, <1>8 DEF TodoInv
<1>10. IdleInv /\ CuttingInv /\ PlaceInv /\ DeliveredInv
  BY <1>1, <1>2 DEF IdleInv, CuttingInv, PlaceInv, DeliveredInv
<1>11. \A t \in Tables, w \in Ways : rows[t][w] = <<>> /\ Len(rows[t][w]) = 0
  BY <1>1
<1>12. RowsInv
  BY <1>1, <1>11, NoRowsSeq DEF RowsInv
<1>13. KeysInv
  BY <1>2, <1>11 DEF KeysInv
<1>14. FreshInv
  <2> SUFFICES ASSUME NEW i \in 1..Len(todo) PROVE rows[todo[i].table][todo[i].way] = <<>>
    BY DEF FreshInv
  <2>0. todo[i] \in [table : Tables, way : Ways]
    BY <1>7, SeqHead
  <2>1. todo[i].table \in Tables /\ todo[i].way \in Ways
    BY <2>0
  <2> QED BY <1>11, <2>1
<1>15. DoneInv
  <2> SUFFICES ASSUME NEW t \in Tables, NEW w \in Ways PROVE ~Finished(t, w)
    BY DEF DoneInv
  <2>1. PICK n \in 1..8 : JobOrder[n] = t
    BY DEF JobOrder, Tables
  <2>2. (2 * n - 1) \in 1..16 /\ ((2 * n - 1) + 1) \div 2 = n /\ (2 * n - 1) % 2 = 1
    OBVIOUS
  <2>3. (2 * n) \in 1..16 /\ ((2 * n) + 1) \div 2 = n /\ (2 * n) % 2 = 0
    OBVIOUS
  <2>4. todo[2 * n - 1] = [table |-> t, way |-> "full"]
    BY <1>6, <2>1, <2>2
  <2>5. todo[2 * n] = [table |-> t, way |-> "parted"]
    BY <1>6, <2>1, <2>3
  <2>6. DOMAIN todo = 1..16
    BY <1>6
  <2> QED BY <2>2, <2>3, <2>4, <2>5, <2>6 DEF Finished, Ways
<1> QED BY <1>1, <1>2, <1>9, <1>10, <1>12, <1>13, <1>14, <1>15 DEF StreamsInv

LEMMA ResolvedCount ==
  ASSUME NEW total \in Nat, NEW target \in Nat
  PROVE  ResolvePartCountByTargetRows(total, target) \in Nat \ {0}
<1>1. CASE target <= 0 \/ total = 0
  BY <1>1 DEF ResolvePartCountByTargetRows
<1>2. CASE ~(target <= 0 \/ total = 0)
  <2>1. total \in Nat \ {0} /\ target \in Nat \ {0} /\ total + target - 1 \in Nat
    BY <1>2
  <2>2. PICK count \in Nat : count = (total + target - 1) \div target
    BY <2>1, Division
  <2>3. count \in 1..total
    BY <2>1, <2>2, PartCountForm
  <2> QED BY <1>2, <2>2, <2>3 DEF ResolvePartCountByTargetRows, MaxPartCount
<1> QED BY <1>1, <1>2

LEMMA StartTableStep == ASSUME StreamsInv, StartTable PROVE StreamsInv'
<1>1. /\ todo # <<>> /\ parts.num = 0 /\ max' \in 1..MaxBatchRows
      /\ UNCHANGED <<scale, todo, batch, rows>>
  BY DEF StartTable
<1>2. TodoInv /\ IdleInv /\ RowsInv /\ KeysInv /\ FreshInv /\ DoneInv /\ scale \in Scales
  BY DEF StreamsInv
<1>3. batch = <<>>
  BY <1>1, <1>2 DEF IdleInv
<1>4. table' = table /\ way' = way /\ table \in Tables /\ way \in Ways
  BY <1>1, <1>2, HeadJob DEF table, way
<1>5. PICK target \in Targets :
        LET count == ResolvePartCount("lance", [target_partition_rows |-> target], table, RowCount(table, scale))
        IN  /\ way = "full" <=> target = 0
            /\ count <= MaxParts
            /\ parts' = [num |-> 1, count |-> count, target |-> target, begin |-> 0]
            /\ iter' = ResetGenerator(table, 1, count, scale)
  BY DEF StartTable, way
<1>6. PICK count : count = ResolvePartCountByTargetRows(RowCount(table, scale), target)
  OBVIOUS
<1>7. ResolvePartCount("lance", [target_partition_rows |-> target], table, RowCount(table, scale)) = count
  BY <1>6 DEF ResolvePartCount, TargetRows
<1>8. /\ way = "full" <=> target = 0
      /\ count <= MaxParts
      /\ parts' = [num |-> 1, count |-> count, target |-> target, begin |-> 0]
      /\ iter' = ResetGenerator(table, 1, count, scale)
  BY <1>5, <1>7
<1>9. target \in Nat /\ count \in Nat \ {0} /\ MaxParts \in Nat
  BY <1>2, <1>4, <1>6, StreamsAssumption, RowCounts, ResolvedCount
<1>10. parts'.num = 1 /\ parts'.count = count /\ parts'.target = target /\ parts'.begin = 0
  BY <1>8
<1>11. 1 \in 1..count /\ count \in 1..MaxParts
  BY <1>8, <1>9
<1>12. /\ IsIterator(iter') /\ iter'.scale_factor = scale /\ iter'.end = PartEnd(table, 1, count, scale)
       /\ iter'.index = PartStart(table, 1, count, scale) /\ PartStart(table, 1, count, scale) = 0
       /\ PartStart(table, 1, count, scale) <= PartEnd(table, 1, count, scale)
       /\ PartEnd(table, 1, count, scale) \in Nat
       /\ table # "lineitem" => iter'.line = 0
  BY <1>2, <1>4, <1>8, <1>9, <1>11, ResetPlace, PartsTile
<1>13. parts' \in [num : Nat, count : Nat, target : Nat, begin : Nat]
  BY <1>8, <1>9
<1>14. TodoInv' /\ IdleInv'
  BY <1>1, <1>2, <1>10 DEF TodoInv, IdleInv
<1>15. CuttingInv'
  BY <1>1, <1>4, <1>5, <1>6, <1>8, <1>10, <1>11 DEF CuttingInv
<1>16. PlaceInv'
  BY <1>1, <1>4, <1>10, <1>12 DEF PlaceInv
<1>17. RowsInv'
  BY <1>1, <1>2, <1>3, NoRowsSeq, StreamsAssumption DEF RowsInv
<1>18. rows[table][way] = <<>>
  BY <1>1, <1>2, HeadJob DEF FreshInv
<1>19. Delivered' = 0 /\ Len(batch') = 0
  BY <1>1, <1>3, <1>4, <1>18, NoRowsSeq DEF Delivered
<1>20. DeliveredInv'
  <2>1. RowsPerUnit(table) \in {1, 4}
    BY UnitSize
  <2> QED BY <1>1, <1>4, <1>10, <1>12, <1>19, <2>1 DEF DeliveredInv
<1>21. KeysInv'
  <2>1. \A k : k \notin 1..Len(batch')
    BY <1>19
  <2> QED BY <1>1, <1>2, <2>1 DEF KeysInv
<1>22. FreshInv' /\ DoneInv'
  BY <1>1, <1>2, <1>10 DEF FreshInv, DoneInv, Finished
<1>23. scale' \in Scales
  BY <1>1, <1>2
<1> QED BY <1>13, <1>14, <1>15, <1>16, <1>17, <1>20, <1>21, <1>22, <1>23 DEF StreamsInv

LEMMA AppendRowStep == ASSUME StreamsInv, AppendRow PROVE StreamsInv'
<1>1. /\ parts.num > 0 /\ Len(batch) < max /\ ~Done(iter)
      /\ UNCHANGED <<scale, todo, parts, max, rows>>
  BY DEF AppendRow
<1>2. /\ TodoInv /\ CuttingInv /\ PlaceInv /\ RowsInv /\ DeliveredInv /\ KeysInv /\ FreshInv /\ DoneInv
      /\ scale \in Scales /\ parts \in [num : Nat, count : Nat, target : Nat, begin : Nat]
  BY DEF StreamsInv
<1>3. todo # <<>> /\ max \in Nat
  BY <1>1, <1>2 DEF CuttingInv
<1>4. table' = table /\ way' = way /\ table \in Tables /\ way \in Ways /\ Delivered' = Delivered
  BY <1>1, <1>2, <1>3, HeadJob DEF table, way, Delivered
<1>5. PICK next : next = NextRow(table, iter)
  OBVIOUS
<1>6. batch' = Append(batch, next.row) /\ iter' = next.iter
  BY <1>5 DEF AppendRow
<1>7. IsIterator(iter) /\ iter.scale_factor = scale /\ iter.index \in Nat /\ iter.end \in Nat /\ iter.line \in Nat /\ iter.index < iter.end
  BY <1>1, <1>2 DEF PlaceInv, IsIterator, Done
<1>8. /\ IsIterator(iter') /\ iter'.scale_factor = scale /\ iter'.end = iter.end /\ iter'.index \in {iter.index, iter.index + 1}
      /\ table # "lineitem" /\ iter.line < RowsPerUnit(table) =>
           /\ RowsPerUnit(table) * iter'.index + iter'.line = RowsPerUnit(table) * iter.index + iter.line + 1
           /\ iter'.line < RowsPerUnit(table)
           /\ iter'.index = iter.index + 1 => iter'.line = 0
           /\ HasKey(table, RowsPerUnit(table) * iter.index + iter.line + 1, next.row, scale)
  BY <1>4, <1>5, <1>6, <1>7, NextRowPlace
<1>9. /\ IsSeq(batch') /\ Len(batch) \in Nat /\ Len(batch') = Len(batch) + 1
      /\ \A k \in 1..Len(batch) : batch'[k] = batch[k]
      /\ batch'[Len(batch) + 1] = next.row
  BY <1>2, <1>6, SeqAppend DEF RowsInv
<1>10. TodoInv' /\ IdleInv' /\ CuttingInv'
  BY <1>1, <1>2, <1>4 DEF TodoInv, IdleInv, CuttingInv
<1>11. PlaceInv'
  <2>1. PartStart(table, parts.num, parts.count, scale) \in Nat
    BY <1>1, <1>2, <1>4, PartsTile DEF CuttingInv
  <2> QED BY <1>1, <1>2, <1>4, <1>7, <1>8, <2>1 DEF PlaceInv
<1>12. RowsInv'
  BY <1>1, <1>2, <1>3, <1>9 DEF RowsInv
<1>13. Delivered \in Nat
  BY <1>2, <1>4, SeqLen DEF RowsInv, Delivered
<1>14. ASSUME table # "lineitem"
       PROVE  /\ Delivered + Len(batch) = RowsPerUnit(table) * iter.index + iter.line
              /\ iter.line < RowsPerUnit(table)
  BY <1>1, <1>2, <1>14 DEF DeliveredInv
<1>15. DeliveredInv'
  <2> SUFFICES ASSUME table # "lineitem"
               PROVE  /\ parts.begin = RowsPerUnit(table) * PartStart(table, parts.num, parts.count, scale)
                      /\ Delivered + Len(batch') = RowsPerUnit(table) * iter'.index + iter'.line
                      /\ iter'.line < RowsPerUnit(table)
                      /\ iter'.index = iter'.end => iter'.line = 0
    BY <1>1, <1>4 DEF DeliveredInv
  <2>1. parts.begin = RowsPerUnit(table) * PartStart(table, parts.num, parts.count, scale)
    BY <1>1, <1>2 DEF DeliveredInv
  <2>2. Delivered + Len(batch') = RowsPerUnit(table) * iter'.index + iter'.line
    <3>1. PICK m \in Nat : m = RowsPerUnit(table) * iter.index
      BY <1>7, UnitSize
    <3>2. Delivered + Len(batch) = m + iter.line
      BY <1>14, <3>1
    <3>3. RowsPerUnit(table) * iter'.index + iter'.line = m + iter.line + 1
      BY <1>8, <1>14, <3>1
    <3> QED BY <1>7, <1>9, <1>13, <3>2, <3>3
  <2>3. iter'.index = iter'.end => iter'.index = iter.index + 1
    BY <1>7, <1>8
  <2> QED BY <1>8, <1>14, <2>1, <2>2, <2>3
<1>16. KeysInv'
  <2>1. ASSUME table # "lineitem", NEW k \in 1..Len(batch')
        PROVE  HasKey(table, Delivered + k, batch'[k], scale)
    <3>1. CASE k \in 1..Len(batch)
      BY <1>1, <1>2, <1>9, <2>1, <3>1 DEF KeysInv
    <3>2. CASE k = Len(batch) + 1
      <4>1. PICK m \in Nat : m = RowsPerUnit(table) * iter.index
        BY <1>7, UnitSize
      <4>2. Delivered + k = m + iter.line + 1
        BY <1>7, <1>9, <1>13, <1>14, <2>1, <3>2, <4>1
      <4> QED BY <1>8, <1>9, <1>14, <2>1, <3>2, <4>1, <4>2
    <3> QED BY <1>9, <3>1, <3>2
  <2> QED BY <1>1, <1>2, <1>4, <2>1 DEF KeysInv
<1>17. FreshInv' /\ DoneInv'
  BY <1>1, <1>2 DEF FreshInv, DoneInv, Finished
<1>18. scale' \in Scales /\ parts' \in [num : Nat, count : Nat, target : Nat, begin : Nat]
  BY <1>1, <1>2
<1> QED BY <1>10, <1>11, <1>12, <1>15, <1>16, <1>17, <1>18 DEF StreamsInv

LEMMA DeliverBatchStep == ASSUME StreamsInv, DeliverBatch PROVE StreamsInv'
<1>1. /\ batch # <<>> /\ batch' = <<>>
      /\ UNCHANGED <<scale, todo, parts, max, iter>>
  BY DEF DeliverBatch
<1>2. /\ TodoInv /\ IdleInv /\ CuttingInv /\ PlaceInv /\ RowsInv /\ DeliveredInv /\ KeysInv /\ FreshInv /\ DoneInv
      /\ scale \in Scales /\ parts \in [num : Nat, count : Nat, target : Nat, begin : Nat]
  BY DEF StreamsInv
<1>3. parts.num > 0 /\ todo # <<>> /\ max \in Nat
  <2>1. parts.num # 0 /\ parts.num \in Nat
    BY <1>1, <1>2 DEF IdleInv
  <2>2. parts.num > 0
    BY <2>1
  <2> QED BY <1>2, <2>2 DEF CuttingInv
<1>4. table' = table /\ way' = way /\ table \in Tables /\ way \in Ways
  BY <1>1, <1>2, <1>3, HeadJob DEF table, way
<1>5. rows' = [rows EXCEPT ![table][way] = @ \o batch]
  BY DEF DeliverBatch, way
<1>6. /\ IsSeq(rows[table][way]) /\ IsSeq(batch) /\ DOMAIN rows = Tables /\ DOMAIN rows[table] = Ways
  BY <1>2, <1>4 DEF RowsInv
<1>7. /\ DOMAIN rows' = Tables /\ \A t \in Tables : DOMAIN rows'[t] = DOMAIN rows[t]
      /\ \A t \in Tables, w \in Ways : ~(t = table /\ w = way) => rows'[t][w] = rows[t][w]
      /\ rows'[table][way] = rows[table][way] \o batch
  BY <1>4, <1>5, <1>6
<1>8. /\ IsSeq(rows'[table][way]) /\ Delivered \in Nat /\ Len(batch) \in Nat
      /\ Delivered' = Delivered + Len(batch)
      /\ \A k \in 1..Delivered : rows'[table][way][k] = rows[table][way][k]
      /\ \A k \in 1..Len(batch) : rows'[table][way][Delivered + k] = batch[k]
  BY <1>4, <1>6, <1>7, SeqConcat DEF Delivered
<1>9. TodoInv' /\ IdleInv' /\ CuttingInv' /\ PlaceInv'
  <2>1. TodoInv' /\ IdleInv' /\ CuttingInv'
    BY <1>1, <1>2, <1>3, <1>4 DEF TodoInv, IdleInv, CuttingInv
  <2>2. PlaceInv'
    BY <1>1, <1>2, <1>4 DEF PlaceInv
  <2> QED BY <2>1, <2>2
<1>10. RowsInv'
  <2>1. \A t \in Tables : DOMAIN rows'[t] = Ways /\ \A w \in Ways : IsSeq(rows'[t][w])
    BY <1>2, <1>7, <1>8 DEF RowsInv
  <2>2. Len(batch') <= max'
    BY <1>1, <1>3, NoRowsSeq
  <2> QED BY <1>1, <1>7, <2>1, <2>2, NoRowsSeq DEF RowsInv
<1>11. DeliveredInv'
  BY <1>1, <1>2, <1>4, <1>8, NoRowsSeq DEF DeliveredInv
<1>12. KeysInv'
  <2>1. ASSUME NEW t \in Tables \ {"lineitem"}, NEW w \in Ways, NEW k \in 1..Len(rows'[t][w])
        PROVE  HasKey(t, k, rows'[t][w][k], scale)
    <3>1. CASE ~(t = table /\ w = way)
      BY <1>2, <1>7, <2>1, <3>1 DEF KeysInv
    <3>2. CASE t = table /\ w = way
      <4>1. k \in 1..(Delivered + Len(batch))
        BY <1>4, <1>8, <2>1, <3>2 DEF Delivered
      <4>2. CASE k \in 1..Delivered
        BY <1>2, <1>8, <2>1, <3>2, <4>2 DEF KeysInv, Delivered
      <4>3. CASE k \notin 1..Delivered
        <5>1. PICK m \in 1..Len(batch) : k = Delivered + m
          <6>1. k - Delivered \in 1..Len(batch)
            BY <1>8, <4>1, <4>3
          <6> QED BY <1>8, <4>1, <6>1
        <5>2. HasKey(table, Delivered + m, batch[m], scale)
          BY <1>2, <1>3, <2>1, <3>2, <5>1 DEF KeysInv
        <5> QED BY <1>8, <3>2, <5>1, <5>2
      <4> QED BY <4>2, <4>3
    <3> QED BY <3>1, <3>2
  <2>2. \A k : k \notin 1..Len(batch')
    BY <1>1, NoRowsSeq
  <2> QED BY <1>1, <2>1, <2>2 DEF KeysInv
<1>13. FreshInv'
  <2> SUFFICES ASSUME NEW i \in 1..Len(todo), i > 1
               PROVE  rows'[todo[i].table][todo[i].way] = <<>>
    BY <1>1, <1>3 DEF FreshInv
  <2>1. /\ todo[i].table \in Tables /\ todo[i].way \in Ways
        /\ ~(todo[i].table = table /\ todo[i].way = way)
    BY <1>2, <1>3, OtherJobs
  <2> QED BY <1>2, <1>7, <2>1 DEF FreshInv
<1>14. DoneInv'
  <2> SUFFICES ASSUME NEW t \in Tables \ {"lineitem"}, NEW w \in Ways, Finished(t, w)
               PROVE  Len(rows'[t][w]) = RowsPerUnit(t) * EndRow(t, UnitsOf(t, scale))
    BY <1>1 DEF DoneInv, Finished
  <2>1. ~(t = table /\ w = way)
    <3>1. 1 \in 1..Len(todo) /\ todo[1] = [table |-> table, way |-> way]
      BY <1>2, <1>3, HeadJob
    <3>2. 1 \in DOMAIN todo
      BY <1>2, <3>1 DEF TodoInv
    <3> QED BY <3>1, <3>2 DEF Finished
  <2> QED BY <1>2, <1>7, <2>1 DEF DoneInv
<1>15. scale' \in Scales /\ parts' \in [num : Nat, count : Nat, target : Nat, begin : Nat]
  BY <1>1, <1>2
<1> QED BY <1>9, <1>10, <1>11, <1>12, <1>13, <1>14, <1>15 DEF StreamsInv

LEMMA NextPartitionStep == ASSUME StreamsInv, NextPartition PROVE StreamsInv'
<1>1. /\ parts.num > 0 /\ batch = <<>> /\ Done(iter)
      /\ UNCHANGED <<scale, batch, rows>>
  BY DEF NextPartition
<1>2. /\ TodoInv /\ IdleInv /\ CuttingInv /\ PlaceInv /\ RowsInv /\ DeliveredInv /\ KeysInv /\ FreshInv /\ DoneInv
      /\ scale \in Scales /\ parts \in [num : Nat, count : Nat, target : Nat, begin : Nat]
  BY DEF StreamsInv
<1>3. /\ todo # <<>> /\ max \in Nat /\ parts.count \in Nat \ {0} /\ parts.num \in 1..parts.count
  BY <1>1, <1>2, StreamsAssumption DEF CuttingInv
<1>4. table \in Tables /\ way \in Ways
  BY <1>2, <1>3, HeadJob
<1>5. /\ IsIterator(iter) /\ iter.index = iter.end
      /\ iter.end = PartEnd(table, parts.num, parts.count, scale) /\ iter.end \in Nat
  BY <1>1, <1>2 DEF PlaceInv, IsIterator, Done
<1>6. Delivered \in Nat /\ Len(batch) = 0
  BY <1>1, <1>2, <1>4, SeqLen, NoRowsSeq DEF RowsInv, Delivered
<1>7. table # "lineitem" => Delivered = RowsPerUnit(table) * PartEnd(table, parts.num, parts.count, scale)
  <2> SUFFICES ASSUME table # "lineitem" PROVE Delivered = RowsPerUnit(table) * PartEnd(table, parts.num, parts.count, scale)
    OBVIOUS
  <2>1. Delivered + Len(batch) = RowsPerUnit(table) * iter.index + iter.line /\ iter.line = 0
    BY <1>1, <1>2, <1>5 DEF DeliveredInv
  <2>2. PICK m \in Nat : m = RowsPerUnit(table) * iter.index
    BY <1>5, UnitSize
  <2>3. Delivered = m
    BY <1>6, <2>1, <2>2
  <2> QED BY <1>5, <2>2, <2>3
<1>8. scale' \in Scales
  BY <1>1, <1>2
<1>9. CASE parts.num < parts.count
  <2>1. /\ parts' = [parts EXCEPT !.num = @ + 1, !.begin = Len(rows[table][way])]
        /\ iter' = ResetGenerator(table, parts.num + 1, parts.count, scale)
        /\ UNCHANGED <<todo, max>>
    BY <1>9 DEF NextPartition, way
  <2>2. table' = table /\ way' = way /\ Delivered' = Delivered
    BY <1>1, <2>1 DEF table, way, Delivered
  <2>3. /\ parts' \in [num : Nat, count : Nat, target : Nat, begin : Nat]
        /\ parts'.num = parts.num + 1 /\ parts'.count = parts.count /\ parts'.target = parts.target
        /\ parts'.begin = Delivered
    <3>1. PICK d \in Nat : d = Delivered
      BY <1>6
    <3>2. /\ parts = [num |-> parts.num, count |-> parts.count, target |-> parts.target, begin |-> parts.begin]
          /\ parts.num \in Nat /\ parts.count \in Nat /\ parts.target \in Nat
      BY <1>2
    <3>3. parts' = [num |-> parts.num + 1, count |-> parts.count, target |-> parts.target, begin |-> d]
      BY <2>1, <3>1, <3>2 DEF Delivered
    <3> QED BY <3>1, <3>2, <3>3
  <2>4. parts.num + 1 \in 1..parts.count
    BY <1>3, <1>9
  <2>5. /\ IsIterator(iter') /\ iter'.scale_factor = scale /\ iter'.end = PartEnd(table, parts.num + 1, parts.count, scale)
        /\ iter'.index = PartStart(table, parts.num + 1, parts.count, scale)
        /\ iter'.index = PartEnd(table, parts.num, parts.count, scale)
        /\ iter'.index <= iter'.end /\ iter'.index \in Nat /\ iter'.end \in Nat
        /\ table # "lineitem" => iter'.line = 0
    <3>1. /\ IsIterator(iter') /\ iter'.scale_factor = scale /\ iter'.end = PartEnd(table, parts.num + 1, parts.count, scale)
          /\ iter'.index = PartStart(table, parts.num + 1, parts.count, scale)
          /\ table # "lineitem" => iter'.line = 0
      BY <1>2, <1>3, <1>4, <2>1, <2>4, ResetPlace
    <3>2. PartStart(table, parts.num + 1, parts.count, scale) = PartEnd(table, parts.num, parts.count, scale)
      BY <1>2, <1>3, <1>4, <1>9, PartsTile
    <3>3. /\ PartStart(table, parts.num + 1, parts.count, scale) <= PartEnd(table, parts.num + 1, parts.count, scale)
          /\ PartStart(table, parts.num + 1, parts.count, scale) \in Nat
          /\ PartEnd(table, parts.num + 1, parts.count, scale) \in Nat
      BY <1>2, <1>3, <1>4, <2>4, PartsTile
    <3> QED BY <3>1, <3>2, <3>3
  <2>6. TodoInv' /\ IdleInv'
    BY <1>2, <1>3, <2>1, <2>3 DEF TodoInv, IdleInv
  <2>7. CuttingInv'
    BY <1>1, <1>2, <2>1, <2>2, <2>3, <2>4 DEF CuttingInv
  <2>8. PlaceInv'
    BY <1>1, <2>2, <2>3, <2>5 DEF PlaceInv
  <2>9. RowsInv'
    BY <1>1, <1>2, <2>1 DEF RowsInv
  <2>10. DeliveredInv'
    <3> SUFFICES ASSUME table # "lineitem"
                 PROVE  /\ Delivered = RowsPerUnit(table) * PartStart(table, parts.num + 1, parts.count, scale)
                        /\ Delivered + Len(batch) = RowsPerUnit(table) * iter'.index + iter'.line
                        /\ iter'.line < RowsPerUnit(table) /\ iter'.line = 0
      BY <1>1, <2>2, <2>3 DEF DeliveredInv
    <3>1. iter'.line = 0 /\ iter'.line < RowsPerUnit(table)
      BY <2>5, UnitSize
    <3>2. PICK m \in Nat : m = RowsPerUnit(table) * iter'.index
      BY <2>5, UnitSize
    <3>3. Delivered = m /\ Delivered + Len(batch) = m + iter'.line
      BY <1>6, <1>7, <2>5, <3>1, <3>2
    <3> QED BY <2>5, <3>1, <3>2, <3>3
  <2>11. KeysInv'
    <3>1. \A k : k \notin 1..Len(batch')
      BY <1>1, <1>6
    <3> QED BY <1>1, <1>2, <3>1 DEF KeysInv
  <2>12. FreshInv' /\ DoneInv'
    <3>1. parts.num # 0 /\ parts'.num # 0
      BY <1>3, <2>3
    <3> QED BY <1>1, <1>2, <2>1, <3>1 DEF FreshInv, DoneInv, Finished
  <2> QED BY <1>8, <2>3, <2>6, <2>7, <2>8, <2>9, <2>10, <2>11, <2>12 DEF StreamsInv
<1>10. CASE ~(parts.num < parts.count)
  <2>1. parts' = NoParts /\ iter' = NoIterator /\ todo' = Tail(todo) /\ max' = 0
    BY <1>10 DEF NextPartition
  <2>2. parts.num = parts.count
    BY <1>3, <1>10
  <2>3. parts' \in [num : Nat, count : Nat, target : Nat, begin : Nat] /\ parts'.num = 0
    BY <2>1 DEF NoParts
  <2> DEFINE J == [table : Tables, way : Ways]
  <2>4. todo \in Seq(J) /\ \A i, j \in 1..Len(todo) : todo[i] = todo[j] => i = j
    BY <1>2 DEF TodoInv
  <2> HIDE DEF J
  <2>5. /\ Len(todo) \in Nat \ {0} /\ todo' \in Seq(J) /\ Len(todo') = Len(todo) - 1
        /\ \A i \in 1..Len(todo') : todo'[i] = todo[i + 1] /\ i + 1 \in 1..Len(todo)
    <3>1. /\ Len(todo) \in Nat \ {0} /\ Tail(todo) \in Seq(J) /\ Len(Tail(todo)) = Len(todo) - 1
          /\ \A i \in 1..(Len(todo) - 1) : Tail(todo)[i] = todo[i + 1]
      BY <1>3, <2>4, SeqHead
    <3>2. \A i \in 1..(Len(todo) - 1) : i + 1 \in 1..Len(todo)
      BY <3>1
    <3> QED BY <2>1, <3>1, <3>2
  <2>6. TodoInv'
    <3>1. ASSUME NEW i \in 1..Len(todo'), NEW j \in 1..Len(todo'), todo'[i] = todo'[j] PROVE i = j
      <4>1. todo[i + 1] = todo[j + 1] /\ i + 1 \in 1..Len(todo) /\ j + 1 \in 1..Len(todo)
        BY <2>5, <3>1
      <4>2. i + 1 = j + 1
        BY <2>4, <4>1
      <4> QED BY <4>2
    <3> QED BY <2>5, <3>1 DEF TodoInv, J
  <2>7. IdleInv' /\ CuttingInv' /\ PlaceInv' /\ DeliveredInv'
    BY <1>1, <2>1, <2>3 DEF IdleInv, CuttingInv, PlaceInv, DeliveredInv
  <2>8. RowsInv'
    BY <1>1, <1>2, <1>6, <2>1 DEF RowsInv
  <2>9. KeysInv'
    BY <1>1, <1>2, <2>3 DEF KeysInv
  <2>10. FreshInv'
    <3> SUFFICES ASSUME NEW i \in 1..Len(todo') PROVE rows[todo'[i].table][todo'[i].way] = <<>>
      BY <1>1 DEF FreshInv
    <3>1. i + 1 > 1
      OBVIOUS
    <3> QED BY <1>2, <2>5, <3>1 DEF FreshInv
  <2>11. DoneInv'
    <3> SUFFICES ASSUME NEW t \in Tables \ {"lineitem"}, NEW w \in Ways, Finished(t, w)'
                 PROVE  Len(rows[t][w]) = RowsPerUnit(t) * EndRow(t, UnitsOf(t, scale))
      BY <1>1 DEF DoneInv
    <3>1. \A i \in 1..Len(todo') : todo'[i] # [table |-> t, way |-> w]
      <4>1. DOMAIN todo' = 1..Len(todo')
        BY <2>5
      <4> QED BY <4>1 DEF Finished
    <3>2. CASE t = table /\ w = way
      <4>1. PartEnd(table, parts.count, parts.count, scale) = EndRow(table, UnitsOf(table, scale))
        BY <1>2, <1>3, <1>4, PartsTile
      <4> QED BY <1>7, <2>2, <3>2, <4>1 DEF Delivered
    <3>3. CASE ~(t = table /\ w = way)
      <4>1. Finished(t, w)
        <5> SUFFICES ASSUME NEW i \in 1..Len(todo), todo[i] = [table |-> t, way |-> w] PROVE FALSE
          <6>1. DOMAIN todo = 1..Len(todo)
            BY <2>4
          <6> QED BY <6>1 DEF Finished
        <5>1. CASE i = 1
          BY <1>2, <1>3, <3>3, <5>1, HeadJob
        <5>2. CASE i # 1
          <6>1. i - 1 \in 1..Len(todo') /\ (i - 1) + 1 = i
            BY <2>5, <5>2
          <6> QED BY <2>5, <3>1, <6>1
        <5> QED BY <5>1, <5>2
      <4> QED BY <1>2, <4>1 DEF DoneInv
    <3> QED BY <3>2, <3>3
  <2> QED BY <1>8, <2>3, <2>6, <2>7, <2>8, <2>9, <2>10, <2>11 DEF StreamsInv
<1> QED BY <1>9, <1>10

LEMMA StreamsStep == ASSUME StreamsInv, [Next]_vars PROVE StreamsInv'
<1>1. ASSUME UNCHANGED vars PROVE StreamsInv'
  BY <1>1
     DEF vars, StreamsInv, TodoInv, IdleInv, CuttingInv, PlaceInv, RowsInv, DeliveredInv, KeysInv,
         FreshInv, DoneInv, Finished, Delivered, table, way
<1> QED BY <1>1, StartTableStep, AppendRowStep, DeliverBatchStep, NextPartitionStep DEF Next

LEMMA StreamsInvariant == Spec => []StreamsInv
BY InitStreams, StreamsStep, PTL DEF Spec

-----------------------------------------------------------------------------
(* What follows from it.                                                    *)

\* The cursor of a generator stays in its partition and a batch within
\* batch_rows, for every number of rows, partitions and batch size.
THEOREM CursorsCorrect == Spec => []CursorOK
<1>1. StreamsInv => CursorOK
  <2> SUFFICES ASSUME StreamsInv PROVE CursorOK
    OBVIOUS
  <2>1. /\ scale \in Scales /\ IdleInv /\ CuttingInv /\ PlaceInv /\ RowsInv
        /\ parts \in [num : Nat, count : Nat, target : Nat, begin : Nat]
    BY DEF StreamsInv
  <2>2. Len(batch) <= max /\ DOMAIN rows = Tables
    BY <2>1 DEF RowsInv
  <2>3. CASE parts.num = 0
    <3>1. parts = NoParts /\ iter = NoIterator /\ max = 0
      BY <2>1, <2>3 DEF IdleInv
    <3>2. parts.num = 0 /\ parts.count = 0 /\ iter.index = 0 /\ iter.end = 0
      BY <3>1 DEF NoParts, NoIterator
    <3> QED BY <2>1, <2>2, <3>1, <3>2, StreamsAssumption DEF CursorOK
  <2>4. CASE parts.num # 0
    <3>1. parts.num > 0 /\ parts.num \in Nat /\ parts.count \in Nat
      BY <2>1, <2>4
    <3>2. /\ parts.count \in 1..MaxParts /\ parts.num \in 1..parts.count /\ max \in 1..MaxBatchRows
          /\ IsIterator(iter) /\ iter.index <= iter.end
      BY <2>1, <3>1 DEF CuttingInv, PlaceInv
    <3>3. parts.num \in 0..parts.count /\ parts.count \in 0..MaxParts /\ max \in 0..MaxBatchRows
      BY <3>1, <3>2, StreamsAssumption
    <3>4. iter.index \in 0..iter.end
      BY <3>2 DEF IsIterator
    <3> QED BY <2>1, <2>2, <3>3, <3>4 DEF CursorOK
  <2> QED BY <2>3, <2>4
<1> QED BY <1>1, StreamsInvariant, PTL

\* Two facts of division.
LEMMA QuotientBound ==
  ASSUME NEW count \in Nat \ {0}, NEW target \in Nat, NEW x \in Nat, count * x <= target * count
  PROVE  x <= target
<1>1. SUFFICES ASSUME target + 1 <= x PROVE FALSE
  OBVIOUS
<1>2. count * (target + 1) <= count * x
  BY <1>1, Ascending
<1>3. PICK b \in Nat : b = target * count
  OBVIOUS
<1>4. count * (target + 1) = b + count
  BY <1>3
<1>5. PICK c \in Nat : c = count * x
  OBVIOUS
<1>6. c <= b /\ b + count <= c
  BY <1>2, <1>3, <1>4, <1>5
<1> QED BY <1>6

LEMMA FloorOfFour ==
  ASSUME NEW p \in Nat, NEW s \in Nat, NEW den \in Nat \ {0}, 4 * p <= s
  PROVE  4 * (p \div den) <= s \div den
<1>1. PICK a \in Nat : a = p \div den
  BY Division
<1>2. PICK b \in Nat : b = s \div den
  BY Division
<1>3. PICK m \in Nat : p = den * a + m
  <2>1. p % den \in 0..(den - 1) /\ p = den * a + (p % den)
    BY <1>1, Division
  <2> QED BY <2>1
<1>4. PICK n \in 0..(den - 1) : s = den * b + n
  <2>1. s % den \in 0..(den - 1) /\ s = den * b + (s % den)
    BY <1>2, Division
  <2> QED BY <2>1
<1>5. SUFFICES ASSUME b + 1 <= 4 * a PROVE FALSE
  BY <1>1, <1>2
<1>6. b + 1 \in Int /\ 4 * a \in Int
  OBVIOUS
<1>7. den * (b + 1) <= den * (4 * a)
  BY <1>5, <1>6, Ascending
<1>8. PICK c \in Nat : c = den * a
  OBVIOUS
<1>9. PICK d \in Nat : d = den * b
  OBVIOUS
<1>10. den * (b + 1) = d + den /\ den * (4 * a) = 4 * c
  BY <1>8, <1>9
<1>11. p = c + m /\ s = d + n /\ d + den <= 4 * c
  BY <1>3, <1>4, <1>7, <1>8, <1>9, <1>10
<1> QED BY <1>11

\* A partition of units, each of size rows, of a table of total rows: the last
\* one has the units that are left over.
LEMMA UnitsNearTarget ==
  ASSUME NEW size \in {1, 4}, NEW units \in Nat, NEW total \in Nat, size * units <= total,
         NEW target \in Nat \ {0}, NEW count,
         count = ResolvePartCountByTargetRows(total, target), count < MaxPartCount,
         NEW num \in 1..count
  PROVE  size * CalculateRowCount(units, num, count)
           <= target + (IF num = count THEN size * (count - 1) ELSE 0)
<1>1. count \in Nat \ {0}
  BY ResolvedCount
<1>2. PICK q \in Nat, r \in 0..(count - 1) : q = units \div count /\ r = units % count /\ units = count * q + r
  <2>1. /\ units \div count \in Nat /\ units % count \in 0..(count - 1)
        /\ units = count * (units \div count) + (units % count)
    BY <1>1, Division
  <2> QED BY <2>1
<1>3. total <= target * count
  <2>1. CASE total = 0
    BY <1>1, <2>1, target * count \in Nat
  <2>2. CASE total # 0
    <3>1. total \in Nat \ {0} /\ total + target - 1 \in Nat
      BY <2>2
    <3>2. (total + target - 1) \div target \in Nat
      BY <3>1, Division
    <3>3. count = (total + target - 1) \div target
      BY <2>2, <3>2 DEF ResolvePartCountByTargetRows, MaxPartCount
    <3> QED BY <3>1, <3>2, <3>3, PartCountForm
  <2> QED BY <2>1, <2>2
<1>4. size * q <= target
  <2>1. PICK a \in Nat : a = count * q
    BY <1>1, <1>2
  <2>2. PICK b \in Nat : b = target * count
    BY <1>1
  <2>3. units = a + r
    BY <1>2, <2>1
  <2>4. CASE size = 1
    <3>1. a <= b
      BY <1>3, <2>2, <2>3, <2>4
    <3>2. count * q <= target * count
      BY <2>1, <2>2, <3>1
    <3>3. q <= target
      BY <1>1, <3>2, QuotientBound
    <3> QED BY <2>4, <3>3
  <2>5. CASE size = 4
    <3>1. 4 * a <= b
      BY <1>3, <2>2, <2>3, <2>5
    <3>2. PICK x \in Nat : x = 4 * q
      OBVIOUS
    <3>3. count * x = 4 * a
      BY <1>1, <2>1, <3>2
    <3>4. count * x <= target * count
      BY <2>2, <3>1, <3>3
    <3>5. x <= target
      BY <1>1, <3>4, QuotientBound
    <3> QED BY <2>5, <3>2, <3>5
  <2> QED BY <2>4, <2>5
<1>5. CalculateRowCount(units, num, count) = q + (IF num = count THEN r ELSE 0)
  BY <1>2 DEF CalculateRowCount
<1>6. ASSUME NEW e \in 0..(count - 1)
      PROVE  size * (q + e) <= target + size * (count - 1) /\ size * (q + 0) <= target + 0
  <2>1. CASE size = 1
    BY <1>1, <1>4, <2>1
  <2>2. CASE size = 4
    BY <1>1, <1>4, <2>2
  <2> QED BY <2>1, <2>2
<1>7. CASE num = count
  BY <1>2, <1>5, <1>6, <1>7
<1>8. CASE num # count
  <2>1. 0 \in 0..(count - 1)
    BY <1>1
  <2> QED BY <1>2, <1>5, <1>6, <1>8, <2>1
<1> QED BY <1>7, <1>8

\* The rows of a partition, for any number of rows and any target: none but the
\* last partition has more than the option asks for (writer.cpp), and the last by
\* less than a unit for each other partition; when partsupp has four rows to a part.
THEOREM NearTheTarget ==
  ASSUME MaxParts < MaxPartCount, 4 * RowsAtSf1["part"] <= RowsAtSf1["partsupp"]
  PROVE  Spec => []PartsNearTarget
<1>1. StreamsInv => PartsNearTarget
  <2> SUFFICES ASSUME StreamsInv, parts.target > 0, table # "lineitem", batch = <<>>
               PROVE  Len(rows[table]["parted"]) - parts.begin
                        <= parts.target + (IF parts.num = parts.count THEN RowsPerUnit(table) * (parts.count - 1) ELSE 0)
    BY DEF PartsNearTarget
  <2>1. /\ scale \in Scales /\ TodoInv /\ IdleInv /\ CuttingInv /\ PlaceInv /\ RowsInv /\ DeliveredInv
        /\ parts \in [num : Nat, count : Nat, target : Nat, begin : Nat]
    BY DEF StreamsInv
  <2>2. parts.num > 0
    <3>1. parts.num # 0
      BY <2>1 DEF IdleInv, NoParts
    <3> QED BY <2>1, <3>1
  <2>3. /\ todo # <<>> /\ parts.count \in 1..MaxParts /\ parts.num \in 1..parts.count /\ way # "full"
        /\ parts.count = ResolvePartCountByTargetRows(RowCount(table, scale), parts.target)
    BY <2>1, <2>2 DEF CuttingInv
  <2>4. table \in Tables /\ way = "parted"
    BY <2>1, <2>3, HeadJob DEF Ways
  <2>5. parts.count \in Nat \ {0} /\ parts.count < MaxPartCount /\ parts.target \in Nat \ {0}
    BY <2>1, <2>3, StreamsAssumption DEF MaxPartCount
  <2>6. /\ parts.begin = RowsPerUnit(table) * PartStart(table, parts.num, parts.count, scale)
        /\ Delivered + Len(batch) = RowsPerUnit(table) * iter.index + iter.line
        /\ iter.line < RowsPerUnit(table)
        /\ iter.index = iter.end => iter.line = 0
        /\ iter.index <= iter.end /\ iter.end = PartEnd(table, parts.num, parts.count, scale)
        /\ iter.index \in Nat /\ iter.line \in Nat /\ iter.end \in Nat
    BY <2>1, <2>2 DEF DeliveredInv, PlaceInv, IsIterator
  <2>7. Delivered \in Nat /\ Len(batch) = 0 /\ Delivered = Len(rows[table]["parted"])
    BY <2>1, <2>4, SeqLen, NoRowsSeq DEF RowsInv, Delivered
  <2>8. RowCount(table, scale) \in Nat /\ UnitsOf(table, scale) \in Nat
    BY <2>1, <2>4, RowCounts
  <2>9. RowsPerUnit(table) * UnitsOf(table, scale) <= RowCount(table, scale)
    <3>1. CASE table # "partsupp"
      <4>1. UnitsOf(table, scale) = RowCount(table, scale) /\ RowsPerUnit(table) = 1
        BY <3>1, UnitSize DEF UnitsOf
      <4> QED BY <2>8, <4>1
    <3>2. CASE table = "partsupp"
      <4> DEFINE p == RowsAtSf1["part"] * scale.num
                 s == RowsAtSf1["partsupp"] * scale.num
      <4>1. /\ RowsAtSf1["part"] \in Nat /\ RowsAtSf1["partsupp"] \in Nat
            /\ scale.num \in Nat /\ scale.den \in Nat \ {0}
        BY <2>1, StreamsAssumption DEF Tables
      <4>2. p \in Nat /\ s \in Nat /\ 4 * p <= s
        <5>1. scale.num * (4 * RowsAtSf1["part"]) <= scale.num * RowsAtSf1["partsupp"]
          BY <4>1, Ascending
        <5>2. scale.num * (4 * RowsAtSf1["part"]) = 4 * p /\ scale.num * RowsAtSf1["partsupp"] = s
          BY <4>1
        <5> QED BY <4>1, <5>1, <5>2
      <4> HIDE DEF p, s
      <4>3. 4 * (p \div scale.den) <= s \div scale.den
        BY <4>1, <4>2, FloorOfFour
      <4>4. UnitsOf(table, scale) = p \div scale.den /\ RowCount(table, scale) = s \div scale.den /\ RowsPerUnit(table) = 4
        BY <3>2, UnitSize DEF UnitsOf, RowCount, p, s
      <4> QED BY <4>3, <4>4
    <3> QED BY <3>1, <3>2
  <2> DEFINE size == RowsPerUnit(table)
             n == CalculateRowCount(UnitsOf(table, scale), parts.num, parts.count)
             start == PartStart(table, parts.num, parts.count, scale)
             end == PartEnd(table, parts.num, parts.count, scale)
  <2>10. size \in {1, 4}
    BY UnitSize
  <2>11. size * n <= parts.target + (IF parts.num = parts.count THEN size * (parts.count - 1) ELSE 0)
    BY <2>3, <2>5, <2>8, <2>9, <2>10, UnitsNearTarget
  <2>12. start \in Nat /\ end \in Nat /\ start <= end /\ end - start <= n
    BY <2>1, <2>3, <2>4, <2>5, PartsTile
  <2>13. n \in Nat
    BY <2>1, <2>3, <2>4, <2>5, PartsTile
  <2>14. Delivered <= size * end /\ parts.begin = size * start
    BY <2>6, <2>7, <2>10, <2>12
  <2> HIDE DEF size, n, start, end
  <2>15. Delivered - parts.begin <= size * n
    BY <2>1, <2>7, <2>10, <2>12, <2>13, <2>14
  <2>16. PICK x \in Int : x = IF parts.num = parts.count THEN size * (parts.count - 1) ELSE 0
    BY <2>5, <2>10
  <2>17. PICK y \in Int : y = size * n
    BY <2>10, <2>13
  <2>18. Delivered - parts.begin <= y /\ y <= parts.target + x
    BY <2>11, <2>15, <2>16, <2>17
  <2>19. Delivered - parts.begin <= parts.target + x
    BY <2>1, <2>5, <2>7, <2>18
  <2> QED BY <2>7, <2>16, <2>19 DEF size
<1> QED BY <1>1, StreamsInvariant, PTL

\* No more rows have been delivered than the table has.
LEMMA RowsDelivered ==
  ASSUME StreamsInv, NEW t \in Tables \ {"lineitem"}, NEW w \in Ways
  PROVE  Len(rows[t][w]) \in Nat /\ Len(rows[t][w]) <= RowsPerUnit(t) * EndRow(t, UnitsOf(t, scale))
<1>1. /\ scale \in Scales /\ TodoInv /\ CuttingInv /\ PlaceInv /\ RowsInv /\ DeliveredInv /\ FreshInv /\ DoneInv
      /\ parts \in [num : Nat, count : Nat, target : Nat, begin : Nat]
  BY DEF StreamsInv
<1>2. Len(rows[t][w]) \in Nat
  BY <1>1, SeqLen DEF RowsInv
<1>3. EndRow(t, UnitsOf(t, scale)) \in Nat
  BY <1>1, RowCounts, EndRows
<1>4. RowsPerUnit(t) * EndRow(t, UnitsOf(t, scale)) \in Nat
  BY <1>3, UnitSize
<1>5. CASE Finished(t, w)
  BY <1>1, <1>4, <1>5 DEF DoneInv
<1>6. CASE ~Finished(t, w)
  <2>1. PICK i \in 1..Len(todo) : todo[i] = [table |-> t, way |-> w]
    <3>1. DOMAIN todo = 1..Len(todo)
      BY <1>1 DEF TodoInv
    <3> QED BY <1>6, <3>1 DEF Finished
  <2>2. CASE i > 1 \/ parts.num = 0
    BY <1>1, <1>4, <2>1, <2>2, NoRowsSeq DEF FreshInv
  <2>3. CASE i = 1 /\ parts.num # 0
    <3>1. parts.num > 0
      BY <1>1, <2>3
    <3>2. todo # <<>> /\ parts.count \in 1..MaxParts /\ parts.num \in 1..parts.count
      BY <1>1, <3>1 DEF CuttingInv
    <3>3. t = table /\ w = way
      BY <1>1, <2>1, <2>3, <3>2, HeadJob
    <3>4. parts.count \in Nat \ {0}
      BY <3>2, StreamsAssumption
    <3>5. PartEnd(table, parts.num, parts.count, scale) <= EndRow(table, UnitsOf(table, scale))
      BY <1>1, <3>2, <3>3, <3>4, PartsTile
    <3>6. /\ Delivered + Len(batch) = RowsPerUnit(table) * iter.index + iter.line
          /\ iter.line < RowsPerUnit(table)
          /\ iter.index = iter.end => iter.line = 0
          /\ iter.index <= iter.end /\ iter.end = PartEnd(table, parts.num, parts.count, scale)
          /\ iter.index \in Nat /\ iter.line \in Nat /\ iter.end \in Nat
      BY <1>1, <3>1, <3>3 DEF DeliveredInv, PlaceInv, IsIterator
    <3>7. Delivered = Len(rows[t][w]) /\ Len(batch) \in Nat
      BY <1>1, <3>3, SeqLen DEF RowsInv, Delivered
    <3>8. RowsPerUnit(table) \in {1, 4}
      BY UnitSize
    <3>9. PICK e \in Nat : e = EndRow(table, UnitsOf(table, scale))
      BY <1>3, <3>3
    <3>10. iter.end <= e
      BY <3>5, <3>6, <3>9
    <3>11. Delivered <= RowsPerUnit(table) * e
      <4>1. CASE RowsPerUnit(table) = 1
        BY <1>2, <3>6, <3>7, <3>10, <4>1
      <4>2. CASE RowsPerUnit(table) = 4
        <5>1. PICK u \in Nat, l \in Nat : u = iter.index /\ l = iter.line
          BY <3>6
        <5>2. Delivered + Len(batch) = 4 * u + l /\ l < 4 /\ u <= e /\ (u = e => l = 0)
          BY <3>6, <3>10, <4>2, <5>1
        <5>3. 4 * u + l <= 4 * e
          BY <5>2
        <5> QED BY <1>2, <3>7, <4>2, <5>2, <5>3
      <4> QED BY <3>8, <4>1, <4>2
    <3> QED BY <1>2, <3>3, <3>7, <3>9, <3>11
  <2> QED BY <2>1, <2>2, <2>3
<1> QED BY <1>5, <1>6

\* The part and the number of the supplier that the k-th row of partsupp is about.
PartOf(k) == ((k - 1) \div 4) + 1
NumberOf(k) == (k - 1) % 4

\* What that row says, as long as the keys fit.
LEMMA PartSuppDelivered ==
  ASSUME StreamsInv, Fits("part", scale), Fits("supplier", scale), RowCount("supplier", scale) >= 1,
         NEW k \in DOMAIN rows["partsupp"]["parted"]
  PROVE  LET row == rows["partsupp"]["parted"][k]
         IN  /\ PartOf(k) \in 1..RowCount("part", scale) /\ NumberOf(k) \in 0..3
             /\ k = 4 * (PartOf(k) - 1) + NumberOf(k) + 1
             /\ row.part_key = PartOf(k)
             /\ row.supplier_key = SelectPartSupplier(PartOf(k), NumberOf(k), RowCount("supplier", scale))
             /\ row.supplier_key \in 1..RowCount("supplier", scale)
<1> DEFINE delivered == rows["partsupp"]["parted"]
           row == delivered[k]
           n == Len(delivered)
<1>1. scale \in Scales /\ RowsInv /\ KeysInv
  BY DEF StreamsInv
<1>2. /\ "partsupp" \in Tables \ {"lineitem"} /\ "parted" \in Ways
      /\ "part" \in Tables /\ "supplier" \in Tables
  BY DEF Tables, Ways
<1>3. DOMAIN delivered = 1..n /\ n \in Nat
  <2>1. IsSeq(delivered)
    BY <1>1, <1>2 DEF RowsInv
  <2> QED BY <2>1, SeqLen
<1>4. PICK suppliers \in Nat \ {0} : suppliers = RowCount("supplier", scale) /\ suppliers <= MaxInt
  <2>1. RowCount("supplier", scale) \in Nat
    BY <1>1, <1>2, RowCounts
  <2> QED BY <2>1 DEF Fits
<1>5. PICK all_parts \in Nat : all_parts = RowCount("part", scale) /\ all_parts <= MaxInt
  <2>1. RowCount("part", scale) \in Nat
    BY <1>1, <1>2, RowCounts
  <2> QED BY <2>1 DEF Fits
<1>6. n <= 4 * all_parts
  <2>1. UnitsOf("partsupp", scale) = all_parts /\ RowsPerUnit("partsupp") = 4
    BY <1>5, UnitSize DEF UnitsOf
  <2>2. EndRow("partsupp", all_parts) = all_parts
    BY DEF EndRow
  <2> QED BY <1>2, <2>1, <2>2, RowsDelivered
<1>7. k \in 1..n /\ HasKey("partsupp", k, row, scale)
  BY <1>1, <1>2, <1>3 DEF KeysInv
<1> HIDE DEF n, row, delivered
<1>8. PICK p \in 1..all_parts, i \in 0..3 : p = PartOf(k) /\ i = NumberOf(k) /\ k = 4 * (p - 1) + i + 1
  BY <1>3, <1>6, <1>7 DEF PartOf, NumberOf
<1>9. MaxInt \in Int /\ p \in Nat \ {0} /\ p \in 0..MaxInt
  BY <1>5, RandsAssumption DEF MaxInt
<1>10. ToInt(p) = p
  BY <1>9, ToIntFits
<1>11. row.part_key = p /\ row.supplier_key = ToInt(SelectPartSupplier(p, i, suppliers))
  <2>1. row.part_key = ToInt(PartOf(k)) /\ row.supplier_key = SupplierAt((k - 1) \div 4, NumberOf(k), scale)
    BY <1>7 DEF HasKey, SuppliersPerPart, PartOf, NumberOf
  <2>2. SupplierAt((k - 1) \div 4, NumberOf(k), scale) = ToInt(SelectPartSupplier(ToInt(p), i, suppliers))
    BY <1>4, <1>8 DEF SupplierAt, SupplierKeyMax, PartOf
  <2> QED BY <1>8, <1>10, <2>1, <2>2
<1>12. SelectPartSupplier(p, i, suppliers) \in 1..suppliers
  BY <1>9, SupplierForm
<1>13. ToInt(SelectPartSupplier(p, i, suppliers)) = SelectPartSupplier(p, i, suppliers)
  <2>1. SelectPartSupplier(p, i, suppliers) \in 0..MaxInt
    BY <1>4, <1>9, <1>12
  <2> QED BY <2>1, ToIntFits
<1> QED BY <1>4, <1>5, <1>8, <1>11, <1>12, <1>13 DEF row, delivered

\* Two rows of a part whose suppliers are not too few.
LEMMA PartSuppDistinct ==
  ASSUME StreamsInv, Fits("part", scale), Fits("supplier", scale), RowCount("supplier", scale) >= 1,
         NEW i \in DOMAIN rows["partsupp"]["parted"], NEW j \in DOMAIN rows["partsupp"]["parted"] \ {i},
         OnceAround(RowCount("supplier", scale), rows["partsupp"]["parted"][i].part_key),
         rows["partsupp"]["parted"][j].part_key = rows["partsupp"]["parted"][i].part_key
  PROVE  rows["partsupp"]["parted"][j].supplier_key # rows["partsupp"]["parted"][i].supplier_key
<1>1. RowCount("part", scale) \in Nat /\ RowCount("supplier", scale) \in Nat \ {0}
  <2>1. scale \in Scales
    BY DEF StreamsInv
  <2>2. RowCount("part", scale) \in Nat /\ RowCount("supplier", scale) \in Nat
    BY <2>1, RowCounts DEF Tables
  <2> QED BY <2>2
<1>2. PICK p \in Nat \ {0} : p = PartOf(i) /\ p = PartOf(j)
  <2>1. /\ PartOf(i) \in 1..RowCount("part", scale) /\ PartOf(j) = PartOf(i)
    BY PartSuppDelivered
  <2> QED BY <1>1, <2>1
<1>3. /\ NumberOf(i) \in 0..3 /\ NumberOf(j) \in 0..3
      /\ i = 4 * (p - 1) + NumberOf(i) + 1 /\ j = 4 * (p - 1) + NumberOf(j) + 1
      /\ OnceAround(RowCount("supplier", scale), p)
      /\ rows["partsupp"]["parted"][i].supplier_key = SelectPartSupplier(p, NumberOf(i), RowCount("supplier", scale))
      /\ rows["partsupp"]["parted"][j].supplier_key = SelectPartSupplier(p, NumberOf(j), RowCount("supplier", scale))
  BY <1>2, PartSuppDelivered
<1>4. NumberOf(i) # NumberOf(j)
  BY <1>3
<1> QED BY <1>1, <1>2, <1>3, <1>4, FourSuppliers

\* At every scale factor that has a supplier: as long as part and supplier keys
\* fit, the suppliers of partsupp exist, and a part whose suppliers are not too few
\* has none of them twice (doc/tables.md:76), in every number of partitions.
THEOREM SuppliersAreDistinct ==
  ASSUME \A s \in Scales : RowCount("supplier", s) >= 1 PROVE Spec => []SuppliersDistinct
<1>1. StreamsInv => SuppliersDistinct
  <2> SUFFICES ASSUME StreamsInv, Fits("part", scale), Fits("supplier", scale),
                      NEW i \in DOMAIN rows["partsupp"]["parted"]
               PROVE  /\ SupplierInRange(rows["partsupp"]["parted"][i])
                      /\ OnceAround(SupplierKeyMax(scale), rows["partsupp"]["parted"][i].part_key) =>
                           \A j \in DOMAIN rows["partsupp"]["parted"] \ {i} :
                             rows["partsupp"]["parted"][j].part_key = rows["partsupp"]["parted"][i].part_key =>
                               rows["partsupp"]["parted"][j].supplier_key # rows["partsupp"]["parted"][i].supplier_key
    BY DEF SuppliersDistinct
  <2>1. RowCount("supplier", scale) >= 1
    BY DEF StreamsInv
  <2>2. SupplierInRange(rows["partsupp"]["parted"][i])
    BY <2>1, PartSuppDelivered DEF SupplierInRange, SupplierKeyMax
  <2> QED BY <2>1, <2>2, PartSuppDistinct DEF SupplierKeyMax
<1> QED BY <1>1, StreamsInvariant, PTL

\* Parts and suppliers as in TPC-H, twenty parts to a supplier.
LEMMA TwentyParts ==
  ASSUME RowsAtSf1["part"] = 20 * RowsAtSf1["supplier"], NEW s \in Scales
  PROVE  /\ RowCount("part", s) \in Nat /\ RowCount("supplier", s) \in Nat
         /\ RowCount("supplier", s) <= RowCount("part", s)
         /\ RowCount("part", s) <= 20 * RowCount("supplier", s) + 19
<1> DEFINE x == RowsAtSf1["supplier"] * s.num
           y == RowsAtSf1["part"] * s.num
<1>1. /\ RowsAtSf1["supplier"] \in Nat /\ RowsAtSf1["part"] \in Nat
      /\ s.num \in Nat /\ s.den \in Nat \ {0}
  BY StreamsAssumption DEF Tables
<1>2. x \in Nat /\ y = 20 * x /\ y \in Nat
  BY <1>1
<1> HIDE DEF x, y
<1>3. PICK suppliers \in Nat, m \in 0..(s.den - 1) : suppliers = x \div s.den /\ x = s.den * suppliers + m
  <2>1. x \div s.den \in Nat /\ x % s.den \in 0..(s.den - 1) /\ x = s.den * (x \div s.den) + (x % s.den)
    BY <1>1, <1>2, Division
  <2> QED BY <2>1
<1>4. PICK all_parts \in Nat, l \in 0..(s.den - 1) : all_parts = y \div s.den /\ y = s.den * all_parts + l
  <2>1. y \div s.den \in Nat /\ y % s.den \in 0..(s.den - 1) /\ y = s.den * (y \div s.den) + (y % s.den)
    BY <1>1, <1>2, Division
  <2> QED BY <2>1
<1>5. all_parts <= 20 * suppliers + 19
  <2>1. SUFFICES ASSUME 20 * suppliers + 20 <= all_parts PROVE FALSE
    OBVIOUS
  <2>2. s.den * (20 * suppliers + 20) <= s.den * all_parts
    BY <1>1, <2>1, Ascending
  <2>3. PICK a \in Nat : a = s.den * suppliers
    BY <1>1
  <2>4. PICK b \in Nat : b = s.den * all_parts
    BY <1>1
  <2>5. s.den * (20 * suppliers + 20) = 20 * a + 20 * s.den
    BY <1>1, <2>3
  <2>6. x = a + m /\ y = b + l /\ 20 * a + 20 * s.den <= b
    BY <1>3, <1>4, <2>2, <2>3, <2>4, <2>5
  <2>7. PICK d \in Nat : d = s.den /\ m < d /\ m >= 0 /\ l >= 0
    BY <1>1, <1>3, <1>4
  <2> QED BY <1>2, <2>3, <2>4, <2>6, <2>7
<1>6. RowCount("supplier", s) = suppliers /\ RowCount("part", s) = all_parts
  BY <1>3, <1>4 DEF RowCount, x, y
<1>7. suppliers <= all_parts
  <2>1. SUFFICES ASSUME all_parts + 1 <= suppliers PROVE FALSE
    OBVIOUS
  <2>2. s.den * (all_parts + 1) <= s.den * suppliers
    BY <1>1, <2>1, Ascending
  <2>3. PICK a \in Nat : a = s.den * suppliers
    BY <1>1
  <2>4. PICK b \in Nat : b = s.den * all_parts /\ s.den * (all_parts + 1) = b + s.den
    BY <1>1
  <2>5. x = a + m /\ y = b + l /\ b + s.den <= a /\ l < s.den
    BY <1>1, <1>3, <1>4, <2>2, <2>3, <2>4
  <2>6. y < x
    BY <1>1, <1>2, <2>3, <2>4, <2>5
  <2> QED BY <1>2, <2>6
<1> QED BY <1>5, <1>6, <1>7

\* "This guarantees 4 distinct supplier keys per part" (doc/tables.md:76), with the
\* numbers of TPC-H: from more than 240 suppliers on (scale factor 0.0241), up to the
\* parts that std::int32_t holds (scale factor 10737).
THEOREM SuppliersAreDistinctInTpch ==
  ASSUME RowsAtSf1["part"] = 20 * RowsAtSf1["supplier"],
         \A s \in Scales : RowCount("supplier", s) > 240 /\ Fits("part", s)
  PROVE  Spec => []FourSuppliersPerPart
<1>1. StreamsInv => FourSuppliersPerPart
  <2> SUFFICES ASSUME StreamsInv, NEW i \in DOMAIN rows["partsupp"]["parted"]
               PROVE  /\ SupplierInRange(rows["partsupp"]["parted"][i])
                      /\ \A j \in DOMAIN rows["partsupp"]["parted"] \ {i} :
                           rows["partsupp"]["parted"][j].part_key = rows["partsupp"]["parted"][i].part_key =>
                             rows["partsupp"]["parted"][j].supplier_key # rows["partsupp"]["parted"][i].supplier_key
    BY DEF FourSuppliersPerPart
  <2>1. scale \in Scales
    BY DEF StreamsInv
  <2>2. PICK suppliers \in Nat, all_parts \in Nat :
          /\ suppliers = RowCount("supplier", scale) /\ all_parts = RowCount("part", scale)
          /\ suppliers > 240 /\ suppliers <= all_parts /\ all_parts <= 20 * suppliers + 19
    BY <2>1, TwentyParts
  <2>3. Fits("part", scale) /\ Fits("supplier", scale)
    <3>1. Fits("part", scale)
      BY <2>1
    <3>2. all_parts <= MaxInt /\ MaxInt \in Int
      BY <2>2, <3>1, RandsAssumption DEF Fits, MaxInt
    <3>3. suppliers <= MaxInt
      BY <2>2, <3>2
    <3> QED BY <2>2, <3>1, <3>3 DEF Fits
  <2>4. SupplierInRange(rows["partsupp"]["parted"][i])
    BY <2>2, <2>3, PartSuppDelivered DEF SupplierInRange, SupplierKeyMax
  <2>5. OnceAround(RowCount("supplier", scale), rows["partsupp"]["parted"][i].part_key)
    <3>1. PICK p : p = rows["partsupp"]["parted"][i].part_key
      OBVIOUS
    <3>2. p \in 1..all_parts
      BY <2>2, <2>3, <3>1, PartSuppDelivered
    <3>3. p \in 1..(20 * suppliers + 19)
      BY <2>2, <3>2
    <3> QED BY <2>2, <3>1, <3>3, ScaledSuppliers
  <2> QED BY <2>2, <2>3, <2>4, <2>5, PartSuppDistinct
<1> QED BY <1>1, StreamsInvariant, PTL

-----------------------------------------------------------------------------
\* Orders have different keys as long as those fit.
LEMMA DifferentOrderKeys ==
  ASSUME NEW s \in Scales, Fits("orders", s), NEW j \in 1..RowCount("orders", s), NEW k \in 1..RowCount("orders", s),
         ToInt(MakeOrderKey(j)) = ToInt(MakeOrderKey(k))
  PROVE  j = k
<1>1. PICK total \in Nat : total = RowCount("orders", s) /\ MakeOrderKey(total) <= MaxInt
  <2>1. RowCount("orders", s) \in Nat
    BY RowCounts DEF Tables
  <2> QED BY <2>1 DEF Fits
<1>2. ASSUME NEW i \in 1..total PROVE MakeOrderKey(i) \in 0..MaxInt
  <2>1. i \div 8 <= total \div 8 /\ (i \div 8 = total \div 8 => i % 8 <= total % 8)
    OBVIOUS
  <2>2. MakeOrderKey(i) \in Nat /\ MakeOrderKey(i) <= MakeOrderKey(total) /\ MakeOrderKey(total) \in Nat
    BY <2>1 DEF MakeOrderKey
  <2> QED BY <1>1, <2>2, RandsAssumption DEF MaxInt
<1>3. MakeOrderKey(j) = MakeOrderKey(k)
  BY <1>1, <1>2, ToIntFits
<1>4. j \in Nat /\ k \in Nat
  BY <1>1
<1> QED BY <1>3, <1>4 DEF MakeOrderKey

\* What identifies a row of a table with a row to an index, or four.
KeyOf(t, row) == IF t = "partsupp" THEN <<row.part_key, row.supplier_key>> ELSE row.key

\* "any partition produces the same keys as the full, single-threaded run, and
\* different partitions never overlap" (doc/tables.md:130): row by row the
\* partitions deliver the keys of the single partition, and as many rows; no key
\* twice, as long as the keys fit.
SameKeysAsFullRun ==
  \A t \in Tables \ {"lineitem"} :
    /\ \A k \in 1..Len(rows[t]["parted"]) :
         k <= Len(rows[t]["full"]) => KeyOf(t, rows[t]["parted"][k]) = KeyOf(t, rows[t]["full"][k])
    /\ Finished(t, "full") => Len(rows[t]["parted"]) <= Len(rows[t]["full"])
    /\ Finished(t, "full") /\ Finished(t, "parted") => Len(rows[t]["parted"]) = Len(rows[t]["full"])
    /\ \A w \in Ways : t # "partsupp" /\ Fits(t, scale) =>
         \A j, k \in 1..Len(rows[t][w]) : KeyOf(t, rows[t][w][j]) = KeyOf(t, rows[t][w][k]) => j = k

\* For every scale factor, number of partitions and batch size.
THEOREM SameKeys == Spec => []SameKeysAsFullRun
<1>1. StreamsInv => SameKeysAsFullRun
  <2> SUFFICES ASSUME StreamsInv, NEW t \in Tables \ {"lineitem"}
               PROVE  /\ \A k \in 1..Len(rows[t]["parted"]) :
                           k <= Len(rows[t]["full"]) => KeyOf(t, rows[t]["parted"][k]) = KeyOf(t, rows[t]["full"][k])
                      /\ Finished(t, "full") => Len(rows[t]["parted"]) <= Len(rows[t]["full"])
                      /\ Finished(t, "full") /\ Finished(t, "parted") => Len(rows[t]["parted"]) = Len(rows[t]["full"])
                      /\ \A w \in Ways : t # "partsupp" /\ Fits(t, scale) =>
                           \A j, k \in 1..Len(rows[t][w]) : KeyOf(t, rows[t][w][j]) = KeyOf(t, rows[t][w][k]) => j = k
    BY DEF SameKeysAsFullRun
  <2>1. KeysInv /\ DoneInv
    BY DEF StreamsInv
  <2>2. "full" \in Ways /\ "parted" \in Ways
    BY DEF Ways
  <2>3. ASSUME NEW w \in Ways, NEW k \in 1..Len(rows[t][w])
        PROVE  HasKey(t, k, rows[t][w][k], scale)
    BY <2>1 DEF KeysInv
  <2>4. \A w \in Ways : Len(rows[t][w]) \in Nat /\ Len(rows[t][w]) <= RowsPerUnit(t) * EndRow(t, UnitsOf(t, scale))
    BY RowsDelivered
  <2>5. ASSUME NEW k \in 1..Len(rows[t]["parted"]), k <= Len(rows[t]["full"])
        PROVE  KeyOf(t, rows[t]["parted"][k]) = KeyOf(t, rows[t]["full"][k])
    <3>1. k \in 1..Len(rows[t]["full"])
      BY <2>2, <2>4, <2>5
    <3> QED BY <2>2, <2>3, <3>1 DEF HasKey, KeyOf
  <2>6. /\ Finished(t, "full") => Len(rows[t]["parted"]) <= Len(rows[t]["full"])
        /\ Finished(t, "full") /\ Finished(t, "parted") => Len(rows[t]["parted"]) = Len(rows[t]["full"])
    BY <2>1, <2>2, <2>4 DEF DoneInv
  <2>7. ASSUME NEW w \in Ways, t # "partsupp", Fits(t, scale),
               NEW j \in 1..Len(rows[t][w]), NEW k \in 1..Len(rows[t][w]),
               KeyOf(t, rows[t][w][j]) = KeyOf(t, rows[t][w][k])
        PROVE  j = k
    <3>1. j \in Nat \ {0} /\ k \in Nat \ {0} /\ (j - 1) + 1 = j /\ (k - 1) + 1 = k
      BY <2>4, <2>7
    <3>2. KeyAt(t, j - 1) = KeyAt(t, k - 1)
      BY <2>3, <2>7 DEF HasKey, KeyOf
    <3>3. CASE t \in {"nation", "region"}
      BY <3>1, <3>2, <3>3 DEF KeyAt
    <3>4. CASE t \notin {"nation", "region"}
      <4>1. PICK total \in Nat : total = RowCount(t, scale) /\ j <= total /\ k <= total
        <5>1. RowsPerUnit(t) = 1 /\ UnitsOf(t, scale) = RowCount(t, scale) /\ scale \in Scales
          BY <2>7, UnitSize DEF UnitsOf, StreamsInv
        <5>2. RowCount(t, scale) \in Nat /\ EndRow(t, RowCount(t, scale)) = RowCount(t, scale)
          BY <3>4, <5>1, RowCounts DEF EndRow
        <5> QED BY <2>4, <3>1, <5>1, <5>2
      <4>2. CASE t = "orders"
        <5>1. ToInt(MakeOrderKey(j)) = ToInt(MakeOrderKey(k))
          BY <3>1, <3>2, <4>2 DEF KeyAt
        <5>2. /\ scale \in Scales /\ Fits("orders", scale)
              /\ j \in 1..RowCount("orders", scale) /\ k \in 1..RowCount("orders", scale)
          BY <2>7, <3>1, <4>1, <4>2 DEF StreamsInv
        <5> QED BY <5>1, <5>2, DifferentOrderKeys
      <4>3. CASE t # "orders"
        <5>1. ToInt(j) = ToInt(k)
          BY <3>1, <3>2, <3>4, <4>3 DEF KeyAt
        <5>2. j \in 0..MaxInt /\ k \in 0..MaxInt
          BY <2>7, <3>1, <4>1, <4>3, RandsAssumption DEF Fits, MaxInt
        <5> QED BY <5>1, <5>2, ToIntFits
      <4> QED BY <4>2, <4>3
    <3> QED BY <3>3, <3>4
  <2> QED BY <2>5, <2>6, <2>7
<1> QED BY <1>1, StreamsInvariant, PTL

-----------------------------------------------------------------------------
(* The streams along a behaviour.                                           *)

\* The rows of the table, or their groups, to be gone over.
Whole(t, s) == EndRow(t, UnitsOf(t, s))

\* The streams of the iterator are where they should be in its unit.
IterInv(S) == parts.num > 0 => IteratorAt(table, scale, iter, S)

\* A table is generated by one partition before it is by several.
OrderInv ==
  \A i \in 1..Len(todo) :
    todo[i].way = "full" =>
      \E j \in 1..Len(todo) : j > i /\ todo[j] = [table |-> todo[i].table, way |-> "parted"]

LEMMA StartIndex ==
  ASSUME NEW t, NEW s, NEW k \in Nat
  PROVE  Start(t, s, k).index = k
<1>1. PICK created : created = Created(t, s, k, 0)
  OBVIOUS
<1>2. IsCreated(t, s, k, 0, created)
  BY <1>1, CreatedFields
<1>3. IsIterator(created) /\ created.index = k
  BY <1>2 DEF IsCreated
<1>4. PICK it : it = IF t = "lineitem" THEN DrawOrder(created) ELSE created
  OBVIOUS
<1>5. it.index = k
  BY <1>3, <1>4, DrawOrderPlace
<1>6. Start(t, s, k) = Place(it)
  BY <1>1, <1>4 DEF Start
<1> QED BY <1>5, <1>6 DEF Place

LEMMA InitStreams2 == Init => OrderInv /\ \A S : IterInv(S)
<1> SUFFICES ASSUME Init PROVE OrderInv /\ \A S : IterInv(S)
  OBVIOUS
<1>1. parts.num = 0 /\ todo = Jobs
  BY DEF Init, NoParts
<1>2. Len(JobOrder) = 8
  BY DEF JobOrder
<1>3. todo = [i \in 1..16 |-> [table |-> JobOrder[(i + 1) \div 2], way |-> IF i % 2 = 1 THEN "full" ELSE "parted"]]
  BY <1>1, <1>2 DEF Jobs
<1>4. Len(todo) = 16
  <2>1. todo \in Seq({todo[i] : i \in 1..16})
    BY <1>3
  <2> QED BY <1>3, <2>1
<1>5. OrderInv
  <2> SUFFICES ASSUME NEW i \in 1..16, todo[i].way = "full"
               PROVE  \E j \in 1..16 : j > i /\ todo[j] = [table |-> todo[i].table, way |-> "parted"]
    BY <1>4 DEF OrderInv
  <2>1. i % 2 = 1 /\ todo[i].table = JobOrder[(i + 1) \div 2]
    BY <1>3
  <2>2. i + 1 \in 1..16 /\ i + 1 > i /\ (i + 1) % 2 = 0 /\ ((i + 1) + 1) \div 2 = (i + 1) \div 2
    BY <2>1
  <2>3. todo[i + 1] = [table |-> JobOrder[(i + 1) \div 2], way |-> "parted"]
    BY <1>3, <2>2
  <2> QED BY <2>1, <2>2, <2>3
<1> QED BY <1>1, <1>5 DEF IterInv

LEMMA OrderStep == ASSUME StreamsInv, OrderInv, [Next]_vars PROVE OrderInv'
<1>1. CASE UNCHANGED todo
  BY <1>1 DEF OrderInv
<1>2. CASE NextPartition /\ todo' = Tail(todo)
  <2>1. TodoInv /\ todo # <<>>
    BY <1>2 DEF StreamsInv, CuttingInv, NextPartition
  <2> DEFINE J == [table : Tables, way : Ways]
  <2>2. todo \in Seq(J)
    BY <2>1 DEF TodoInv
  <2> HIDE DEF J
  <2>3. /\ Len(todo) \in Nat \ {0} /\ Len(todo') = Len(todo) - 1
        /\ \A i \in 1..(Len(todo) - 1) : todo'[i] = todo[i + 1]
    BY <1>2, <2>1, <2>2, SeqHead
  <2> SUFFICES ASSUME NEW i \in 1..Len(todo'), todo'[i].way = "full"
               PROVE  \E j \in 1..Len(todo') : j > i /\ todo'[j] = [table |-> todo'[i].table, way |-> "parted"]
    BY DEF OrderInv
  <2>4. i + 1 \in 1..Len(todo) /\ todo'[i] = todo[i + 1]
    BY <2>3
  <2>5. PICK j \in 1..Len(todo) : j > i + 1 /\ todo[j] = [table |-> todo[i + 1].table, way |-> "parted"]
    BY <2>4 DEF OrderInv
  <2>6. PICK m \in 1..Len(todo') : m = j - 1 /\ m > i /\ m + 1 = j
    BY <2>3, <2>5
  <2>7. todo'[m] = todo[j]
    BY <2>3, <2>6
  <2> QED BY <2>4, <2>5, <2>6, <2>7
<1> QED BY <1>1, <1>2 DEF Next, vars, StartTable, AppendRow, DeliverBatch, NextPartition

LEMMA IterStep ==
  ASSUME NEW S, ClosedSeeds(S), StreamsInv, IterInv(S), [Next]_vars
  PROVE  IterInv(S)'
<1>1. /\ scale \in Scales /\ TodoInv /\ CuttingInv
      /\ parts \in [num : Nat, count : Nat, target : Nat, begin : Nat]
  BY DEF StreamsInv
<1>2. todo # <<>> => table \in Tables
  BY <1>1, HeadJob
<1>3. StreamsInv'
  BY StreamsStep
<1>4. CuttingInv' /\ parts' \in [num : Nat, count : Nat, target : Nat, begin : Nat]
  BY <1>3 DEF StreamsInv
<1>5. CASE StartTable
  <2>1. PICK count : parts'.num = 1 /\ parts'.count = count /\ iter' = ResetGenerator(table, 1, count, scale)
    BY <1>5 DEF StartTable
  <2>2. UNCHANGED <<todo, scale>> /\ todo # <<>>
    BY <1>5 DEF StartTable
  <2>3. count \in Nat \ {0} /\ 1 \in 1..count
    BY <1>4, <2>1 DEF CuttingInv
  <2>4. IteratorAt(table, scale, iter', S)
    BY <1>1, <1>2, <2>1, <2>2, <2>3, ResetAt
  <2> QED BY <2>2, <2>4 DEF IterInv, table
<1>6. CASE AppendRow
  <2>1. /\ parts.num > 0 /\ ~Done(iter) /\ UNCHANGED <<todo, scale>> /\ iter' = NextRow(table, iter).iter
    BY <1>6 DEF AppendRow
  <2>2. todo # <<>>
    BY <1>1, <2>1 DEF CuttingInv
  <2>3. IteratorAt(table, scale, iter', S)
    BY <1>1, <1>2, <2>1, <2>2, NextAt DEF IterInv
  <2> QED BY <2>1, <2>3 DEF IterInv, table
<1>7. CASE DeliverBatch
  <2>1. UNCHANGED <<todo, scale, parts, iter>>
    BY <1>7 DEF DeliverBatch
  <2> QED BY <2>1 DEF IterInv, table
<1>8. CASE NextPartition
  <2>1. CASE parts.num < parts.count
    <3>1. /\ parts' = [parts EXCEPT !.num = @ + 1, !.begin = Len(rows[table][Head(todo).way])]
          /\ iter' = ResetGenerator(table, parts.num + 1, parts.count, scale)
          /\ UNCHANGED <<todo, scale>> /\ parts.num > 0
      BY <1>8, <2>1 DEF NextPartition
    <3>2. parts.count \in Nat \ {0} /\ parts.num + 1 \in 1..parts.count /\ todo # <<>>
      BY <1>1, <2>1, <3>1 DEF CuttingInv
    <3>3. IteratorAt(table, scale, iter', S)
      BY <1>1, <1>2, <3>1, <3>2, ResetAt
    <3> QED BY <3>1, <3>3 DEF IterInv, table
  <2>2. CASE ~(parts.num < parts.count)
    <3>1. parts'.num = 0
      BY <1>8, <2>2 DEF NextPartition, NoParts
    <3> QED BY <3>1 DEF IterInv
  <2> QED BY <2>1, <2>2
<1>9. CASE UNCHANGED vars
  BY <1>9 DEF vars, IterInv, table
<1> QED BY <1>5, <1>6, <1>7, <1>8, <1>9 DEF Next

\* The iterator goes along the path of its table.
AlongInv ==
  parts.num > 0 /\ SkipsExactly(table, scale) =>
    LET n == Delivered + Len(batch)
        path == Path(table, scale)
    IN  /\ ~Done(iter) => Place(iter) = path[n]
        /\ Done(iter) => path[n] = Start(table, scale, iter.index)
        /\ n > 0 => path[n - 1].index < Whole(table, scale)

\* The rows delivered are those of the path.
PathRowsInv ==
  /\ \A t \in Tables, w \in Ways : SkipsExactly(t, scale) =>
       \A k \in 1..Len(rows[t][w]) : rows[t][w][k] = RowAt(t, scale, k - 1)
  /\ parts.num > 0 /\ SkipsExactly(table, scale) =>
       \A k \in 1..Len(batch) : batch[k] = RowAt(table, scale, Delivered + k - 1)

\* The n-th place of the path is the first behind the table.
EndsAt(t, s, n) ==
  /\ Path(t, s)[n].index = Whole(t, s)
  /\ n > 0 => Path(t, s)[n - 1].index < Whole(t, s)

PathEndInv ==
  \A t \in Tables, w \in Ways :
    SkipsExactly(t, scale) /\ Finished(t, w) => EndsAt(t, scale, Len(rows[t][w]))

PathInv == AlongInv /\ PathRowsInv /\ PathEndInv

LEMMA InitPath == Init => PathInv
<1> SUFFICES ASSUME Init PROVE PathInv
  OBVIOUS
<1>1. parts.num = 0 /\ \A t \in Tables, w \in Ways : Len(rows[t][w]) = 0
  BY NoRowsSeq DEF Init, NoParts
<1>2. StreamsInv
  BY InitStreams
<1>3. ASSUME NEW t \in Tables, NEW w \in Ways PROVE ~Finished(t, w)
  <2>1. PICK n \in 1..8 : JobOrder[n] = t
    BY DEF JobOrder, Tables
  <2>2. Len(JobOrder) = 8
    BY DEF JobOrder
  <2>3. todo = [i \in 1..16 |-> [table |-> JobOrder[(i + 1) \div 2], way |-> IF i % 2 = 1 THEN "full" ELSE "parted"]]
    BY <2>2 DEF Init, Jobs
  <2>4. (2 * n - 1) \in 1..16 /\ ((2 * n - 1) + 1) \div 2 = n /\ (2 * n - 1) % 2 = 1
    OBVIOUS
  <2>5. (2 * n) \in 1..16 /\ ((2 * n) + 1) \div 2 = n /\ (2 * n) % 2 = 0
    OBVIOUS
  <2>6. todo[2 * n - 1] = [table |-> t, way |-> "full"]
    BY <2>1, <2>3, <2>4
  <2>7. todo[2 * n] = [table |-> t, way |-> "parted"]
    BY <2>1, <2>3, <2>5
  <2>8. DOMAIN todo = 1..16
    BY <2>3
  <2> QED BY <2>4, <2>5, <2>6, <2>7, <2>8 DEF Finished, Ways
<1> QED BY <1>1, <1>3 DEF PathInv, AlongInv, PathRowsInv, PathEndInv

\* The state of the running job.
LEMMA Running ==
  ASSUME StreamsInv, parts.num > 0
  PROVE  /\ scale \in Scales /\ todo # <<>> /\ table \in Tables /\ way \in Ways
         /\ parts.count \in Nat \ {0} /\ parts.num \in 1..parts.count
         /\ Delivered \in Nat /\ Len(batch) \in Nat
         /\ IsIterator(iter) /\ iter.index \in Nat /\ iter.end \in Nat /\ iter.index <= iter.end
         /\ iter.end = PartEnd(table, parts.num, parts.count, scale)
         /\ iter.end <= Whole(table, scale) /\ Whole(table, scale) \in Nat
         /\ table = "nation" => Whole(table, scale) <= Len(NationWeights)
<1>1. /\ scale \in Scales /\ TodoInv /\ CuttingInv /\ PlaceInv /\ RowsInv
      /\ parts \in [num : Nat, count : Nat, target : Nat, begin : Nat]
  BY DEF StreamsInv
<1>2. todo # <<>> /\ parts.count \in Nat \ {0} /\ parts.num \in 1..parts.count
  BY <1>1, StreamsAssumption DEF CuttingInv
<1>3. table \in Tables /\ way \in Ways
  BY <1>1, <1>2, HeadJob
<1>4. Delivered \in Nat /\ Len(batch) \in Nat
  BY <1>1, <1>3, SeqLen DEF RowsInv, Delivered
<1>5. /\ IsIterator(iter) /\ iter.index \in Nat /\ iter.end \in Nat /\ iter.index <= iter.end
      /\ iter.end = PartEnd(table, parts.num, parts.count, scale)
  BY <1>1 DEF PlaceInv, IsIterator
<1>6. iter.end <= Whole(table, scale)
  BY <1>1, <1>2, <1>3, <1>5, PartsTile DEF Whole
<1>7. Whole(table, scale) \in Nat
  BY <1>1, <1>3, RowCounts, EndRows DEF Whole
<1>8. table = "nation" => Whole(table, scale) <= Len(NationWeights)
  <2>1. PICK e \in Nat : e = UnitsOf(table, scale)
    BY <1>1, <1>3, RowCounts
  <2>2. Len(NationWeights) = 25
    BY DEF NationWeights
  <2>3. RowsAtSf1["nation"] \in Nat /\ RowsAtSf1["nation"] <= 25
    BY StreamsAssumption DEF Tables
  <2> QED BY <2>1, <2>2, <2>3 DEF Whole, EndRow
<1> QED BY <1>1, <1>2, <1>3, <1>4, <1>5, <1>6, <1>7, <1>8

LEMMA StartTablePath == ASSUME StreamsInv, StreamsInv', PathInv, StartTable PROVE PathInv'
<1>1. /\ todo # <<>> /\ parts.num = 0 /\ UNCHANGED <<scale, todo, batch, rows>>
  BY DEF StartTable
<1>2. PICK count : parts'.num = 1 /\ parts'.count = count /\ iter' = ResetGenerator(table, 1, count, scale)
  BY DEF StartTable
<1>3. /\ TodoInv /\ IdleInv /\ FreshInv /\ scale \in Scales
  BY DEF StreamsInv
<1>4. table' = table /\ way' = way /\ table \in Tables /\ way \in Ways
  BY <1>1, <1>3, HeadJob DEF table, way
<1>5. Delivered' = 0 /\ Len(batch') = 0
  <2>1. rows[table][way] = <<>> /\ batch = <<>>
    BY <1>1, <1>3, HeadJob DEF FreshInv, IdleInv
  <2> QED BY <1>1, <1>4, <2>1, NoRowsSeq DEF Delivered
<1>6. count \in Nat \ {0} /\ 1 \in 1..count
  <2>1. CuttingInv' /\ parts' \in [num : Nat, count : Nat, target : Nat, begin : Nat]
    BY DEF StreamsInv
  <2> QED BY <1>2, <2>1 DEF CuttingInv
<1>7. iter'.index = 0
  BY <1>2, <1>3, <1>4, <1>6, ResetPlace, PartsTile
<1>8. ~Done(iter') => Place(iter') = Start(table, scale, 0)
  BY <1>2, <1>3, <1>4, <1>6, <1>7, ResiduesClosed, ResetAt
<1>9. Path(table, scale)[0] = Start(table, scale, 0)
  BY PathForm
<1>10. AlongInv'
  <2>1. Delivered' + Len(batch') = 0
    BY <1>5
  <2> QED BY <1>1, <1>4, <1>7, <1>8, <1>9, <2>1 DEF AlongInv
<1>11. PathRowsInv'
  <2>1. \A k : k \notin 1..Len(batch')
    BY <1>5
  <2> QED BY <1>1, <2>1 DEF PathInv, PathRowsInv
<1>12. PathEndInv'
  BY <1>1 DEF PathInv, PathEndInv, Finished
<1> QED BY <1>10, <1>11, <1>12 DEF PathInv

LEMMA AppendRowPath == ASSUME StreamsInv, IterInv(Residues), PathInv, AppendRow PROVE PathInv'
<1>1. /\ parts.num > 0 /\ ~Done(iter) /\ UNCHANGED <<scale, todo, parts, rows>>
  BY DEF AppendRow
<1>2. PICK next : next = NextRow(table, iter).iter
  OBVIOUS
<1>3. PICK row : row = NextRow(table, iter).row
  OBVIOUS
<1>4. batch' = Append(batch, row) /\ iter' = next
  BY <1>2, <1>3 DEF AppendRow
<1>5. table' = table /\ way' = way /\ Delivered' = Delivered
  BY <1>1 DEF table, way, Delivered
<1>6. RowsInv /\ IsSeq(batch)
  BY DEF StreamsInv, RowsInv
<1>7. /\ Len(batch) \in Nat /\ Len(batch') = Len(batch) + 1
      /\ \A k \in 1..Len(batch) : batch'[k] = batch[k]
      /\ batch'[Len(batch) + 1] = row
  BY <1>4, <1>6, SeqAppend
<1>8. /\ scale \in Scales /\ table \in Tables /\ Delivered \in Nat
      /\ iter.index \in Nat /\ iter.end \in Nat /\ iter.end <= Whole(table, scale) /\ Whole(table, scale) \in Nat
      /\ table = "nation" => Whole(table, scale) <= Len(NationWeights)
  BY <1>1, Running
<1>9. iter.index < iter.end
  BY <1>1, <1>8 DEF Done
<1>10. PICK n \in Nat : n = Delivered + Len(batch)
  BY <1>7, <1>8
<1>11. Delivered' + Len(batch') = n + 1 /\ (n + 1) - 1 = n /\ n + 1 \in Nat
  BY <1>5, <1>7, <1>8, <1>10
<1>12. ASSUME SkipsExactly(table, scale)
       PROVE  /\ row = RowAt(table, scale, n)
              /\ Path(table, scale)[n].index = iter.index
              /\ ~Done(next) => Place(next) = Path(table, scale)[n + 1]
              /\ Done(next) => Path(table, scale)[n + 1] = Start(table, scale, next.index)
  <2>1. Place(iter) = Path(table, scale)[n]
    BY <1>1, <1>10, <1>12 DEF PathInv, AlongInv
  <2>2. IteratorAt(table, scale, iter, Residues)
    BY <1>1 DEF IterInv
  <2>3. table = "nation" => iter.index < Len(NationWeights)
    <3>1. Len(NationWeights) = 25
      BY DEF NationWeights
    <3> QED BY <1>8, <1>9, <3>1
  <2> QED BY <1>1, <1>2, <1>3, <1>8, <1>12, <2>1, <2>2, <2>3, ResiduesClosed, PathStep
<1>13. AlongInv'
  <2>1. ASSUME SkipsExactly(table, scale)
        PROVE  Path(table, scale)[n].index < Whole(table, scale)
    BY <1>8, <1>9, <1>12, <2>1
  <2> QED BY <1>1, <1>4, <1>5, <1>11, <1>12, <2>1 DEF AlongInv
<1>14. PathRowsInv'
  <2>1. ASSUME SkipsExactly(table, scale), NEW k \in 1..Len(batch')
        PROVE  batch'[k] = RowAt(table, scale, Delivered + k - 1)
    <3>1. CASE k \in 1..Len(batch)
      BY <1>1, <1>7, <2>1, <3>1 DEF PathInv, PathRowsInv
    <3>2. CASE k = Len(batch) + 1
      <4>1. Delivered + k - 1 = n
        BY <1>7, <1>8, <1>10, <3>2
      <4> QED BY <1>7, <1>12, <2>1, <3>2, <4>1
    <3> QED BY <1>7, <3>1, <3>2
  <2> QED BY <1>1, <1>5, <2>1 DEF PathInv, PathRowsInv
<1>15. PathEndInv'
  BY <1>1 DEF PathInv, PathEndInv, Finished
<1> QED BY <1>13, <1>14, <1>15 DEF PathInv

LEMMA DeliverBatchPath == ASSUME StreamsInv, PathInv, DeliverBatch PROVE PathInv'
<1>1. /\ batch # <<>> /\ batch' = <<>> /\ UNCHANGED <<scale, todo, parts, max, iter>>
  BY DEF DeliverBatch
<1>2. IdleInv /\ RowsInv /\ TodoInv /\ parts \in [num : Nat, count : Nat, target : Nat, begin : Nat]
  BY DEF StreamsInv
<1>3. parts.num > 0
  <2>1. parts.num # 0 /\ parts.num \in Nat
    BY <1>1, <1>2 DEF IdleInv
  <2> QED BY <2>1
<1>4. /\ scale \in Scales /\ todo # <<>> /\ table \in Tables /\ way \in Ways
      /\ Delivered \in Nat /\ Len(batch) \in Nat
  BY <1>3, Running
<1>5. table' = table /\ way' = way
  BY <1>1 DEF table, way
<1>6. rows' = [rows EXCEPT ![table][way] = @ \o batch]
  BY DEF DeliverBatch, way
<1>7. /\ IsSeq(rows[table][way]) /\ IsSeq(batch) /\ DOMAIN rows = Tables /\ DOMAIN rows[table] = Ways
  BY <1>2, <1>4 DEF RowsInv
<1>8. /\ \A t \in Tables, w \in Ways : ~(t = table /\ w = way) => rows'[t][w] = rows[t][w]
      /\ rows'[table][way] = rows[table][way] \o batch
  BY <1>4, <1>6, <1>7
<1>9. /\ Delivered' = Delivered + Len(batch) /\ Len(batch') = 0
      /\ \A k \in 1..Delivered : rows'[table][way][k] = rows[table][way][k]
      /\ \A k \in 1..Len(batch) : rows'[table][way][Delivered + k] = batch[k]
  BY <1>1, <1>5, <1>7, <1>8, SeqConcat, NoRowsSeq DEF Delivered
<1>10. AlongInv'
  <2>1. Delivered' + Len(batch') = Delivered + Len(batch)
    BY <1>4, <1>9
  <2> QED BY <1>1, <1>5, <2>1 DEF PathInv, AlongInv
<1>11. PathRowsInv'
  <2>1. ASSUME NEW t \in Tables, NEW w \in Ways, SkipsExactly(t, scale), NEW k \in 1..Len(rows'[t][w])
        PROVE  rows'[t][w][k] = RowAt(t, scale, k - 1)
    <3>1. CASE ~(t = table /\ w = way)
      BY <1>8, <2>1, <3>1 DEF PathInv, PathRowsInv
    <3>2. CASE t = table /\ w = way
      <4>1. k \in 1..(Delivered + Len(batch))
        BY <1>5, <1>9, <2>1, <3>2 DEF Delivered
      <4>2. CASE k \in 1..Delivered
        BY <1>4, <1>9, <2>1, <3>2, <4>2 DEF PathInv, PathRowsInv, Delivered
      <4>3. CASE k \notin 1..Delivered
        <5>1. PICK m \in 1..Len(batch) : k = Delivered + m
          <6>1. k - Delivered \in 1..Len(batch)
            BY <1>4, <4>1, <4>3
          <6> QED BY <1>4, <4>1, <6>1
        <5>2. batch[m] = RowAt(table, scale, Delivered + m - 1)
          BY <1>3, <2>1, <3>2, <5>1 DEF PathInv, PathRowsInv
        <5>3. rows'[table][way][k] = batch[m]
          BY <1>9, <5>1
        <5>4. PICK j : j = Delivered + m - 1
          OBVIOUS
        <5>5. j = k - 1
          BY <1>4, <5>1, <5>4
        <5> QED BY <3>2, <5>2, <5>3, <5>4, <5>5
      <4> QED BY <4>2, <4>3
    <3> QED BY <3>1, <3>2
  <2>2. \A k : k \notin 1..Len(batch')
    BY <1>9
  <2> QED BY <1>1, <2>1, <2>2 DEF PathRowsInv
<1>12. PathEndInv'
  <2> SUFFICES ASSUME NEW t \in Tables, NEW w \in Ways, SkipsExactly(t, scale), Finished(t, w)
               PROVE  EndsAt(t, scale, Len(rows'[t][w]))
    BY <1>1 DEF PathEndInv, Finished
  <2>1. ~(t = table /\ w = way)
    <3>1. 1 \in 1..Len(todo) /\ todo[1] = [table |-> table, way |-> way]
      BY <1>2, <1>4, HeadJob
    <3>2. 1 \in DOMAIN todo
      BY <1>2, <3>1 DEF TodoInv
    <3> QED BY <3>1, <3>2 DEF Finished
  <2> QED BY <1>8, <2>1 DEF PathInv, PathEndInv
<1> QED BY <1>10, <1>11, <1>12 DEF PathInv

\* A job other than the one at the head is finished when it is when that one is.
LEMMA StillFinished ==
  ASSUME StreamsInv, todo # <<>>, todo' = Tail(todo), NEW t, NEW w, ~(t = table /\ w = way), Finished(t, w)'
  PROVE  Finished(t, w)
<1>1. TodoInv
  BY DEF StreamsInv
<1> DEFINE J == [table : Tables, way : Ways]
<1>2. todo \in Seq(J)
  BY <1>1 DEF TodoInv
<1> HIDE DEF J
<1>3. /\ Len(todo) \in Nat \ {0} /\ Tail(todo) \in Seq(J) /\ Len(Tail(todo)) = Len(todo) - 1
      /\ \A i \in 1..(Len(todo) - 1) : Tail(todo)[i] = todo[i + 1]
  BY <1>2, SeqHead
<1>4. DOMAIN todo = 1..Len(todo) /\ DOMAIN todo' = 1..Len(todo')
  BY <1>2, <1>3
<1>5. \A i \in 1..Len(todo') : todo'[i] # [table |-> t, way |-> w]
  BY <1>4 DEF Finished
<1> SUFFICES ASSUME NEW i \in 1..Len(todo), todo[i] = [table |-> t, way |-> w] PROVE FALSE
  BY <1>4 DEF Finished
<1>6. CASE i = 1
  BY <1>1, <1>6, HeadJob
<1>7. CASE i # 1
  <2>1. i - 1 \in 1..Len(todo') /\ (i - 1) + 1 = i
    BY <1>3, <1>7
  <2> QED BY <1>3, <1>5, <2>1
<1> QED BY <1>6, <1>7

LEMMA NextPartitionPath == ASSUME StreamsInv, PathInv, NextPartition PROVE PathInv'
<1>1. /\ parts.num > 0 /\ batch = <<>> /\ Done(iter) /\ UNCHANGED <<scale, batch, rows>>
  BY DEF NextPartition
<1>2. /\ scale \in Scales /\ todo # <<>> /\ table \in Tables /\ way \in Ways
      /\ parts.count \in Nat \ {0} /\ parts.num \in 1..parts.count
      /\ Delivered \in Nat /\ Len(batch) \in Nat
      /\ iter.index \in Nat /\ iter.end \in Nat /\ iter.index <= iter.end
      /\ iter.end = PartEnd(table, parts.num, parts.count, scale)
  BY <1>1, Running
<1>3. iter.index = PartEnd(table, parts.num, parts.count, scale)
  BY <1>1, <1>2 DEF Done
<1>4. CASE parts.num < parts.count
  <2>1. /\ parts' = [parts EXCEPT !.num = @ + 1, !.begin = Len(rows[table][way])]
        /\ iter' = ResetGenerator(table, parts.num + 1, parts.count, scale)
        /\ UNCHANGED todo
    BY <1>4 DEF NextPartition, way
  <2>2. table' = table /\ way' = way /\ Delivered' = Delivered
    BY <1>1, <2>1 DEF table, way, Delivered
  <2>3. parts.num + 1 \in 1..parts.count
    BY <1>2, <1>4
  <2>4. iter'.index = iter.index
    <3>1. iter'.index = PartStart(table, parts.num + 1, parts.count, scale)
      BY <1>2, <2>1, <2>3, ResetPlace
    <3>2. PartStart(table, parts.num + 1, parts.count, scale) = PartEnd(table, parts.num, parts.count, scale)
      BY <1>2, <1>4, PartsTile
    <3> QED BY <1>3, <3>1, <3>2
  <2>5. ~Done(iter') => Place(iter') = Start(table, scale, iter'.index)
    BY <1>2, <2>1, <2>3, ResiduesClosed, ResetAt
  <2>6. AlongInv'
    BY <1>1, <2>2, <2>4, <2>5 DEF PathInv, AlongInv
  <2>7. PathRowsInv'
    BY <1>1, <2>2 DEF PathInv, PathRowsInv
  <2>8. PathEndInv'
    BY <1>1, <2>1 DEF PathInv, PathEndInv, Finished
  <2> QED BY <2>6, <2>7, <2>8 DEF PathInv
<1>5. CASE ~(parts.num < parts.count)
  <2>1. parts' = NoParts /\ parts'.num = 0 /\ todo' = Tail(todo)
    BY <1>5 DEF NextPartition, NoParts
  <2>2. AlongInv' /\ PathRowsInv'
    BY <1>1, <2>1 DEF PathInv, AlongInv, PathRowsInv
  <2>3. PathEndInv'
    <3> SUFFICES ASSUME NEW t \in Tables, NEW w \in Ways, SkipsExactly(t, scale), Finished(t, w)'
                 PROVE  EndsAt(t, scale, Len(rows[t][w]))
      BY <1>1 DEF PathEndInv
    <3>1. CASE t = table /\ w = way
      <4>1. Delivered + Len(batch) = Len(rows[t][w])
        BY <1>1, <1>2, <3>1, NoRowsSeq DEF Delivered
      <4>2. iter.index = Whole(table, scale)
        <5>1. parts.num = parts.count
          BY <1>2, <1>5
        <5> QED BY <1>2, <1>3, <5>1, PartsTile DEF Whole
      <4>3. Path(t, scale)[Len(rows[t][w])].index = Whole(t, scale)
        <5>1. Path(t, scale)[Len(rows[t][w])] = Start(table, scale, iter.index)
          BY <1>1, <3>1, <4>1 DEF PathInv, AlongInv
        <5> QED BY <1>2, <3>1, <4>2, <5>1, StartIndex
      <4> QED BY <1>1, <3>1, <4>1, <4>3 DEF PathInv, AlongInv, EndsAt
    <3>2. CASE ~(t = table /\ w = way)
      <4>1. Finished(t, w)
        BY <1>2, <2>1, <3>2, StillFinished
      <4> QED BY <4>1 DEF PathInv, PathEndInv
    <3> QED BY <3>1, <3>2
  <2> QED BY <2>2, <2>3 DEF PathInv
<1> QED BY <1>4, <1>5

LEMMA PathInvStep ==
  ASSUME StreamsInv, IterInv(Residues), PathInv, [Next]_vars
  PROVE  PathInv'
<1>1. StreamsInv'
  BY StreamsStep
<1>2. CASE UNCHANGED vars
  BY <1>2 DEF vars, PathInv, AlongInv, PathRowsInv, PathEndInv, Finished, Delivered, table, way
<1> QED BY <1>1, <1>2, StartTablePath, AppendRowPath, DeliverBatchPath, NextPartitionPath DEF Next

LEMMA ItersInvariant == Spec => []IterInv(Residues)
<1>1. Init => IterInv(Residues)
  BY InitStreams2
<1>2. StreamsInv /\ IterInv(Residues) /\ [Next]_vars => IterInv(Residues)'
  BY ResiduesClosed, IterStep
<1> QED BY <1>1, <1>2, StreamsInvariant, PTL DEF Spec

LEMMA PathInvariant == Spec => [](PathInv /\ OrderInv)
<1>1. Init => PathInv /\ OrderInv
  BY InitPath, InitStreams2
<1>2. StreamsInv /\ IterInv(Residues) /\ PathInv /\ OrderInv /\ [Next]_vars => (PathInv /\ OrderInv)'
  BY PathInvStep, OrderStep
<1> QED BY <1>1, <1>2, ItersInvariant, StreamsInvariant, PTL DEF Spec

\* Two ends of a path are the same.
LEMMA OneEnd ==
  ASSUME NEW s \in Scales, NEW t \in Tables, NEW m \in Nat, NEW n \in Nat, EndsAt(t, s, n),
         m > 0 => Path(t, s)[m - 1].index < Whole(t, s)
  PROVE  m <= n
<1> SUFFICES ASSUME m > n PROVE FALSE
  OBVIOUS
<1>1. m - 1 \in Nat /\ n <= m - 1 /\ m > 0
  OBVIOUS
<1>2. Path(t, s)[n].index <= Path(t, s)[m - 1].index /\ Path(t, s)[m - 1].index \in Nat /\ Path(t, s)[n].index \in Nat
  BY <1>1, PathIndex
<1>3. Path(t, s)[n].index = Whole(t, s) /\ Path(t, s)[m - 1].index < Whole(t, s)
  BY <1>1 DEF EndsAt
<1> QED BY <1>2, <1>3

\* Rows of the path, and not more than a whole table has, are a prefix of a whole table.
LEMMA PrefixOfWhole ==
  ASSUME NEW a, NEW b, IsSeq(a), IsSeq(b), Len(a) <= Len(b), \A k \in 1..Len(a) : a[k] = b[k]
  PROVE  IsPrefix(a, b)
<1>1. PICK A : a \in Seq(A)
  BY DEF IsSeq
<1>2. PICK B : b \in Seq(B)
  BY DEF IsSeq
<1>3. Len(a) \in Nat /\ Len(b) \in Nat
  BY <1>1, <1>2
<1>4. SubSeq(a, 1, Len(a)) = SubSeq(b, 1, Len(a))
  <2>1. /\ Len(SubSeq(a, 1, Len(a))) = Len(a) /\ Len(SubSeq(b, 1, Len(a))) = Len(a)
        /\ SubSeq(a, 1, Len(a)) \in Seq(A) /\ SubSeq(b, 1, Len(a)) \in Seq(B)
        /\ \A k \in 1..Len(a) : SubSeq(a, 1, Len(a))[k] = a[k] /\ SubSeq(b, 1, Len(a))[k] = b[k]
    BY <1>1, <1>2, <1>3
  <2> QED BY <1>3, <2>1
<1> QED BY <1>4 DEF IsPrefix

LEMMA SameSeq ==
  ASSUME NEW a, NEW b, IsSeq(a), IsSeq(b), Len(a) = Len(b), \A k \in 1..Len(a) : a[k] = b[k]
  PROVE  a = b
<1>1. PICK A : a \in Seq(A)
  BY DEF IsSeq
<1>2. PICK B : b \in Seq(B)
  BY DEF IsSeq
<1> QED BY <1>1, <1>2

\* "any partition produces the same keys as the full, single-threaded run, and
\* different partitions never overlap" (doc/tables.md:130), and every column of
\* a row the same value: however many rows, partitions and batches there are, the
\* partitions one after the other deliver the rows of the single-partition run.
\* The skip of AdvanceSeed32 over rows a partition does not generate is the draws
\* of the rows a partition before it does.
THEOREM SameRows == Spec => []SameRowsAsFullRun
<1>1. StreamsInv /\ PathInv /\ OrderInv => SameRowsAsFullRun
  <2> SUFFICES ASSUME StreamsInv, PathInv, OrderInv PROVE SameRowsAsFullRun
    OBVIOUS
  <2>1. /\ scale \in Scales /\ TodoInv /\ RowsInv /\ FreshInv
        /\ parts \in [num : Nat, count : Nat, target : Nat, begin : Nat]
    BY DEF StreamsInv
  <2>2. "full" \in Ways /\ "parted" \in Ways
    BY DEF Ways
  <2> SUFFICES ASSUME NEW t \in Tables, SkipsExactly(t, scale)
               PROVE  /\ IsPrefix(rows[t]["parted"], rows[t]["full"])
                      /\ Finished(t, "parted") => rows[t]["parted"] = rows[t]["full"]
    BY DEF SameRowsAsFullRun, SkipsExactly
  <2>3. PICK parted, full : parted = rows[t]["parted"] /\ full = rows[t]["full"]
    OBVIOUS
  <2>4. /\ IsSeq(parted) /\ IsSeq(full) /\ Len(parted) \in Nat /\ Len(full) \in Nat
        /\ (parted = <<>> <=> Len(parted) = 0)
    BY <2>1, <2>2, <2>3, SeqLen DEF RowsInv
  <2>5. /\ \A k \in 1..Len(parted) : parted[k] = RowAt(t, scale, k - 1)
        /\ \A k \in 1..Len(full) : full[k] = RowAt(t, scale, k - 1)
    BY <2>2, <2>3 DEF PathInv, PathRowsInv
  <2>6. /\ Finished(t, "full") => EndsAt(t, scale, Len(full))
        /\ Finished(t, "parted") => EndsAt(t, scale, Len(parted))
    BY <2>2, <2>3 DEF PathInv, PathEndInv
  <2>7. DOMAIN todo = 1..Len(todo) /\ Len(todo) \in Nat
    BY <2>1 DEF TodoInv
  <2>8. \A i \in 1..Len(todo), w \in Ways :
          todo[i] = [table |-> t, way |-> w] => todo[i].table = t /\ todo[i].way = w
    OBVIOUS
  <2>9. ASSUME ~Finished(t, "full")
        PROVE  parted = <<>> /\ ~Finished(t, "parted")
    <3>1. PICK i \in 1..Len(todo) : todo[i] = [table |-> t, way |-> "full"]
      BY <2>7, <2>9 DEF Finished
    <3>2. todo[i].table = t /\ todo[i].way = "full"
      BY <3>1
    <3>3. PICK j \in 1..Len(todo) : j > i /\ todo[j] = [table |-> t, way |-> "parted"]
      BY <3>2 DEF OrderInv
    <3>4. todo[j].table = t /\ todo[j].way = "parted" /\ j > 1
      BY <3>3
    <3> QED BY <2>1, <2>3, <2>7, <3>3, <3>4 DEF FreshInv, Finished
  <2>10. ASSUME Finished(t, "full")
         PROVE  Len(parted) <= Len(full)
    <3>1. CASE Finished(t, "parted")
      BY <2>1, <2>4, <2>6, <2>10, <3>1, OneEnd DEF EndsAt
    <3>2. CASE ~Finished(t, "parted") /\ parted # <<>>
      <4>1. PICK i \in 1..Len(todo) : todo[i] = [table |-> t, way |-> "parted"]
        BY <2>7, <3>2 DEF Finished
      <4>2. todo[i].table = t /\ todo[i].way = "parted"
        BY <4>1
      <4>3. i = 1 /\ parts.num > 0
        BY <2>1, <2>3, <3>2, <4>2 DEF FreshInv
      <4>4. todo # <<>> /\ Len(batch) \in Nat
        BY <4>3, Running
      <4>5. t = table /\ way = "parted"
        BY <2>1, <4>2, <4>3, <4>4, HeadJob
      <4>6. PICK n \in Nat : n = Len(parted) + Len(batch)
        BY <2>4, <4>4
      <4>7. n > 0 /\ Path(t, scale)[n - 1].index < Whole(t, scale)
        <5>1. n > 0
          BY <2>4, <3>2, <4>4, <4>6
        <5>2. Delivered + Len(batch) = n
          BY <2>3, <4>5, <4>6 DEF Delivered
        <5> QED BY <4>3, <4>5, <5>1, <5>2 DEF PathInv, AlongInv
      <4>8. n <= Len(full)
        BY <2>1, <2>4, <2>6, <2>10, <4>7, OneEnd
      <4> QED BY <2>4, <4>4, <4>6, <4>8
    <3>3. CASE parted = <<>>
      BY <2>4, <3>3
    <3> QED BY <3>1, <3>2, <3>3
  <2>11. Len(parted) <= Len(full)
    BY <2>4, <2>9, <2>10
  <2>12. \A k \in 1..Len(parted) : parted[k] = full[k]
    BY <2>4, <2>5, <2>11
  <2>13. IsPrefix(parted, full)
    BY <2>4, <2>11, <2>12, PrefixOfWhole
  <2>14. ASSUME Finished(t, "parted") PROVE parted = full
    <3>1. Finished(t, "full")
      BY <2>9, <2>14
    <3>2. Len(full) <= Len(parted)
      BY <2>1, <2>4, <2>6, <2>14, <3>1, OneEnd DEF EndsAt
    <3> QED BY <2>4, <2>11, <2>12, <3>2, SameSeq
  <2> QED BY <2>3, <2>13, <2>14
<1> QED BY <1>1, StreamsInvariant, PathInvariant, PTL

\* "No row draws more from a stream than seeds_per_row" for every number of
\* lines an order has and every comment a supplier has rewritten.
THEOREM BudgetKept == Spec => []WithinBudget
<1>1. StreamsInv /\ IterInv(Residues) => WithinBudget
  <2> SUFFICES ASSUME StreamsInv, IterInv(Residues), NEW col \in DOMAIN iter.streams
               PROVE  iter.streams[col].usage <= iter.streams[col].seeds_per_row
    BY DEF WithinBudget
  <2>1. parts.num > 0
    <3>1. IdleInv /\ parts.num \in Nat
      BY DEF StreamsInv
    <3>2. CASE parts.num = 0
      <4>1. iter.streams = <<>>
        BY <3>1, <3>2 DEF IdleInv, NoIterator
      <4> QED BY <4>1
    <3> QED BY <3>1, <3>2
  <2>2. scale \in Scales /\ table \in Tables
    BY <2>1, Running
  <2>3. IteratorAt(table, scale, iter, Residues)
    BY <2>1 DEF IterInv
  <2>4. PICK line \in Nat : line = iter.line
    BY <2>3 DEF IteratorAt, IsIterator
  <2>5. col \in Columns(table, scale)
    BY <2>3 DEF IteratorAt, StreamsAt
  <2>6. PICK r \in Stream : r = iter.streams[col] /\ At(Streams(table, scale)[col], iter.index, r, Residues)
    BY <2>3, <2>5 DEF IteratorAt, StreamsAt, At, Of
  <2>7. r.usage \in Nat /\ r.usage <= Used(table, line, col)
    BY <2>3, <2>4, <2>5, <2>6, StreamFields DEF IteratorAt
  <2>8. PICK c : c = Streams(table, scale)[col]
    OBVIOUS
  <2>9. Need(table, col) <= c.seeds_per_row /\ c.seeds_per_row \in Nat /\ r.seeds_per_row = c.seeds_per_row
    BY <2>2, <2>5, <2>6, <2>8, ResiduesClosed, ColumnForm, StreamFields DEF IsColumn, At, Of
  <2>10. Used(table, line, col) \in Nat /\ Need(table, col) \in Nat /\ Used(table, line, col) <= Need(table, col)
    <3>1. PICK d \in 1..5 : d = DrawsPerValue(table, col)
      BY DrawsPerValues
    <3>2. CASE table = "lineitem"
      <4>1. line <= 7
        BY <2>3, <2>4, <3>2 DEF IteratorAt
      <4> QED BY <2>2, <3>2, <4>1, LineitemColumn, Needs
    <3>3. CASE table = "partsupp"
      <4>1. line \in 0..3
        BY <2>3, <2>4, <3>3 DEF IteratorAt
      <4>2. Used(table, line, col) = line * d
        BY <3>1, <3>3 DEF Used
      <4>3. Need(table, col) = 4 * d
        BY <3>1, <3>3 DEF Need, UnitValues, SuppliersPerPart
      <4>4. line * d \in Nat /\ line * d <= 4 * d
        BY <3>1, <4>1
      <4> QED BY <4>2, <4>3, <4>4, <3>1
    <3>4. CASE table \notin {"lineitem", "partsupp"}
      <4>1. Used(table, line, col) = 0
        BY <3>4 DEF Used
      <4> QED BY <4>1, Needs
    <3> QED BY <3>2, <3>3, <3>4
  <2> QED BY <2>6, <2>7, <2>9, <2>10
<1> QED BY <1>1, StreamsInvariant, ItersInvariant, PTL

\* A seed of the 31-bit generators stays within 1..Modulus - 1, so it never
\* becomes the zero the generator could not leave.
THEOREM TypeCorrect == ASSUME HasInverse PROVE Spec => []TypeOK
<1>1. Init => IterInv(1..(Modulus - 1))
  BY InitStreams2
<1>2. StreamsInv /\ IterInv(1..(Modulus - 1)) /\ [Next]_vars => IterInv(1..(Modulus - 1))'
  BY UnitsClosed, IterStep
<1>3. StreamsInv /\ CursorOK /\ IterInv(1..(Modulus - 1)) => TypeOK
  <2> DEFINE S == 1..(Modulus - 1)
  <2> SUFFICES ASSUME StreamsInv, IterInv(S), NEW col \in DOMAIN iter.streams, ~iter.streams[col].wide
               PROVE  iter.streams[col].seed \in S
    BY DEF TypeOK
  <2>1. parts.num > 0
    <3>1. IdleInv /\ parts.num \in Nat
      BY DEF StreamsInv
    <3>2. CASE parts.num = 0
      <4>1. iter.streams = <<>>
        BY <3>1, <3>2 DEF IdleInv, NoIterator
      <4> QED BY <4>1
    <3> QED BY <3>1, <3>2
  <2> HIDE DEF S
  <2>2. IteratorAt(table, scale, iter, S)
    BY <2>1 DEF IterInv
  <2>3. At(Streams(table, scale)[col], iter.index, iter.streams[col], S)
    BY <2>2 DEF IteratorAt, StreamsAt
  <2> QED BY <2>3 DEF At, Of
<1> QED BY <1>1, <1>2, <1>3, StreamsInvariant, CursorsCorrect, PTL DEF Spec

-----------------------------------------------------------------------------
(* The tables together.                                                     *)

\* Every row refers to keys within the limits.
RefersInv ==
  /\ \A t \in Tables, w \in Ways : \A k \in 1..Len(rows[t][w]) : Refers(t, rows[t][w][k], scale)
  /\ parts.num > 0 => \A k \in 1..Len(batch) : Refers(table, batch[k], scale)

LEMMA InitRefers == Init => RefersInv
<1> SUFFICES ASSUME Init PROVE RefersInv
  OBVIOUS
<1>1. parts.num = 0 /\ \A t \in Tables, w \in Ways : Len(rows[t][w]) = 0
  BY NoRowsSeq DEF Init, NoParts
<1> QED BY <1>1 DEF RefersInv

LEMMA RefersStep ==
  ASSUME StreamsInv, IterInv(Residues), RefersInv, [Next]_vars
  PROVE  RefersInv'
<1>1. /\ RowsInv /\ IdleInv /\ TodoInv /\ scale \in Scales
      /\ parts \in [num : Nat, count : Nat, target : Nat, begin : Nat]
  BY DEF StreamsInv
<1>2. CASE StartTable
  <2>1. parts.num = 0 /\ UNCHANGED <<scale, todo, batch, rows>>
    BY <1>2 DEF StartTable
  <2>2. \A k : k \notin 1..Len(batch)
    BY <1>1, <2>1, NoRowsSeq DEF IdleInv
  <2> QED BY <2>1, <2>2 DEF RefersInv
<1>3. CASE AppendRow
  <2>1. parts.num > 0 /\ ~Done(iter) /\ UNCHANGED <<scale, todo, parts, rows>>
    BY <1>3 DEF AppendRow
  <2>2. PICK row : row = NextRow(table, iter).row
    OBVIOUS
  <2>3. batch' = Append(batch, row)
    BY <1>3, <2>2 DEF AppendRow
  <2>4. /\ table \in Tables /\ iter.index \in Nat /\ iter.end \in Nat
        /\ iter.end <= Whole(table, scale) /\ Whole(table, scale) \in Nat
        /\ table = "nation" => Whole(table, scale) <= Len(NationWeights)
    BY <2>1, Running
  <2>5. table = "nation" => iter.index < Len(NationWeights)
    <3>1. Len(NationWeights) = 25
      BY RegionWeights
    <3>2. iter.index < iter.end
      BY <2>1, <2>4 DEF Done
    <3> QED BY <2>4, <3>1, <3>2
  <2>6. IteratorAt(table, scale, iter, Residues)
    BY <2>1 DEF IterInv
  <2>7. Refers(table, row, scale)
    BY <1>1, <2>2, <2>4, <2>5, <2>6, NextRefers
  <2>8. /\ Len(batch) \in Nat /\ Len(batch') = Len(batch) + 1
        /\ \A k \in 1..Len(batch) : batch'[k] = batch[k]
        /\ batch'[Len(batch) + 1] = row
    BY <1>1, <2>3, SeqAppend DEF RowsInv
  <2>9. \A k \in 1..Len(batch') : Refers(table, batch'[k], scale)
    <3> TAKE k \in 1..Len(batch')
    <3>1. k \in 1..Len(batch) \/ k = Len(batch) + 1
      BY <2>8
    <3> QED BY <2>1, <2>7, <2>8, <3>1 DEF RefersInv
  <2>10. table' = table
    BY <2>1 DEF table
  <2> QED BY <2>1, <2>9, <2>10 DEF RefersInv
<1>4. CASE DeliverBatch
  <2>1. batch # <<>> /\ batch' = <<>> /\ UNCHANGED <<scale, todo, parts, max, iter>>
    BY <1>4 DEF DeliverBatch
  <2>2. parts.num > 0
    <3>1. parts.num # 0 /\ parts.num \in Nat
      BY <1>1, <2>1 DEF IdleInv
    <3> QED BY <3>1
  <2>3. table \in Tables /\ way \in Ways
    BY <2>2, Running
  <2>4. rows' = [rows EXCEPT ![table][way] = @ \o batch]
    BY <1>4 DEF DeliverBatch, way
  <2>5. /\ IsSeq(rows[table][way]) /\ IsSeq(batch) /\ DOMAIN rows = Tables /\ DOMAIN rows[table] = Ways
    BY <1>1, <2>3 DEF RowsInv
  <2>6. /\ \A t \in Tables, w \in Ways : ~(t = table /\ w = way) => rows'[t][w] = rows[t][w]
        /\ rows'[table][way] = rows[table][way] \o batch
    BY <2>3, <2>4, <2>5
  <2>7. PICK n \in Nat, m \in Nat : n = Len(rows[table][way]) /\ m = Len(batch)
    BY <2>5, SeqLen
  <2>8. /\ Len(rows'[table][way]) = n + m /\ Len(batch') = 0
        /\ \A k \in 1..n : rows'[table][way][k] = rows[table][way][k]
        /\ \A k \in 1..m : rows'[table][way][n + k] = batch[k]
    BY <2>1, <2>5, <2>6, <2>7, SeqConcat, NoRowsSeq
  <2>9. \A k \in 1..(n + m) : Refers(table, rows'[table][way][k], scale)
    <3> TAKE k \in 1..(n + m)
    <3>1. CASE k \in 1..n
      BY <2>3, <2>7, <2>8, <3>1 DEF RefersInv
    <3>2. CASE k \notin 1..n
      <4>1. PICK j \in 1..m : k = n + j
        <5>1. k - n \in 1..m /\ n + (k - n) = k
          BY <3>2
        <5> QED BY <5>1
      <4> QED BY <2>2, <2>7, <2>8, <4>1 DEF RefersInv
    <3> QED BY <3>1, <3>2
  <2>10. \A k : k \notin 1..Len(batch')
    BY <2>8
  <2>11. ASSUME NEW t \in Tables, NEW w \in Ways, NEW k \in 1..Len(rows'[t][w])
         PROVE  Refers(t, rows'[t][w][k], scale)
    <3>1. CASE ~(t = table /\ w = way)
      BY <2>6, <2>11, <3>1 DEF RefersInv
    <3>2. CASE t = table /\ w = way
      <4>1. k \in 1..(n + m)
        BY <2>8, <2>11, <3>2
      <4> QED BY <2>9, <3>2, <4>1
    <3> QED BY <3>1, <3>2
  <2> QED BY <2>1, <2>10, <2>11 DEF RefersInv
<1>5. CASE NextPartition
  <2>1. batch = <<>> /\ UNCHANGED <<scale, batch, rows>>
    BY <1>5 DEF NextPartition
  <2>2. \A k : k \notin 1..Len(batch)
    BY <2>1, NoRowsSeq
  <2> QED BY <2>1, <2>2 DEF RefersInv
<1>6. CASE UNCHANGED vars
  BY <1>6 DEF vars, RefersInv, table
<1> QED BY <1>2, <1>3, <1>4, <1>5, <1>6 DEF Next

\* The suppliers of every part are in a partsupp that is complete.
LEMMA AllPairs ==
  ASSUME StreamsInv, Finished("partsupp", "parted"), Fits("part", scale),
         NEW p \in 1..RowCount("part", scale), NEW i \in 0..3
  PROVE  <<p, SupplierAt(p - 1, i, scale)>> \in Pairs("partsupp")
<1> DEFINE delivered == rows["partsupp"]["parted"]
<1>1. scale \in Scales /\ RowsInv /\ KeysInv /\ DoneInv
  BY DEF StreamsInv
<1>2. /\ "partsupp" \in Tables \ {"lineitem"} /\ "parted" \in Ways /\ "part" \in Tables
  BY DEF Tables, Ways
<1>3. PICK parts_all \in Nat : parts_all = RowCount("part", scale)
  BY <1>1, <1>2, RowCounts
<1>4. Len(delivered) = 4 * parts_all
  <2>1. UnitsOf("partsupp", scale) = parts_all /\ RowsPerUnit("partsupp") = 4
    BY <1>3, UnitSize DEF UnitsOf
  <2>2. EndRow("partsupp", parts_all) = parts_all
    BY DEF EndRow
  <2> QED BY <1>1, <1>2, <2>1, <2>2 DEF DoneInv
<1>5. PICK k \in 1..Len(delivered) : k = 4 * (p - 1) + i + 1
  BY <1>3, <1>4
<1>6. (k - 1) \div 4 = p - 1 /\ (k - 1) % 4 = i
  BY <1>3, <1>5
<1>7. HasKey("partsupp", k, delivered[k], scale)
  BY <1>1, <1>2 DEF KeysInv
<1>8. delivered[k].part_key = p /\ delivered[k].supplier_key = SupplierAt(p - 1, i, scale)
  <2>1. /\ delivered[k].part_key = ToInt(((k - 1) \div 4) + 1)
        /\ delivered[k].supplier_key = SupplierAt((k - 1) \div 4, (k - 1) % 4, scale)
    BY <1>7 DEF HasKey, SuppliersPerPart
  <2>2. p \in 0..MaxInt /\ (p - 1) + 1 = p
    BY <1>3, RandsAssumption DEF Fits, MaxInt
  <2>3. ToInt(p) = p
    BY <2>2, ToIntFits
  <2> QED BY <1>6, <2>1, <2>2, <2>3
<1>9. DOMAIN delivered = 1..Len(delivered)
  BY <1>1, <1>2, SeqLen DEF RowsInv
<1>10. delivered[k] \in ToSet(delivered)
  BY <1>5, <1>9 DEF ToSet
<1> HIDE DEF delivered
<1> QED BY <1>8, <1>10 DEF Pairs, delivered

\* Keys refer to rows that exist, in every number of partitions: l_partkey and
\* l_suppkey to a row of partsupp, as long as part keys fit, o_custkey to a customer
\* who may order, as long as customer keys fit, n_regionkey to a region.  The scale
\* factor must leave a part and a customer: their limits are one when there is none
\* (MaxPartKey, MaxCustomerKey).
THEOREM ReferencesAreKept ==
  ASSUME RowsAtSf1["region"] = 5,
         \A s \in Scales : RowCount("part", s) >= 1 /\ RowCount("customer", s) >= 1
  PROVE  Spec => []ReferencesExist
<1>1. Init => RefersInv
  BY InitRefers
<1>2. StreamsInv /\ IterInv(Residues) /\ RefersInv /\ [Next]_vars => RefersInv'
  BY RefersStep
<1>3. StreamsInv /\ RefersInv => ReferencesExist
  <2> SUFFICES ASSUME StreamsInv, RefersInv PROVE ReferencesExist
    OBVIOUS
  <2>1. scale \in Scales /\ RowsInv /\ KeysInv /\ DoneInv
    BY DEF StreamsInv
  <2>2. {"orders", "lineitem", "customer", "part", "region", "nation"} \subseteq Tables /\ "parted" \in Ways
    BY DEF Tables, Ways
  <2>3. ASSUME NEW t \in Tables, NEW r \in ToSet(rows[t]["parted"])
        PROVE  Refers(t, r, scale)
    <3>1. DOMAIN rows[t]["parted"] = 1..Len(rows[t]["parted"])
      BY <2>1, <2>2, SeqLen DEF RowsInv
    <3>2. PICK k \in 1..Len(rows[t]["parted"]) : r = rows[t]["parted"][k]
      BY <3>1 DEF ToSet
    <3> QED BY <2>2, <3>2 DEF RefersInv
  <2>4. ASSUME Finished("partsupp", "parted"), Fits("part", scale)
        PROVE  Pairs("lineitem") \subseteq Pairs("partsupp")
    <3> SUFFICES ASSUME NEW r \in ToSet(rows["lineitem"]["parted"])
                 PROVE  <<r.part_key, r.supplier_key>> \in Pairs("partsupp")
      BY DEF Pairs
    <3>1. Refers("lineitem", r, scale)
      BY <2>2, <2>3
    <3>2. MaxPartKey(scale) = RowCount("part", scale)
      <4>1. RowCount("part", scale) \in Nat /\ RowCount("part", scale) >= 1
        BY <2>1, <2>2, RowCounts
      <4> QED BY <4>1 DEF MaxPartKey, AtLeastOne
    <3>3. PICK i \in 0..3 : r.supplier_key = SupplierAt(r.part_key - 1, i, scale)
      BY <2>4, <3>1 DEF Refers
    <3>4. r.part_key \in 1..RowCount("part", scale)
      BY <2>4, <3>1, <3>2 DEF Refers
    <3> QED BY <2>4, <3>3, <3>4, AllPairs
  <2>5. ASSUME Finished("customer", "parted"), Fits("customer", scale), NEW r \in ToSet(rows["orders"]["parted"])
        PROVE  r.custkey % CustomerMortality # 0 /\ r.custkey \in 1..Len(rows["customer"]["parted"])
    <3>1. Refers("orders", r, scale)
      BY <2>2, <2>3
    <3>2. PICK n \in Nat : n = RowCount("customer", scale) /\ n >= 1
      BY <2>1, <2>2, RowCounts
    <3>3. MaxCustomerKey(scale) = n
      BY <3>2 DEF MaxCustomerKey, AtLeastOne
    <3>4. Len(rows["customer"]["parted"]) = n
      <4>1. UnitsOf("customer", scale) = n /\ RowsPerUnit("customer") = 1 /\ EndRow("customer", n) = n
        BY <3>2 DEF UnitsOf, RowsPerUnit, EndRow
      <4>2. "customer" \in Tables \ {"lineitem"}
        BY <2>2
      <4>3. Len(rows["customer"]["parted"]) = RowsPerUnit("customer") * EndRow("customer", UnitsOf("customer", scale))
        BY <2>1, <2>2, <2>5, <4>2 DEF DoneInv
      <4> QED BY <3>2, <4>1, <4>3
    <3> QED BY <2>5, <3>1, <3>3, <3>4 DEF Refers
  <2>6. ASSUME Finished("region", "parted"), scale.num >= scale.den, NEW n \in ToSet(rows["nation"]["parted"])
        PROVE  \E r \in ToSet(rows["region"]["parted"]) : r.key = n.region
    <3> DEFINE regions == rows["region"]["parted"]
    <3>1. Refers("nation", n, scale)
      BY <2>2, <2>3
    <3>2. n.region \in 0..4
      BY <3>1 DEF Refers
    <3>3. Len(regions) = 5
      <4>1. scale.num \in Nat /\ scale.den \in Nat \ {0}
        BY <2>1, StreamsAssumption
      <4>2. PICK a \in Nat, d \in Nat \ {0} : a = 5 * scale.num /\ d = scale.den /\ a >= 5 * d
        BY <2>6, <4>1
      <4>3. a \div d \in Nat /\ a % d \in 0..(d - 1) /\ a = d * (a \div d) + (a % d)
        BY Division
      <4>4. PICK q \in Nat : q = a \div d
        BY <4>3
      <4>5. q >= 5
        <5>1. SUFFICES ASSUME q + 1 <= 5 PROVE FALSE
          OBVIOUS
        <5>2. d * (q + 1) <= d * 5
          BY <5>1, Ascending
        <5>3. d * (q + 1) = d * q + d
          OBVIOUS
        <5>4. PICK x \in Nat : x = d * q
          OBVIOUS
        <5> QED BY <4>2, <4>3, <4>4, <5>2, <5>3, <5>4
      <4>6. UnitsOf("region", scale) = q
        BY <4>2, <4>4 DEF UnitsOf, RowCount
      <4>7. EndRow("region", q) = 5 /\ RowsPerUnit("region") = 1
        BY <4>5 DEF EndRow, RowsPerUnit
      <4>8. "region" \in Tables \ {"lineitem"}
        BY <2>2
      <4>9. Len(regions) = RowsPerUnit("region") * EndRow("region", UnitsOf("region", scale))
        BY <2>1, <2>2, <2>6, <4>8 DEF DoneInv
      <4> QED BY <4>6, <4>7, <4>9
    <3>4. PICK k \in 1..5 : k = n.region + 1 /\ k - 1 = n.region
      BY <3>2
    <3>5. HasKey("region", k, regions[k], scale)
      <4>1. "region" \in Tables \ {"lineitem"}
        BY <2>2
      <4> QED BY <2>1, <2>2, <3>3, <4>1 DEF KeysInv
    <3>6. regions[k].key = n.region
      BY <3>4, <3>5 DEF HasKey, KeyAt
    <3>7. DOMAIN regions = 1..5
      BY <2>1, <2>2, <3>3, SeqLen DEF RowsInv
    <3>8. regions[k] \in ToSet(regions)
      BY <3>7 DEF ToSet
    <3> QED BY <3>6, <3>8
  <2> QED BY <2>4, <2>5, <2>6 DEF ReferencesExist
<1> QED BY <1>1, <1>2, <1>3, StreamsInvariant, ItersInvariant, PTL DEF Spec
-----------------------------------------------------------------------------
(* orders and lineitem.                                                     *)

\* A line comes from the place where its order is.
LEMMA LineOfOrder ==
  ASSUME NEW s \in Scales, ~s.wide, NEW u \in Nat, NEW first \in Nat, BeginsAt(s, u, first), NEW n \in Nat
  PROVE  /\ \E i \in Nat : TellsLine(s, Path("lineitem", s)[n].index, i, RowAt("lineitem", s, n))
         /\ Path("lineitem", s)[n].index = u <=> n \in first..(first + LinesAt(s, u) - 1)
         /\ n \in first..(first + LinesAt(s, u) - 1) => TellsLine(s, u, n - first + 1, RowAt("lineitem", s, n))
<1>1. PICK k \in 1..7 : k = LinesAt(s, u)
  BY LinesOfOrder
<1>2. PICK p : p = Path("lineitem", s)[n]
  OBVIOUS
<1>3. p.index \in Nat /\ p.line \in Nat
  <2>1. "lineitem" \in Tables
    BY DEF Tables
  <2> QED BY <1>2, <2>1, PathIndex
<1>4. p.line + 1 \in 1..LinesAt(s, p.index) /\ TellsLine(s, p.index, p.line + 1, RowAt("lineitem", s, n))
  BY <1>2, <1>3, LineitemPath
<1>5. ASSUME n \in first..(first + k - 1)
      PROVE  p.index = u /\ p.line = n - first
  <2>1. PICK i \in 0..(k - 1) : i = n - first /\ first + i = n
    <3>1. n - first \in 0..(k - 1) /\ first + (n - first) = n
      BY <1>1, <1>5
    <3> QED BY <3>1
  <2> QED BY <1>1, <1>2, <2>1 DEF BeginsAt
<1>6. ASSUME p.index = u
      PROVE  n \in first..(first + k - 1)
  <2>1. ~(n < first)
    BY <1>2, <1>3, <1>6 DEF BeginsAt
  <2>2. ~(n >= first + k)
    BY <1>1, <1>2, <1>3, <1>6 DEF BeginsAt
  <2> QED BY <1>1, <2>1, <2>2
<1> QED BY <1>1, <1>2, <1>3, <1>4, <1>5, <1>6

\* orders computes o_totalprice and o_orderstatus from lines it draws itself; lineitem
\* draws the same lines again, divided into other partitions.  For every number
\* of orders, as long as order keys fit, and for every number of partitions and
\* batches both tables tell the same lines, dates
\* and status of every order, and lineitem no line of any other.
THEOREM OrdersAndLineitemAgree == Spec => []OrdersAgreeWithLineitem
<1>1. StreamsInv /\ PathInv => OrdersAgreeWithLineitem
  <2> SUFFICES ASSUME StreamsInv, PathInv, ~scale.wide, Fits("orders", scale), Finished("orders", "parted"), Finished("lineitem", "parted")
               PROVE  /\ \A j \in DOMAIN rows["orders"]["parted"] : Agrees(rows["orders"]["parted"][j])
                      /\ \A i \in DOMAIN rows["lineitem"]["parted"] :
                           \E j \in DOMAIN rows["orders"]["parted"] :
                             rows["orders"]["parted"][j].key = rows["lineitem"]["parted"][i].key
    BY DEF OrdersAgreeWithLineitem
  <2>1. /\ scale \in Scales /\ RowsInv
        /\ "orders" \in Tables /\ "lineitem" \in Tables /\ "parted" \in Ways
        /\ SkipsExactly("orders", scale) /\ SkipsExactly("lineitem", scale)
    BY DEF StreamsInv, Tables, Ways, SkipsExactly
  <2> DEFINE orders == rows["orders"]["parted"]
             delivered == rows["lineitem"]["parted"]
  <2>2. orders = rows["orders"]["parted"] /\ delivered = rows["lineitem"]["parted"]
    OBVIOUS
  <2> HIDE DEF orders, delivered
  <2>3. PICK M \in Nat, N \in Nat :
          /\ M = Len(orders) /\ DOMAIN orders = 1..M
          /\ N = Len(delivered) /\ DOMAIN delivered = 1..N
    <3>1. IsSeq(orders) /\ IsSeq(delivered)
      BY <2>1, <2>2 DEF RowsInv
    <3> QED BY <3>1 DEF IsSeq
  <2>4. /\ \A j \in 1..M : orders[j] = RowAt("orders", scale, j - 1)
        /\ \A i \in 1..N : delivered[i] = RowAt("lineitem", scale, i - 1)
    BY <2>1, <2>2, <2>3 DEF PathInv, PathRowsInv
  <2>5. EndsAt("orders", scale, M) /\ EndsAt("lineitem", scale, N)
    BY <2>1, <2>2, <2>3 DEF PathInv, PathEndInv
  <2> DEFINE place(n) == Path("lineitem", scale)[n].index
  <2>6. /\ place(N) = M
        /\ N > 0 => place(N - 1) < M
    <3>1. Whole("orders", scale) = Whole("lineitem", scale)
      BY DEF Whole, EndRow, UnitsOf
    <3>2. Path("orders", scale)[M].index = M
      BY <2>1, OrdersPath
    <3> QED BY <2>5, <3>1, <3>2 DEF EndsAt
  <2>7. ASSUME NEW n \in Nat PROVE place(n) \in Nat /\ (place(n) < M <=> n < N)
    <3>1. place(n) \in Nat
      BY <2>1, PathIndex
    <3>2. CASE n < N
      <4>1. N - 1 \in Nat /\ n <= N - 1 /\ N > 0
        BY <3>2
      <4>2. place(n) <= place(N - 1) /\ place(N - 1) \in Nat
        BY <2>1, <4>1, PathIndex
      <4> QED BY <2>6, <3>1, <3>2, <4>1, <4>2
    <3>3. CASE n >= N
      <4>1. place(N) <= place(n)
        BY <2>1, <3>3, PathIndex
      <4> QED BY <2>6, <3>1, <3>3, <4>1
    <3> QED BY <3>2, <3>3
  <2>8. ASSUME NEW i \in 1..N
        PROVE  /\ place(i - 1) \in 0..(M - 1) /\ i - 1 \in Nat
               /\ delivered[i].key = ToInt(MakeOrderKey(place(i - 1) + 1))
    <3>1. PICK n \in Nat : n = i - 1 /\ n < N
      BY <2>8
    <3>2. PICK first \in Nat : BeginsAt(scale, 0, first)
      BY <2>1, OrderBegins
    <3>3. RowAt("lineitem", scale, n).key = ToInt(MakeOrderKey(place(n) + 1))
      BY <2>1, <3>2, LineOfOrder DEF TellsLine
    <3> QED BY <2>4, <2>7, <3>1, <3>3
  <2>9. RowCount("orders", scale) \in Nat /\ M <= RowCount("orders", scale)
    <3>1. RowCount("orders", scale) \in Nat
      BY <2>1, RowCounts
    <3>2. RowsPerUnit("orders") * EndRow("orders", UnitsOf("orders", scale)) = RowCount("orders", scale)
      BY <3>1 DEF RowsPerUnit, EndRow, UnitsOf
    <3> QED BY <2>1, <2>2, <2>3, <3>1, <3>2, RowsDelivered
  <2>10. ASSUME NEW j \in 1..M
        PROVE  Agrees(orders[j])
    <3>1. PICK u \in Nat : u = j - 1 /\ u < M /\ u + 1 = j
      BY <2>10
    <3>2. PICK order : order = orders[j]
      OBVIOUS
    <3>3. TellsOrder(scale, u, order)
      BY <2>1, <2>4, <3>1, <3>2, OrdersPath
    <3>4. PICK k \in 1..7 : k = LinesAt(scale, u)
      BY <2>1, LinesOfOrder
    <3>5. Len(order.lines) = k /\ \A i \in 1..k : order.lines[i] = SeedsAt(scale, u, i)
      BY <3>3, <3>4 DEF TellsOrder
    <3>6. PICK first \in Nat : BeginsAt(scale, u, first)
      BY <2>1, OrderBegins
    <3>7. ASSUME NEW n \in Nat
          PROVE  /\ place(n) = u <=> n \in first..(first + k - 1)
                 /\ n \in first..(first + k - 1) => TellsLine(scale, u, n - first + 1, RowAt("lineitem", scale, n))
      BY <2>1, <3>4, <3>6, LineOfOrder
    <3> DEFINE lines == {i \in DOMAIN delivered : delivered[i].key = order.key}
    <3>8. ASSUME NEW i \in 1..k
          PROVE  /\ first + i \in 1..N
                 /\ TellsLine(scale, u, i, delivered[first + i])
      <4>1. PICK n \in Nat : n = first + i - 1
        OBVIOUS
      <4>2. n \in first..(first + k - 1) /\ n - first + 1 = i /\ first + i = n + 1 /\ (n + 1) - 1 = n
        BY <4>1
      <4>3. place(n) = u /\ TellsLine(scale, u, i, RowAt("lineitem", scale, n))
        BY <3>7, <4>2
      <4>4. n < N
        BY <2>7, <3>1, <4>3
      <4>5. PICK m \in 1..N : m = n + 1 /\ m - 1 = n
        BY <4>4
      <4>6. delivered[m] = RowAt("lineitem", scale, n)
        BY <2>4, <4>5
      <4> QED BY <4>2, <4>3, <4>5, <4>6
    <3>9. lines = (first + 1)..(first + k)
      <4>1. ASSUME NEW i \in 1..N
            PROVE  delivered[i].key = order.key <=> i \in (first + 1)..(first + k)
        <5>1. PICK n \in Nat : n = i - 1
          BY <4>1
        <5>2. delivered[i].key = ToInt(MakeOrderKey(place(n) + 1)) /\ place(n) \in Nat
          BY <2>7, <2>8, <5>1
        <5>3. order.key = ToInt(MakeOrderKey(u + 1))
          BY <3>3 DEF TellsOrder
        <5>4. delivered[i].key = order.key <=> place(n) = u
          <6>1. place(n) \in 0..(M - 1)
            BY <2>8, <4>1, <5>1
          <6>2. place(n) + 1 \in 1..RowCount("orders", scale) /\ u + 1 \in 1..RowCount("orders", scale)
            BY <2>9, <3>1, <6>1
          <6>3. ToInt(MakeOrderKey(place(n) + 1)) = ToInt(MakeOrderKey(u + 1)) => place(n) + 1 = u + 1
            BY <2>1, <6>2, DifferentOrderKeys
          <6> QED BY <5>2, <5>3, <6>3
        <5>5. n \in first..(first + k - 1) <=> i \in (first + 1)..(first + k)
          BY <4>1, <5>1
        <5> QED BY <3>7, <5>4, <5>5
      <4>2. (first + 1)..(first + k) \subseteq 1..N
        <5>1. ASSUME NEW i \in (first + 1)..(first + k) PROVE i \in 1..N
          <6>1. PICK d \in 1..k : d = i - first /\ first + d = i
            BY <5>1
          <6> QED BY <3>8, <6>1
        <5> QED BY <5>1
      <4> QED BY <2>3, <4>1, <4>2
    <3>10. \A i \in 1..k :
             /\ delivered[first + i].number = i /\ delivered[first + i].line = order.lines[i]
             /\ delivered[first + i].order_date = order.order_date
      BY <3>3, <3>5, <3>8 DEF TellsLine, TellsOrder
    <3>11. first \in 0..Len(delivered)
      <4>1. 1 \in 1..k /\ first + 1 \in 1..N
        BY <3>8
      <4> QED BY <2>3, <4>1
    <3> DEFINE status(i) == IF ShippedAt(scale, u, i) THEN "F" ELSE "O"
    <3>12. {delivered[i].status : i \in lines} = {status(i) : i \in 1..k}
      <4>1. \A i \in 1..k : delivered[first + i].status = status(i) /\ first + i \in lines
        <5>1. \A i \in 1..k : first + i \in (first + 1)..(first + k)
          OBVIOUS
        <5> HIDE DEF lines
        <5> QED BY <3>8, <3>9, <5>1 DEF TellsLine
      <4>2. \A i \in lines : \E d \in 1..k : first + d = i
        <5>1. ASSUME NEW i \in (first + 1)..(first + k) PROVE \E d \in 1..k : first + d = i
          <6>1. i - first \in 1..k /\ first + (i - first) = i
            OBVIOUS
          <6> QED BY <6>1
        <5> HIDE DEF lines
        <5> QED BY <3>9, <5>1
      <4> HIDE DEF lines, status
      <4> QED BY <4>1, <4>2
    <3>13. {status(i) : i \in 1..k} = IF order.status = "P" THEN {"F", "O"} ELSE {order.status}
      <4>1. order.status = IF \A i \in 1..k : ShippedAt(scale, u, i) THEN "F"
                           ELSE IF \E i \in 1..k : ShippedAt(scale, u, i) THEN "P" ELSE "O"
        BY <3>3, <3>4 DEF TellsOrder
      <4>2. 1 \in 1..k
        OBVIOUS
      <4>3. CASE \A i \in 1..k : ShippedAt(scale, u, i)
        BY <4>1, <4>2, <4>3
      <4>4. CASE \A i \in 1..k : ~ShippedAt(scale, u, i)
        BY <4>1, <4>2, <4>4
      <4>5. CASE (\E i \in 1..k : ShippedAt(scale, u, i)) /\ (\E i \in 1..k : ~ShippedAt(scale, u, i))
        BY <4>1, <4>5
      <4> QED BY <4>3, <4>4, <4>5
    <3> HIDE DEF lines, status
    <3>14. /\ \E f \in 0..Len(delivered) :
                /\ lines = (f + 1)..(f + Len(order.lines))
                /\ \A i \in 1..Len(order.lines) :
                     /\ delivered[f + i].number = i /\ delivered[f + i].line = order.lines[i]
                     /\ delivered[f + i].order_date = order.order_date
           /\ {delivered[i].status : i \in lines} = IF order.status = "P" THEN {"F", "O"} ELSE {order.status}
      BY <3>5, <3>9, <3>10, <3>11, <3>12, <3>13
    <3>15. Agrees(order)
      BY <3>14 DEF Agrees, lines, delivered
    <3> QED BY <3>2, <3>15
  <2>11. ASSUME NEW i \in 1..N
         PROVE  \E j \in 1..M : orders[j].key = delivered[i].key
    <3>1. PICK u \in 0..(M - 1) : u = place(i - 1) /\ delivered[i].key = ToInt(MakeOrderKey(u + 1))
      BY <2>8
    <3>2. TellsOrder(scale, u, RowAt("orders", scale, u))
      BY <2>1, <3>1, OrdersPath
    <3>3. u + 1 \in 1..M /\ (u + 1) - 1 = u
      BY <3>1
    <3>4. orders[u + 1] = RowAt("orders", scale, u)
      BY <2>4, <3>3
    <3> QED BY <3>1, <3>2, <3>3, <3>4 DEF TellsOrder
  <2> QED BY <2>2, <2>3, <2>10, <2>11
<1> QED BY <1>1, StreamsInvariant, PathInvariant, PTL
=============================================================================
