----------------------------- MODULE TableStreams -----------------------------
(***************************************************************************)
(* How the rows of the tables come out of the random streams, partition    *)
(* by partition and batch by batch: the generators and row iterators of    *)
(* src/Tables.  Every table is generated twice, by a single partition      *)
(* ("full") and by several ("parted"), which is what the writers do.       *)
(*                                                                         *)
(* A column whose value is a function of the draws it made is represented  *)
(* by the seed those draws left; the values that decide how a row is built *)
(* or that relate two tables are computed as the code computes them.       *)
(***************************************************************************)
EXTENDS Rands, Partition, FormatDrivers, TLC, SequencesExt

CONSTANTS
  RowsAtSf1,     \* rows_at_sf1 of the tables, and of suppliers
  Scales,        \* scale factors: records [num, den, wide]
  Targets,       \* rows a partition is meant to have, the format's option; 0 is one partition
  MaxParts,      \* a table is cut into at most so many partitions
  MaxBatchRows,  \* batch_rows ranges over 1..MaxBatchRows
  BbbComments    \* kBbbCommentsPerScaleBase, out of kScaleBase

Tables == {"orders", "lineitem", "partsupp", "customer", "part", "supplier", "nation", "region"}

ASSUME StreamsAssumption ==
  /\ \A t \in Tables : RowsAtSf1[t] \in Nat
  /\ \A s \in Scales : s.num \in Nat /\ s.den \in Nat \ {0} /\ s.wide \in BOOLEAN
  /\ RowsAtSf1["nation"] <= 25  \* kNations
  /\ Targets \subseteq Nat /\ MaxParts \in Nat \ {0} /\ MaxBatchRows \in Nat \ {0}

LineCountMax == 7
SuppliersPerPart == 4
CustomerMortality == 3
KOrderDateMin == 92001
KOrderDateMax == 92001 + (2557 - 151 - 1)
KCurrentDate == 95168
BbbLength == 19

VARIABLES
  scale,   \* ScaleConfig
  todo,    \* the jobs still to run, a job being [table, way]
  parts,   \* [num, count, target, begin]: PartitionSpec of the generator, the option it comes
           \* from, and the rows delivered before the partition; num 0 between jobs
  max,     \* batch_rows
  iter,    \* the row iterator
  batch,   \* the rows of the batch being filled, none between batches
  rows     \* rows[table][way]: the rows delivered so far

vars == <<scale, todo, parts, max, iter, batch, rows>>

Ways == {"full", "parted"}
table == Head(todo).table

-----------------------------------------------------------------------------
(* ScaleConfig::RowCount, and the limits derived from it.                   *)

RowCount(t, scale_factor) == (RowsAtSf1[t] * scale_factor.num) \div scale_factor.den
AtLeastOne(n) == IF n < 1 THEN 1 ELSE n
MaxCustomerKey(scale_factor) == AtLeastOne(RowCount("customer", scale_factor))
MaxPartKey(scale_factor) == AtLeastOne(RowCount("part", scale_factor))
SupplierKeyMax(scale_factor) == RowCount("supplier", scale_factor)

\* What the partitions divide: lineitem goes by orders and partsupp by parts.
UnitsOf(t, scale_factor) == RowCount(CASE t = "lineitem" -> "orders"
                                       [] t = "partsupp" -> "part"
                                       [] OTHER -> t, scale_factor)

\* The weights of kNations: n_regionkey is their sum, up to the nation's own.
NationWeights == <<0, 1, 0, 0, 3, -4, 3, 0, -1, 0, 2, 0, -2, 2, -4, 0, 0, 1, 1, 1, 1, -2, 1, 0, -2>>

\* The sum of the first n weights.
RegionSum(n) ==
  LET sum[i \in 0..n] == IF i = 0 THEN 0 ELSE sum[i - 1] + NationWeights[i] IN sum[n]

\* nation and region are lists of RowsAtSf1 entries: end_row is cut to it.
EndRow(t, end_row) ==
  IF t \in {"nation", "region"} /\ end_row > RowsAtSf1[t] THEN RowsAtSf1[t] ELSE end_row

-----------------------------------------------------------------------------
(* The streams of the tables, with the seeds of the headers.                *)

\* The columns of either: f @@ g of module TLC, which the provers do not know.
Both(f, g) == [s \in DOMAIN f \cup DOMAIN g |-> IF s \in DOMAIN f THEN f[s] ELSE g[s]]

Random(seed, seeds_per_row) == RowRandom(1 + (seed % (Modulus - 1)), seeds_per_row, FALSE)
RandomBoundedLong(seed, seeds_per_row, scale_factor) ==
  RowRandom(1 + (seed % (Modulus - 1)), seeds_per_row, scale_factor.wide)

LineStreams(scale_factor) ==
  [quantity |-> Random(209208115, LineCountMax), discount |-> Random(554590007, LineCountMax),
   tax |-> Random(721958466, LineCountMax),
   part_key |-> RandomBoundedLong(1808217256, LineCountMax, scale_factor),
   ship_date |-> Random(1769349045, LineCountMax)]
OrderStreams ==
  [order_date |-> Random(1066728069, 1), line_count |-> Random(1434868289, 1)]

OrdersStreams(scale_factor) ==
  [customer_key |-> RandomBoundedLong(851767375, 1, scale_factor),
   order_priority |-> Random(591449447, 1),
   clerk |-> Random(1171034773, 1), comment |-> Random(276090261, 2)]
LineitemStreams ==
  [supplier_number |-> Random(2095021727, LineCountMax),
   commit_date |-> Random(904914315, LineCountMax),
   receipt_date |-> Random(373135028, LineCountMax),
   return_flag |-> Random(717419739, LineCountMax),
   ship_instruct |-> Random(1371272478, LineCountMax),
   ship_mode |-> Random(675466456, LineCountMax),
   comment |-> Random(1095462486, 2 * LineCountMax)]
PartSuppStreams ==
  [available_quantity |-> Random(1671059989, SuppliersPerPart),
   supply_cost |-> Random(1051288424, SuppliersPerPart),
   comment |-> Random(1961692154, 2 * SuppliersPerPart)]
CustomerStreams ==
  [address |-> Random(881155353, 9), nation_key |-> Random(1489529863, 1),
   phone |-> Random(1521138112, 3), account_balance |-> Random(298370230, 1),
   market_segment |-> Random(1140279430, 1), comment |-> Random(1335826707, 2)]
PartStreams ==
  [name |-> Random(709314158, 92), manufacturer |-> Random(1, 1), brand |-> Random(46831694, 1),
   type |-> Random(1841581359, 1), size |-> Random(1193163244, 1),
   container |-> Random(727633698, 1), comment |-> Random(804159733, 2)]
BbbStreams ==
  [bbb_junk |-> Random(263032577, 1), bbb_offset |-> Random(715851524, 1),
   bbb_type |-> Random(753643799, 1)]
SupplierStreams == Both(BbbStreams,
  [address |-> Random(706178559, 9), nation_key |-> Random(110356601, 1),
   phone |-> Random(884434366, 3), account_balance |-> Random(962338209, 1),
   comment |-> Random(1341315363, 2), bbb_comment |-> Random(202794285, 1)])
NationStreams == [comment |-> Random(606179079, 2)]
RegionStreams == [comment |-> Random(1500869201, 2)]

OwnStreams(t, scale_factor) ==
  CASE t = "orders"   -> OrdersStreams(scale_factor)
    [] t = "lineitem" -> LineitemStreams
    [] t = "partsupp" -> PartSuppStreams
    [] t = "customer" -> CustomerStreams
    [] t = "part"     -> PartStreams
    [] t = "supplier" -> SupplierStreams
    [] t = "nation"   -> NationStreams
    [] t = "region"   -> RegionStreams

Streams(t, scale_factor) ==
  IF t \in {"orders", "lineitem"}
  THEN Both(OwnStreams(t, scale_factor), Both(OrderStreams, LineStreams(scale_factor)))
  ELSE OwnStreams(t, scale_factor)

\* How many draws one value of the column takes: a text takes its place and its
\* length, a phone number three groups, a part name five words.  An address takes
\* its length; its characters come from a copy of the stream.
DrawsPerValue(t, s) == CASE s = "comment" -> 2
                         [] s = "phone" -> 3
                         [] t = "part" /\ s = "name" -> 5
                         [] OTHER -> 1

\* The streams after n[s] values of every column s, and at the end of the row.
TakeValues(t, streams, n) ==
  [s \in DOMAIN streams |-> Draws(streams[s], n[s] * DrawsPerValue(t, s))]
FinishRow(streams) == [s \in DOMAIN streams |-> RowFinished(streams[s])]
Same(streams, n) == [s \in DOMAIN streams |-> n]
Seeds(streams) == [s \in DOMAIN streams |-> streams[s].seed]

-----------------------------------------------------------------------------
(* The values that decide or relate.                                        *)

IsLeapYear(year) == year % 4 = 0 /\ year % 100 # 0

\* TPCHDate::ToJulian: date counts days on from 92001, the result is YYDDD.
ToJulian(date) ==
  LET loop[l \in [result : Nat, offset : Int]] ==
        LET year == l.result \div 1000
            year_end == year * 1000 + 365 + (IF IsLeapYear(year) THEN 1 ELSE 0)
        IN IF l.result + l.offset <= year_end
           THEN l.result + l.offset
           ELSE loop[[result |-> l.result + 1000, offset |-> l.offset - (year_end - l.result + 1)]]
  IN loop[[result |-> KOrderDateMin, offset |-> date - KOrderDateMin]]
IsInPast(date) == ToJulian(date) <= KCurrentDate

\* Keeps the low three bits and leaves a gap of two above them.
MakeOrderKey(order_index) == (order_index \div 8) * 32 + (order_index % 8)

\* Mutant of Mortal: one step away from the multiple, without the limit.
MortalUnlimited(customer_key, max_customer_key) ==
  IF customer_key % CustomerMortality # 0 THEN customer_key ELSE customer_key + 1

\* Customers whose key is a multiple of three place no orders.
Mortal(customer_key, max_customer_key) ==
  LET loop[l \in [key : Int, delta : {1, -1}]] ==
        LET moved == l.key + l.delta
        IN IF l.key % CustomerMortality # 0
           THEN l.key
           ELSE loop[[key |-> IF moved > max_customer_key THEN max_customer_key ELSE moved,
                      delta |-> -l.delta]]
  IN loop[[key |-> customer_key, delta |-> 1]]

LineCountOf(streams) == ValueIn(streams.line_count, 1, LineCountMax)
OrderDateOf(streams) == ValueIn(streams.order_date, KOrderDateMin, KOrderDateMax)
ShipDateOf(streams, order_date) == order_date + ValueIn(streams.ship_date, 1, 121)

-----------------------------------------------------------------------------
(* The row iterators: Reset positions one at the start of a partition, Next *)
(* returns the iterator and the row.  line and line_count are used by the   *)
(* tables with several rows to a unit, order_date by lineitem,              *)
(* region_cum_sum by nation alone.                                          *)

DrawOrder(it) ==
  LET drawn == TakeValues("lineitem", it.streams,
                          [s \in DOMAIN it.streams |-> IF s \in DOMAIN OrderStreams THEN 1 ELSE 0])
  IN [it EXCEPT !.streams = drawn, !.line = 0,
                !.line_count = LineCountOf(drawn) - 1, !.order_date = OrderDateOf(drawn)]

\* The streams advance over the rows of the partitions before.
Reset(t, start_row, end_row, scale_factor) ==
  LET end == EndRow(t, end_row)
      start == IF start_row > end THEN end ELSE start_row
      created == Streams(t, scale_factor)
      it == [streams |-> IF start > 0
                         THEN [s \in DOMAIN created |-> AdvanceRows(created[s], start)]
                         ELSE created,
             index |-> start, end |-> end, line |-> 0, line_count |-> 0, order_date |-> 0,
             region_cum_sum |-> IF t = "nation" THEN RegionSum(start) ELSE 0,
             scale_factor |-> scale_factor]
  IN IF t = "lineitem" /\ start < end THEN DrawOrder(it) ELSE it

\* The generator divides the units.
ResetGenerator(t, part_num, part_count, scale_factor) ==
  LET range == MakePartitionRange(UnitsOf(t, scale_factor), part_num, part_count)
  IN Reset(t, range.start_row, range.end_row, scale_factor)

Done(it) == it.index >= it.end

\* Mutant of NextOrder: the streams of the lines are not padded to the row's end.
NextOrderUnpadded(it) ==
  LET first == TakeValues("orders", it.streams, Same(it.streams, 1))
      max_customer_key == MaxCustomerKey(it.scale_factor)
      line_count == LineCountOf(first)
      after(i) == TakeValues("orders", it.streams,
                    [s \in DOMAIN it.streams |-> IF s \in DOMAIN LineStreams(it.scale_factor) THEN i ELSE 1])
      shipped == {i \in 1..line_count : IsInPast(ShipDateOf(after(i), OrderDateOf(first)))}
  IN [iter |-> [it EXCEPT !.index = @ + 1,
                          !.streams = [s \in DOMAIN it.streams |->
                             IF s \in DOMAIN LineStreams(it.scale_factor) THEN [after(line_count)[s] EXCEPT !.usage = 0]
                             ELSE RowFinished(after(line_count)[s])]],
      row |-> [key |-> ToInt(MakeOrderKey(it.index + 1)), order_date |-> OrderDateOf(first),
               custkey |-> ToInt(Mortal(KeyIn(first.customer_key, max_customer_key), max_customer_key)),
               lines |-> [i \in 1..line_count |-> [s \in DOMAIN LineStreams(it.scale_factor) |-> after(i)[s].seed]],
               status |-> IF Cardinality(shipped) = line_count THEN "F"
                          ELSE IF shipped # {} THEN "P" ELSE "O",
               columns |-> Restrict(Seeds(first), DOMAIN OwnStreams("orders", it.scale_factor))]]

NextOrder(it) ==
  LET first == TakeValues("orders", it.streams, Same(it.streams, 1))
      max_customer_key == MaxCustomerKey(it.scale_factor)
      line_count == LineCountOf(first)
      after(i) == TakeValues("orders", it.streams,
                    [s \in DOMAIN it.streams |-> IF s \in DOMAIN LineStreams(it.scale_factor) THEN i ELSE 1])
      line(i) == [s \in DOMAIN LineStreams(it.scale_factor) |-> after(i)[s].seed]
      shipped == {i \in 1..line_count : IsInPast(ShipDateOf(after(i), OrderDateOf(first)))}
  IN [iter |-> [it EXCEPT !.streams = FinishRow(after(line_count)), !.index = @ + 1],
      row |-> [key |-> ToInt(MakeOrderKey(it.index + 1)), order_date |-> OrderDateOf(first),
               custkey |-> ToInt(Mortal(KeyIn(first.customer_key, max_customer_key), max_customer_key)),
               lines |-> [i \in 1..line_count |-> line(i)],
               status |-> CASE Cardinality(shipped) = line_count -> "F"
                            [] 0 < Cardinality(shipped) /\ Cardinality(shipped) < line_count -> "P"
                            [] OTHER -> "O",
               columns |-> Restrict(Seeds(first), DOMAIN OwnStreams("orders", it.scale_factor))]]

\* The return flag is drawn for the lines that have been received.
NextLineitem(it) ==
  LET values(s) == IF s \in DOMAIN OrderStreams THEN 0 ELSE 1
      all == TakeValues("lineitem", it.streams, [s \in DOMAIN it.streams |-> values(s)])
      ship_date == ShipDateOf(all, it.order_date)
      received == IsInPast(ship_date + ValueIn(all.receipt_date, 1, 30))
      drawn == IF received THEN all ELSE [all EXCEPT !.return_flag = it.streams.return_flag]
      part_key == KeyIn(drawn.part_key, MaxPartKey(it.scale_factor))
      moved == [it EXCEPT !.streams = drawn, !.line = @ + 1]
      finished == [moved EXCEPT !.streams = FinishRow(drawn), !.index = @ + 1]
  IN [iter |-> CASE moved.line <= it.line_count -> moved
                 [] moved.line > it.line_count /\ ~Done(finished) -> DrawOrder(finished)
                 [] OTHER -> finished,
      row |-> [key |-> ToInt(MakeOrderKey(it.index + 1)), number |-> it.line + 1,
               order_date |-> it.order_date, part_key |-> ToInt(part_key),
               supplier_key |-> ToInt(SelectPartSupplier(part_key,
                                  ValueIn(drawn.supplier_number, 0, SuppliersPerPart - 1),
                                  SupplierKeyMax(it.scale_factor))),
               status |-> IF IsInPast(ship_date) THEN "F" ELSE "O",
               line |-> Restrict(Seeds(drawn), DOMAIN LineStreams(it.scale_factor)),
               columns |-> [s \in DOMAIN OwnStreams("lineitem", it.scale_factor) |->
                              IF s = "return_flag" /\ ~received THEN 0 ELSE drawn[s].seed]]]

\* Mutant of NextPartSupp: the supplier number advances every second row.
NextPartSuppRepeats(it) ==
  LET part_key == ToInt(it.index + 1)
      drawn == TakeValues("partsupp", it.streams, Same(it.streams, 1))
      moved == [it EXCEPT !.streams = drawn, !.line = @ + 1]
  IN [iter |-> IF moved.line >= SuppliersPerPart
               THEN [moved EXCEPT !.streams = FinishRow(drawn), !.line = 0, !.index = @ + 1]
               ELSE moved,
      row |-> [part_key |-> part_key, columns |-> Seeds(drawn),
               supplier_key |-> ToInt(SelectPartSupplier(part_key, it.line \div 2, SupplierKeyMax(it.scale_factor)))]]

NextPartSupp(it) ==
  LET part_key == ToInt(it.index + 1)
      drawn == TakeValues("partsupp", it.streams, Same(it.streams, 1))
      moved == [it EXCEPT !.streams = drawn, !.line = @ + 1]
  IN [iter |-> IF moved.line >= SuppliersPerPart
               THEN [moved EXCEPT !.streams = FinishRow(drawn), !.line = 0, !.index = @ + 1]
               ELSE moved,
      row |-> [part_key |-> part_key, columns |-> Seeds(drawn),
               supplier_key |-> ToInt(SelectPartSupplier(part_key, it.line, SupplierKeyMax(it.scale_factor)))]]

\* A row of a table with one row to an index; drawn is it.streams after the draws
\* of the row, and a column that was not drawn is 0.
OneRow(it, drawn, key) ==
  [iter |-> [it EXCEPT !.streams = FinishRow(drawn), !.index = @ + 1],
   row |-> [key |-> key,
            columns |-> [s \in DOMAIN drawn |-> IF drawn[s] = it.streams[s] THEN 0 ELSE drawn[s].seed]]]

NextCustomer(it) ==
  OneRow(it, TakeValues("customer", it.streams, Same(it.streams, 1)), ToInt(it.index + 1))

NextPart(it) == OneRow(it, TakeValues("part", it.streams, Same(it.streams, 1)), ToInt(it.index + 1))

\* A comment that is long enough draws three more streams to be rewritten.
ApplyBBBComment(drawn) ==
  IF ValueIn(drawn.comment, 25, 100) < BbbLength THEN drawn
  ELSE TakeValues("supplier", drawn,
                  [s \in DOMAIN drawn |-> IF s \in DOMAIN BbbStreams THEN 1 ELSE 0])

NextSupplier(it) ==
  LET drawn == TakeValues("supplier", it.streams,
                 [s \in DOMAIN it.streams |-> IF s \in DOMAIN BbbStreams THEN 0 ELSE 1])
  IN OneRow(it, IF ValueIn(drawn.bbb_comment, 1, 10000) <= BbbComments
                THEN ApplyBBBComment(drawn) ELSE drawn,
            ToInt(it.index + 1))

NextNation(it) ==
  LET region == it.region_cum_sum + NationWeights[it.index + 1]
      next == OneRow(it, TakeValues("nation", it.streams, Same(it.streams, 1)), it.index)
  IN [next EXCEPT !.iter.region_cum_sum = region,
                  !.row = [key |-> @.key, region |-> region, columns |-> @.columns]]

NextRegion(it) == OneRow(it, TakeValues("region", it.streams, Same(it.streams, 1)), it.index)

NextRow(t, it) == CASE t = "orders" -> NextOrder(it)
                    [] t = "lineitem" -> NextLineitem(it)
                    [] t = "partsupp" -> NextPartSupp(it)
                    [] t = "customer" -> NextCustomer(it)
                    [] t = "part" -> NextPart(it)
                    [] t = "supplier" -> NextSupplier(it)
                    [] t = "nation" -> NextNation(it)
                    [] t = "region" -> NextRegion(it)

-----------------------------------------------------------------------------
(* A generator is made for every partition, reset, and asked for batches    *)
(* until it has none.                                                       *)

JobOrder == <<"partsupp", "customer", "orders", "lineitem", "part", "supplier", "nation", "region">>
Jobs == [i \in 1..(2 * Len(JobOrder)) |->
           [table |-> JobOrder[(i + 1) \div 2], way |-> IF i % 2 = 1 THEN "full" ELSE "parted"]]
NoParts == [num |-> 0, count |-> 0, target |-> 0, begin |-> 0]
NoIterator == [streams |-> <<>>, index |-> 0, end |-> 0]

Init ==
  /\ scale \in Scales
  /\ todo = Jobs
  /\ parts = NoParts
  /\ max = 0
  /\ iter = NoIterator
  /\ batch = <<>>
  /\ rows = [t \in Tables |-> [w \in Ways |-> <<>>]]

StartTable ==
  /\ todo # <<>> /\ parts.num = 0
  /\ \E target \in Targets :
       LET count == ResolvePartCount("lance", [target_partition_rows |-> target], table,
                                 RowCount(table, scale))
       IN  /\ Head(todo).way = "full" <=> target = 0
           /\ count <= MaxParts
           /\ parts' = [num |-> 1, count |-> count, target |-> target, begin |-> 0]
           /\ iter' = ResetGenerator(table, 1, count, scale)
  /\ max' \in 1..MaxBatchRows
  /\ UNCHANGED <<scale, todo, batch, rows>>

\* Mutant of AppendRow: the size of the batch is tested after the row.
AppendRowBeyond ==
  /\ parts.num > 0 /\ Len(batch) <= max /\ ~Done(iter)
  /\ LET next == NextRow(table, iter)
     IN batch' = Append(batch, next.row) /\ iter' = next.iter
  /\ UNCHANGED <<scale, todo, parts, max, rows>>

\* NextBatch, if there is a row left: one round of its loop.
AppendRow ==
  /\ parts.num > 0 /\ Len(batch) < max /\ ~Done(iter)
  /\ LET next == NextRow(table, iter)
     IN batch' = Append(batch, next.row) /\ iter' = next.iter
  /\ UNCHANGED <<scale, todo, parts, max, rows>>

\* The loop ends: the batch goes to the writer.
DeliverBatch ==
  /\ batch # <<>> /\ (Len(batch) >= max \/ Done(iter))
  /\ rows' = [rows EXCEPT ![table][Head(todo).way] = @ \o batch]
  /\ batch' = <<>>
  /\ UNCHANGED <<scale, todo, parts, max, iter>>

\* NextBatch returns false: the next partition, or the end of the table.
NextPartition ==
  /\ parts.num > 0 /\ batch = <<>> /\ Done(iter)
  /\ IF parts.num < parts.count
     THEN /\ parts' = [parts EXCEPT !.num = @ + 1, !.begin = Len(rows[table][Head(todo).way])]
          /\ iter' = ResetGenerator(table, parts.num + 1, parts.count, scale)
          /\ UNCHANGED <<todo, max>>
     ELSE /\ parts' = NoParts
          /\ iter' = NoIterator
          /\ todo' = Tail(todo)
          /\ max' = 0
  /\ UNCHANGED <<scale, batch, rows>>

Next == StartTable \/ AppendRow \/ DeliverBatch \/ NextPartition

Spec == Init /\ [][Next]_vars

-----------------------------------------------------------------------------
(* Properties.                                                              *)

\* The part of the type invariant that is about places: the cursor stays within
\* its partition and a batch within batch_rows.
CursorOK ==
  /\ scale \in Scales
  /\ parts.num \in 0..parts.count /\ parts.count \in 0..MaxParts
  /\ max \in 0..MaxBatchRows
  /\ iter.index \in 0..iter.end
  /\ Len(batch) <= max
  /\ DOMAIN rows = Tables

\* Type invariant: and a seed stays within the generator's range.
TypeOK ==
  /\ CursorOK
  /\ \A s \in DOMAIN iter.streams : ~iter.streams[s].wide => iter.streams[s].seed \in 1..(Modulus - 1)

\* No row draws more from a stream than seeds_per_row: RowFinished pads a row
\* that drew less, nothing takes back what a row drew too much.
WithinBudget ==
  \A s \in DOMAIN iter.streams : iter.streams[s].usage <= iter.streams[s].seeds_per_row

Finished(t, w) == \A i \in DOMAIN todo : todo[i] # [table |-> t, way |-> w]

\* "any partition produces the same keys as the full, single-threaded run, and
\* different partitions never overlap" (doc/tables.md:130): however the table is
\* divided and cut into batches, the partitions one after the other deliver the
\* rows of the single-partition run, all of them, with every column drawn from
\* the same place of its stream.  From scale factor 30000 on (wide) orders and
\* lineitem are excepted: AdvanceSeed32 does not skip what NextRand draws.
SameRowsAsFullRun ==
  \A t \in Tables \ (IF scale.wide THEN {"orders", "lineitem"} ELSE {}) :
    /\ IsPrefix(rows[t]["parted"], rows[t]["full"])
    /\ Finished(t, "parted") => rows[t]["parted"] = rows[t]["full"]

\* The keys of the table are keys that std::int32_t holds.
Fits(t, scale_factor) ==
  (IF t = "orders" THEN MakeOrderKey(RowCount(t, scale_factor))
   ELSE RowCount(t, scale_factor)) <= MaxInt

\* What is said of one order by its row and by its lines, which follow one another.
Agrees(order) ==
  LET delivered == rows["lineitem"]["parted"]
      lines == {i \in DOMAIN delivered : delivered[i].key = order.key}
      count == Len(order.lines)
  IN /\ \E first \in 0..Len(delivered) :
          /\ lines = (first + 1)..(first + count)
          /\ \A i \in 1..count :
               /\ delivered[first + i].number = i
               /\ delivered[first + i].line = order.lines[i]
               /\ delivered[first + i].order_date = order.order_date
     /\ {delivered[i].status : i \in lines} = IF order.status = "P" THEN {"F", "O"} ELSE {order.status}

\* orders computes o_totalprice and o_orderstatus from lines it draws itself;
\* lineitem draws the same lines again, divided into other partitions.  Both
\* tables tell the same lines, dates and status of every order, as long as the keys
\* fit: orders with one key are one order to whoever reads lineitem.
OrdersAgreeWithLineitem ==
  ~scale.wide /\ Fits("orders", scale) /\ Finished("orders", "parted") /\ Finished("lineitem", "parted") =>
    /\ \A i \in DOMAIN rows["orders"]["parted"] : Agrees(rows["orders"]["parted"][i])
    /\ \A i \in DOMAIN rows["lineitem"]["parted"] :
         \E j \in DOMAIN rows["orders"]["parted"] :
           rows["orders"]["parted"][j].key = rows["lineitem"]["parted"][i].key

Pairs(t) == {<<r.part_key, r.supplier_key>> : r \in ToSet(rows[t]["parted"])}

\* Keys refer to rows that exist, as long as the keys referred to fit: l_partkey
\* with l_suppkey to a row of partsupp, o_custkey to a customer, and to one that may
\* place orders; n_regionkey to a region, where the lists are whole.
ReferencesExist ==
  /\ Finished("partsupp", "parted") /\ Fits("part", scale) => Pairs("lineitem") \subseteq Pairs("partsupp")
  /\ Finished("customer", "parted") /\ Fits("customer", scale) =>
       \A r \in ToSet(rows["orders"]["parted"]) :
         r.custkey % CustomerMortality # 0 /\ r.custkey \in 1..Len(rows["customer"]["parted"])
  /\ Finished("region", "parted") /\ scale.num >= scale.den =>
       \A n \in ToSet(rows["nation"]["parted"]) :
         \E r \in ToSet(rows["region"]["parted"]) : r.key = n.region

\* Three steps from supplier to supplier do not go all the way round.
OnceAround(suppliers, part_key) ==
  0 < SupplierStep(suppliers, part_key) /\ 3 * SupplierStep(suppliers, part_key) < suppliers

SupplierInRange(r) == r.supplier_key \in 1..SupplierKeyMax(scale)

\* As long as parts and suppliers fit, every supplier of partsupp exists, and a
\* part whose suppliers are not too few has none of them twice.
SuppliersDistinct ==
  LET delivered == rows["partsupp"]["parted"]
  IN Fits("part", scale) /\ Fits("supplier", scale) =>
       \A i \in DOMAIN delivered :
         /\ SupplierInRange(delivered[i])
         /\ OnceAround(SupplierKeyMax(scale), delivered[i].part_key) =>
              \A j \in DOMAIN delivered \ {i} :
                delivered[j].part_key = delivered[i].part_key =>
                  delivered[j].supplier_key # delivered[i].supplier_key

\* "This guarantees 4 distinct supplier keys per part and keeps the key in
\* [1, supplier_key_max]" (doc/tables.md:76).
FourSuppliersPerPart ==
  LET delivered == rows["partsupp"]["parted"]
  IN \A i \in DOMAIN delivered :
       /\ SupplierInRange(delivered[i])
       /\ \A j \in DOMAIN delivered \ {i} :
            delivered[j].part_key = delivered[i].part_key =>
              delivered[j].supplier_key # delivered[i].supplier_key

RowsPerUnit(t) == IF t = "partsupp" THEN SuppliersPerPart ELSE 1

\* How far partitions may exceed the rows the option asks for (writer.cpp calls
\* it "Max rows per output ORC partition file"): none but the last does, and the
\* last by less than a unit of rows for each other partition, since the remainder
\* of the division is its own.  lineitem is excepted: its partitions are counted
\* in rows, four to an order, and cut in orders of one to seven.
PartsNearTarget ==
  parts.target > 0 /\ table # "lineitem" /\ batch = <<>> =>
    Len(rows[table]["parted"]) - parts.begin
      <= parts.target + (IF parts.num = parts.count THEN RowsPerUnit(table) * (parts.count - 1) ELSE 0)
=============================================================================
