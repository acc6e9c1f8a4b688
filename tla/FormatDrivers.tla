---------------------------- MODULE FormatDrivers ----------------------------
(***************************************************************************)
(* What the drivers of writer.cpp say of their formats, and the functions  *)
(* of the Parquet and ORC writers they use: which strategies a format has, *)
(* how many rows a partition is meant to have, and into how many parts a   *)
(* table is cut.  options is the record of a format's numeric options,     *)
(* which BuildWriterOptions accepts when none of them is negative.         *)
(***************************************************************************)
EXTENDS Integers

Formats == {"parquet", "orc", "lance", "vortex"}
Strategies == {"parallel-files", "single-file-ordered"}

SupportsStrategy(format, strategy) ==
  strategy = "parallel-files" => format \in {"parquet", "orc"}

PreferredStrategy(format) ==
  IF format \in {"parquet", "orc"} THEN "parallel-files" ELSE "single-file-ordered"

\* The strategy of the command line, or "auto"; "none" when the format does not have it.
ResolveSelectedWriteStrategy(requested, format) ==
  LET strategy == IF requested = "auto" THEN PreferredStrategy(format) ELSE requested
  IN  IF SupportsStrategy(format, strategy) THEN strategy ELSE "none"

\* Who writes the single file; Parquet leaves the native path at its first line.
OrderedExecutionModel(format) ==
  CASE format = "parquet" -> "parallel-encode"
    [] format = "orc" -> "native-multiplexed"
    [] OTHER -> "foreign-streaming"

-----------------------------------------------------------------------------
(* Rows of a partition and number of partitions *)

EstimateTpchRowBytes ==
  [nation |-> 117, region |-> 151, part |-> 70, supplier |-> 164, partsupp |-> 564,
   customer |-> 168, orders |-> 75, lineitem |-> 64]

AtLeast(least, n) == IF n < least THEN least ELSE n

\* ResolveRowGroupRows and ResolveStripeRows: the limit, or as many rows as the bytes hold, or 0.
RowsOfBytes(max_rows, bytes, table) ==
  CASE max_rows > 0 -> max_rows
    [] max_rows <= 0 /\ bytes > 0 -> AtLeast(1, bytes \div EstimateTpchRowBytes[table])
    [] OTHER -> 0

TargetRows(format, options, table) ==
  CASE format = "parquet" -> RowsOfBytes(options.max_row_group_rows, options.row_group_bytes, table)
    [] format = "orc" /\ options.max_partition_rows > 0 -> options.max_partition_rows
    [] format = "orc" /\ options.max_partition_rows <= 0 ->
         RowsOfBytes(options.max_stripe_rows, options.stripe_bytes, table)
    [] OTHER -> options.target_partition_rows

MaxPartCount == 2147483647

\* Mutant of ResolvePartCountByTargetRows: the quotient is rounded down.
PartCountRoundedDown(total_rows, target_rows) ==
  IF target_rows <= 0 \/ total_rows = 0 THEN 1 ELSE AtLeast(1, total_rows \div target_rows)

ResolvePartCountByTargetRows(total_rows, target_rows) ==
  IF target_rows <= 0 \/ total_rows = 0 THEN 1
  ELSE LET parts == (total_rows + target_rows - 1) \div target_rows
       IN  IF parts > MaxPartCount THEN MaxPartCount ELSE parts

ResolvePartCount(format, options, table, total_rows) ==
  ResolvePartCountByTargetRows(total_rows, TargetRows(format, options, table))
=============================================================================
