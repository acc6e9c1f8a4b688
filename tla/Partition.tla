------------------------------ MODULE Partition ------------------------------
(***************************************************************************)
(* How Common/partition.cpp divides the rows of a table: every partition   *)
(* gets total_rows / part_count rows, the last one the remainder as well.  *)
(* Partitions are numbered from 1; a range is half open.                   *)
(***************************************************************************)
EXTENDS Machine

CalculateRowCount(total_rows, part_num, part_count) ==
  (total_rows \div part_count) + (IF part_num = part_count THEN total_rows % part_count ELSE 0)

CalculateStartIndex(total_rows, part_num, part_count) ==
  (total_rows \div part_count) * (part_num - 1)

MakePartitionRange(total_rows, part_num, part_count) ==
  LET start == CalculateStartIndex(total_rows, part_num, part_count)
  IN [start_row |-> start,
      end_row |-> start + CalculateRowCount(total_rows, part_num, part_count)]

\* How far apart the suppliers number 0..3 of a part are, going round the suppliers.
SupplierStep(supplier_key_max, part_key) ==
  (supplier_key_max \div 4) + Quotient(part_key - 1, supplier_key_max)

\* A supplier of a part, supplier_key_max suppliers in all.  partsupp and lineitem
\* have it, with a part_key of 32 and of 64 bits.
SelectPartSupplier(part_key, supplier_number, supplier_key_max) ==
  Remainder(part_key + supplier_number * SupplierStep(supplier_key_max, part_key),
            supplier_key_max) + 1
=============================================================================
