\* Every table whole and in up to four partitions, in batches of up to three rows.
CONSTANTS
  Multiplier = 3
  Modulus = 127
  Multiplier64 = 13
  WordSize = 65536
  IntSize = 128
  RowsAtSf1 <- MCRows
  Scales <- MCScales
  Targets <- MCTargets
  MaxParts = 4
  MaxBatchRows = 3
  BbbComments = 5000
SPECIFICATION Spec
INVARIANTS TypeOK WithinBudget SameRowsAsFullRun OrdersAgreeWithLineitem ReferencesExist SuppliersDistinct PartsNearTarget
CHECK_DEADLOCK FALSE
