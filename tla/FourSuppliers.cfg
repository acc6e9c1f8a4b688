\* partsupp at scale factor 0.001, in eight partitions: ten suppliers to two hundred parts.
CONSTANTS
  Multiplier = 3
  Modulus = 127
  Multiplier64 = 13
  WordSize = 65536
  IntSize = 65536
  RowsAtSf1 <- TpchRows
  Scales <- MCThousandth
  Targets <- TpchTargets
  MaxParts = 8
  MaxBatchRows = 2
  BbbComments = 5000
SPECIFICATION Spec
INVARIANT FourSuppliersPerPart
CHECK_DEADLOCK FALSE
