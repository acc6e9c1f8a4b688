\* Workers as model values; the liveness property rules out symmetry over them.
CONSTANTS
  w1 = w1
  w2 = w2
  Workers = {w1, w2}
  PoolSize = 2
  PartCount = 3
  InputParts = 3
  MaxBatches = 2
  Capacity = 2
SPECIFICATION SingleFileSpec
INVARIANTS
  SingleFileTypeOK
  MergedInOrder
  PublishedIsWhole
  EncodeErrorReported
  DatasetIsWhole
  BoundedPrefix
  NoThreadLeft
PROPERTIES
  TableEnds
\* A table's task ends.
CHECK_DEADLOCK FALSE
