\* Two partitions of up to two batches on two pool threads, a queue of two:
\* either partition may be ahead, and a producer may have to wait for room.
CONSTANTS
  PartCount = 2
  PoolSize = 2
  Capacity = 2
  MaxBatches = 2
  MaxTotal = 3
SPECIFICATION FairSpec
INVARIANTS TypeOK OutputInTableOrder SuccessIsComplete
PROPERTY Returns
CHECK_DEADLOCK FALSE
