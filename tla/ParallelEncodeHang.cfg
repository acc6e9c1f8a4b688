\* Two workers on two pool threads, two partitions, no symmetry.
CONSTANTS
  w1 = w1
  w2 = w2
  Workers = {w1, w2}
  PoolSize = 2
  PartCount = 2
SPECIFICATION FairSpec
PROPERTY Returns
CHECK_DEADLOCK FALSE
