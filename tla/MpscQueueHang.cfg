\* The pipeline of one partition: one producer, capacity two.
CONSTANTS
  p1 = p1
  Producers = {p1}
  Consumer = consumer
  Capacity = 2
  MaxPushes = 3
  NoMessage = NoMessage
SPECIFICATION FairSpec
PROPERTY Terminates
CHECK_DEADLOCK FALSE
