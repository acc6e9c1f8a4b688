\* --write-queue-capacity 1: two producers, a ring of one slot.
CONSTANTS
  p1 = p1
  p2 = p2
  Producers = {p1, p2}
  Consumer = consumer
  Capacity = 1
  MaxPushes = 2
  NoMessage = NoMessage
SPECIFICATION Spec
INVARIANT WithinCapacity
CHECK_DEADLOCK FALSE
