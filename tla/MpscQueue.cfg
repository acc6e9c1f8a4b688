\* Two producers, two accepted pushes each, the pipeline's capacity of two:
\* every position of the ring is reused once.
CONSTANTS
  p1 = p1
  p2 = p2
  Producers = {p1, p2}
  Consumer = consumer
  Capacity = 2
  MaxPushes = 2
  NoMessage = NoMessage
SPECIFICATION FairSpec
INVARIANTS TypeOK SlotExclusive NoSleepOverWork WithinCapacity
PROPERTIES ImplementsChannel TerminatesUnlessWakeupLost
CHECK_DEADLOCK FALSE
