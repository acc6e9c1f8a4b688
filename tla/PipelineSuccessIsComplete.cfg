\* One partition of at most one batch.
CONSTANTS
  producer = producer
  Producer = producer
  Producers = {producer}
  Consumer = worker
  Capacity = 2
  MaxBatches = 1
  MaxPushes = 2
  NoMessage = NoMessage
SPECIFICATION PipelineSpec
INVARIANT SuccessIsComplete
CHECK_DEADLOCK FALSE
