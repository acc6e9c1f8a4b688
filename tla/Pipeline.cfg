\* Up to three batches through the pipeline's queue of two slots.
CONSTANTS
  producer = producer
  Producer = producer
  Producers = {producer}
  Consumer = worker
  Capacity = 2
  MaxBatches = 3
  MaxPushes = 4
  NoMessage = NoMessage
SPECIFICATION PipelineFairSpec
INVARIANTS PipelineTypeOK DrainedSuccessIsComplete
PROPERTIES NothingWrittenAfterError ReturnsUnlessWakeupLost
CHECK_DEADLOCK FALSE
