------------------------- MODULE MCPartitionPipeline -------------------------
\* One partition with its generating thread, for TLC.
EXTENDS PartitionPipeline
=============================================================================
