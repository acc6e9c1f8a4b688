---------------------------- MODULE MCSingleFile ----------------------------
\* Two workers encode three partitions; or three partitions of up to two batches
\* go over a channel of two places, which the task fills.
EXTENDS SingleFile
=============================================================================
