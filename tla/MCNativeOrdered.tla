---------------------------- MODULE MCNativeOrdered ----------------------------
\* Partitions are numbered, so there is no symmetry.
EXTENDS NativeOrdered
=============================================================================
