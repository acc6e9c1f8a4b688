---------------------------- MODULE MCParallelEncode ----------------------------
\* Workers as model values; the liveness property rules out symmetry over them.
EXTENDS ParallelEncode
=============================================================================
