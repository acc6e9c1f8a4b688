-------------------------- MODULE MCBoundedMpscQueue --------------------------
\* Two producers and a consumer as model values; the liveness property rules
\* out symmetry over the producers.
EXTENDS BoundedMpscQueue
=============================================================================
