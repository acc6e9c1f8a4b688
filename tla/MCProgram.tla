-------------------------------- MODULE MCProgram --------------------------------
\* Two tables and two workers, as model values.
EXTENDS Program
=============================================================================
