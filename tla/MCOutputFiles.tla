---------------------------- MODULE MCOutputFiles ----------------------------
\* Two tasks, of two tables or of one named twice, in a program run twice.
EXTENDS OutputFiles
=============================================================================
