--------------------------- MODULE MCChildProcess ---------------------------
\* Instances of ChildProcess for TLC.
EXTENDS ChildProcess
CONSTANT p1
=============================================================================
