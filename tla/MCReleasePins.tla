--------------------------- MODULE MCReleasePins ---------------------------
EXTENDS ReleasePins, TLC
CONSTANTS t1, t2
=============================================================================
