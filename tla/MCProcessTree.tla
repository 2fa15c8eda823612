--------------------------- MODULE MCProcessTree ----------------------------
\* Finite instance of ProcessTree for TLC: see MCProcessTree*.cfg.
EXTENDS ProcessTree
=============================================================================
