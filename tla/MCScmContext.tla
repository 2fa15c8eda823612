---------------------------- MODULE MCScmContext ----------------------------
\* Finite instance of ScmContext for TLC: see MCScmContext*.cfg.
EXTENDS ScmContext
=============================================================================
