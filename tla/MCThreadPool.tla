---------------------------- MODULE MCThreadPool ----------------------------
\* Finite instance of ThreadPool for TLC: see MCThreadPool*.cfg.
EXTENDS ThreadPool
=============================================================================
