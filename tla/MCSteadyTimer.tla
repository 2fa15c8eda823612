--------------------------- MODULE MCSteadyTimer ----------------------------
\* SteadyTimer has no constants and finitely many states: TLC checks it as it is.
\*
\* CallCases and ClientCases are independent of it and are extended for their assumptions
\* about the tables of functions, which TLC evaluates before it starts.  In MCWin32Calls
\* the mutants of the tables would break them, and no property would be tried on them.
EXTENDS SteadyTimer, ClientCases
=============================================================================
