\* Two programs, three calls on top of what is installed already: install, start
\* or remove while the other one does any of them.
CONSTANTS
  Admin = {a, b}
  wait_for_n_secs = 1
  MaxCalls = 3
SPECIFICATION FairSpec
INVARIANTS PendingIsWorkedOn ReportIsTrue InstalledIsComplete NoOrphanKeys
PROPERTY CallsReturn
CHECK_DEADLOCK FALSE
