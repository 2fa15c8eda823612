\* Three pids and three processes: a family of three generations, or a pid that
\* is reused; any process of a snapshot may be one that cannot be opened.
CONSTANTS
  UserPid = {8, 12, 16}
  MaxBirths = 3
SPECIFICATION Spec
INVARIANTS EveryProcessOnce KillsTheFamily
