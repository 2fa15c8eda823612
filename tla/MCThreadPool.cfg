\* Three workers and four submissions: a full pool, a queue of two behind a
\* worker that has not come back yet, a refusal and a retry all occur.
CONSTANTS
  Worker = {w1, w2, w3}
  Task = {t1, t2, t3, t4}
  NoTask = NoTask
SPECIFICATION FairSpec
INVARIANTS Accounting NoLostWakeup IdleMeansDrained
PROPERTIES ImplementsExecutor AcceptedIsExecuted DestructorReturns
