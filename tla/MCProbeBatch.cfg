CONSTANTS
  N = 3
  MaxConcurrentProbes = 2

SPECIFICATION FairSpec

INVARIANTS
  ProbedOnce
  CompleteIsLast
  CacheAgreesWithEvents

PROPERTIES
  BatchCompletes
  ImplementsContract

\* The batch ends when its threads have left their loops.
CHECK_DEADLOCK FALSE
