CONSTANTS
  p = p
  a = a
  Provider <- OneProvider
  AccountKey <- OneAccount
  ProviderOf <- ProviderOfOne
  BatchId = {b1, b2}
  MaxStamp = 2
  MaxHydrate = 0
  MaxEvent = 2
  Disturbance <- Everything

SPECIFICATION Spec
SYMMETRY Symmetry

INVARIANTS
  SpinnerHasBatch

PROPERTIES
  FailureKeepsSnapshot

\* The batches and the reads of the bound are used up and nothing else need happen.
CHECK_DEADLOCK FALSE
