CONSTANTS
  Key = {k1, k2}
  Worker = {w1, w2}
  Main = main
  Missing = Missing
  Garbled = Garbled
  MaxStamp = 3
  MaxFailure = 1

SPECIFICATION FairSpec

INVARIANTS
  CleanMeansDurable
  DirtyHasWorker
  ExitPersists

PROPERTIES
  DiskNeverGoesBack
  ImplementsFairDurableMap
  InsertedIsPersisted
