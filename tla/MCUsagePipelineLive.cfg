CONSTANTS
  p = p
  a = a
  Provider <- OneProvider
  AccountKey <- NoAccount
  ProviderOf <- ProviderOfNone
  BatchId = {b1, b2}
  MaxStamp = 1
  MaxHydrate = 1
  MaxEvent = 2
  Disturbance <- Everything

SPECIFICATION FairSpec

PROPERTIES
  ListenedThroughout
  SpinnerEnds
  BatchesForgotten

\* The batches of the bound are used up and nothing else need happen.
CHECK_DEADLOCK FALSE
