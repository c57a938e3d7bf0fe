CONSTANTS
  p = p
  a = a
  Provider <- OneProvider
  AccountKey <- OneAccount
  ProviderOf <- ProviderOfOne
  BatchId = {b1, b2}
  MaxStamp = 1
  MaxHydrate = 0
  MaxEvent = 1
  Disturbance <- Nothing

SPECIFICATION FairSpec

PROPERTIES
  AddedAccountFillsIn

CHECK_DEADLOCK FALSE
