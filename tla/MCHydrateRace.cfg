CONSTANTS
  p = p
  a = a
  Provider <- OneProvider
  AccountKey <- NoAccount
  ProviderOf <- ProviderOfNone
  BatchId = {b1, b2}
  MaxStamp = 2
  MaxHydrate = 1
  MaxEvent = 2
  Disturbance <- Nothing

SPECIFICATION Spec

PROPERTIES
  HydrateKeepsNewerData

CHECK_DEADLOCK FALSE
