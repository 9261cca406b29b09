\* A listing of two pages and a cap of one.
SPECIFICATION FairSpec
CONSTANTS
  Runs = {r1}
  Keys = {k1, k2}
  MaxPages = 1
  MaxAttempts = 2
  PageSize = 1
  LeaseCanExpire = FALSE
  ProviderStalls = FALSE
  MaxChanges = 2
  MaxProviderFaults = 0
  MaxStorageFaults = 0
  MaxCrashes = 0
PROPERTIES
  CatchesUp
