\* One run at a time, a provider that may stall, and a page cap that a full listing
\* fits in: two pages of one record.
SPECIFICATION FairSpec
CONSTANTS
  Runs = {r1}
  Keys = {k1, k2}
  MaxPages = 2
  MaxAttempts = 2
  PageSize = 1
  LeaseCanExpire = FALSE
  ProviderStalls = TRUE
  MaxChanges = 2
  MaxProviderFaults = 2
  MaxStorageFaults = 1
  MaxCrashes = 1
PROPERTIES
  RunTerminates
  CatchesUp
