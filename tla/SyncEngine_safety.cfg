\* Two runs that compete for the lock, one of every database fault and crash.
SPECIFICATION Spec
CONSTANTS
  Runs = {r1, r2}
  Keys = {k1, k2}
  MaxPages = 2
  MaxAttempts = 2
  PageSize = 1
  LeaseCanExpire = FALSE
  ProviderStalls = TRUE
  MaxChanges = 2
  MaxProviderFaults = 2
  MaxStorageFaults = 1
  MaxCrashes = 1
SYMMETRY Symmetry
INVARIANTS
  TypeOK
  CursorSafe
  ReportedAsRecorded
  ThrowsOnlyOnStorageFault
PROPERTIES
  NothingRegresses
  ImplementsPort
