SPECIFICATION FairSpec
CONSTANTS
  e1 = e1
  e2 = e2
  Events <- MCEvents
  Batches <- MCBatches
  ProcessEffect <- MCEffect
  Requests = {q1, q2}
  MaxDuplicates = 1
  MaxProcessFaults = 1
  MaxStorageFaults = 1
  MaxCrashes = 1
INVARIANTS
  TypeOK
  ProcessedMeansHandled
  AckedIsAccountedFor
PROPERTY EventuallyAccountedFor
CHECK_DEADLOCK FALSE
