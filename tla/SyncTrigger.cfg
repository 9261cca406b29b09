SPECIFICATION FairSpec
CONSTANTS
  q1 = q1
  q2 = q2
  p = p
  w = w
  Callers <- MCCallers
  Keyed <- MCKeyed
  Workers = {w}
  Deployments <- MCDeployments
  Filter <- MCFilter
  MaxThrows = 1
  MaxStorageFaults = 2
  MaxCrashes = 1
INVARIANTS
  TypeOK
  OneExecution
  ExecutedOnce
PROPERTY RetryGetsResult
