\* Three runs of which two may overlap, one refused record each, and one fault.
SPECIFICATION Spec
CONSTANTS
  MaxRuns = 3
  MaxDrops = 1
  MaxActive = 2
  MaxFaults = 1
INVARIANTS
  TypeOK
  FailuresCounted
  JobRowsTrue
PROPERTY LastSuccessAdvances
CHECK_DEADLOCK FALSE
