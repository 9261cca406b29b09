\* The same account without webhooks or failures.
SPECIFICATION Spec
CONSTANTS
  Objects = {o1, o2}
  Handlers = {}
  PageSize = 1
  MaxClock = 3
  MaxVersions = 2
  MaxFailures = 0
INVARIANTS
  WatermarkComplete
