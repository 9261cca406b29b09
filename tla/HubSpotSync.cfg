\* Two objects of two versions each, one per page, on a clock of three stamps.
SPECIFICATION FairSpec
CONSTANTS
  Objects = {o1, o2}
  Handlers = {h1}
  PageSize = 1
  MaxClock = 3
  MaxVersions = 2
  MaxFailures = 1
INVARIANTS
  TypeOK
  LostOnlyToRaces
PROPERTIES
  WatermarkNeverRegresses
  CatchesUp
