\* Two events, one per page, three changes and two failures.
SPECIFICATION FairSpec
CONSTANTS
  Events = {e1, e2}
  PageSize = 1
  MaxChanges = 3
  MaxFailures = 2
INVARIANTS
  TypeOK
  ZombieRowsExplained
  PokesServed
PROPERTY EventuallyReflected
