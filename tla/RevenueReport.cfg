SPECIFICATION Spec
CONSTANTS
  Payments     <- MCPayments
  OccurredAt   <- MCOccurredAt
  RawStatuses  <- MCRawStatuses
  Folded       <- MCFolded
  Seeds        <- MCSeeds
  EditStatuses = {"collected", "refunded", "unknown"}
  Procs        = {c1, c2}
  Queries      <- MCQueries
  Now          <- MCNow
  MaxEdits     = 1
  MaxWrites    = 2
INVARIANTS TypeOK AccountedOnce StaleOnlyAfterEdit
