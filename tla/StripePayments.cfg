\* Three payments, one per page, in two seconds, one of which changes its status.
SPECIFICATION FairSpec
CONSTANTS
  PageSize = 1
  MaxPayments = 3
  MaxClock = 2
  MaxTransitions = 1
  MaxLost = 1
  MaxFailures = 1
INVARIANTS
  TypeOK
  NewPaymentsSafe
  StaleOnlyWithCause
PROPERTIES
  EveryPaymentArrives
