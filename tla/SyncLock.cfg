\* Every interleaving of three runs, takeovers, crashes and late releases.
SPECIFICATION LockFairSpec
CONSTANTS
  Runs = {r1, r2, r3}
  Lease = 2
INVARIANTS
  OverlapBounded
  HolderOwnsRow
PROPERTIES
  TakeoverRobsNobody
  OrphanRecovered
  ImplementsPort
