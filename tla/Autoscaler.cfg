CONSTANTS
  small = small
  medium = medium
  large = large
  n1 = n1
  Tiers <- TierList
  Nodes <- OneNode
  Allocations <- TwoLayouts
  InitTier = medium
  NoTier = NoTier
  MaxPods = 2
  Faults = {"metrics", "update", "delete", "timeout", "crash"}
  MaxRevisions = 3
SPECIFICATION FairSpec
INVARIANTS
  TypeOK
  RoutesServe
  CleanPassSettles
PROPERTIES
  PassEnds
