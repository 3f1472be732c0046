CONSTANTS
  p1 = p1
  p2 = p2
  g1 = g1
  g2 = g2
  Pods = {p1, p2}
  Running = {p2}
  GPUs = {g1, g2}
  Kinds = {1, 2, 3}
  KindOf <- MCKindOf
  GivenTo <- MCGivenTo
  MigConfigs <- MCMigConfigs
  NoLabel = NoLabel
  NotListed = NotListed
  maxRetries = 1
  Faults = {"kubelet", "nvml", "update"}
  MaxRestarts = 1
SPECIFICATION FairSpec
CHECK_DEADLOCK FALSE
INVARIANTS
  TypeOK
  LabelNamesGPUs
  MaxLabelCurrent
PROPERTIES
  BoundIsLabelled
