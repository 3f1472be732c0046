CONSTANTS
  p1 = p1
  p2 = p2
  n1 = n1
  n2 = n2
  small = small
  large = large
  Pods = {p1, p2}
  Nodes = {n1, n2}
  Kinds = {small, large}
  Cpu <- CpuOf
  Mem <- MemOf
  NoKind = NoKind
  MigRequest <- RequestOne
  CpuRequest <- CpuRequests
  Allocatable <- Milli
  AllowedPods <- Room
  GpuCount <- TwoAndOne
  Statuses <- StatusThree
  Strategies = {"LeastAllocated", "MostAllocated", "RequestedToCapacityRatio"}
  Shape <- Steep
  DefaultMilliCPURequest = 1
  Faults = {"update", "patch", "bind"}
  NoNode = NoNode
  NoPod = NoPod
  MaxNodeScore = 100
SPECIFICATION Spec
INVARIANTS
  TypeOK
  NoOvercommit
  GoesWhereExpected
  FreeSliceOutranks
PROPERTIES
  RedirectedToItsNode
