CONSTANTS
  p1 = p1
  p2 = p2
  p3 = p3
  n1 = n1
  n2 = n2
  t1 = t1
  small = small
  large = large
  Pods = {p1, p2, p3}
  Nodes = {n1, n2}
  Templates = {t1}
  NoHash = NoHash
  Hash <- HashOne
  Kinds = {small, large}
  Cpu <- CpuOf
  Mem <- MemOf
  NoKind = NoKind
  MigRequest <- RequestOne
  CpuRequest <- NoCpu
  Allocatable <- Milli
  AllowedPods <- Room
  GpuCount <- OneGpu
  Statuses <- StatusTwo
  Strategies = {"LeastAllocated"}
  Shape <- NoShape
  DefaultMilliCPURequest = 1
  Faults = {"patch"}
  NoNode = NoNode
  NoPod = NoPod
  MaxNodeScore = 100
  Home <- OnlyFirst
  MaxStops = 1
  MaxLosses = 1
SPECIFICATION SysSpec
SYMMETRY Replicas
CHECK_DEADLOCK FALSE
INVARIANTS
  BackWhereStopped
PROPERTIES
  OnlyPermitRedirects
