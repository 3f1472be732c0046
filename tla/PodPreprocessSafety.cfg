CONSTANTS
  p1 = p1
  p2 = p2
  p3 = p3
  n1 = n1
  n2 = n2
  t1 = t1
  t2 = t2
  Pods = {p1, p2, p3}
  Nodes = {n1, n2}
  Templates = {t1, t2}
  NoHash = NoHash
  NoNode = NoNode
  NoPod = NoPod
  Hash <- HashTwo
  Faults <- AllFaults
  MaxStops = 2
  MaxRestarts = 1
SPECIFICATION Spec
CHECK_DEADLOCK FALSE
INVARIANTS
  LookupFaithful
PROPERTIES
  PromiseSpec
