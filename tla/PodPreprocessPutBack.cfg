CONSTANTS
  p1 = p1
  p2 = p2
  p3 = p3
  n1 = n1
  n2 = n2
  t1 = t1
  t2 = t2
  Pods = {p1, p2, p3}
  Nodes = {n1, n2}
  Templates = {t1}
  NoHash = NoHash
  NoNode = NoNode
  NoPod = NoPod
  Hash <- HashPlain
  Faults <- NoFaults
  MaxStops = 1
  MaxRestarts = 0
SPECIFICATION FairSpec
CHECK_DEADLOCK FALSE
PROPERTIES
  PutBackIsHandled
