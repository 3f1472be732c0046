CONSTANTS
  p1 = p1
  p2 = p2
  A = A
  B = B
  Pods = {p1, p2}
  GPUs = {0, 1}
  Configs = {A, B}
  Layout <- LayoutAB
  Serves <- ServesEach
  Placements = {{0}, {0, 1}}
  InitConfig = A
  NoPod = NoPod
  NoConfig = NoConfig
  GetErrors = FALSE
  DeleteErrors = TRUE
  Conflicts = TRUE
  CanCrash = TRUE
SPECIFICATION FairSpec
INVARIANTS
  TaintOnlyWhileBusy
  CleanPlanFreesGPUs
  StopListGone
PROPERTIES
  PromiseSpec
  ReconcileEnds
