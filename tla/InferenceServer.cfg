CONSTANTS
  r1 = r1
  r2 = r2
  r3 = r3
  r4 = r4
  Requests = {r1, r2, r3, r4}
  Inputs = {r1, r2, r3}
  MAX_BATCH_SIZE = 2
  Faults = {"model", "tokens"}
  Error = Error
  NoAnswer = NoAnswer
  MaxExits = 1
SPECIFICATION FairSpec
CHECK_DEADLOCK FALSE
INVARIANTS
  OwnAnswer
  OnePlace
PROPERTIES
  PromiseSpec
  PolledIsAnswered
  GaugeReturnsToZero
