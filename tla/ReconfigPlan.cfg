CONSTANTS
  p1 = p1
  p2 = p2
  p3 = p3
  p4 = p4
  GPUs = {0, 1}
  Slices <- SliceKinds
  MigConfigs <- ExtendedFile
  Pods = {p1, p2, p3, p4}
  Kind <- KindOf
  Quantity <- QuantityOf
  MaxQuantity = 3
  MaxSlices = 7
  InitConfigs = {"all-enabled", "profile-1-3-0-0-0"}
SPECIFICATION Spec
CHECK_DEADLOCK FALSE
INVARIANTS
  TypeOK
  SlicesExist
PROPERTIES
  RoomForAll
  NoNeedlessStop
