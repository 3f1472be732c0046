CONSTANTS
  r1 = r1
  r2 = r2
  r3 = r3
  r4 = r4
  i1 = i1
  i2 = i2
  i3 = i3
  m1 = m1
  m2 = m2
  small = small
  Requests = {r1, r2, r3, r4}
  Ids = {i1, i2, i3}
  Id <- IdMixed
  NoId = NoId
  Names = {m1, m2}
  Name <- NameMixed
  Slices <- OneSlice
  NoSlice = NoSlice
  maxRequestsPerGroup = 2
  ChannelSize = 1
  Faults = {"list", "create", "get", "post", "delete", "repartition"}
  MaxRestarts = 1
SPECIFICATION FairSpec
INVARIANTS
  TypeOK
  HeldUntilPosted
  ServedByNamesake
PROPERTIES
  DeliverySpec
  AcceptedIsPosted
