SPECIFICATION Spec
CONSTANTS
  Clients = {c1, c2}
  UserOf <- SameUser
  Rooms = {r1, r2}
  Blocks = {b1}
  FlushThreshold = 2
  ChannelCap = 1
  FrameCap = 1
  MaxEdits = 3
  Kinds = {"delete", "update"}
  Stops = TRUE
  Faulty = TRUE
SYMMETRY Symmetry
INVARIANTS TypeOK OneRoomRuns  MembersInSync
CHECK_DEADLOCK FALSE
