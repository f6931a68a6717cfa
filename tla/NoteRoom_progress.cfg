SPECIFICATION FairSpec
CONSTANTS
  Clients = {c1, c2}
  UserOf <- SameUser
  Rooms = {r1, r2}
  Blocks = {b1}
  FlushThreshold = 2
  ChannelCap = 1
  FrameCap = 1
  MaxEdits = 2
  Kinds = {"upsert", "identify", "cursor"}
  Stops = FALSE
  Faulty = FALSE
 
PROPERTIES EditsAreLogged
CHECK_DEADLOCK FALSE
