SPECIFICATION ViewSpec
CONSTANTS
  Messages = {}
  Blocks = {b1, b2}
  Versions = {1, 2}
  MaxEdits = 2
  MaxPeer = 1
  MaxVisits = 2
  MaxOpens = 2
INVARIANTS ViewTypeOK BaselineAgrees
PROPERTIES EditorFollowsBaseline
SYMMETRY Symmetry
CHECK_DEADLOCK FALSE
