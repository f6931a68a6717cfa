CONSTANTS
  Sessions = {s1}
  Handlers = {h1, h2}
  TheftThreshold = 2
  MaxGen = 3
  MaxBumps = 1
  MaxReplays = 2
  Faulty = TRUE
SPECIFICATION Spec
CHECK_DEADLOCK FALSE
INVARIANTS TypeOK SingleRotation EscalationNeedsRepeatedTheft
PROPERTIES DeletedStaysDeleted RotationSpec
SYMMETRY Symmetry
