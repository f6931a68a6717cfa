SPECIFICATION Spec
CONSTANTS
  home = home
  c1 = c1
  c2 = c2
  c3 = c3
  name = name
  Homes = {home}
  Calls = {c1, c2, c3}
  Names = {name}
  MaxAttempts = 2
  MaxFaults = 1
  MaxMoves = 3
INVARIANTS TypeOK NotesFoundByTitle CreatedNamesDiffer
SYMMETRY Symmetry
CHECK_DEADLOCK FALSE
