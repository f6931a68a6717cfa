SPECIFICATION Spec
CONSTANTS
  Pages = {p1, p2}
  Users = {p1, p2}
  UserOf <- MCUserOf
  SendBuffer = 1
  MaxEdits = 2
  MaxSends = 2
  MaxRooms = 2
  Faulty = TRUE
INVARIANTS TypeOK  
SYMMETRY Symmetry
CHECK_DEADLOCK FALSE
