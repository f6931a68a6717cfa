SPECIFICATION Spec
CONSTANTS
  p1 = p1
  p2 = p2
  u1 = u1
  u2 = u2
  o1 = o1
  o2 = o2
  o3 = o3
  a1 = a1
  a2 = a2
  Pages = {p1, p2}
  Users = {u1, u2}
  Options = {o1, o2, o3}
  Assets = {a1, a2}
  MaxEdits = 3
INVARIANTS TypeOK SharedBlocksSound PageTellsBlock
SYMMETRY Symmetry
CHECK_DEADLOCK FALSE
