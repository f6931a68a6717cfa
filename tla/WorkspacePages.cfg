SPECIFICATION Spec
CONSTANTS
  o = o
  g = g
  t1 = t1
  t2 = t2
  k1 = k1
  k2 = k2
  Users = {o, g}
  Owner = o
  Tokens = {t1, t2}
  Calls = {k1, k2}
  MaxFaults = 1
  Viewers = {g}
  MaxVisits = 2
INVARIANTS TypeOK ClosedLinksStayClosed ShownLinkWorks 
SYMMETRY Symmetry
CHECK_DEADLOCK FALSE
