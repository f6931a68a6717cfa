SPECIFICATION KeysSpec
CONSTANTS
  Keys = {k1, k2}
  Calls = {c1, c2}
  Interval = 1
  Retention = 2
  Patience = 1
  MaxTime = 4
  Unreachable = TRUE
INVARIANTS KeysTypeOK WithdrawnKeysForgotten
SYMMETRY Symmetry
CHECK_DEADLOCK FALSE
