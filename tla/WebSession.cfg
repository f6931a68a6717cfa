SPECIFICATION FairSpec
CONSTANTS
  Requests = {r1, r2}
  MaxLogins = 2
  MaxGen = 3
  Faulty = TRUE
INVARIANTS TypeOK PairsSound
PROPERTIES JarNeverGoesBack NavigationSettles
CHECK_DEADLOCK FALSE
