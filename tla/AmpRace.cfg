SPECIFICATION Spec
CONSTANTS
  t1 = t1
  t2 = t2
  r1 = r1
  r2 = r2
  NoRun = none
  Threads = {t1}
  Runs = {r1, r2}
  MaxTime = 4
  Midnights = {}
  MidnightStamps = TRUE
  Continued = {}
  PendingCap = 1
  Oversized = {}
  Alone = FALSE
  MaxFaults = 2
INVARIANTS
  NothingForgotten
PROPERTIES
  FloorNeverRegresses
SYMMETRY RunSymmetry
