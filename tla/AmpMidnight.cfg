SPECIFICATION Spec
CONSTANTS
  t1 = t1
  t2 = t2
  r1 = r1
  r2 = r2
  NoRun = none
  Threads = {t1, t2}
  Runs = {r1}
  MaxTime = 5
  Midnights <- DayStarts
  MidnightStamps = TRUE
  Continued = {t1}
  PendingCap = 1
  Oversized = {}
  Alone = TRUE
  MaxFaults = 1
INVARIANTS
  NothingForgotten
