SPECIFICATION Spec
CONSTANTS
  dated = dated
  undated = undated
  s1 = s1
  s2 = s2
  u1 = u1
  Keys = {dated}
  Sweeps = {s1, s2}
  Users = {u1}
  LastDay = 1
  MaxRev = 2
  StartedOn <- DatedStart
  Located = {dated}
  Substantive <- LastRevOnly
  AutoDismissNoop = TRUE
  Alone = FALSE
  MaxFaults = 1
INVARIANTS
  CuratedHasEntry
  RecordHasCopy
SYMMETRY SweepSymmetry
