SPECIFICATION Spec
CONSTANTS
  dated = dated
  undated = undated
  s1 = s1
  Keys = {dated, undated}
  Sweeps = {s1}
  Users = {}
  LastDay = 2
  MaxRev = 2
  StartedOn <- UndatedStart
  Located = {dated, undated}
  Substantive <- LastRevOnly
  AutoDismissNoop = TRUE
  Alone = TRUE
  MaxFaults = 1
PROPERTIES
  CatchUp
