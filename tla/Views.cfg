SPECIFICATION Spec
CONSTANTS
  DayLength = 2
  MaxTime = 1
  Machines = {"west", "east"}
  ZoneOf <- MCZones
  Homes <- MCHomes
  NoProject = "-"
  MaxItems = 3
  MaxTorn = 1
  PerGroupCap = 1
  TotalCap = 2
INVARIANTS
  DaysTile
  TearsCostOne
  WakeInOrder
  BriefLeads
CHECK_DEADLOCK FALSE
