SPECIFICATION Spec
CONSTANTS
  DayLength = 2
  MaxTime = 1
  Machines = {"west", "east"}
  ZoneOf <- MCZones
  Homes <- MCHomes
  NoProject = "-"
  MaxItems = 3
  MaxTorn = 1
  PerGroupCap = 2
  TotalCap = 2
INVARIANTS
  WorkDaysAgree
CHECK_DEADLOCK FALSE
