SPECIFICATION Spec
CONSTANTS
  p1 = p1
  p2 = p2
  Versions = {"v1", "v2"}
  Skills <- MCSkills
  Procs = {p1, p2}
  Settings0 <- MCSettings
  MaxVerbs = 3
  MaxEdits = 1
  MaxCrashes = 1
  MaxUpgrades = 1
SYMMETRY Symmetry
INVARIANTS
  SettingsKept
  OneShim
  PromiseKept
PROPERTIES
  DoctorTells
  EditsKept
CHECK_DEADLOCK FALSE
