SPECIFICATION Spec
CONSTANTS
  d1 = d1
  d2 = d2
  m1 = m1
  m2 = m2
  Repositories <- MCRepositories
  Machines = {m1, m2}
  Dirs = {d1, d2}
  Base <- MCBase
  Parent <- MCParent
  Slugs <- MCSlugs
  Flags <- MCFlags
  Remotes = {"r1"}
  Procs = {p1, p2}
  MaxId = 4
  MaxVerbs = 3
  MaxMoves = 1
  MaxFaults = 1
SYMMETRY Symmetry
INVARIANTS
  OneProjectPerRemote
  LocatorsAnswerOnce
  ClonesHaveProject
PROPERTIES
  ClonesKept
  IdentitiesStand
CHECK_DEADLOCK FALSE
