SPECIFICATION Spec
CONSTANTS
  w1 = w1
  w2 = w2
  Callers = {w1, w2}
  Main = w1
  Jobs <- MCJobs
  Earlier <- MCEarlier
  Rows <- MCRows
  MaxPromotions = 1
  MaxOthers = 1
INVARIANTS
  CleanScreen
  TallyTrue
  CauseReported
  SummariesCurrent
  CacheWhole
PROPERTIES
  Returns
