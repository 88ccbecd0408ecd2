SPECIFICATION Spec
CONSTANTS
  Harnesses = {"claude", "pi", "devin"}
  MaxWrites = 3
  Transcripts = {"c1"}
  KindOf <- MCKindOf
  MaxRecords = 5
  AgentDone = 2
  ClaudeStarts <- MCClaudeStarts
  Sessions = {"s1", "s2"}
  Paths = {1, 2}
  RoleOf <- MCRoleOf
  MaxLines = 4
  Nodes = {"n1", "n2"}
  Dirs = {"d1", "d2"}
  Titles = {"t1", "t2"}
  PiStarts <- MCPiStarts
  DevinStarts <- MCDevinStarts
INVARIANTS
  FactsMatchCopy
  SettledCurrent
  SettledQuiet
  AgentsComplete
  ResultsPaired
