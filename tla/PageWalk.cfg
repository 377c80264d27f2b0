SPECIFICATION WalkSpec
CONSTANTS
  Pages = 4
  Base = 2
  Values = {1, 3}
  MinPages = 1
  MaxCalls = 3
  MaxSweeps = 2
INVARIANT WalkExact
INVARIANT VerifyCounts
CHECK_DEADLOCK FALSE
