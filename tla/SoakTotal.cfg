SPECIFICATION SoakHostSpec
CONSTANTS
  GB = 1
  Workers = {w1, w2}
  MaxCycles = 2
INVARIANT
  TotalIsReleased
CHECK_DEADLOCK FALSE
