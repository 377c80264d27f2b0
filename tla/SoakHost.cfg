SPECIFICATION SoakHostSpec
CONSTANTS
  GB = 1
  Workers = {w1, w2}
  MaxCycles = 2
INVARIANTS
  NoPressureAfterVerdict
  QuietDeltaExact
  GuestOwnsItsSlot
PROPERTIES
  
  SoakReportsItsEnd
CHECK_DEADLOCK FALSE
