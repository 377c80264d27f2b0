SPECIFICATION Spec
CONSTANTS
  GB = 2
  Pages = 3
  Base = 5
  CanaryPages = 2
  MaxSweeps = 2
  MaxDiscards = 2
INVARIANT TypeOK
INVARIANT NoFalseLoss
INVARIANT DiscardVisible
INVARIANT PanicOnlyOnApplyError
INVARIANT ReleasedBeforeTail
PROPERTY Terminates
CHECK_DEADLOCK FALSE
