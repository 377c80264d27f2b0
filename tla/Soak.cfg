SPECIFICATION SoakSpec
CONSTANTS
  Vcpus = 2
  RamUnits = 16
  PageUnits = 2
  HOT_SWEEPS_PER_CYCLE = 1
  StampBase = 16
  Garbage = 100
  Modes = {"reusable", "munmap"}
  Faults = {"zero", "stale"}
  MaxFaults = 1
  MaxCycles = 2
INVARIANT SoakTypeOK
INVARIANT NoFalseAlarm
INVARIANT LossCounted
CHECK_DEADLOCK FALSE
