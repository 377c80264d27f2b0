SPECIFICATION SoakSpec
CONSTANTS
  Vcpus = 3
  RamUnits = 28
  PageUnits = 2
  HOT_SWEEPS_PER_CYCLE = 1
  StampBase = 16
  Garbage = 100
  Modes = {"reusable"}
  Faults = {}
  MaxFaults = 0
  MaxCycles = 1
CHECK_DEADLOCK FALSE
INVARIANT EveryVcpuSoaks
