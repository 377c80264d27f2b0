SPECIFICATION VzSpec
CONSTANTS
  Services = 4
  MaxPolls = 4
  MaxNoise = 3
  Disturb = {"nostart", "early", "noboot", "nohelper", "unfit", "othervm", "klog", "oom", "slow", "crash", "kill", "nopressure"}
INVARIANT VzTypeOK
INVARIANT RepliesMatch
INVARIANT NoVmLeft
INVARIANT StopFindsService
INVARIANT RowsMeasureGuest
INVARIANT NoLostReply
PROPERTY OrphanVmExits
PROPERTY DriverEnds
CHECK_DEADLOCK FALSE
