SPECIFICATION AllocSpec
CONSTANTS
  Charged = 3
  Behaviours = {"refused", "uncharged", "unmap"}
INVARIANT
  ChargedClaimIsCharged
CHECK_DEADLOCK FALSE
