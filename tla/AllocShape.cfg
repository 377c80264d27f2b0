SPECIFICATION AllocSpec
CONSTANTS
  Charged = 3
  Behaviours = {"refused", "uncharged", "declined", "advice", "unmap"}
INVARIANTS
  AllocTypeOK
  RowsMeasureTheirCell
  CreditedReleasesHappened
CHECK_DEADLOCK FALSE
