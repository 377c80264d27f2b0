SPECIFICATION GuestSpec
CONSTANTS
  Pages = 3
  Base = 4
  Values = {1, 5}
  MinPages = 1
  MaxCalls = 2
  MaxSweeps = 2
  Doorbell = 1
PROPERTY ImplementsPageWalk
PROPERTY CallReturns
CHECK_DEADLOCK FALSE
