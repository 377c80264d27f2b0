SPECIFICATION ToolsSpec
CONSTANTS
  GB = 2
  Pages = 2
  MaxMaps = 2
  MaxFaults = 1
  MaxRepeat = 3
  MaxServices = 2
INVARIANTS
  ToolsTypeOK
  MappingsFit
  NothingLeft
  RowsValid
  TraceTracksFleet
  SurveysHonest
  NoGeneratorWithoutGuard
  GuardAfterReport
PROPERTIES
  EarlyOrphanStops
  ToolEnds
CHECK_DEADLOCK FALSE
