SPECIFICATION Spec
CONSTANTS
  MaxRetries = 3
  AdvisoryPage = 2
  ReleasePage = 2
  Worlds <- MCWorlds
INVARIANTS
  NoDataRace
  ObservationsAreTrue
  ReportMatchesMarks
  RootInsightsWin
PROPERTIES
  SetupReturns
  ImplementsForkJoin
CHECK_DEADLOCK FALSE
