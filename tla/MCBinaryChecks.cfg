SPECIFICATION AnalysisSpec
CONSTANT Files <- Pairs
INVARIANT
  ListsAreExact
CHECK_DEADLOCK FALSE
