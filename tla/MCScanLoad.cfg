SPECIFICATION Spec
CONSTANT MaxRetries = 3
INVARIANTS
  NoDataRace
  GraphqlDataIsFresh
  TreeEvidenceIsWhole
  MetadataIsTrue
PROPERTIES
  ImplementsForkJoin
  LoaderReturns
CHECK_DEADLOCK FALSE
