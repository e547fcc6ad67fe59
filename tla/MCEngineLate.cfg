CONSTANTS
  Fields = {1, 2, 3}
  Relations <- MCRelations
  Programs <- MCAnyPrograms
  Contents <- MCContents
  MCKinds = {"aggregate", "semijoin"}
  MCDeepKinds = {}
  MaxOps = 4
  MaxQueries = 2
  Limit = 1
  Eof = Eof
SPECIFICATION EngineSpec
INVARIANTS
  AggregateCollected
