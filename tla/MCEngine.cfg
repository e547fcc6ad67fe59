CONSTANTS
  Fields = {1, 2, 3}
  Relations <- MCRelations
  Programs <- MCPrograms
  Contents <- MCContents
  MCKinds = {"filter", "projection", "limit", "union", "aggregate", "group", "sort", "topk", "materialize", "semijoin", "markjoin", "leftjoin"}
  MCDeepKinds = {"projection", "limit", "union", "materialize", "semijoin", "markjoin", "leftjoin"}
  MaxOps = 5
  MaxQueries = 2
  Limit = 1
  Eof = Eof
SPECIFICATION EngineSpec
INVARIANTS
  ResultsCorrect
  VerifyActive
  QueriesEnd
PROPERTIES
  EndsOnce
