CONSTANTS
  Fields = {1, 2, 3}
  Relations <- MCRelations
  MaxOps = 4
  MaxQueries = 2
SPECIFICATION Spec
INVARIANTS
  TypeOK
  RequestLegal
  PlanClosed
  PlanExact
  BuildVerified
  TablesFirst
