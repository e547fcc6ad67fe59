CONSTANTS
  Inputs <- MCInputs
  Subscribers = {d1, d2}
  MaxKey = 3
  MaxLen = 3
SPECIFICATION Spec
INVARIANTS
  MergeOrder
  VerifyDbg
  NothingRetained
PROPERTIES
  PromptStop
  Completes
  Implements
