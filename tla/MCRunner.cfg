CONSTANTS
  Workers = {w1, w2, w3}
  Programs <- MCPrograms
  MaxPhases = 2
  MaxSources = 2
  Crowd = 4
SPECIFICATION Spec
INVARIANTS
  PhaseBarrier
  EachSourceOnce
  LatchAlive
  VerifyPop
PROPERTIES
  PhasesComplete
