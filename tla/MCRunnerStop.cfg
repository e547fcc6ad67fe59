CONSTANTS
  Workers = {w1, w2}
  Programs <- MCPrograms
  MaxPhases = 1
  MaxSources = 1
  Crowd = 1
SPECIFICATION Spec
PROPERTIES
  ProcessCompletes
