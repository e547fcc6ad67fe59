CONSTANTS
  N = 4
  Lengths <- MCLengths
  MaxLen = 2
SPECIFICATION Spec
INVARIANTS
  TypeOK
  QueryOrder
  WholeBlocks
PROPERTIES
  AllPrinted
