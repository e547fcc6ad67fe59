CONSTANTS
    Strings <- MCStrings
    Text <- MCText
    Accepts <- MCAccepts
    Columns <- MCColumns
    Programs <- MCPrograms
    Databases <- MCDatabases
SPECIFICATION Spec
INVARIANTS
    ResultsPreserved
    WellFormed
    NormalForm
CHECK_DEADLOCK FALSE
