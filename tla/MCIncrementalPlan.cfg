CONSTANTS
    NoUnit = NoUnit
    Pieces <- MCPieces
    MaxPieces = 2
    Contexts = {0, 1, 3}
    Sections <- MCSections
    MaxEdited = 2
SPECIFICATION PlanSpec
INVARIANTS
    FoundAsWritten
    EditedIsSelected
    OutsideMeansAll
CHECK_DEADLOCK FALSE
