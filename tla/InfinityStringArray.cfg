SPECIFICATION Spec
CONSTANTS
    Thread = {t1}
    Data <- MCData
    Strings <- MCStrings
    Null = Null
    MaxSize = 8
    MaxCells = 2
INVARIANTS TypeOK SectorsApart
PROPERTY CellArraySpec
