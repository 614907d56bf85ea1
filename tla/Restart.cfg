SPECIFICATION Spec
CONSTANTS
    MaxWrites = 4
    MaxCrashes = 2
    MaxStops = 2
INVARIANTS TypeOK CellsLead CellsApart Kept Found
CHECK_DEADLOCK FALSE
