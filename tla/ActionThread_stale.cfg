SPECIFICATION FairSpec
CONSTANTS
    Key <- MCSameFile
    Data <- MCTwoValues
    Lengths = {1}
    CellSize = 1
    Entry = {1, 2, 3, 4}
    Null = Null
    Setup <- MCStale
PROPERTY MemorySpec
