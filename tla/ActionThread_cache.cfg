SPECIFICATION FairSpec
CONSTANTS
    Key <- MCKeys
    Data <- MCAllBytes
    Lengths = {1, 2}
    CellSize = 2
    Entry = {1, 2, 3, 4}
    Null = Null
    Setup <- MCSetup
INVARIANTS TypeOK NothingLost CacheAccounted
PROPERTIES MemoryUntilRough  ClientReturns
