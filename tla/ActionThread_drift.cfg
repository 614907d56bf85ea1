SPECIFICATION FairSpec
CONSTANTS
    Key <- MCSameFile
    Data <- MCShortAndLong
    Lengths = {1, 2}
    CellSize = 2
    Entry = {1, 2, 3, 4}
    Null = Null
    Setup <- MCDrift
PROPERTY CallsReturn
