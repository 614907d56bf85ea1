SPECIFICATION Spec
CONSTANTS
    Byte = {0, 1, 2}
    PartSize = 3
    Data <- MCData
    Starts <- MCStarts
    Lengths <- MCLengths
    Null = Null
    MaxSize = 4
INVARIANTS TypeOK PartsCoverFile
PROPERTIES FlatFileUntilRough ConstArrayStaysSmooth
CONSTRAINT Smooth
