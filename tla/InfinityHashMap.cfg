SPECIFICATION Spec
CONSTANTS
    Key <- MCKeys
    Value = {1, 2}
    Digit = {0, 1, 2}
    HashOf <- MCHashOf
    ReadBack <- MCReadBack
    Wildcard = Wildcard
    HALF_LONG = 100
    Absent = 99
    MaxKeys = 3
INVARIANTS TypeOK WellFormedTree
PROPERTY MapUntilRough
CONSTRAINT Smooth
