SPECIFICATION Spec
CONSTANTS
    Key <- MCCloseKeys
    Value = {1}
    Digit = {0, 1, 2}
    HashOf <- MCCloseHashOf
    ReadBack <- MCCloseReadBack
    Wildcard = Wildcard
    HALF_LONG = 100
    Absent = 99
    MaxKeys = 3
PROPERTY MapSpec
