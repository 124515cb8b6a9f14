CONSTANTS
    CodePoints <- MCCodePoints
    MaxLen = 2

SPECIFICATION Spec

INVARIANTS
    TypeOK
    EncodedMatchesReference
    CountMatchesEncoding

CHECK_DEADLOCK FALSE
