CONSTANTS
    BoolTexts <- MCBoolTexts
    ShortTexts <- MCShortTexts
    UShortTexts <- MCUShortTexts
    IntTexts <- MCIntTexts
    SeverityTexts <- MCSeverityTexts
    VectorTexts <- MCVectorTexts
    VectorValues <- MCVectorValuesRoundTrip
    Digits = 5
    kMinExp <- MCMinExp
    kMaxExp = 2
    InputTexts <- MCFloatTexts
SPECIFICATION MarshallingSpec
INVARIANTS MarshallingTypeOK ScalarRoundTrip VectorTextRoundTrip  ShortParseMatchesReference
 
