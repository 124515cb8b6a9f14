CONSTANTS
    BoolTexts <- MCBoolTexts
    ShortTexts <- MCShortTexts
    UShortTexts <- MCUShortTexts
    IntTexts <- MCIntTexts
    SeverityTexts <- MCSeverityTexts
    VectorTexts <- MCVectorTexts
    VectorValues <- MCVectorValuesWithEmpty
    Digits = 5
    kMinExp <- MCMinExp
    kMaxExp = 2
    InputTexts <- MCFloatTexts
SPECIFICATION MarshallingSpec
INVARIANT VectorValueRoundTrip
