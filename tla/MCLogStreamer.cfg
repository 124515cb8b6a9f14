CONSTANTS
    a = a
    b = b
    c = c
    kInfo = kInfo
    kWarning <- MCNonFatal
    kError <- MCNonFatal
    kFatal = kFatal
    Slots <- MCSlots
    Severities <- MCSeverities
    MaxChunks = 3
    MaxConstructions = 3

SPECIFICATION Spec

INVARIANTS
    TextLoggedExactlyOnce
    LoggedAtWrittenSeverity

PROPERTIES
    FatalStreamerNeverDropped

CHECK_DEADLOCK FALSE
