SPECIFICATION Spec
CONSTANTS
    Byte = 8
    EpochOffsetS = 10
    EpochOffsetUs = 100
    MaxDepth = 3
    SinglePrecision = 4
    DoublePrecision = 32
    SingleMax = 12
    Structs <- MCStructs
    Attrs <- MCAttrs
    Values <- MCValues
    Writes <- MCWrites
    Commands <- MCCommands
    Payloads <- MCPayloads
    EventFields <- MCEventFields
    Occurrences <- MCOccurrences
    LocalClock <- MCLocalClock
    MaxChanges = 3
    MaxCuts = 1
    MaxItems = 2
INVARIANTS
    ReportIsExact
    EventsAreKept
    WriteReadsBack
CHECK_DEADLOCK FALSE
