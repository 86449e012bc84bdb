SPECIFICATION Spec
CONSTANTS
    per            = per
    plain          = plain
    per1           = per1
    per2           = per2
    one            = one
    Processes      <- Both
    SocketIO       <- OfPer
    Threads        <- AllThreads
    ProcessOf      <- Processor
    Requests       <- AllMix
    InitialColumns = 1
    MaxEvents      = 4
SYMMETRY Symmetry
INVARIANTS
    TypeOK
    AcksStored
    FailuresLeaveNothing
    SameIDOnlyByRace
    RowsOfMembers
    LoneUpdatesNumbered
    AttributeColumnsExist
