SPECIFICATION Spec
CONSTANTS
    per            = per
    plain          = plain
    per1           = per1
    per2           = per2
    one            = one
    Processes      <- Plain
    SocketIO       <- None
    Threads        <- OneThread
    ProcessOf      <- Alone
    Requests       <- RequestsMix
    InitialColumns = 1
    MaxEvents      = 13
CONSTRAINT OneService
INVARIANT RequestIDsUnique
