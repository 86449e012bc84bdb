SPECIFICATION Spec
CONSTANTS
    NoDevice    = NoDevice
    Devices     <- MCDevices
    Hashes      <- MCHashes
    Requests    <- JoinMix
    MaxRequests = 3
    MaxFlag     = 24
    MaxFaults   = 2
INVARIANTS
    TypeOK
    IDsUnique
    AcksDurable
    OneIDPerJoin
PROPERTY
    HandlerReturns
