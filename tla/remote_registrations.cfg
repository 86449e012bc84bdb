SPECIFICATION Spec
CONSTANTS
    NoDevice    = NoDevice
    Devices     <- MCDevices
    Hashes      <- MCHashes
    Attributes  <- MCAttributes
    Requests    <- RegisterMix
    MaxRequests = 4
    MaxFlag     = 144
    MaxFaults   = 1
INVARIANTS
    TypeOK
    PromisesKept
    AnswerMatches
PROPERTY
    ImplementsRegistry
