SPECIFICATION Spec
CONSTANTS
    NoDevice    = NoDevice
    Devices     <- MCDevices
    Hashes      <- MCHashes
    Attributes  <- MCAttributes
    Requests    <- AllMix
    MaxRequests = 3
    MaxFlag     = 144
    MaxFaults   = 1
INVARIANT
    DbQueryCacheBounded
PROPERTY
    HandlerReturns
