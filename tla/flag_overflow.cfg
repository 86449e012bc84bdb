SPECIFICATION Spec
CONSTANTS
    NoDevice    = NoDevice
    Devices     <- MCDevices
    Hashes      <- MCHashes
    Requests    <- SameNameMix
    MaxRequests = 17
    MaxFlag     = 64
    MaxFaults   = 0
INVARIANT FlagHasFourBits
