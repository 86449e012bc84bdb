SPECIFICATION Spec
CONSTANTS
    NoDevice    = NoDevice
    Devices     <- MCDevices
    Hashes      <- MCHashes
    Attributes  <- MCAttributes
    Requests    <- SampleMix
    MaxRequests = 2
    MaxFlag     = 144
    MaxFaults   = 0
INVARIANT AttributesStored
