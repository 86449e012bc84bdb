SPECIFICATION Spec
CONSTANTS
    NoDevice    = NoDevice
    Devices     <- MCDevices
    Hashes      <- MCHashes
    Requests    <- RegisterMix
    MaxRequests = 4
    MaxFlag     = 144
    MaxFaults   = 1
INVARIANTS
    AcksDurable
    CollisionAvoided
PROPERTIES
    ImplementsRegistry
