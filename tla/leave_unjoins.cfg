SPECIFICATION Spec
CONSTANTS
    NoDevice    = NoDevice
    Devices     <- MCDevices
    Hashes      <- MCHashes
    Requests    <- LeaveMix
    MaxRequests = 2
    MaxFlag     = 8
    MaxFaults   = 0
INVARIANT LeaveUnjoins
