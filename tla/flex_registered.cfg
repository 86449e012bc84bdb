SPECIFICATION Spec
CONSTANTS
    s1 = s1
    s2 = s2
    c1 = c1
    c2 = c2
    Sockets     <- MCSockets
    CPUs        <- MCCPUs
    MaxLoads    = 2
    MaxCreates  = 3
    MaxFrames   = 2
    MaxFailures = 1
INVARIANT
    RegisteredWhenLoaded
