SPECIFICATION Spec
CONSTANTS
    c1 = c1
    c2 = c2
    Clients    <- MCClients
    HeaderLen  = 2
    MessageLen = 2
    AnswerLen  = 1
    MaxFaults  = 1
INVARIANTS
    TypeOK
    AckNamesPacket
    AcksAnswerBytes
    WholeJoinAcknowledged
PROPERTY
    EveryoneEnds
CHECK_DEADLOCK FALSE
