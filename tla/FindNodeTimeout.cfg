SPECIFICATION NodesSpec
CONSTANTS
    MaxDistance = 4
    Parallelism = 1
    NumResults  = 3
    PeerTimeout = 1
    Responses  <- MCResponses
    ContentResponses <- MCContentResponses
PROPERTY
    TimeoutIsNoticed
CHECK_DEADLOCK FALSE
