SPECIFICATION MCSpec
CONSTANTS
    MaxDistance = 4
    Parallelism = 2
    NumResults  = 3
    PeerTimeout = 1
    Responses  <- MCResponses
    ContentResponses <- MCContentResponses
INVARIANTS
    NumWaitingExact
    FinishedIsComplete
    ContentHasSource
PROPERTIES
    PeersMoveForward
    FinishedIsFinal
    NoContactAfterContent
    ContentEndsQuery
CHECK_DEADLOCK FALSE
