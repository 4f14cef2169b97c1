CONSTANTS
    MaxDistance = 1
    Parallelism = 1
    NumResults  = 2
    PeerTimeout = 1
    QueryTimeout = 2
    FindNodeLookups = {fn}
    FindContentLookups = {fc}
    Responses  <- MCResponses
    MaxContentDistance = 1
    Offers = {o1, o2}
    OfferedKeys <- MCOfferedKeys
    GroupSize = 2
    VARINT_BYTES = 3
    MaxLength = 5
    Undecodable = Undecodable
    OutOfRange = OutOfRange
SPECIFICATION MCSpec
INVARIANTS
    AnsweredOnce
    PeersHaveEnrs
    OneOutcome
    PropagatedIsValid
PROPERTIES
    EventuallyAnswered
    StoresValidContent
    TransfersEnd
CHECK_DEADLOCK FALSE
