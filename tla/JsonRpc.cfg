SPECIFICATION MCSpec
CONSTANTS
    None = None
    Failed = Failed
    Panic = Panic
    Text = Text
    c1 = c1
    c2 = c2
    Call = {c1, c2}
    Peer = {1, 2}
    MaxSeq = 2
    Key = {"header", "body"}
    MaxRadius = 3
    NUM_CLOSEST_NODES = 1
    NUM_FARTHER_NODES = 1
    Method <- MCMethod
    Distances <- MCDistances
    MaxChanges = 1
INVARIANTS
    FoundContentIsValid
    LookupKeepsKnownEnr
    TraceGossipConsistent
PROPERTIES
    CallsReturn
