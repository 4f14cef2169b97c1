CONSTANTS
    Node = {n1, n2}
    Reliable = {n1}
    BucketSize = 1
    MaxSeq = 2
    MaxRadius = 1
    MaxRequests = 1
SPECIFICATION RFairSpec
INVARIANTS
    UnconnectedIsPinged
PROPERTIES
    EnrIsLearnt
