SPECIFICATION MCSpec
CONSTANTS
    None = None
    Failed = Failed
    Torn = Torn
    PrivateKey = {k1}
    Ip = {ip1, ip2}
    Port = {port1, port2}
    MaxSeq = 3
    Request = {11, 12}
    Peer = {1, 2}
    EventStreamSize = 1
    TALKREQ_CHANNEL_BUFFER = 1
    NodeAddrCacheCapacity = 1
    FIND_NODES_MAX_NODES = 3
    FIND_CONTENT_MAX_NODES = 2
    EnrLimit = 2
    MaxSessions = 1
INVARIANTS
    EnrIsNewest
    AddressOfHeardPeer
PROPERTIES
    TalkRequestsAnswered
CHECK_DEADLOCK FALSE
