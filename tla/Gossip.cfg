CONSTANTS
    p1 = p1
    p2 = p2
    NoProof = NoProof
    NoPush = NoPush
    Peers = {p1, p2}
    Directions = {"child"}
    MaxEpoch = 2
    Quorum <- GrowingSet
    Forked = {p2}
    ChannelCapacity = 1
    MaxAttempts = 2
    MaxStreams <- TwoAndOne
    Connections = {"stream", "panic"}
SPECIFICATION Spec
INVARIANTS TypeOK SignaturesOfCheckpoint
PROPERTIES AttemptsEnd PublishedFrozen
CHECK_DEADLOCK FALSE
