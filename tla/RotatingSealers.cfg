CONSTANTS
    ChainIds = {"bas"}
    Chains = {"bas"}
    Accounts = {"v1", "v2", "v3", "v4", "v5", "v6", "v7", "v8", "v9", "w", "z"}
    NoAccount = "z"
    BlockHashes <- LongHashes
    Headers <- LongEpochs
    EpochLengths = {8}
    Bridges = {"bridge"}
    NoBridge = "none"
    VerificationFunctions = {"parlia"}
    DefaultFunction = "default"
    CheckpointHashes = {}
    NoCheckpoint = "none"
    StakingValidators = {}
    BlockProofs = {}
    SignatureLists = {}
    MaxEpoch = 2
    BitsPerBucket = 16
    Source = "bas"
    Genesis <- LongGenesis
    FirstTip <- LongFirstTip
    Word = 64
    EpochLength = 8
    Confirmations = 2
    MaxReorg = 2
SPECIFICATION FeedSpec
INVARIANT QuorumMadeSure
CHECK_DEADLOCK FALSE
