CONSTANTS
    ChainIds = {"bas"}
    Chains = {"bas"}
    Accounts = {"a", "b", "c", "d", "e", "f", "g", "h", "z"}
    NoAccount = "z"
    BlockHashes <- ForksHashes
    Headers <- Forks
    EpochLengths = {4}
    Bridges = {"bridge"}
    NoBridge = "none"
    VerificationFunctions = {"parlia"}
    DefaultFunction = "default"
    CheckpointHashes = {}
    NoCheckpoint = "none"
    StakingValidators = {}
    BlockProofs = {}
    SignatureLists = {}
    MaxEpoch = 3
    BitsPerBucket = 16
    Source = "bas"
    Genesis <- ForksGenesis
    FirstTip <- ForksFirstTip
    Word = 64
    EpochLength = 4
    Confirmations = 5
    MaxReorg = 5
SPECIFICATION FeedSpec
INVARIANTS BuiltProofAccepted RecordedOnBranch
PROPERTIES EveryEpochRecorded
CHECK_DEADLOCK FALSE
