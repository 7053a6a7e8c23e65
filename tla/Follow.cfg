CONSTANTS
    r1 = r1
    r2 = r2
    Relayers = {r1, r2}
    Configured = {r1, r2}
    EpochLength = 2
    Confirmations = 2
    Word = 64
    ProofBlocks = 2
    GasLimit = 0
    TxGasReserve = 1
    FixedGas = 10
    TransitionGas = 4
    InputsPerTx = 3
    HasPeers = TRUE
    CheckpointsAccepted = TRUE
    FirstHead = 3
    MaxHead = 6
    Faults = {"late", "drop", "crash", "rpc", "lag", "instant"}
    MaxFaults = 1
    MaxPending = 2
SPECIFICATION Spec
INVARIANTS SuccessIsRecorded OnlyConfirmed
PROPERTIES WorkersFollow RefinesFeed
