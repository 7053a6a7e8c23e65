CONSTANTS
    r1 = r1
    Relayers = {r1}
    Configured = {r1}
    EpochLength = 2
    Confirmations = 2
    Word = 64
    ProofBlocks = 2
    GasLimit = 10
    TxGasReserve = 1
    FixedGas = 10
    TransitionGas = 4
    InputsPerTx = 3
    HasPeers = TRUE
    CheckpointsAccepted = TRUE
    FirstHead = 2
    MaxHead = 10
    Faults = {"drop", "rpc", "lag", "instant"}
    MaxFaults = 3
    MaxPending = 2
SPECIFICATION Spec
INVARIANTS TypeOK
PROPERTIES WorkersFollow RefinesFeed
