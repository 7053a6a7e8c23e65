CONSTANTS
    r1 = r1
    Relayers = {r1}
    Configured = {r1}
    EpochLength = 2
    Confirmations = 1
    Word = 64
    ProofBlocks = 2
    GasLimit = 10
    TxGasReserve = 1
    FixedGas = 10
    TransitionGas = 4
    InputsPerTx = 3
    HasPeers = FALSE
    CheckpointsAccepted = FALSE
    FirstHead = 1
    MaxHead = 9
    Faults = {"late"}
    MaxFaults = 1
    MaxPending = 2
SPECIFICATION Spec
PROPERTIES EveryEpochStreamed
