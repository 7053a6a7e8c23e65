SPECIFICATION Spec
CONSTANTS
  ChainIds = {"bas", "side"}
  Chains = {"bas"}
  Accounts = {"a", "b", "c", "f", "none"}
  NoAccount = "none"
  Honest = {"a", "b", "c"}
  StakingValidators = {"a", "b"}
  BlockHashes <- BothHashes
  Headers <- BothHeaders
  Canonical <- BothCanonical
  BlockProofs <- BothProofs
  SignatureLists <- BothSignatures
  CheckpointHashes = {"k1", "k2"}
  NoCheckpoint = "none"
  EpochLengths = {0, 2}
  MaxEpoch = 3
  Bridges = {"bridge"}
  NoBridge = "none"
  VerificationFunctions = {"main"}
  DefaultFunction = "main"
  BitsPerBucket = 4
INVARIANTS TypeOK AcceptedBlocksCanonical CanonicalProofAccepted
PROPERTIES TransitionsCanonical CheckpointsSigned RefinesLedger
