SPECIFICATION Spec
CONSTANTS
  ChainIds = {"bas"}
  Chains = {"bas"}
  Accounts = {"a", "b", "c", "f", "none"}
  NoAccount = "none"
  Honest = {"a", "b", "c"}
  StakingValidators = {"a", "b"}
  BlockHashes <- OneChainHashes
  Headers <- RotationHeaders
  Canonical <- RotationHeaders
  BlockProofs <- RotationProofs
  SignatureLists <- RotationSignatures
  CheckpointHashes = {"k1"}
  NoCheckpoint = "none"
  EpochLengths = {1}
  MaxEpoch = 2
  Bridges = {"bridge"}
  NoBridge = "none"
  VerificationFunctions = {"own"}
  DefaultFunction = "main"
  BitsPerBucket = 2
INVARIANT WholeSetIsAQuorum
