SPECIFICATION Spec
CONSTANTS
  ChainIds = {"bas"}
  Chains = {"bas"}
  Accounts = {"a", "b", "c", "f", "none"}
  NoAccount = "none"
  Honest = {"a", "b", "c"}
  StakingValidators = {"a", "b"}
  BlockHashes <- OneChainHashes
  Headers <- ShortHeaders
  Canonical <- ShortHeaders
  BlockProofs <- ShortProofs
  SignatureLists <- ShortSignatures
  CheckpointHashes = {"k1"}
  NoCheckpoint = "none"
  EpochLengths = {0, 1, 2}
  MaxEpoch = 6
  Bridges = {"bridge", "moved"}
  NoBridge = "none"
  VerificationFunctions = {"own"}
  DefaultFunction = "main"
  BitsPerBucket = 4
INVARIANTS IndexesAgree FullQuorumAccepted
PROPERTIES OtherEpochsKept NoEpochRewritten ActiveChainsFrozen
