------------------------------ MODULE RelayHub ------------------------------
(***************************************************************************)
(* contracts/RelayHub.sol: the light client that the bridge trusts.  For   *)
(* every registered chain it records, epoch by epoch, which validators are *)
(* entitled to seal blocks, and it accepts a block of that chain when the  *)
(* set recorded for the previous epoch sealed enough of its descendants.   *)
(*                                                                         *)
(* A transaction is one step.  One that reverts changes nothing, so every  *)
(* require and every arithmetic or array panic is a guard.  Multicall runs *)
(* several of these steps in a row in one transaction.                     *)
(***************************************************************************)
EXTENDS ParliaVerifier

CONSTANTS
    EpochLengths,           \* epoch lengths a registration may name
    Bridges, NoBridge,      \* bridge addresses; the zero address
    VerificationFunctions,  \* deployed Parlia verifiers a chain may name
    DefaultFunction,        \* address zero: resolved to the hub's own verifier
    CheckpointHashes, NoCheckpoint,
    StakingValidators,      \* the BSC staking contract: getValidators()
    BlockProofs,            \* the header sequences callers submit
    SignatureLists,         \* the checkpoint signatures callers submit
    MaxEpoch,               \* bound on the epochs of submitted headers
    BitsPerBucket           \* bits of a bitmap word: 256

Epochs == 0 .. MaxEpoch

\* A signature and the root it was made over: keccak(blockHash, checkpointHash)
Signature == [signer: Accounts, root: BlockHashes \X CheckpointHashes]

ASSUME HubAssumption ==
    /\ EpochLengths \subseteq Nat
    /\ MaxEpoch \in Nat
    /\ BitsPerBucket \in Nat \ {0}
    /\ StakingValidators \subseteq Accounts
    /\ BlockProofs \subseteq Seq(Headers)
    /\ SignatureLists \subseteq Seq(Signature)
    /\ NoCheckpoint \notin CheckpointHashes

ASSUME EpochsAssumption ==
    \A h \in Headers, n \in EpochLengths \ {0} : h.number \div n \in Epochs

VARIABLES
    registeredChains,   \* _registeredChains
    allValidators,      \* allValidators._inner._indexes: position from 1, 0 if absent
    activeValidators,   \* per epoch, the bits set in the bitmap
    validatorCount,     \* per epoch, the length of the recorded list
    epochCheckpoints,   \* per epoch, the checkpoint hash
    latestKnownEpoch

history == <<allValidators, activeValidators, validatorCount, latestKnownEpoch>>
vars == <<registeredChains, epochCheckpoints, history>>

Chain == [chainStatus: {"NotFound", "Verifying", "Active"},
          chainType: {"BSC", "BAS"},
          verificationFunction: VerificationFunctions \union {DefaultFunction},
          bridgeAddress: Bridges \union {NoBridge},
          epochLength: Nat]

Init ==
    /\ registeredChains = [c \in Chains |->
          [chainStatus |-> "NotFound", chainType |-> "BSC",
           verificationFunction |-> DefaultFunction,
           bridgeAddress |-> NoBridge, epochLength |-> 0]]
    /\ allValidators = [c \in Chains |-> [v \in Accounts |-> 0]]
    /\ activeValidators = [c \in Chains |-> [e \in Epochs |-> {}]]
    /\ validatorCount = [c \in Chains |-> [e \in Epochs |-> 0]]
    /\ epochCheckpoints = [c \in Chains |-> [e \in Epochs |-> NoCheckpoint]]
    /\ latestKnownEpoch = [c \in Chains |-> 0]

-----------------------------------------------------------------------------
(***************************************************************************)
(* The enumerable set of every validator the chain ever had.  It only      *)
(* grows: a new member takes the next position.                            *)
(***************************************************************************)
Listed(list) == {list[i] : i \in DOMAIN list}

Known(indexes) == {v \in DOMAIN indexes : indexes[v] # 0}

FirstPosition(list, v) ==
    CHOOSE i \in DOMAIN list : list[i] = v /\ \A j \in 1 .. i - 1 : list[j] # v

\* the new members that list names no later than v
AddedUpTo(indexes, list, v) ==
    {list[j] : j \in 1 .. FirstPosition(list, v)} \ Known(indexes)

\* mutant: the length is read once, before the loop
AddAllAtOnce(indexes, list) ==
    [v \in Accounts |->
        IF v \in Known(indexes) \/ v \notin Listed(list) THEN indexes[v]
        ELSE Cardinality(Known(indexes)) + 1]

\* mutant: the positions are those of the list, not of the growing set
AddAllAnew(indexes, list) ==
    [v \in Accounts |-> IF v \in Listed(list) THEN FirstPosition(list, v) ELSE indexes[v]]

AddAll(indexes, list) ==
    [v \in Accounts |->
        IF v \in Known(indexes) \/ v \notin Listed(list) THEN indexes[v]
        ELSE Cardinality(Known(indexes)) + Cardinality(AddedUpTo(indexes, list, v))]

BitsBelow(indexes, list) == {indexes[v] - 2 : v \in Listed(list)}    \* mutant

Bits(indexes, list) == {indexes[v] - 1 : v \in Listed(list)}

Bucket(bit) == bit \div BitsPerBucket

\* the words _updateActiveValidatorSet allocates, before it adds the new validators
Buckets(c) == Cardinality(Known(allValidators[c])) \div BitsPerBucket + 1

(***************************************************************************)
(* _updateActiveValidatorSet, entered with latestKnownEpoch = latest.  The *)
(* words it allocated replace those of the epoch's bitmap, the other words *)
(* stay; a bit beyond them is an array panic.                              *)
(***************************************************************************)
\* mutant
EpochNotAhead(latest, epoch) == (latest > 0 /\ epoch > 0) => epoch <= latest + 1

EpochFollows(latest, epoch) == (latest > 0 /\ epoch > 0) => epoch = latest + 1

Recordable(c, list, epoch, latest) ==
    /\ EpochFollows(latest, epoch)
    /\ \A b \in Bits(AddAll(allValidators[c], list), list) : Bucket(b) < Buckets(c)

UpdateActiveValidatorSet(c, list, epoch, latest) ==
    LET indexes == AddAll(allValidators[c], list)
        kept    == {b \in activeValidators[c][epoch] : Bucket(b) >= Buckets(c)}
    IN  /\ Recordable(c, list, epoch, latest)
        /\ allValidators' = [allValidators EXCEPT ![c] = indexes]
        /\ activeValidators' =
              [activeValidators EXCEPT ![c][epoch] = kept \union Bits(indexes, list)]
        /\ validatorCount' = [validatorCount EXCEPT ![c][epoch] = Len(list)]
        /\ latestKnownEpoch' = [latestKnownEpoch EXCEPT ![c] = epoch]

-----------------------------------------------------------------------------
(***************************************************************************)
(* checkValidatorsAndQuorumReached.  Signers outside the epoch's set are   *)
(* skipped and repeated ones count once.  The words that mark them are as  *)
(* many as the epoch's own validators need, while the bits are positions   *)
(* among all validators: a position beyond those words is an array panic.  *)
(***************************************************************************)
UniqueIndexes(c, signers, epoch) ==
    {allValidators[c][signers[i]] - 1 : i \in DOMAIN signers}
        \intersect activeValidators[c][epoch]

MoreThanTwoThirds(total) == (total * 2) \div 3 + 1    \* mutant

RequiredQuorum(total) == (total * 2) \div 3

WholeBuckets(total) == total \div BitsPerBucket    \* mutant

MarkedBuckets(total) == (total + BitsPerBucket - 1) \div BitsPerBucket

\* mutant: a validator that signs twice counts twice
SignaturesReached(c, signers, epoch) ==
    Cardinality({i \in DOMAIN signers :
                    allValidators[c][signers[i]] - 1 \in activeValidators[c][epoch]})
        >= RequiredQuorum(validatorCount[c][epoch])

QuorumReached(c, signers, epoch) ==
    LET unique == UniqueIndexes(c, signers, epoch)
        total  == validatorCount[c][epoch]
    IN  /\ \A b \in unique : Bucket(b) < MarkedBuckets(total)
        /\ Cardinality(unique) >= RequiredQuorum(total)

\* _verifyBlocksAndReachedQuorum: epoch 0 has no previous set to ask about
BlocksReachQuorum(c, proofs, epochLength) ==
    LET epoch == FirstEpoch(proofs, epochLength)
    IN  /\ BlocksVerified(c, proofs)
        /\ epoch > 0 => QuorumReached(c, Signers(proofs), epoch - 1)

(***************************************************************************)
(* checkReceiptProof, the view the bridge asks: up to the Merkle proof of  *)
(* the receipt under the first header's receipts root.                     *)
(***************************************************************************)
BlockAccepted(c, proofs) ==
    /\ registeredChains[c].chainStatus = "Active"
    /\ BlocksReachQuorum(c, proofs, registeredChains[c].epochLength)

\* _extractActiveValidators
ExtractActiveValidators(c, epoch) ==
    {v \in Known(allValidators[c]) : allValidators[c][v] - 1 \in activeValidators[c][epoch]}

-----------------------------------------------------------------------------
(***************************************************************************)
(* Registration takes one header on trust.  A chain may be registered anew *)
(* until its first transition; its history is not cleared then.  An epoch  *)
(* length of zero is a division panic.                                     *)
(***************************************************************************)
AlwaysRegistrable(c) == TRUE    \* mutant

Registrable(c) == registeredChains[c].chainStatus \in {"NotFound", "Verifying"}

RegisterChain(c, verificationFunction, h, chainType, bridgeAddress, epochLength) ==
    /\ Registrable(c)
    /\ epochLength > 0
    /\ Sealed(c, h)
    /\ UpdateActiveValidatorSet(c, ParsedValidators(h, epochLength),
                                h.number \div epochLength, latestKnownEpoch[c])
    /\ registeredChains' = [registeredChains EXCEPT ![c] =
          [chainStatus |-> "Verifying", chainType |-> chainType,
           verificationFunction |-> verificationFunction,
           bridgeAddress |-> bridgeAddress, epochLength |-> epochLength]]
    /\ UNCHANGED epochCheckpoints

RegisterCertifiedBAS(c, h, bridgeAddress, epochLength) ==
    RegisterChain(c, DefaultFunction, h, "BAS", bridgeAddress, epochLength)

RegisterUsingCheckpoint(c, h, checkpointHash, bridgeAddress, epochLength) ==
    /\ checkpointHash # NoCheckpoint => checkpointHash = h.hash
    /\ RegisterChain(c, DefaultFunction, h, "BAS", bridgeAddress, epochLength)

RegisterBAS(c, verificationFunction, h, bridgeAddress, epochLength) ==
    RegisterChain(c, verificationFunction, h, "BAS", bridgeAddress, epochLength)

RegisterBSC(c, h, bridgeAddress, epochLength) ==
    RegisterChain(c, DefaultFunction, h, "BSC", bridgeAddress, epochLength)

-----------------------------------------------------------------------------
Registered(c) == registeredChains[c].chainStatus \in {"Verifying", "Active"}

Activate(c) == registeredChains' = [registeredChains EXCEPT ![c].chainStatus = "Active"]

\* verifyValidatorTransition, and what its callers do with the set it returns
ValidatorTransition(c, proofs, latest) ==
    LET epochLength == registeredChains[c].epochLength
    IN  /\ BlocksReachQuorum(c, proofs, epochLength)
        /\ FirstNumber(proofs) % epochLength = 0
        /\ UpdateActiveValidatorSet(c, NewValidatorSet(proofs, epochLength),
                                    FirstEpoch(proofs, epochLength), latest)
        /\ Activate(c)
        /\ UNCHANGED epochCheckpoints

UpdateValidatorSet(c, proofs) ==
    /\ Registered(c)
    /\ ValidatorTransition(c, proofs, latestKnownEpoch[c])

(***************************************************************************)
(* The loop consumes the leading epoch headers, each later one required to *)
(* list validators other than the first one's, and counts the first one's  *)
(* epoch as known without recording a set for it.  The header that ends    *)
(* the loop has been verified too.  Then assembly shortens the array by    *)
(* what was consumed and moves the base that the offsets of the remaining  *)
(* elements are relative to.  Those offsets are the caller's, so the rest  *)
(* decodes to headers of its choice, as many as are left; only a base that *)
(* did not move leaves the headers as they were.  An empty rest records an *)
(* empty list for epoch 0.                                                 *)
(***************************************************************************)
LeadingEpochBlocks(proofs, epochLength) ==
    Cardinality({k \in DOMAIN proofs : \A i \in 1 .. k : IsEpochBlock(proofs[i], epochLength)})

Rebased(proofs, consumed) ==
    IF consumed = 0 THEN {proofs}
    ELSE {rest \in BlockProofs : Len(rest) = Len(proofs) - consumed}

UpdateValidatorSetUsingEpochBlocks(c, proofs) ==
    LET epochLength == registeredChains[c].epochLength
        latest      == latestKnownEpoch[c]
        consumed    == LeadingEpochBlocks(proofs, epochLength)
    IN  /\ Registered(c)
        /\ \A i \in DOMAIN proofs : i <= consumed + 1 => Sealed(c, proofs[i])
        /\ consumed # 0 => FirstEpoch(proofs, epochLength) = latest + 1
        /\ \A i \in 2 .. consumed : proofs[i].validators # proofs[1].validators
        /\ \E rest \in Rebased(proofs, consumed) :
              ValidatorTransition(c, rest, IF consumed = 0 THEN latest ELSE latest + 1)

\* ECDSA.recover(signingRoot, signature)
RecoverAnyRoot(root, signature) == signature.signer    \* mutant

Recover(root, signature) == IF signature.root = root THEN signature.signer ELSE NoAccount

(***************************************************************************)
(* A BSC chain is vouched for by the staking contract's active validators, *)
(* a BAS chain by the set of the previous epoch; newEpochNumber - 1 is an  *)
(* arithmetic panic at epoch 0.  The header need not be an epoch block.    *)
(***************************************************************************)
CheckpointTransition(c, h, checkpointHash, signatures) ==
    LET epochLength == registeredChains[c].epochLength
        epoch       == h.number \div epochLength
        signers     == [i \in DOMAIN signatures |->
                          Recover(<<h.hash, checkpointHash>>, signatures[i])]
    IN  /\ Registered(c)
        /\ Sealed(c, h)
        /\ \/ /\ registeredChains[c].chainType = "BSC"
              /\ Listed(signers) \subseteq StakingValidators
              /\ Len(signatures) >= Cardinality(StakingValidators)
           \/ /\ registeredChains[c].chainType = "BAS"
              /\ epoch > 0
              /\ QuorumReached(c, signers, epoch - 1)
        /\ UpdateActiveValidatorSet(c, ParsedValidators(h, epochLength), epoch,
                                    latestKnownEpoch[c])
        /\ epochCheckpoints' = [epochCheckpoints EXCEPT ![c][epoch] = checkpointHash]
        /\ Activate(c)

-----------------------------------------------------------------------------
Register(c) ==
    \E h \in Headers, bridgeAddress \in Bridges, epochLength \in EpochLengths :
        \/ RegisterCertifiedBAS(c, h, bridgeAddress, epochLength)
        \/ \E checkpointHash \in BlockHashes \union {NoCheckpoint} :
              RegisterUsingCheckpoint(c, h, checkpointHash, bridgeAddress, epochLength)
        \/ \E vf \in VerificationFunctions :
              RegisterBAS(c, vf, h, bridgeAddress, epochLength)
        \/ RegisterBSC(c, h, bridgeAddress, epochLength)

Transition(c) ==
    \/ \E proofs \in BlockProofs : UpdateValidatorSet(c, proofs)
    \/ \E proofs \in BlockProofs : UpdateValidatorSetUsingEpochBlocks(c, proofs)
    \/ \E h \in Headers, checkpointHash \in CheckpointHashes, signatures \in SignatureLists :
          CheckpointTransition(c, h, checkpointHash, signatures)

Next == \E c \in Chains : Register(c) \/ Transition(c)

Spec == Init /\ [][Next]_vars

-----------------------------------------------------------------------------
TypeOK ==
    /\ registeredChains \in [Chains -> Chain]
    /\ allValidators \in [Chains -> [Accounts -> Nat]]
    /\ activeValidators \in [Chains -> [Epochs -> SUBSET Nat]]
    /\ validatorCount \in [Chains -> [Epochs -> Nat]]
    /\ epochCheckpoints \in [Chains -> [Epochs -> CheckpointHashes \union {NoCheckpoint}]]
    /\ latestKnownEpoch \in [Chains -> Epochs]

-----------------------------------------------------------------------------
ActiveSet(c, e) == ExtractActiveValidators(c, e)

(***************************************************************************)
(* The positions of the enumerable set are 1 .. its length, one validator  *)
(* each, every bit of every epoch's bitmap is the position of a validator, *)
(* and the recorded count is at least the bits (more only when a header    *)
(* repeats a validator): what _extractActiveValidators and the quorum      *)
(* count of RelayHub.sol:217-236 and 354-378 silently rely on.             *)
(***************************************************************************)
IndexesAgree ==
    \A c \in Chains :
        /\ \A v, w \in Known(allValidators[c]) :
              allValidators[c][v] = allValidators[c][w] => v = w
        /\ \A v \in Accounts : allValidators[c][v] <= Cardinality(Known(allValidators[c]))
        /\ \A e \in Epochs :
              /\ activeValidators[c][e] \subseteq Bits(allValidators[c], [v \in Known(allValidators[c]) |-> v])
              /\ Cardinality(activeValidators[c][e]) <= validatorCount[c][e]

(***************************************************************************)
(* If every validator of a recorded epoch signs, the quorum check of       *)
(* RelayHub.sol:354-378 answers yes: it neither panics nor counts short.   *)
(***************************************************************************)
FullQuorumAccepted ==
    \A c \in Chains, e \in Epochs : QuorumReached(c, [v \in ActiveSet(c, e) |-> v], e)

SameSet(c, e) ==
    ActiveSet(c, e)' = ActiveSet(c, e) /\ validatorCount'[c][e] = validatorCount[c][e]

(***************************************************************************)
(* A transaction changes the set of no epoch but the one it records:       *)
(* growing the enumerable set never re-reads an old bitmap as another set  *)
(* (RelayHub.sol:192-209).                                                 *)
(***************************************************************************)
OtherEpochsKept ==
    [][\A c \in Chains : \A e \in Epochs \ {latestKnownEpoch'[c]} : SameSet(c, e)]_vars

\* a header of the next epoch was at hand, and the chain is active afterwards
PassedOver(c) ==
    /\ registeredChains'[c].chainStatus = "Active"
    /\ \E h \in Headers :
          /\ Sealed(c, h) /\ IsEpochBlock(h, registeredChains[c].epochLength)
          /\ h.number \div registeredChains[c].epochLength = latestKnownEpoch[c] + 1

(***************************************************************************)
(* From epoch 1 on no epoch up to the latest is ever recorded again, on    *)
(* every path to the guard of RelayHub.sol:188-191, and the latest epoch   *)
(* goes up by one, or back to 0, or by two: a transition past an epoch     *)
(* whose header the caller submitted (RelayHub.sol:286-304).               *)
(***************************************************************************)
NoEpochRewritten ==
    [][\A c \in Chains : latestKnownEpoch[c] > 0 =>
          /\ \A e \in 1 .. latestKnownEpoch[c] : SameSet(c, e)
          /\ \/ latestKnownEpoch'[c] \in {0, latestKnownEpoch[c], latestKnownEpoch[c] + 1}
             \/ latestKnownEpoch'[c] = latestKnownEpoch[c] + 2 /\ PassedOver(c)]_vars

(***************************************************************************)
(* Once a chain made a transition its bridge address, verifier, type and   *)
(* epoch length are final and it stays active: the bridge keeps asking     *)
(* getBridgeAddress for withdrawals of old deposits (RelayHub.sol:165).    *)
(***************************************************************************)
ActiveChainsFrozen ==
    [][\A c \in Chains : registeredChains[c].chainStatus = "Active" =>
          registeredChains'[c] = registeredChains[c]]_vars
=============================================================================
