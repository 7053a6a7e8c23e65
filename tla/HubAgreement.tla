---------------------------- MODULE HubAgreement ----------------------------
(***************************************************************************)
(* What the relay hub guarantees about the chains it follows, when some of *)
(* the submitted headers and signatures come from faulty validators.  An   *)
(* honest validator seals only headers of its own chain's canonical branch *)
(* and signs only checkpoints of that branch's epoch blocks                *)
(* (relayer/checkpoint.go reads them from the node it follows).            *)
(***************************************************************************)
EXTENDS RelayHub

CONSTANTS
    Honest,     \* the accounts that follow the rules
    Canonical   \* the headers of the canonical branches, each of its own chain

ASSUME HonestAssumption ==
    /\ NoAccount \notin Honest
    /\ \A h \in Headers : NoAccount \notin Listed(h.validators)
    /\ \A h \in Headers : h.number > 0 /\ h.sealer \in Honest => h \in Canonical
    /\ \A signatures \in SignatureLists : \A i \in DOMAIN signatures :
          signatures[i].signer \in Honest =>
             \E h \in Canonical :
                /\ h.hash = signatures[i].root[1]
                /\ h.number > 0
                /\ \A n \in EpochLengths \ {0} : IsEpochBlock(h, n)

\* A hash names one header, and the parent of a canonical header is canonical.
ASSUME BranchAssumption ==
    /\ Canonical \subseteq Headers
    /\ \A g, h \in Headers : g.hash = h.hash => g = h
    /\ \A h \in Canonical, p \in Headers :
          p.hash = h.parentHash => p \in Canonical /\ p.chain = h.chain

\* The members of the staking contract hold keys.
ASSUME StakersAssumption == NoAccount \notin StakingValidators

-----------------------------------------------------------------------------
\* The set recorded for epoch e cannot reach its quorum without an honest member.
HonestQuorums(c, e) ==
    Cardinality(ActiveSet(c, e) \ Honest) < RequiredQuorum(validatorCount[c][e])

HonestStakers == StakingValidators # {} /\ StakingValidators \subseteq Honest

EpochOf(c, h) == h.number \div registeredChains[c].epochLength

(***************************************************************************)
(* checkReceiptProof (RelayHub.sol:380-395) accepts only canonical blocks: *)
(* when the previous epoch's recorded set has no quorum without an honest  *)
(* member, no branch of faulty validators passes, whatever it is linked to.*)
(***************************************************************************)
AcceptedBlocksCanonical ==
    \A c \in Chains, proofs \in BlockProofs :
        LET epoch == FirstEpoch(proofs, registeredChains[c].epochLength)
        IN  BlockAccepted(c, proofs) /\ epoch > 0 /\ HonestQuorums(c, epoch - 1) =>
               proofs[1] \in Canonical /\ proofs[1].chain = c

(***************************************************************************)
(* The proof the relayer builds is never refused: linked canonical headers *)
(* that begin with the next epoch's block and carry the seals of two       *)
(* thirds of the recorded set pass every check of updateValidatorSet       *)
(* (RelayHub.sol:187-200, 354-378; relayer/proof.go:27-73).                *)
(***************************************************************************)
CanonicalProofAccepted ==
    \A c \in Chains, proofs \in BlockProofs :
        LET n      == registeredChains[c].epochLength
            latest == latestKnownEpoch[c]
        IN  /\ Registered(c)
            /\ proofs # <<>> /\ Linked(proofs) /\ FirstNumber(proofs) = (latest + 1) * n
            /\ \A i \in DOMAIN proofs : proofs[i] \in Canonical /\ proofs[i].chain = c
            /\ 3 * Cardinality(Listed(Signers(proofs)) \intersect ActiveSet(c, latest))
                 >= 2 * validatorCount[c][latest]
            => /\ BlocksReachQuorum(c, proofs, n)
               /\ Recordable(c, NewValidatorSet(proofs, n), latest + 1, latest)

HistoryChanged(c) ==
    \/ registeredChains'[c] # registeredChains[c]
    \/ latestKnownEpoch'[c] # latestKnownEpoch[c]
    \/ \E e \in Epochs : ~ SameSet(c, e)

(***************************************************************************)
(* The set a transition records for an epoch is the one the canonical      *)
(* epoch block lists, when the previous epoch's set cannot reach a quorum  *)
(* without an honest member (and, for a BSC chain, the stakers are honest):*)
(* RelayHub.sol:254-263 and 309-352.                                       *)
(***************************************************************************)
TransitionsCanonical ==
    [][\A c \in Chains, e \in Epochs \ {0} :
          /\ registeredChains'[c].chainStatus = "Active"
          /\ registeredChains[c].chainType = "BSC" => HonestStakers
          /\ e = latestKnownEpoch'[c] /\ HistoryChanged(c) /\ HonestQuorums(c, e - 1)
          => \E h \in Canonical :
                /\ h.chain = c /\ h.number = e * registeredChains[c].epochLength
                /\ Listed(h.validators) = ActiveSet(c, e)']_vars

(***************************************************************************)
(* A checkpoint enters the hub only with the signature of an honest member *)
(* of the previous epoch's set over that checkpoint of a canonical epoch   *)
(* block of that very epoch (RelayHub.sol:333-347).                        *)
(***************************************************************************)
CheckpointsSigned ==
    [][\A c \in Chains, e \in Epochs \ {0} :
          /\ epochCheckpoints'[c][e] # epochCheckpoints[c][e]
          /\ registeredChains[c].chainType = "BAS" /\ HonestQuorums(c, e - 1)
          => \E signatures \in SignatureLists : \E i \in DOMAIN signatures :
                /\ signatures[i].signer \in ActiveSet(c, e - 1) \intersect Honest
                /\ \E h \in Canonical : /\ h.chain = c /\ EpochOf(c, h) = e
                                        /\ signatures[i].root = <<h.hash, epochCheckpoints'[c][e]>>]_vars

-----------------------------------------------------------------------------
(***************************************************************************)
(* The hub implements the ledger of EpochLedger.  An account approved a    *)
(* header when it sealed one of the linked headers submitted with it, or   *)
(* signed one of its checkpoints.                                          *)
(***************************************************************************)
SealedFrom(h) == {proofs \in BlockProofs : proofs # <<>> /\ proofs[1] = h /\ BlocksVerified(h.chain, proofs)}

SignedOver(h, signatures) ==
    {signatures[i].signer : i \in {j \in DOMAIN signatures : signatures[j].root[1] = h.hash}}

Sealers(h) == UNION {Listed(Signers(proofs)) : proofs \in SealedFrom(h)}

CheckpointSigners(h) == UNION {SignedOver(h, signatures) : signatures \in SignatureLists}

HeaderApprovers == [h \in Headers |-> Sealers(h) \union CheckpointSigners(h)]

PhaseOf(chainStatus) ==
    CASE chainStatus = "NotFound"  -> "Unknown"
      [] chainStatus = "Verifying" -> "Trusted"
      [] chainStatus = "Active"    -> "Certified"

LedgerPhase  == [c \in Chains |-> PhaseOf(registeredChains[c].chainStatus)]
LedgerHome   == [c \in Chains |-> registeredChains[c].chainType = "BSC"]

LedgerPeriod == [c \in Chains |-> registeredChains[c].epochLength]
LedgerSets   == [c \in Chains |-> [e \in Epochs |-> ActiveSet(c, e)]]

Ledger == INSTANCE EpochLedger WITH
    Lengths   <- EpochLengths,
    Approvers <- HeaderApprovers,
    Stakers   <- StakingValidators,
    phase     <- LedgerPhase,
    home      <- LedgerHome,
    period    <- LedgerPeriod,
    sets      <- LedgerSets,
    latest    <- latestKnownEpoch

(***************************************************************************)
(* Every transaction of the hub is an anchoring, an approved advance by    *)
(* one epoch, a pass over one epoch whose header was submitted, or a       *)
(* restart at epoch 0 of the ledger (all of RelayHub.sol).                 *)
(***************************************************************************)
RefinesLedger == Ledger!Spec
=============================================================================
