------------------------- MODULE HubAgreementProofs -------------------------
(***************************************************************************)
(* Theorems about what the hub accepts and records (HubAgreement), for     *)
(* every set of headers and signatures in which honest validators follow   *)
(* the canonical branch.                                                   *)
(***************************************************************************)
EXTENDS RelayHubProofs, HubAgreement

-----------------------------------------------------------------------------
(***************************************************************************)
(* A quorum of a set that has no quorum without an honest member contains  *)
(* the seal or signature of an honest member.                              *)
(***************************************************************************)
LEMMA QuorumHasHonestMember ==
    ASSUME TypeInv, NEW c \in Chains, NEW e \in Epochs, NEW signers,
           \A i \in DOMAIN signers : signers[i] \in Accounts,
           QuorumReached(c, signers, e), HonestQuorums(c, e)
    PROVE  \E i \in DOMAIN signers : signers[i] \in Honest \intersect ActiveSet(c, e)
<1> DEFINE indexes == allValidators[c]
           Unique == UniqueIndexes(c, signers, e)
           Faulty == {v \in ActiveSet(c, e) \ Honest : indexes[v] - 1 \in Unique}
<1> SUFFICES ASSUME \A i \in DOMAIN signers : signers[i] \notin Honest \intersect ActiveSet(c, e)
             PROVE  FALSE
  OBVIOUS
<1>1. indexes \in [Accounts -> Nat] /\ activeValidators[c][e] \subseteq Nat
  BY DEF TypeInv, TypeOK
<1>2. ActiveSet(c, e) \subseteq Accounts
  BY <1>1 DEF ActiveSet, ExtractActiveValidators, Known
<1>3. IsFiniteSet(ActiveSet(c, e) \ Honest) /\ IsFiniteSet(Faulty)
  BY <1>2, AccountsAssumption, FS_Subset
<1>4. ASSUME NEW u \in Unique PROVE \E v \in Faulty : indexes[v] - 1 = u
  <2>1. PICK i \in DOMAIN signers : u = indexes[signers[i]] - 1 /\ u \in activeValidators[c][e]
    BY <1>4 DEF UniqueIndexes
  <2>2. signers[i] \in Accounts /\ indexes[signers[i]] # 0
    BY <1>1, <2>1
  <2>3. signers[i] \in ActiveSet(c, e)
    BY <1>1, <2>1, <2>2 DEF ActiveSet, ExtractActiveValidators, Known
  <2> QED
    BY <1>4, <2>1, <2>3
<1>5. [v \in Faulty |-> indexes[v] - 1] \in Surjection(Faulty, Unique)
  BY <1>4 DEF Surjection
<1>6. Cardinality(Unique) <= Cardinality(Faulty) /\ IsFiniteSet(Unique)
  BY <1>3, <1>5, FS_Surjection
<1>7. Cardinality(Faulty) <= Cardinality(ActiveSet(c, e) \ Honest)
  BY <1>3, FS_Subset
<1>8. /\ Cardinality(Unique) >= RequiredQuorum(validatorCount[c][e])
      /\ Cardinality(ActiveSet(c, e) \ Honest) < RequiredQuorum(validatorCount[c][e])
  BY DEF QuorumReached, HonestQuorums
<1>9. /\ Cardinality(Unique) \in Nat /\ Cardinality(Faulty) \in Nat
      /\ Cardinality(ActiveSet(c, e) \ Honest) \in Nat
      /\ RequiredQuorum(validatorCount[c][e]) \in Int
  BY <1>3, <1>6, FS_CardinalityType DEF RequiredQuorum, TypeInv, TypeOK
<1> HIDE DEF Unique, Faulty
<1> QED
  BY <1>6, <1>7, <1>8, <1>9

(***************************************************************************)
(* Linked headers one of which is canonical begin with a canonical one.    *)
(***************************************************************************)
LEMMA LinkedToCanonical ==
    ASSUME NEW c \in Chains, NEW proofs \in Seq(Headers), Linked(proofs),
           NEW i \in DOMAIN proofs, proofs[i] \in Canonical, proofs[i].chain = c
    PROVE  proofs[1] \in Canonical /\ proofs[1].chain = c
<1> DEFINE Good == {j \in DOMAIN proofs : proofs[j] \in Canonical /\ proofs[j].chain = c}
<1>1. DOMAIN proofs = 1 .. Len(proofs) /\ Len(proofs) \in Nat
  OBVIOUS
<1>2. Good # {} /\ Good \subseteq Nat
  BY <1>1
<1>3. PICK m \in Good : \A j \in Good : m <= j
  BY <1>2, LeastElement
<1>4. ASSUME m # 1 PROVE FALSE
  <2>1. m \in 2 .. Len(proofs) /\ m - 1 \in DOMAIN proofs /\ m - 1 < m
    BY <1>1, <1>3, <1>4
  <2>2. proofs[m].parentHash = proofs[m - 1].hash
    BY <2>1 DEF Linked
  <2>3. proofs[m - 1] \in Headers
    BY <2>1
  <2>4. proofs[m - 1] \in Canonical /\ proofs[m - 1].chain = c
    BY <1>3, <2>2, <2>3, BranchAssumption
  <2> QED
    BY <1>3, <2>1, <2>4
<1> QED
  BY <1>3, <1>4

(***************************************************************************)
(* Header sequences that reach the quorum of an honest enough set begin    *)
(* with a canonical header of the chain.                                   *)
(***************************************************************************)
LEMMA QuorumOfCanonicalBlock ==
    ASSUME TypeInv, NEW c \in Chains, NEW proofs \in BlockProofs, NEW n \in EpochLengths \ {0},
           BlocksReachQuorum(c, proofs, n), FirstEpoch(proofs, n) > 0,
           HonestQuorums(c, FirstEpoch(proofs, n) - 1)
    PROVE  proofs # <<>> /\ proofs[1] \in Canonical /\ proofs[1].chain = c
<1>1. /\ proofs \in Seq(Headers) /\ DOMAIN proofs = 1 .. Len(proofs) /\ Len(proofs) \in Nat
      /\ FirstEpoch(proofs, n) \in Epochs
  BY SubmittedProofs, ProofsType
<1>2. FirstEpoch(proofs, n) - 1 \in Epochs
  BY <1>1, HubAssumption DEF Epochs
<1>3. /\ BlocksVerified(c, proofs)
      /\ QuorumReached(c, Signers(proofs), FirstEpoch(proofs, n) - 1)
  BY DEF BlocksReachQuorum
<1>4. /\ DOMAIN Signers(proofs) = DOMAIN proofs
      /\ \A i \in DOMAIN proofs : Signers(proofs)[i] = Signer(proofs[i])
  BY DEF Signers
<1>5. \A i \in DOMAIN proofs : proofs[i] \in Headers /\ Signer(proofs[i]) \in Accounts
  BY <1>1, HeadersAssumption, AccountsAssumption DEF Signer, Header
<1>6. PICK i \in DOMAIN proofs : Signer(proofs[i]) \in Honest
  BY <1>2, <1>3, <1>4, <1>5, QuorumHasHonestMember
<1>7. proofs[i].number # 0 /\ proofs[i].number \in Nat /\ proofs[i].coinbase \in Honest
  BY <1>5, <1>6, HonestAssumption, HeadersAssumption DEF Signer, Header
<1>8. proofs[i].chain = c /\ proofs[i].sealer = proofs[i].coinbase
  BY <1>3, <1>7 DEF BlocksVerified, Sealed
<1>9. proofs[i] \in Canonical
  BY <1>5, <1>7, <1>8, HonestAssumption
<1>10. proofs # <<>>
  BY <1>1
<1> QED
  BY <1>1, <1>3, <1>8, <1>9, <1>10, LinkedToCanonical DEF BlocksVerified

(***************************************************************************)
(* checkReceiptProof accepts canonical blocks only (RelayHub.sol:380-395): *)
(* for every chain and every submitted sequence of headers, when the       *)
(* previous epoch's set has no quorum without an honest member.            *)
(***************************************************************************)
THEOREM AcceptedBlocksAlwaysCanonical == Spec => []AcceptedBlocksCanonical
<1>1. TypeInv => AcceptedBlocksCanonical
  <2> SUFFICES ASSUME TypeInv, NEW c \in Chains, NEW proofs \in BlockProofs,
                      BlockAccepted(c, proofs),
                      FirstEpoch(proofs, registeredChains[c].epochLength) > 0,
                      HonestQuorums(c, FirstEpoch(proofs, registeredChains[c].epochLength) - 1)
               PROVE  proofs[1] \in Canonical /\ proofs[1].chain = c
    BY DEF AcceptedBlocksCanonical
  <2>1. registeredChains[c].epochLength \in EpochLengths \ {0}
    BY DEF BlockAccepted, Registered, TypeInv, EpochLengthsKnown
  <2> QED
    BY <2>1, QuorumOfCanonicalBlock DEF BlockAccepted
<1>2. Init => TypeInv
  BY HubAssumption DEF Init, TypeInv, TypeOK, Chain, EpochLengthsKnown, Registered, Epochs
<1> QED
  BY <1>1, <1>2, NextKeepsType, PTL DEF Spec

-----------------------------------------------------------------------------
\* the signers that a checkpoint transition recovers
Recovered(h, checkpointHash, signatures) ==
    [i \in DOMAIN signatures |-> Recover(<<h.hash, checkpointHash>>, signatures[i])]

(***************************************************************************)
(* An honest account recovered from a checkpoint's signatures signed that  *)
(* checkpoint, and the header it stands for is a canonical epoch block.    *)
(***************************************************************************)
LEMMA HonestSignature ==
    ASSUME NEW h \in Headers, NEW k, NEW signatures \in SignatureLists,
           NEW i \in DOMAIN signatures, Recovered(h, k, signatures)[i] \in Honest
    PROVE  /\ signatures[i].root = <<h.hash, k>>
           /\ signatures[i].signer = Recovered(h, k, signatures)[i]
           /\ h \in Canonical /\ h.number > 0
           /\ \A n \in EpochLengths \ {0} : IsEpochBlock(h, n)
<1>1. Recovered(h, k, signatures)[i] = Recover(<<h.hash, k>>, signatures[i])
  BY DEF Recovered
<1>2. /\ signatures[i].root = <<h.hash, k>>
      /\ signatures[i].signer = Recovered(h, k, signatures)[i]
  BY <1>1, HonestAssumption DEF Recover
<1>3. PICK g \in Canonical : /\ g.hash = signatures[i].root[1] /\ g.number > 0
                             /\ \A n \in EpochLengths \ {0} : IsEpochBlock(g, n)
  BY <1>2, HonestAssumption
<1>4. g = h
  BY <1>2, <1>3, BranchAssumption
<1> QED
  BY <1>2, <1>3, <1>4

LEMMA RecoveredAccounts ==
    ASSUME NEW h, NEW k, NEW signatures \in SignatureLists
    PROVE  /\ DOMAIN Recovered(h, k, signatures) = DOMAIN signatures
           /\ DOMAIN signatures = 1 .. Len(signatures) /\ Len(signatures) \in Nat
           /\ \A i \in DOMAIN signatures : Recovered(h, k, signatures)[i] \in Accounts
<1>1. signatures \in Seq(Signature)
  BY HubAssumption
<1>2. \A i \in DOMAIN signatures : signatures[i] \in Signature
  BY <1>1
<1>3. \A i \in DOMAIN signatures : signatures[i].signer \in Accounts
  BY <1>2 DEF Signature
<1> QED
  BY <1>1, <1>3, AccountsAssumption DEF Recovered, Recover

-----------------------------------------------------------------------------
(***************************************************************************)
(* Every accepted checkpoint of a BAS chain carries the signature of an    *)
(* honest member of the previous epoch's set over it                       *)
(* (RelayHub.sol:333-347).                                                 *)
(***************************************************************************)
THEOREM CheckpointsAlwaysSigned == Spec => CheckpointsSigned
<1> DEFINE Signed ==
       \A c \in Chains, e \in Epochs \ {0} :
          /\ epochCheckpoints'[c][e] # epochCheckpoints[c][e]
          /\ registeredChains[c].chainType = "BAS" /\ HonestQuorums(c, e - 1)
          => \E signatures \in SignatureLists : \E i \in DOMAIN signatures :
                /\ signatures[i].signer \in ActiveSet(c, e - 1) \intersect Honest
                /\ \E h \in Canonical : /\ h.chain = c /\ EpochOf(c, h) = e
                                        /\ signatures[i].root = <<h.hash, epochCheckpoints'[c][e]>>
<1>1. HubInv /\ [Next]_vars => [Signed]_vars
  <2> SUFFICES ASSUME HubInv, Next, NEW c \in Chains, NEW e \in Epochs \ {0},
                      epochCheckpoints'[c][e] # epochCheckpoints[c][e],
                      registeredChains[c].chainType = "BAS", HonestQuorums(c, e - 1)
               PROVE  \E signatures \in SignatureLists : \E i \in DOMAIN signatures :
                         /\ signatures[i].signer \in ActiveSet(c, e - 1) \intersect Honest
                         /\ \E h \in Canonical : /\ h.chain = c /\ EpochOf(c, h) = e
                                                 /\ signatures[i].root = <<h.hash, epochCheckpoints'[c][e]>>
    OBVIOUS
  <2> DEFINE n == registeredChains[c].epochLength
  <2>1. epochCheckpoints \in [Chains -> [Epochs -> CheckpointHashes \union {NoCheckpoint}]]
    BY DEF HubInv, TypeInv, TypeOK
  <2>2. PICK d \in Chains : Register(d) \/ Transition(d)
    BY DEF Next
  <2>3. epochCheckpoints' # epochCheckpoints
    OBVIOUS
  <2>4. PICK h \in Headers, k \in CheckpointHashes, signatures \in SignatureLists :
           CheckpointTransition(d, h, k, signatures)
    <3>1. ~ Register(d)
      BY <2>3 DEF Register, RegisterCertifiedBAS, RegisterUsingCheckpoint, RegisterBAS, RegisterBSC, RegisterChain
    <3>2. \A proofs \in BlockProofs : \A latest : ~ ProvenTransition(d, proofs, latest)
      BY <2>3 DEF ProvenTransition, ValidatorTransition
    <3> QED
      BY <2>2, <3>1, <3>2, TransitionKinds
  <2>5. d = c /\ e = h.number \div n /\ epochCheckpoints'[c][e] = k
    BY <2>1, <2>4 DEF CheckpointTransition
  <2>6. Sealed(c, h) /\ QuorumReached(c, Recovered(h, k, signatures), e - 1)
    BY <2>4, <2>5 DEF CheckpointTransition, Recovered
  <2>7. e - 1 \in Epochs
    BY HubAssumption DEF Epochs
  <2>8. PICK i \in DOMAIN signatures :
           Recovered(h, k, signatures)[i] \in Honest \intersect ActiveSet(c, e - 1)
    BY <2>6, <2>7, RecoveredAccounts, QuorumHasHonestMember DEF HubInv
  <2>9. /\ signatures[i].root = <<h.hash, k>> /\ h \in Canonical /\ h.number > 0
        /\ signatures[i].signer \in ActiveSet(c, e - 1) \intersect Honest
    BY <2>8, HonestSignature
  <2>10. h.chain = c
    BY <2>6, <2>9 DEF Sealed
  <2> QED
    BY <2>5, <2>9, <2>10 DEF EpochOf
<1> QED
  BY <1>1, HubInvHolds, PTL DEF Spec, CheckpointsSigned

\* What HistoryChanged(c) rules out: steps of other chains and stuttering.
LEMMA OtherChainsUnchanged ==
    ASSUME HubInv, NEW d \in Chains, Register(d) \/ Transition(d), NEW c \in Chains, c # d
    PROVE  ~ HistoryChanged(c)
<1>1. PICK list \in Seq(Accounts), epoch \in Epochs, latest \in Nat :
         UpdateActiveValidatorSet(d, list, epoch, latest)
  BY StepRecords DEF HubInv
<1>2. /\ registeredChains \in [Chains -> Chain] /\ latestKnownEpoch \in [Chains -> Epochs]
  BY DEF HubInv, TypeInv, TypeOK
<1>3. latestKnownEpoch'[c] = latestKnownEpoch[c]
  BY <1>1, <1>2 DEF UpdateActiveValidatorSet
<1>4. \A e \in Epochs : SameSet(c, e)
  BY <1>1, RecordingKeepsOthers
<1>5. \/ \E new : registeredChains' = [registeredChains EXCEPT ![d] = new]
      \/ registeredChains' = [registeredChains EXCEPT ![d].chainStatus = "Active"]
  BY TransitionActivates DEF Register, RegisterCertifiedBAS, RegisterUsingCheckpoint, RegisterBAS,
         RegisterBSC, RegisterChain, Activate
<1>6. registeredChains'[c] = registeredChains[c]
  BY <1>2, <1>5
<1> QED
  BY <1>3, <1>4, <1>6 DEF HistoryChanged

(***************************************************************************)
(* The header of an accepted checkpoint of epoch e > 0 is canonical: an    *)
(* honest member of the previous set, or an honest staker, signed it.      *)
(***************************************************************************)
LEMMA CheckpointedHeaderCanonical ==
    ASSUME HubInv, NEW c \in Chains, NEW h \in Headers, NEW k \in CheckpointHashes,
           NEW signatures \in SignatureLists, CheckpointTransition(c, h, k, signatures),
           h.number \div registeredChains[c].epochLength \in Epochs \ {0},
           registeredChains[c].chainType = "BSC" => HonestStakers,
           HonestQuorums(c, h.number \div registeredChains[c].epochLength - 1)
    PROVE  /\ h \in Canonical /\ h.chain = c
           /\ \A n \in EpochLengths \ {0} : IsEpochBlock(h, n)
<1> DEFINE e == h.number \div registeredChains[c].epochLength
           signers == Recovered(h, k, signatures)
<1>1. /\ DOMAIN signers = 1 .. Len(signatures) /\ DOMAIN signatures = 1 .. Len(signatures)
      /\ Len(signatures) \in Nat /\ \A i \in DOMAIN signers : signers[i] \in Accounts
  BY RecoveredAccounts
<1>2. /\ Sealed(c, h)
      /\ \/ /\ registeredChains[c].chainType = "BSC"
            /\ Listed(signers) \subseteq StakingValidators
            /\ Len(signatures) >= Cardinality(StakingValidators)
         \/ QuorumReached(c, signers, e - 1)
  BY DEF CheckpointTransition, Recovered
<1>3. e - 1 \in Epochs
  BY HubAssumption DEF Epochs
<1> HIDE DEF signers, e
<1>4. \E i \in DOMAIN signers : signers[i] \in Honest
  <2>1. CASE QuorumReached(c, signers, e - 1)
    BY <1>1, <1>3, <2>1, QuorumHasHonestMember DEF HubInv, e
  <2>2. CASE /\ registeredChains[c].chainType = "BSC"
             /\ Listed(signers) \subseteq StakingValidators
             /\ Len(signatures) >= Cardinality(StakingValidators)
    <3>1. IsFiniteSet(StakingValidators) /\ Cardinality(StakingValidators) \in Nat
      BY HubAssumption, AccountsAssumption, FS_Subset, FS_CardinalityType
    <3>2. StakingValidators # {} /\ StakingValidators \subseteq Honest
      BY <2>2 DEF HonestStakers
    <3>3. Cardinality(StakingValidators) # 0
      BY <3>1, <3>2, FS_EmptySet
    <3>4. 1 \in DOMAIN signers
      BY <1>1, <2>2, <3>1, <3>3
    <3> QED
      BY <2>2, <3>2, <3>4 DEF Listed
  <2> QED
    BY <1>2, <2>1, <2>2
<1>5. /\ h \in Canonical /\ h.number > 0
      /\ \A n \in EpochLengths \ {0} : IsEpochBlock(h, n)
  BY <1>1, <1>4, HonestSignature DEF signers
<1> QED
  BY <1>2, <1>5 DEF Sealed

(***************************************************************************)
(* Every transition to an epoch past 0 records the list of the canonical   *)
(* epoch block of that epoch, when the previous epoch's set (and, for a    *)
(* BSC chain, the staking contract's) is honest enough                     *)
(* (RelayHub.sol:254-263 and 309-352).                                     *)
(***************************************************************************)
THEOREM TransitionsAlwaysCanonical == Spec => TransitionsCanonical
<1> DEFINE Recorded ==
       \A c \in Chains, e \in Epochs \ {0} :
          /\ registeredChains'[c].chainStatus = "Active"
          /\ registeredChains[c].chainType = "BSC" => HonestStakers
          /\ e = latestKnownEpoch'[c] /\ HistoryChanged(c) /\ HonestQuorums(c, e - 1)
          => \E h \in Canonical :
                /\ h.chain = c /\ h.number = e * registeredChains[c].epochLength
                /\ Listed(h.validators) = ActiveSet(c, e)'
<1>1. HubInv /\ [Next]_vars => [Recorded]_vars
  <2> SUFFICES ASSUME HubInv, Next, NEW c \in Chains, NEW e \in Epochs \ {0},
                      registeredChains'[c].chainStatus = "Active",
                      registeredChains[c].chainType = "BSC" => HonestStakers,
                      e = latestKnownEpoch'[c], HistoryChanged(c), HonestQuorums(c, e - 1)
               PROVE  \E h \in Canonical :
                         /\ h.chain = c /\ h.number = e * registeredChains[c].epochLength
                         /\ Listed(h.validators) = ActiveSet(c, e)'
    OBVIOUS
  <2> DEFINE n == registeredChains[c].epochLength
  <2>1. /\ registeredChains \in [Chains -> Chain] /\ latestKnownEpoch \in [Chains -> Epochs]
    BY DEF HubInv, TypeInv, TypeOK
  <2>2. PICK d \in Chains : Register(d) \/ Transition(d)
    BY DEF Next
  <2>3. d = c
    BY <2>2, OtherChainsUnchanged
  <2>4. CASE Register(c)
    <3>1. registeredChains'[c].chainStatus = "Verifying"
      BY <2>1, <2>4 DEF Register, RegisterCertifiedBAS, RegisterUsingCheckpoint, RegisterBAS,
            RegisterBSC, RegisterChain
    <3> QED
      BY <3>1
  <2>5. ASSUME Transition(c) PROVE n \in EpochLengths \ {0} /\ n \in Nat \ {0}
    BY <2>5, HubAssumption, TransitionActivates DEF HubInv, TypeInv, EpochLengthsKnown
  <2>6. ASSUME NEW proofs \in BlockProofs, NEW latest, ProvenTransition(c, proofs, latest), Transition(c)
        PROVE  \E h \in Canonical : /\ h.chain = c /\ h.number = e * n
                                    /\ Listed(h.validators) = ActiveSet(c, e)'
    <3>1. /\ BlocksReachQuorum(c, proofs, n) /\ FirstNumber(proofs) % n = 0
          /\ UpdateActiveValidatorSet(c, NewValidatorSet(proofs, n), FirstEpoch(proofs, n), latest)
      BY <2>6 DEF ProvenTransition, ValidatorTransition
    <3>2. e = FirstEpoch(proofs, n)
      BY <2>1, <3>1 DEF UpdateActiveValidatorSet
    <3>3. e > 0
      BY HubAssumption DEF Epochs
    <3>4. proofs # <<>> /\ proofs[1] \in Canonical /\ proofs[1].chain = c
      BY <2>5, <2>6, <3>1, <3>2, <3>3, QuorumOfCanonicalBlock DEF HubInv
    <3>5. proofs[1] \in Headers /\ proofs[1].number \in Nat
      BY <3>4, BranchAssumption, HeadersAssumption DEF Header
    <3>6. proofs[1].number % n = 0 /\ e = proofs[1].number \div n
      BY <3>1, <3>2, <3>4 DEF FirstNumber, FirstEpoch
    <3>7. NewValidatorSet(proofs, n) = proofs[1].validators
      BY <3>4, <3>6 DEF NewValidatorSet, ParsedValidators, IsEpochBlock
    <3>8. ActiveSet(c, e)' = Listed(proofs[1].validators)
      BY <2>5, <2>6, <3>1, <3>2, <3>7, SubmittedProofs, ProofsType, RecordedSet
    <3> QED
      BY <2>5, <2>6, <3>4, <3>5, <3>6, <3>8, Multiple
  <2>8. ASSUME NEW h \in Headers, NEW k \in CheckpointHashes, NEW signatures \in SignatureLists,
               CheckpointTransition(c, h, k, signatures), Transition(c)
        PROVE  \E g \in Canonical : /\ g.chain = c /\ g.number = e * n
                                    /\ Listed(g.validators) = ActiveSet(c, e)'
    <3>1. UpdateActiveValidatorSet(c, ParsedValidators(h, n), h.number \div n, latestKnownEpoch[c])
      BY <2>8 DEF CheckpointTransition
    <3>2. e = h.number \div n
      BY <2>1, <3>1 DEF UpdateActiveValidatorSet
    <3>3. h \in Canonical /\ h.chain = c /\ IsEpochBlock(h, n)
      BY <2>5, <2>8, <3>2, CheckpointedHeaderCanonical
    <3>4. ActiveSet(c, e)' = Listed(h.validators)
      BY <2>5, <2>8, <3>1, <3>2, <3>3, HeaderType, RecordedSet DEF ParsedValidators
    <3>5. h.number \in Nat /\ h.number % n = 0
      BY <3>3, HeadersAssumption DEF Header, IsEpochBlock
    <3> QED
      BY <2>5, <2>8, <3>2, <3>3, <3>4, <3>5, Multiple
  <2> QED
    BY <2>2, <2>3, <2>4, <2>6, <2>8, TransitionKinds
<1> QED
  BY <1>1, HubInvHolds, PTL DEF Spec, TransitionsCanonical

-----------------------------------------------------------------------------
\* canonical headers are sealed by the coinbase they name
CanonicalSealed == \A h \in Canonical : h.number = 0 \/ h.sealer = h.coinbase

(***************************************************************************)
(* When the listed accounts fit one bitmap word, the proof the relayer     *)
(* builds is never refused: neither the quorum check nor the recording     *)
(* panics (RelayHub.sol:187-200, 354-378; relayer/proof.go:27-73).         *)
(***************************************************************************)
THEOREM CanonicalProofAlwaysAccepted ==
    ASSUME OneWord, CanonicalSealed PROVE Spec => []CanonicalProofAccepted
<1>1. QuorumInv => CanonicalProofAccepted
  <2> SUFFICES ASSUME QuorumInv, NEW c \in Chains, NEW proofs \in BlockProofs, Registered(c),
                      proofs # <<>>, Linked(proofs),
                      FirstNumber(proofs) = (latestKnownEpoch[c] + 1) * registeredChains[c].epochLength,
                      \A i \in DOMAIN proofs : proofs[i] \in Canonical /\ proofs[i].chain = c,
                      3 * Cardinality(Listed(Signers(proofs)) \intersect ActiveSet(c, latestKnownEpoch[c]))
                        >= 2 * validatorCount[c][latestKnownEpoch[c]]
               PROVE  /\ BlocksReachQuorum(c, proofs, registeredChains[c].epochLength)
                      /\ Recordable(c, NewValidatorSet(proofs, registeredChains[c].epochLength),
                                    latestKnownEpoch[c] + 1, latestKnownEpoch[c])
    BY DEF CanonicalProofAccepted
  <2> DEFINE n == registeredChains[c].epochLength
             latest == latestKnownEpoch[c]
  <2>1. n \in EpochLengths \ {0} /\ n \in Nat \ {0} /\ latest \in Epochs /\ latest \in Nat
    <3>1. n \in EpochLengths \ {0}
      BY DEF QuorumInv, HubInv, TypeInv, EpochLengthsKnown
    <3>2. latest \in Epochs
      BY DEF QuorumInv, HubInv, TypeInv, TypeOK
    <3>3. n \in Nat \ {0}
      BY <3>1, HubAssumption
    <3>4. latest \in Nat
      BY <3>2, HubAssumption DEF Epochs
    <3> QED
      BY <3>1, <3>2, <3>3, <3>4
  <2>2. FirstEpoch(proofs, n) = latest + 1
    BY <2>1, FirstBlockOfEpoch, latest + 1 \in Nat DEF FirstEpoch
  <2>3. FirstEpoch(proofs, n) - 1 = latest /\ latest + 1 - 1 = latest
    BY <2>1, <2>2
  <2>4. BlocksVerified(c, proofs)
    BY DEF BlocksVerified, Sealed, CanonicalSealed
  <2>5. QuorumReached(c, Signers(proofs), latest)
    <3> DEFINE seals == Listed(Signers(proofs)) \intersect ActiveSet(c, latest)
    <3>1. Cardinality(seals) \in Nat
      BY <2>1, MembersCount, FS_Subset, FS_CardinalityType, seals \subseteq ActiveSet(c, latest)
          DEF QuorumInv
    <3>2. validatorCount[c][latest] \in Nat /\ 3 * Cardinality(seals) >= 2 * validatorCount[c][latest]
      BY <2>1 DEF QuorumInv, HubInv, TypeInv, TypeOK
    <3> HIDE DEF seals
    <3>3. Cardinality(seals) >= RequiredQuorum(validatorCount[c][latest])
      BY <3>1, <3>2 DEF RequiredQuorum
    <3> QED
      BY <2>1, <3>3, SealsAreQuorum DEF seals
  <2>6. BlocksReachQuorum(c, proofs, n)
    BY <2>3, <2>4, <2>5 DEF BlocksReachQuorum
  <2>7. NewValidatorSet(proofs, n) \in Seq(Accounts) \intersect HeaderLists
    BY <2>1, SubmittedProofs, ProofsType, ParsedLists
  <2>8. EpochFollows(latest, latest + 1)
    BY DEF EpochFollows
  <2>9. Recordable(c, NewValidatorSet(proofs, n), latest + 1, latest)
    BY <2>7, <2>8, RoomForList DEF Recordable
  <2> QED
    BY <2>6, <2>9
<1> QED
  BY <1>1, QuorumInvHolds, PTL

-----------------------------------------------------------------------------
(***************************************************************************)
(* The hub implements EpochLedger, for every set of chains, accounts,      *)
(* headers, signatures and stakers.                                        *)
(***************************************************************************)
-----------------------------------------------------------------------------
(***************************************************************************)
(* Nobody holds the zero address, and no header lists it, so a signature   *)
(* of something else never counts.                                         *)
(***************************************************************************)
NobodyListed == \A c \in Chains, e \in Epochs : NoAccount \notin ActiveSet(c, e)

LedgerInv == HubInv /\ NobodyListed

LEMMA RecordingKeepsNobody ==
    ASSUME LedgerInv, NEW c \in Chains, NEW list \in Seq(Accounts), NEW epoch \in Epochs,
           NEW latest, UpdateActiveValidatorSet(c, list, epoch, latest), NoAccount \notin Listed(list)
    PROVE  NobodyListed'
<1> SUFFICES ASSUME NEW d \in Chains, NEW e \in Epochs PROVE NoAccount \notin ActiveSet(d, e)'
  BY DEF NobodyListed
<1>1. CASE d = c /\ e = epoch
  BY <1>1, RecordedSet DEF LedgerInv
<1>2. CASE d # c \/ e # epoch
  <2>1. SameSet(d, e)
    BY <1>2, RecordingKeepsOthers DEF LedgerInv
  <2> QED
    BY <2>1 DEF SameSet, LedgerInv, NobodyListed
<1> QED
  BY <1>1, <1>2

LEMMA StepKeepsNobody == LedgerInv /\ [Next]_vars => NobodyListed'
<1> SUFFICES ASSUME LedgerInv, [Next]_vars PROVE NobodyListed'
  OBVIOUS
<1>1. CASE UNCHANGED vars
  <2>1. \A c \in Chains, e \in Epochs : SameSet(c, e)
    BY <1>1, StutteringKeepsSets
  <2> QED
    BY <2>1 DEF SameSet, LedgerInv, NobodyListed
<1>2. CASE Next
  <2>1. PICK c \in Chains, list \in Seq(Accounts) \intersect HeaderLists, epoch \in Epochs :
           \E latest : UpdateActiveValidatorSet(c, list, epoch, latest)
    BY <1>2, StepRecordsList DEF LedgerInv
  <2>2. NoAccount \notin Listed(list)
    BY HonestAssumption DEF HeaderLists, Listed
  <2> QED
    BY <2>1, <2>2, RecordingKeepsNobody
<1> QED
  BY <1>1, <1>2

LEMMA LedgerInvHolds == Spec => []LedgerInv
<1>1. ASSUME Init PROVE NobodyListed
  BY <1>1 DEF Init, NobodyListed, ActiveSet, ExtractActiveValidators
<1>2. LedgerInv /\ [Next]_vars => NobodyListed'
  BY StepKeepsNobody
<1>3. LedgerInv <=> HubInv /\ NobodyListed
  BY DEF LedgerInv
<1> QED
  BY <1>1, <1>2, <1>3, HubInvHolds, PTL DEF Spec

-----------------------------------------------------------------------------
(***************************************************************************)
(* Recording a list in the hub records its members in the ledger.          *)
(***************************************************************************)
LEMMA SetInLedger ==
    ASSUME HubInv, NEW c \in Chains, NEW list \in Seq(Accounts), NEW epoch \in Epochs,
           NEW latest, UpdateActiveValidatorSet(c, list, epoch, latest)
    PROVE  /\ LedgerSets' = [LedgerSets EXCEPT ![c][epoch] = Listed(list)]
           /\ latestKnownEpoch' = [latestKnownEpoch EXCEPT ![c] = epoch]
<1>1. latestKnownEpoch' = [latestKnownEpoch EXCEPT ![c] = epoch]
  BY DEF UpdateActiveValidatorSet
<1>2. ActiveSet(c, epoch)' = Listed(list)
  BY RecordedSet
<1>3. ASSUME NEW d \in Chains, NEW e \in Epochs, d # c \/ e # epoch
      PROVE  ActiveSet(d, e)' = ActiveSet(d, e)
  BY <1>3, RecordingKeepsOthers DEF SameSet
<1>4. LedgerSets' = [d \in Chains |-> [e \in Epochs |-> ActiveSet(d, e)']]
  BY DEF LedgerSets
<1>5. LedgerSets' = [LedgerSets EXCEPT ![c][epoch] = Listed(list)]
  BY <1>2, <1>3, <1>4 DEF LedgerSets
<1> QED
  BY <1>1, <1>5

LEMMA RecordsInLedger ==
    ASSUME HubInv, NEW c \in Chains, NEW list \in Seq(Accounts), NEW epoch \in Epochs,
           NEW latest, UpdateActiveValidatorSet(c, list, epoch, latest),
           EpochFollows(latestKnownEpoch[c], epoch)
    PROVE  Ledger!Record(c, epoch, Listed(list))
<1>1. latestKnownEpoch[c] > 0 /\ epoch > 0 => epoch = latestKnownEpoch[c] + 1
  BY DEF EpochFollows
<1> QED
  BY <1>1, SetInLedger DEF Ledger!Record

LEMMA RecordableFollows ==
    ASSUME NEW c, NEW list, NEW epoch, NEW latest, UpdateActiveValidatorSet(c, list, epoch, latest)
    PROVE  EpochFollows(latest, epoch)
BY DEF UpdateActiveValidatorSet, Recordable

\* A transition certifies the chain and leaves its type and epoch length.
LEMMA CertifiesInLedger ==
    ASSUME HubInv, NEW c \in Chains, Activate(c)
    PROVE  /\ LedgerPhase' = [LedgerPhase EXCEPT ![c] = "Certified"]
           /\ LedgerHome' = LedgerHome /\ LedgerPeriod' = LedgerPeriod
<1>1. /\ registeredChains \in [Chains -> Chain]
      /\ registeredChains' = [registeredChains EXCEPT ![c].chainStatus = "Active"]
  BY DEF HubInv, TypeInv, TypeOK, Activate
<1>2. \A d \in Chains : /\ registeredChains'[d].chainType = registeredChains[d].chainType
                        /\ registeredChains'[d].epochLength = registeredChains[d].epochLength
                        /\ registeredChains'[d].chainStatus =
                              IF d = c THEN "Active" ELSE registeredChains[d].chainStatus
  BY <1>1 DEF Chain
<1>3. PhaseOf("Active") = "Certified"
  BY DEF PhaseOf
<1>4. LedgerPhase' = [d \in Chains |-> PhaseOf(registeredChains'[d].chainStatus)]
  BY DEF LedgerPhase, PhaseOf
<1>5. LedgerPhase' = [LedgerPhase EXCEPT ![c] = "Certified"]
  BY <1>2, <1>3, <1>4 DEF LedgerPhase
<1> QED
  BY <1>2, <1>5 DEF LedgerHome, LedgerPeriod

LEMMA RegistersInLedger ==
    ASSUME HubInv, NEW c \in Chains, NEW h \in Headers, NEW n \in EpochLengths,
           NEW vf, NEW chainType \in {"BSC", "BAS"}, NEW bridge,
           RegisterChain(c, vf, h, chainType, bridge, n)
    PROVE  Ledger!Anchor(c)
<1>1. n \in EpochLengths \ {0} /\ Registrable(c)
  BY HubAssumption DEF RegisterChain
<1>2. UpdateActiveValidatorSet(c, ParsedValidators(h, n), h.number \div n, latestKnownEpoch[c])
  BY DEF RegisterChain
<1>3. Ledger!Record(c, h.number \div n, Listed(ParsedValidators(h, n)))
  BY <1>1, <1>2, HeaderType, RecordableFollows, RecordsInLedger
<1>4. Listed(ParsedValidators(h, n)) = Ledger!ListedIn(h, n)
  BY DEF Listed, ParsedValidators, IsEpochBlock, Ledger!ListedIn
<1>5. /\ registeredChains \in [Chains -> Chain]
      /\ registeredChains' = [registeredChains EXCEPT ![c] =
            [chainStatus |-> "Verifying", chainType |-> chainType, verificationFunction |-> vf,
             bridgeAddress |-> bridge, epochLength |-> n]]
  BY DEF HubInv, TypeInv, TypeOK, RegisterChain
<1>6. /\ PhaseOf("Verifying") = "Trusted" /\ PhaseOf("NotFound") = "Unknown"
  BY DEF PhaseOf
<1>7. LedgerPhase[c] # "Certified"
  BY <1>1, <1>6 DEF Registrable, LedgerPhase
<1>8. LedgerPhase' = [d \in Chains |-> PhaseOf(registeredChains'[d].chainStatus)]
  BY DEF LedgerPhase, PhaseOf
<1>9. LedgerPhase' = [LedgerPhase EXCEPT ![c] = "Trusted"]
  BY <1>5, <1>6, <1>8 DEF LedgerPhase
<1>10. LedgerHome' = [LedgerHome EXCEPT ![c] = (chainType = "BSC")]
  BY <1>5 DEF LedgerHome
<1>11. LedgerPeriod' = [LedgerPeriod EXCEPT ![c] = n]
  BY <1>5 DEF LedgerPeriod
<1>12. (chainType = "BSC") \in BOOLEAN
  OBVIOUS
<1> QED
  BY <1>1, <1>3, <1>4, <1>7, <1>9, <1>10, <1>11, <1>12 DEF Ledger!Anchor

\* EpochLedger counts as the hub does
LEMMA SameCardinality == ASSUME NEW S PROVE Ledger!Cardinality(S) = Cardinality(S)
BY DEF Ledger!Cardinality, Cardinality

LEMMA QuorumIsTwoThirds ==
    ASSUME HubInv, NEW c \in Chains, NEW e \in Epochs, NEW signers, NEW approvers,
           \A i \in DOMAIN signers : signers[i] \in Accounts,
           \A i \in DOMAIN signers : signers[i] \in ActiveSet(c, e) => signers[i] \in approvers,
           QuorumReached(c, signers, e)
    PROVE  Ledger!TwoThirds(approvers, LedgerSets[c][e])
<1> DEFINE indexes == allValidators[c]
           Unique == UniqueIndexes(c, signers, e)
           Members == approvers \intersect ActiveSet(c, e)
           Seen == {v \in Members : indexes[v] - 1 \in Unique}
<1>1. /\ indexes \in [Accounts -> Nat] /\ activeValidators[c][e] \subseteq Nat
      /\ validatorCount[c][e] \in Nat
  BY DEF HubInv, TypeInv, TypeOK
<1>2. IsFiniteSet(Members) /\ IsFiniteSet(Seen) /\ Cardinality(Seen) <= Cardinality(Members)
  <2>1. IsFiniteSet(ActiveSet(c, e))
    BY MembersCount
  <2>2. IsFiniteSet(Members)
    BY <2>1, FS_Subset, Members \subseteq ActiveSet(c, e)
  <2> QED
    BY <2>2, FS_Subset, Seen \subseteq Members
<1>3. ASSUME NEW u \in Unique PROVE \E v \in Seen : indexes[v] - 1 = u
  <2>1. PICK i \in DOMAIN signers : u = indexes[signers[i]] - 1 /\ u \in activeValidators[c][e]
    BY <1>3 DEF UniqueIndexes
  <2>2. signers[i] \in Accounts /\ indexes[signers[i]] # 0
    BY <1>1, <2>1
  <2>3. signers[i] \in ActiveSet(c, e)
    BY <1>1, <2>1, <2>2 DEF ActiveSet, ExtractActiveValidators, Known
  <2> QED
    BY <1>3, <2>1, <2>3
<1>4. [v \in Seen |-> indexes[v] - 1] \in Surjection(Seen, Unique)
  BY <1>3 DEF Surjection
<1>5. Cardinality(Unique) <= Cardinality(Seen) /\ IsFiniteSet(Unique)
  BY <1>2, <1>4, FS_Surjection
<1>6. /\ Cardinality(Unique) \in Nat /\ Cardinality(Seen) \in Nat /\ Cardinality(Members) \in Nat
  BY <1>2, <1>5, FS_CardinalityType
<1>7. Cardinality(Unique) >= (validatorCount[c][e] * 2) \div 3
  BY DEF QuorumReached, RequiredQuorum
<1>8. (Cardinality(ActiveSet(c, e)) * 2) \div 3 <= (validatorCount[c][e] * 2) \div 3
  <2>1. /\ Cardinality(ActiveSet(c, e)) \in Nat
        /\ Cardinality(ActiveSet(c, e)) <= validatorCount[c][e]
    BY MembersCount
  <2>2. /\ Cardinality(ActiveSet(c, e)) * 2 \in Nat /\ validatorCount[c][e] * 2 \in Nat
        /\ Cardinality(ActiveSet(c, e)) * 2 <= validatorCount[c][e] * 2
    BY <1>1, <2>1
  <2> QED
    BY <2>2, DivMonotone, 3 \in Nat \ {0}
<1>9. /\ (Cardinality(ActiveSet(c, e)) * 2) \div 3 \in Int /\ (validatorCount[c][e] * 2) \div 3 \in Int
  BY <1>1, MembersCount
<1> HIDE DEF Unique, Seen, Members
<1>10. Cardinality(Members) >= (Cardinality(ActiveSet(c, e)) * 2) \div 3
  BY <1>2, <1>5, <1>6, <1>7, <1>8, <1>9
<1>11. LedgerSets[c][e] = ActiveSet(c, e)
  BY DEF LedgerSets
<1> QED
  BY <1>10, <1>11, SameCardinality DEF Ledger!TwoThirds, Members

\* A registered chain is known to the ledger, with the hub's type and epoch length.
LEMMA RegisteredInLedger ==
    ASSUME HubInv, NEW c \in Chains, Registered(c)
    PROVE  /\ LedgerPhase[c] # "Unknown"
           /\ LedgerHome[c] = (registeredChains[c].chainType = "BSC")
           /\ LedgerPeriod[c] = registeredChains[c].epochLength
           /\ registeredChains[c].epochLength \in EpochLengths \ {0}
           /\ registeredChains[c].epochLength \in Nat \ {0}
<1>1. PhaseOf("Verifying") = "Trusted" /\ PhaseOf("Active") = "Certified"
  BY DEF PhaseOf
<1>2. LedgerPhase[c] # "Unknown"
  BY <1>1 DEF Registered, LedgerPhase
<1>3. registeredChains[c].epochLength \in EpochLengths \ {0}
  BY DEF HubInv, TypeInv, EpochLengthsKnown
<1> QED
  BY <1>2, <1>3, HubAssumption DEF LedgerHome, LedgerPeriod

(***************************************************************************)
(* A header whose list the hub records for epoch 0 restarts the ledger,    *)
(* one it records for a later epoch advances it if it was approved.        *)
(***************************************************************************)
LEMMA HeaderStepsLedger ==
    ASSUME HubInv, NEW c \in Chains, Registered(c), Activate(c), NEW h \in Headers, NEW latest,
           UpdateActiveValidatorSet(c, ParsedValidators(h, registeredChains[c].epochLength),
                                    h.number \div registeredChains[c].epochLength, latest),
           EpochFollows(latestKnownEpoch[c], h.number \div registeredChains[c].epochLength),
           h.number \div registeredChains[c].epochLength > 0 => h.chain = c /\ Ledger!Approved(c, h)
    PROVE  Ledger!Advance(c) \/ Ledger!Restart(c)
<1> DEFINE n == registeredChains[c].epochLength
           e == h.number \div n
<1>1. /\ n \in EpochLengths \ {0} /\ n \in Nat \ {0} /\ LedgerPeriod[c] = n
      /\ LedgerPhase[c] # "Unknown"
  BY RegisteredInLedger
<1>2. e \in Epochs /\ ParsedValidators(h, n) \in Seq(Accounts) /\ h.number \in Nat
  BY <1>1, HeaderType DEF Header
<1>3. Ledger!Record(c, e, Listed(ParsedValidators(h, n)))
  BY <1>2, RecordsInLedger
<1>4. Listed(ParsedValidators(h, n)) = Ledger!ListedIn(h, n)
  BY DEF Listed, ParsedValidators, IsEpochBlock, Ledger!ListedIn
<1>5. /\ LedgerPhase' = [LedgerPhase EXCEPT ![c] = "Certified"]
      /\ LedgerHome' = LedgerHome /\ LedgerPeriod' = LedgerPeriod
  BY CertifiesInLedger
<1>6. CASE e > 0
  <2>1. h.chain = c /\ Ledger!Approved(c, h)
    BY <1>6
  <2> QED
    BY <1>1, <1>3, <1>4, <1>5, <2>1 DEF Ledger!Advance
<1>7. CASE e = 0
  <2>1. h.number < n
    BY <1>1, <1>2, <1>7, QuotientZero
  <2>2. Ledger!Record(c, 0, Ledger!ListedIn(h, LedgerPeriod[c]))
    BY <1>1, <1>3, <1>4, <1>7
  <2> QED
    BY <1>1, <1>5, <2>1, <2>2 DEF Ledger!Restart
<1>8. e > 0 \/ e = 0
  BY <1>2, HubAssumption DEF Epochs
<1> QED
  BY <1>6, <1>7, <1>8

\* Recording an empty list for epoch 0 restarts the ledger.
LEMMA EmptyListStepsLedger ==
    ASSUME HubInv, NEW c \in Chains, Registered(c), Activate(c), NEW latest,
           UpdateActiveValidatorSet(c, <<>>, 0, latest)
    PROVE  Ledger!Restart(c)
<1>1. <<>> \in Seq(Accounts) /\ 0 \in Epochs /\ EpochFollows(latestKnownEpoch[c], 0)
  BY HubAssumption DEF Epochs, EpochFollows
<1>2. Ledger!Record(c, 0, Listed(<<>>))
  BY <1>1, RecordsInLedger
<1>3. Listed(<<>>) = {}
  BY DEF Listed
<1>4. Ledger!Record(c, 0, {})
  BY <1>2, <1>3
<1> QED
  BY <1>4, RegisteredInLedger, CertifiesInLedger DEF Ledger!Restart

-----------------------------------------------------------------------------
(***************************************************************************)
(* The signers of submitted headers approved the first of them.            *)
(***************************************************************************)
LEMMA ProvenStepsLedger ==
    ASSUME HubInv, NEW c \in Chains, NEW proofs \in BlockProofs, NEW latest,
           ProvenTransition(c, proofs, latest)
    PROVE  Ledger!Advance(c) \/ Ledger!Restart(c) \/ Ledger!PassOver(c)
<1> DEFINE n == registeredChains[c].epochLength
           e == FirstEpoch(proofs, n)
<1>1. /\ Registered(c) /\ Activate(c) /\ BlocksVerified(c, proofs)
      /\ e > 0 => QuorumReached(c, Signers(proofs), e - 1)
      /\ UpdateActiveValidatorSet(c, NewValidatorSet(proofs, n), e, latest)
      /\ FirstNumber(proofs) % n = 0
  BY DEF ProvenTransition, ValidatorTransition, BlocksReachQuorum
<1>2. n \in EpochLengths \ {0} /\ n \in Nat \ {0} /\ LedgerPeriod[c] = n
  BY <1>1, RegisteredInLedger
<1>3. proofs \in Seq(Headers) /\ e \in Epochs
  BY <1>2, SubmittedProofs, ProofsType
<1>4. CASE proofs = <<>>
  <2>1. 0 \div n = 0
    BY <1>2
  <2>2. NewValidatorSet(proofs, n) = <<>> /\ e = 0
    BY <1>4, <2>1 DEF NewValidatorSet, FirstEpoch, FirstNumber
  <2>3. UpdateActiveValidatorSet(c, <<>>, 0, latest)
    BY <1>1, <2>2
  <2> QED
    BY <1>1, <2>3, EmptyListStepsLedger
<1>5. CASE proofs # <<>>
  <2> DEFINE h == proofs[1]
  <2>1. h \in Headers /\ h.number \in Nat /\ 1 \in DOMAIN proofs
    BY <1>3, <1>5, HeadersAssumption DEF Header
  <2>2. NewValidatorSet(proofs, n) = ParsedValidators(h, n) /\ e = h.number \div n
    BY <1>5 DEF NewValidatorSet, FirstEpoch, FirstNumber
  <2>3. ASSUME e > 0
        PROVE  h.chain = c /\ Ledger!TwoThirds(HeaderApprovers[h], LedgerSets[c][e - 1])
    <3>1. h.number > 0
      BY <1>2, <2>1, <2>2, <2>3, QuotientZero
    <3>2. h.chain = c
      BY <1>1, <2>1, <3>1 DEF BlocksVerified, Sealed
    <3>3. \A i \in DOMAIN Signers(proofs) : Signers(proofs)[i] \in Accounts
      BY <1>3, HeadersAssumption, AccountsAssumption DEF Signers, Signer, Header
    <3>4. \A i \in DOMAIN Signers(proofs) : Signers(proofs)[i] \in HeaderApprovers[h]
      <4>1. proofs \in SealedFrom(h)
        BY <1>1, <1>5, <3>2 DEF SealedFrom
      <4>2. Listed(Signers(proofs)) \subseteq Sealers(h)
        BY <4>1 DEF Sealers
      <4>3. Sealers(h) \subseteq HeaderApprovers[h]
        BY <2>1 DEF HeaderApprovers
      <4> QED
        BY <4>2, <4>3 DEF Listed
    <3>5. e - 1 \in Epochs /\ QuorumReached(c, Signers(proofs), e - 1)
      BY <1>1, <1>3, <2>3, HubAssumption DEF Epochs
    <3>6. Ledger!TwoThirds(HeaderApprovers[h], LedgerSets[c][e - 1])
      BY <3>3, <3>4, <3>5, QuorumIsTwoThirds
    <3> QED
      BY <3>2, <3>6
  <2>4. UpdateActiveValidatorSet(c, ParsedValidators(h, n), h.number \div n, latest)
    BY <1>1, <2>2
  <2>5. EpochFollows(latest, h.number \div n)
    BY <2>4, RecordableFollows
  <2>6. CASE EpochFollows(latestKnownEpoch[c], h.number \div n)
    <3>1. h.number \div n > 0 => h.chain = c /\ Ledger!Approved(c, h)
      BY <1>2, <2>2, <2>3 DEF Ledger!Approved
    <3> QED
      BY <1>1, <2>1, <2>4, <2>6, <3>1, HeaderStepsLedger
  <2>7. CASE ~ EpochFollows(latestKnownEpoch[c], h.number \div n)
    <3>1. latest = latestKnownEpoch[c] + 1 /\ NextEpochHeader(c)
      BY <2>5, <2>7 DEF ProvenTransition
    <3>2. latestKnownEpoch[c] \in Nat
      BY HubAssumption DEF HubInv, TypeInv, TypeOK, Epochs
    <3>3. e = latestKnownEpoch[c] + 2 /\ e > 0 /\ e - 1 = latestKnownEpoch[c] + 1
      BY <1>3, <2>2, <2>5, <2>7, <3>1, <3>2, HubAssumption DEF EpochFollows, Epochs
    <3>4. PICK g \in Headers : /\ Sealed(c, g) /\ g.number % n = 0
                               /\ g.number \div n = latestKnownEpoch[c] + 1
      BY <3>1 DEF NextEpochHeader, IsEpochBlock
    <3>5. g.chain = c
      <4>1. g.number \in Nat
        BY HeadersAssumption DEF Header
      <4> QED
        BY <1>2, <3>2, <3>4, <4>1, QuotientZero DEF Sealed
    <3>6. h.number % n = 0 /\ h.chain = c /\ Ledger!TwoThirds(HeaderApprovers[h], LedgerSets[c][latestKnownEpoch[c] + 1])
      BY <1>1, <1>5, <2>3, <3>3 DEF FirstNumber
    <3>7. Listed(NewValidatorSet(proofs, n)) = Ledger!ListedIn(h, n)
      BY <2>2 DEF Listed, ParsedValidators, IsEpochBlock, Ledger!ListedIn
    <3>8. /\ LedgerSets' = [LedgerSets EXCEPT ![c][e] = Ledger!ListedIn(h, n)]
          /\ latestKnownEpoch' = [latestKnownEpoch EXCEPT ![c] = e]
      BY <1>1, <1>2, <1>3, <3>7, ProofsType, SetInLedger
    <3>9. /\ LedgerPhase' = [LedgerPhase EXCEPT ![c] = "Certified"]
          /\ LedgerHome' = LedgerHome /\ LedgerPeriod' = LedgerPeriod
          /\ LedgerPhase[c] # "Unknown"
      BY <1>1, CertifiesInLedger, RegisteredInLedger
    <3> QED
      BY <1>2, <2>1, <2>2, <3>3, <3>4, <3>5, <3>6, <3>8, <3>9 DEF Ledger!PassOver
  <2> QED
    BY <2>6, <2>7
<1> QED
  BY <1>4, <1>5

(***************************************************************************)
(* A recovered signer is nobody, or it signed a checkpoint of the header.  *)
(***************************************************************************)
LEMMA RecoveredApproved ==
    ASSUME NEW h \in Headers, NEW k, NEW signatures \in SignatureLists, NEW i \in DOMAIN signatures,
           Recovered(h, k, signatures)[i] # NoAccount
    PROVE  Recovered(h, k, signatures)[i] \in HeaderApprovers[h]
<1>1. Recovered(h, k, signatures)[i] = signatures[i].signer /\ signatures[i].root = <<h.hash, k>>
  BY DEF Recovered, Recover
<1>2. signatures[i].signer \in SignedOver(h, signatures)
  BY <1>1 DEF SignedOver
<1>3. SignedOver(h, signatures) \subseteq CheckpointSigners(h)
  BY DEF CheckpointSigners
<1>4. CheckpointSigners(h) \subseteq HeaderApprovers[h]
  BY DEF HeaderApprovers
<1> QED
  BY <1>1, <1>2, <1>3, <1>4

\* Two thirds of the previous set approve, or a staker does for a home chain.
LEMMA Approval ==
    ASSUME NEW c, NEW h, h.number \div LedgerPeriod[c] > 0,
           \/ Ledger!TwoThirds(HeaderApprovers[h], LedgerSets[c][h.number \div LedgerPeriod[c] - 1])
           \/ LedgerHome[c] /\ (StakingValidators = {} \/ HeaderApprovers[h] \intersect StakingValidators # {})
    PROVE  Ledger!Approved(c, h)
BY Zenon DEF Ledger!Approved

LEMMA CheckpointStepsLedger ==
    ASSUME LedgerInv, NEW c \in Chains, NEW h \in Headers, NEW k \in CheckpointHashes,
           NEW signatures \in SignatureLists, CheckpointTransition(c, h, k, signatures)
    PROVE  Ledger!Advance(c) \/ Ledger!Restart(c)
<1> DEFINE n == registeredChains[c].epochLength
           e == h.number \div n
           signers == Recovered(h, k, signatures)
<1>1. /\ HubInv /\ Registered(c) /\ Activate(c) /\ Sealed(c, h)
      /\ UpdateActiveValidatorSet(c, ParsedValidators(h, n), e, latestKnownEpoch[c])
      /\ \/ /\ registeredChains[c].chainType = "BSC"
            /\ Listed(signers) \subseteq StakingValidators
            /\ Len(signatures) >= Cardinality(StakingValidators)
         \/ QuorumReached(c, signers, e - 1)
  BY DEF CheckpointTransition, Recovered, LedgerInv
<1>2. /\ n \in EpochLengths \ {0} /\ n \in Nat \ {0} /\ LedgerPeriod[c] = n
      /\ LedgerHome[c] = (registeredChains[c].chainType = "BSC")
  BY <1>1, RegisteredInLedger
<1>3. e \in Epochs /\ h.number \in Nat
  BY <1>2, HeaderType DEF Header
<1>4. /\ DOMAIN signers = 1 .. Len(signatures) /\ DOMAIN signatures = 1 .. Len(signatures)
      /\ Len(signatures) \in Nat /\ \A i \in DOMAIN signers : signers[i] \in Accounts
  BY RecoveredAccounts
<1>5. ASSUME e > 0 PROVE h.chain = c /\ Ledger!Approved(c, h)
  <2>1. h.chain = c
    BY <1>1, <1>2, <1>3, <1>5, QuotientZero DEF Sealed
  <2>2. e - 1 \in Epochs /\ e = h.number \div LedgerPeriod[c] /\ h.number \div LedgerPeriod[c] > 0
    BY <1>2, <1>3, <1>5, HubAssumption DEF Epochs
  <2>3. CASE QuorumReached(c, signers, e - 1)
    <3>1. \A i \in DOMAIN signers : signers[i] \in ActiveSet(c, e - 1) => signers[i] \in HeaderApprovers[h]
      <4> SUFFICES ASSUME NEW i \in DOMAIN signers, signers[i] \in ActiveSet(c, e - 1)
                   PROVE  signers[i] \in HeaderApprovers[h]
        OBVIOUS
      <4>1. signers[i] # NoAccount
        BY <2>2 DEF LedgerInv, NobodyListed
      <4> QED
        BY <1>4, <4>1, RecoveredApproved
    <3> HIDE DEF signers
    <3>2. Ledger!TwoThirds(HeaderApprovers[h], LedgerSets[c][e - 1])
      BY <1>1, <1>4, <2>2, <2>3, <3>1, QuorumIsTwoThirds
    <3>3. Ledger!TwoThirds(HeaderApprovers[h], LedgerSets[c][h.number \div LedgerPeriod[c] - 1])
      BY <2>2, <3>2
    <3> QED
      BY <2>1, <2>2, <3>3, Approval
  <2>4. CASE /\ registeredChains[c].chainType = "BSC"
             /\ Listed(signers) \subseteq StakingValidators
             /\ Len(signatures) >= Cardinality(StakingValidators)
    <3>0. LedgerHome[c]
      BY <1>2, <2>4, Zenon
    <3>1. CASE StakingValidators = {}
      BY <2>1, <2>2, <3>0, <3>1, Approval
    <3>2. CASE StakingValidators # {}
      <4>1. IsFiniteSet(StakingValidators) /\ Cardinality(StakingValidators) \in Nat
        BY HubAssumption, AccountsAssumption, FS_Subset, FS_CardinalityType
      <4>2. Cardinality(StakingValidators) # 0
        BY <3>2, <4>1, FS_EmptySet
      <4>3. 1 \in DOMAIN signers /\ 1 \in DOMAIN signatures
        BY <1>4, <2>4, <4>1, <4>2
      <4>4. signers[1] \in StakingValidators
        BY <2>4, <4>3 DEF Listed
      <4>5. signers[1] \in HeaderApprovers[h]
        BY <4>3, <4>4, StakersAssumption, RecoveredApproved
      <4>6. HeaderApprovers[h] \intersect StakingValidators # {}
        BY <4>4, <4>5
      <4> QED
        BY <2>1, <2>2, <3>0, <4>6, Approval
    <3> QED
      BY <3>1, <3>2
  <2> QED
    BY <1>1, <2>1, <2>3, <2>4
<1>6. EpochFollows(latestKnownEpoch[c], e)
  BY <1>1, RecordableFollows
<1> QED
  BY <1>1, <1>5, <1>6, HeaderStepsLedger

-----------------------------------------------------------------------------
LEMMA StepRefinesLedger == LedgerInv /\ [Next]_vars => [Ledger!Next]_(Ledger!vars)
<1> SUFFICES ASSUME LedgerInv, [Next]_vars PROVE [Ledger!Next]_(Ledger!vars)
  OBVIOUS
<1>0. HubInv
  BY DEF LedgerInv
<1>1. CASE UNCHANGED vars
  BY <1>1 DEF vars, history, Ledger!vars, LedgerPhase, PhaseOf, LedgerHome, LedgerPeriod, LedgerSets,
              ActiveSet, ExtractActiveValidators, Known
<1>2. ASSUME NEW c \in Chains, Register(c) PROVE Ledger!Next
  <2>1. PICK h \in Headers, bridge \in Bridges, n \in EpochLengths,
           vf \in VerificationFunctions \union {DefaultFunction}, chainType \in {"BSC", "BAS"} :
           RegisterChain(c, vf, h, chainType, bridge, n)
    BY <1>2 DEF Register, RegisterCertifiedBAS, RegisterUsingCheckpoint, RegisterBAS, RegisterBSC
  <2>2. Ledger!Anchor(c)
    BY <1>0, <2>1, RegistersInLedger
  <2> QED
    BY <2>2 DEF Ledger!Next
<1>3. ASSUME NEW c \in Chains, Transition(c) PROVE Ledger!Next
  <2>1. Ledger!Advance(c) \/ Ledger!Restart(c) \/ Ledger!PassOver(c)
    BY <1>0, <1>3, TransitionKinds, ProvenStepsLedger, CheckpointStepsLedger
  <2> QED
    BY <2>1 DEF Ledger!Next
<1> QED
  BY <1>1, <1>2, <1>3 DEF Next

LEMMA InitRefinesLedger == Init => Ledger!Init
<1> SUFFICES ASSUME Init PROVE Ledger!Init
  OBVIOUS
<1>1. PhaseOf("NotFound") = "Unknown"
  BY DEF PhaseOf
<1>2. LedgerPhase = [c \in Chains |-> "Unknown"]
  BY <1>1 DEF Init, LedgerPhase
<1>3. LedgerHome = [c \in Chains |-> TRUE] /\ LedgerPeriod = [c \in Chains |-> 0]
  BY DEF Init, LedgerHome, LedgerPeriod
<1>4. \A c \in Chains, e \in Epochs : ActiveSet(c, e) = {}
  BY DEF Init, ActiveSet, ExtractActiveValidators
<1>5. LedgerSets = [c \in Chains |-> [e \in Epochs |-> {}]]
  BY <1>4 DEF LedgerSets
<1> QED
  BY <1>2, <1>3, <1>5 DEF Init, Ledger!Init

(***************************************************************************)
(* Every transaction of the hub, on every path and whatever is submitted,  *)
(* is an anchoring, an approved advance by one epoch, a restart or, in     *)
(* updateValidatorSetUsingEpochBlocks alone, a step past an unrecorded     *)
(* epoch of the ledger (all of RelayHub.sol).                              *)
(***************************************************************************)
THEOREM HubRefinesLedger == Spec => RefinesLedger
<1>1. Init => Ledger!Init
  BY InitRefinesLedger
<1>2. LedgerInv /\ [Next]_vars => [Ledger!Next]_(Ledger!vars)
  BY StepRefinesLedger
<1> QED
  BY <1>1, <1>2, LedgerInvHolds, PTL DEF Spec, RefinesLedger, Ledger!Spec
=============================================================================
