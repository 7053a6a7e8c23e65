--------------------------- MODULE RelayHubProofs ---------------------------
(***************************************************************************)
(* Theorems about RelayHub, for every set of chains, accounts, headers and *)
(* signatures.                                                             *)
(***************************************************************************)
EXTENDS RelayHub, FiniteSetTheorems, WellFoundedInduction, TLAPS

-----------------------------------------------------------------------------
(***************************************************************************)
(* A nonempty set of naturals has a least element.                         *)
(***************************************************************************)
LEMMA LeastElement ==
    ASSUME NEW S, S \subseteq Nat, S # {}
    PROVE  \E m \in S : \A n \in S : m <= n
<1>1. PICK m \in S : \A n \in S : ~ (<<n, m>> \in OpToRel(<, Nat))
  BY NatLessThanWellFounded, WFMin
<1>2. \A n \in S : ~ (n < m)
  BY <1>1 DEF OpToRel
<1> QED
  BY <1>2

(***************************************************************************)
(* FirstPosition finds the first occurrence of a listed validator.         *)
(***************************************************************************)
LEMMA FirstPositionIsFirst ==
    ASSUME NEW S, NEW list \in Seq(S), NEW v \in Listed(list)
    PROVE  /\ FirstPosition(list, v) \in DOMAIN list
           /\ list[FirstPosition(list, v)] = v
           /\ \A j \in 1 .. FirstPosition(list, v) - 1 : list[j] # v
<1> DEFINE At == {i \in DOMAIN list : list[i] = v}
<1>1. At # {} /\ At \subseteq Nat
  BY DEF Listed
<1>2. PICK m \in At : \A n \in At : m <= n
  BY <1>1, LeastElement
<1>3. \A j \in 1 .. m - 1 : list[j] # v
  BY <1>2
<1>4. \E i \in DOMAIN list : list[i] = v /\ \A j \in 1 .. i - 1 : list[j] # v
  BY <1>3
<1> QED
  BY <1>4 DEF FirstPosition

-----------------------------------------------------------------------------
(***************************************************************************)
(* Positions are naturals, and every listed validator has one.             *)
(***************************************************************************)
LEMMA KnownFinite ==
    ASSUME NEW indexes \in [Accounts -> Nat]
    PROVE  /\ Known(indexes) \subseteq Accounts
           /\ IsFiniteSet(Known(indexes)) /\ Cardinality(Known(indexes)) \in Nat
<1>1. Known(indexes) \subseteq Accounts
  BY DEF Known
<1> QED
  BY <1>1, AccountsAssumption, FS_Subset, FS_CardinalityType

LEMMA AddedFinite ==
    ASSUME NEW indexes \in [Accounts -> Nat], NEW list \in Seq(Accounts),
           NEW v \in Listed(list)
    PROVE  /\ AddedUpTo(indexes, list, v) \subseteq Listed(list) \ Known(indexes)
           /\ IsFiniteSet(AddedUpTo(indexes, list, v))
           /\ Cardinality(AddedUpTo(indexes, list, v)) \in Nat
           /\ v \notin Known(indexes) => v \in AddedUpTo(indexes, list, v)
<1>1. /\ FirstPosition(list, v) \in DOMAIN list
      /\ list[FirstPosition(list, v)] = v
  BY FirstPositionIsFirst
<1>2. DOMAIN list = 1 .. Len(list) /\ Len(list) \in Nat
  OBVIOUS
<1>3. 1 .. FirstPosition(list, v) \subseteq DOMAIN list /\ FirstPosition(list, v) \in 1 .. FirstPosition(list, v)
  BY <1>1, <1>2
<1>4. AddedUpTo(indexes, list, v) \subseteq Listed(list) \ Known(indexes)
  BY <1>3 DEF AddedUpTo, Listed
<1>5. Listed(list) \subseteq Accounts
  BY DEF Listed
<1>6. AddedUpTo(indexes, list, v) \subseteq Accounts
  BY <1>4, <1>5
<1>7. v \notin Known(indexes) => v \in AddedUpTo(indexes, list, v)
  BY <1>1, <1>3 DEF AddedUpTo
<1> QED
  BY <1>4, <1>6, <1>7, AccountsAssumption, FS_Subset, FS_CardinalityType

LEMMA AddAllType ==
    ASSUME NEW indexes \in [Accounts -> Nat], NEW list \in Seq(Accounts)
    PROVE  /\ AddAll(indexes, list) \in [Accounts -> Nat]
           /\ \A v \in Listed(list) : AddAll(indexes, list)[v] >= 1
<1>1. ASSUME NEW v \in Accounts
      PROVE  /\ AddAll(indexes, list)[v] \in Nat
             /\ v \in Listed(list) => AddAll(indexes, list)[v] >= 1
  <2>1. CASE v \in Known(indexes)
    BY <2>1 DEF AddAll, Known
  <2>2. CASE v \notin Known(indexes) /\ v \notin Listed(list)
    BY <2>2 DEF AddAll
  <2>3. CASE v \notin Known(indexes) /\ v \in Listed(list)
    <3>1. AddAll(indexes, list)[v] =
             Cardinality(Known(indexes)) + Cardinality(AddedUpTo(indexes, list, v))
      BY <2>3 DEF AddAll
    <3>2. Cardinality(Known(indexes)) \in Nat
      BY KnownFinite
    <3>3. /\ IsFiniteSet(AddedUpTo(indexes, list, v))
          /\ Cardinality(AddedUpTo(indexes, list, v)) \in Nat
          /\ AddedUpTo(indexes, list, v) # {}
      BY <2>3, AddedFinite
    <3>4. Cardinality(AddedUpTo(indexes, list, v)) # 0
      BY <3>3, FS_EmptySet
    <3> QED
      BY <3>1, <3>2, <3>3, <3>4
  <2> QED
    BY <2>1, <2>2, <2>3
<1>2. AddAll(indexes, list) = [v \in Accounts |-> AddAll(indexes, list)[v]]
  BY DEF AddAll
<1>3. Listed(list) \subseteq Accounts
  BY DEF Listed
<1>4. AddAll(indexes, list) \in [Accounts -> Nat]
  BY <1>1, <1>2
<1> QED
  BY <1>1, <1>3, <1>4

LEMMA BitsType ==
    ASSUME NEW indexes \in [Accounts -> Nat], NEW list \in Seq(Accounts)
    PROVE  Bits(AddAll(indexes, list), list) \subseteq Nat
<1>1. Listed(list) \subseteq Accounts
  BY DEF Listed
<1> QED
  BY <1>1, AddAllType DEF Bits

(***************************************************************************)
(* Inputs: the header lists that callers submit are lists of accounts, and *)
(* their epochs are epochs.                                                *)
(***************************************************************************)
LEMMA HeaderType ==
    ASSUME NEW h \in Headers, NEW n \in EpochLengths \ {0}
    PROVE  /\ h \in Header
           /\ ParsedValidators(h, n) \in Seq(Accounts)
           /\ h.number \div n \in Epochs
<1>1. h \in Header /\ h.validators \in Seq(Accounts)
  BY HeadersAssumption DEF Header
<1>2. <<>> \in Seq(Accounts)
  OBVIOUS
<1> QED
  BY <1>1, <1>2, EpochsAssumption DEF ParsedValidators

LEMMA SubmittedProofs == BlockProofs \subseteq Seq(Headers)
BY HubAssumption

LEMMA ProofsType ==
    ASSUME NEW proofs \in Seq(Headers), NEW n \in EpochLengths \ {0}
    PROVE  /\ NewValidatorSet(proofs, n) \in Seq(Accounts)
           /\ FirstEpoch(proofs, n) \in Epochs
<1>1. CASE proofs = <<>>
  <2>1. NewValidatorSet(proofs, n) = <<>> /\ FirstEpoch(proofs, n) = 0 \div n
    BY <1>1 DEF NewValidatorSet, FirstEpoch, FirstNumber
  <2>2. n \in Nat \ {0} /\ MaxEpoch \in Nat
    BY HubAssumption
  <2>3. 0 \div n = 0
    BY <2>2
  <2> QED
    BY <2>1, <2>2, <2>3 DEF Epochs
<1>2. CASE proofs # <<>>
  <2>1. proofs[1] \in Headers
    BY <1>2
  <2> QED
    BY <1>2, <2>1, HeaderType DEF NewValidatorSet, FirstEpoch, FirstNumber
<1> QED
  BY <1>1, <1>2

-----------------------------------------------------------------------------
(***************************************************************************)
(* The inductive invariant behind TypeOK: a registered chain has one of    *)
(* the epoch lengths that registrations may name, and never zero.          *)
(***************************************************************************)
EpochLengthsKnown ==
    \A c \in Chains : Registered(c) => registeredChains[c].epochLength \in EpochLengths \ {0}

TypeInv == TypeOK /\ EpochLengthsKnown

HistoryType ==
    /\ allValidators \in [Chains -> [Accounts -> Nat]]
    /\ activeValidators \in [Chains -> [Epochs -> SUBSET Nat]]
    /\ validatorCount \in [Chains -> [Epochs -> Nat]]
    /\ latestKnownEpoch \in [Chains -> Epochs]

LEMMA UpdateKeepsHistoryType ==
    ASSUME HistoryType, NEW c \in Chains, NEW list \in Seq(Accounts),
           NEW epoch \in Epochs, NEW latest,
           UpdateActiveValidatorSet(c, list, epoch, latest)
    PROVE  HistoryType'
<1> DEFINE indexes == AddAll(allValidators[c], list)
           kept == {b \in activeValidators[c][epoch] : Bucket(b) >= Buckets(c)}
<1>1. allValidators[c] \in [Accounts -> Nat]
  BY DEF HistoryType
<1>2. indexes \in [Accounts -> Nat] /\ Bits(indexes, list) \subseteq Nat
  BY <1>1, AddAllType, BitsType
<1>3. kept \union Bits(indexes, list) \in SUBSET Nat
  BY <1>2 DEF HistoryType
<1>4. Len(list) \in Nat
  OBVIOUS
<1>5. /\ allValidators' = [allValidators EXCEPT ![c] = indexes]
      /\ activeValidators' = [activeValidators EXCEPT ![c][epoch] = kept \union Bits(indexes, list)]
      /\ validatorCount' = [validatorCount EXCEPT ![c][epoch] = Len(list)]
      /\ latestKnownEpoch' = [latestKnownEpoch EXCEPT ![c] = epoch]
  BY DEF UpdateActiveValidatorSet
<1> HIDE DEF indexes, kept
<1>6. allValidators' \in [Chains -> [Accounts -> Nat]]
  BY <1>2, <1>5 DEF HistoryType
<1>7. activeValidators' \in [Chains -> [Epochs -> SUBSET Nat]]
  BY <1>3, <1>5 DEF HistoryType
<1>8. validatorCount' \in [Chains -> [Epochs -> Nat]]
  BY <1>4, <1>5 DEF HistoryType
<1>9. latestKnownEpoch' \in [Chains -> Epochs]
  BY <1>5 DEF HistoryType
<1> QED
  BY <1>6, <1>7, <1>8, <1>9 DEF HistoryType

LEMMA RegisterKeepsType ==
    ASSUME TypeInv, NEW c \in Chains, NEW vf \in VerificationFunctions \union {DefaultFunction},
           NEW h \in Headers, NEW chainType \in {"BSC", "BAS"}, NEW bridge \in Bridges,
           NEW n \in EpochLengths, RegisterChain(c, vf, h, chainType, bridge, n)
    PROVE  TypeInv'
<1>1. n \in EpochLengths \ {0} /\ n \in Nat
  BY HubAssumption DEF RegisterChain
<1>2. HistoryType'
  <2>1. UpdateActiveValidatorSet(c, ParsedValidators(h, n), h.number \div n, latestKnownEpoch[c])
    BY DEF RegisterChain
  <2> QED
    BY <1>1, <2>1, HeaderType, UpdateKeepsHistoryType DEF TypeInv, TypeOK, HistoryType
<1>3. registeredChains' = [registeredChains EXCEPT ![c] =
          [chainStatus |-> "Verifying", chainType |-> chainType, verificationFunction |-> vf,
           bridgeAddress |-> bridge, epochLength |-> n]]
  BY DEF RegisterChain
<1>4. registeredChains' \in [Chains -> Chain]
  BY <1>1, <1>3 DEF TypeInv, TypeOK, Chain
<1>5. EpochLengthsKnown'
  BY <1>1, <1>3 DEF TypeInv, TypeOK, EpochLengthsKnown, Registered
<1>6. epochCheckpoints' = epochCheckpoints
  BY DEF RegisterChain
<1> QED
  BY <1>2, <1>4, <1>5, <1>6 DEF TypeInv, TypeOK, HistoryType

(***************************************************************************)
(* Activate keeps every field but the status.                              *)
(***************************************************************************)
LEMMA ActivateKeepsType ==
    ASSUME TypeInv, NEW c \in Chains, Registered(c), Activate(c)
    PROVE  registeredChains' \in [Chains -> Chain] /\ EpochLengthsKnown'
<1>1. registeredChains' = [registeredChains EXCEPT ![c].chainStatus = "Active"]
  BY DEF Activate
<1>2. registeredChains \in [Chains -> Chain]
  BY DEF TypeInv, TypeOK
<1>3. registeredChains' \in [Chains -> Chain]
  BY <1>1, <1>2 DEF Chain
<1>4. \A d \in Chains : registeredChains'[d].epochLength = registeredChains[d].epochLength
  BY <1>1, <1>2 DEF Chain
<1>5. \A d \in Chains : Registered(d)' => Registered(d)
  BY <1>1, <1>2 DEF Chain, Registered
<1>6. EpochLengthsKnown'
  BY <1>4, <1>5 DEF TypeInv, EpochLengthsKnown
<1> QED
  BY <1>3, <1>6

(***************************************************************************)
(* What a transition can be: the headers whose set is recorded, taken from *)
(* the submitted ones or decoded at the moved base, with the latest epoch  *)
(* counted up when a header of the next epoch was consumed; or a           *)
(* checkpoint.                                                             *)
(***************************************************************************)
NextEpochHeader(c) ==
    \E h \in Headers :
        /\ Sealed(c, h) /\ IsEpochBlock(h, registeredChains[c].epochLength)
        /\ h.number \div registeredChains[c].epochLength = latestKnownEpoch[c] + 1

ProvenTransition(c, proofs, latest) ==
    /\ Registered(c) /\ ValidatorTransition(c, proofs, latest)
    /\ \/ latest = latestKnownEpoch[c]
       \/ latest = latestKnownEpoch[c] + 1 /\ NextEpochHeader(c)

LEMMA ConsumedHeaderIsNext ==
    ASSUME NEW c \in Chains, NEW proofs \in BlockProofs, UpdateValidatorSetUsingEpochBlocks(c, proofs),
           LeadingEpochBlocks(proofs, registeredChains[c].epochLength) # 0
    PROVE  NextEpochHeader(c)
<1> DEFINE n == registeredChains[c].epochLength
           leading == {k \in DOMAIN proofs : \A i \in 1 .. k : IsEpochBlock(proofs[i], n)}
<1>1. proofs \in Seq(Headers)
  BY SubmittedProofs
<1>2. Cardinality(leading) # 0 /\ leading # {}
  BY FS_EmptySet DEF LeadingEpochBlocks
<1>3. PICK k \in DOMAIN proofs : \A i \in 1 .. k : IsEpochBlock(proofs[i], n)
  BY <1>2
<1>4. 1 \in DOMAIN proofs /\ 1 \in 1 .. k /\ proofs # <<>>
  BY <1>1, <1>3
<1>5. IsFiniteSet(leading) /\ Cardinality(leading) \in Nat
  <2>1. IsFiniteSet(1 .. Len(proofs)) /\ leading \subseteq 1 .. Len(proofs)
    <3>1. 1 \in Int /\ Len(proofs) \in Int /\ DOMAIN proofs = 1 .. Len(proofs)
      BY <1>1
    <3> QED
      BY <3>1, FS_Interval
  <2> QED
    BY <2>1, FS_Subset, FS_CardinalityType
<1>6. 1 <= Cardinality(leading) + 1
  BY <1>5
<1>7. Sealed(c, proofs[1]) /\ FirstEpoch(proofs, n) = latestKnownEpoch[c] + 1
  BY <1>4, <1>6 DEF UpdateValidatorSetUsingEpochBlocks, LeadingEpochBlocks
<1>8. proofs[1] \in Headers /\ IsEpochBlock(proofs[1], n)
  BY <1>1, <1>3, <1>4
<1>9. proofs[1].number \div n = latestKnownEpoch[c] + 1
  BY <1>4, <1>7 DEF FirstEpoch, FirstNumber
<1> QED
  BY <1>7, <1>8, <1>9 DEF NextEpochHeader

LEMMA TransitionKinds ==
    ASSUME NEW c \in Chains, Transition(c)
    PROVE  \/ \E proofs \in BlockProofs : \E latest : ProvenTransition(c, proofs, latest)
           \/ \E h \in Headers, k \in CheckpointHashes, signatures \in SignatureLists :
                 CheckpointTransition(c, h, k, signatures)
<1>1. ASSUME NEW proofs \in BlockProofs, UpdateValidatorSet(c, proofs)
      PROVE  ProvenTransition(c, proofs, latestKnownEpoch[c])
  BY <1>1 DEF UpdateValidatorSet, ProvenTransition
<1>2. ASSUME NEW proofs \in BlockProofs, UpdateValidatorSetUsingEpochBlocks(c, proofs)
      PROVE  \E rest \in BlockProofs : \E latest : ProvenTransition(c, rest, latest)
  <2> DEFINE consumed == LeadingEpochBlocks(proofs, registeredChains[c].epochLength)
  <2>1. Registered(c)
    BY <1>2 DEF UpdateValidatorSetUsingEpochBlocks
  <2>2. PICK rest \in Rebased(proofs, consumed) :
           ValidatorTransition(c, rest, IF consumed = 0 THEN latestKnownEpoch[c] ELSE latestKnownEpoch[c] + 1)
    BY <1>2 DEF UpdateValidatorSetUsingEpochBlocks
  <2>3. rest \in BlockProofs
    BY <2>2 DEF Rebased
  <2>4. CASE consumed = 0
    BY <2>1, <2>2, <2>3, <2>4 DEF ProvenTransition
  <2>5. CASE consumed # 0
    <3>1. NextEpochHeader(c)
      BY <1>2, <2>5, ConsumedHeaderIsNext
    <3> QED
      BY <2>1, <2>2, <2>3, <2>5, <3>1 DEF ProvenTransition
  <2> QED
    BY <2>4, <2>5
<1> QED
  BY <1>1, <1>2 DEF Transition

\* Every transition activates the chain and changes nothing else about it.
LEMMA TransitionActivates ==
    ASSUME NEW c \in Chains, Transition(c)
    PROVE  Registered(c) /\ Activate(c)
<1>1. ASSUME NEW proofs \in BlockProofs, NEW latest, ProvenTransition(c, proofs, latest)
      PROVE  Registered(c) /\ Activate(c)
  BY <1>1 DEF ProvenTransition, ValidatorTransition
<1>2. ASSUME NEW h \in Headers, NEW k \in CheckpointHashes, NEW signatures \in SignatureLists,
             CheckpointTransition(c, h, k, signatures)
      PROVE  Registered(c) /\ Activate(c)
  BY <1>2 DEF CheckpointTransition
<1> QED
  BY <1>1, <1>2, TransitionKinds

LEMMA ProvenKeepsType ==
    ASSUME TypeInv, NEW c \in Chains, NEW proofs \in Seq(Headers), NEW latest,
           ProvenTransition(c, proofs, latest)
    PROVE  TypeInv'
<1> DEFINE n == registeredChains[c].epochLength
<1>1. n \in EpochLengths \ {0}
  BY DEF ProvenTransition, TypeInv, EpochLengthsKnown
<1>2. UpdateActiveValidatorSet(c, NewValidatorSet(proofs, n), FirstEpoch(proofs, n), latest)
  BY DEF ProvenTransition, ValidatorTransition
<1>3. Registered(c) /\ Activate(c) /\ epochCheckpoints' = epochCheckpoints
  BY DEF ProvenTransition, ValidatorTransition
<1> HIDE DEF n
<1>4. HistoryType'
  BY <1>1, <1>2, ProofsType, UpdateKeepsHistoryType DEF TypeInv, TypeOK, HistoryType
<1> QED
  BY <1>3, <1>4, ActivateKeepsType DEF TypeInv, TypeOK, HistoryType

LEMMA CheckpointKeepsType ==
    ASSUME TypeInv, NEW c \in Chains, NEW h \in Headers, NEW k \in CheckpointHashes,
           NEW signatures \in SignatureLists, CheckpointTransition(c, h, k, signatures)
    PROVE  TypeInv'
<1> DEFINE n == registeredChains[c].epochLength
<1>1. n \in EpochLengths \ {0}
  BY DEF CheckpointTransition, TypeInv, EpochLengthsKnown
<1>2. UpdateActiveValidatorSet(c, ParsedValidators(h, n), h.number \div n, latestKnownEpoch[c])
  BY DEF CheckpointTransition
<1>3. /\ Registered(c) /\ Activate(c)
      /\ epochCheckpoints' = [epochCheckpoints EXCEPT ![c][h.number \div n] = k]
  BY DEF CheckpointTransition
<1> HIDE DEF n
<1>4. HistoryType'
  BY <1>1, <1>2, HeaderType, UpdateKeepsHistoryType DEF TypeInv, TypeOK, HistoryType
<1>5. epochCheckpoints' \in [Chains -> [Epochs -> CheckpointHashes \union {NoCheckpoint}]]
  BY <1>1, <1>3, HeaderType DEF TypeInv, TypeOK
<1> QED
  BY <1>3, <1>4, <1>5, ActivateKeepsType DEF TypeInv, TypeOK, HistoryType

LEMMA NextKeepsType == TypeInv /\ [Next]_vars => TypeInv'
<1> SUFFICES ASSUME TypeInv, [Next]_vars PROVE TypeInv'
  OBVIOUS
<1>1. CASE UNCHANGED vars
  BY <1>1 DEF TypeInv, TypeOK, EpochLengthsKnown, Registered, vars, history
<1>2. ASSUME NEW c \in Chains, Register(c) PROVE TypeInv'
  <2>1. PICK h \in Headers, bridge \in Bridges, n \in EpochLengths :
           \/ RegisterCertifiedBAS(c, h, bridge, n)
           \/ \E checkpointHash \in BlockHashes \union {NoCheckpoint} :
                 RegisterUsingCheckpoint(c, h, checkpointHash, bridge, n)
           \/ \E vf \in VerificationFunctions : RegisterBAS(c, vf, h, bridge, n)
           \/ RegisterBSC(c, h, bridge, n)
    BY <1>2 DEF Register
  <2>2. PICK vf \in VerificationFunctions \union {DefaultFunction}, chainType \in {"BSC", "BAS"} :
           RegisterChain(c, vf, h, chainType, bridge, n)
    BY <2>1 DEF RegisterCertifiedBAS, RegisterUsingCheckpoint, RegisterBAS, RegisterBSC
  <2> QED
    BY <2>2, RegisterKeepsType
<1>3. ASSUME NEW c \in Chains, Transition(c) PROVE TypeInv'
  BY <1>3, SubmittedProofs, TransitionKinds, ProvenKeepsType, CheckpointKeepsType
<1> QED
  BY <1>1, <1>2, <1>3 DEF Next

(***************************************************************************)
(* Every reachable state of the hub is well-typed: positions, bits, counts *)
(* and epochs stay in their ranges through every registration and          *)
(* transition (RelayHub.sol:154-210 and 254-352).                          *)
(***************************************************************************)
THEOREM TypeCorrect == Spec => []TypeOK
<1>1. Init => TypeInv
  BY HubAssumption DEF Init, TypeInv, TypeOK, Chain, EpochLengthsKnown, Registered, Epochs
<1>2. TypeInv => TypeOK
  BY DEF TypeInv
<1> QED
  BY <1>1, <1>2, NextKeepsType, PTL DEF Spec

(***************************************************************************)
(* Every step records one list for one epoch of one chain, and the epoch   *)
(* is checked against the latest known one or, with a header of the epoch  *)
(* after it, against that next epoch.                                      *)
(***************************************************************************)
Against(c, latest) ==
    \/ latest = latestKnownEpoch[c]
    \/ /\ latest = latestKnownEpoch[c] + 1
       /\ NextEpochHeader(c) /\ registeredChains'[c].chainStatus = "Active"

LEMMA StepRecords ==
    ASSUME TypeInv, NEW c \in Chains, Register(c) \/ Transition(c)
    PROVE  \E list \in Seq(Accounts), epoch \in Epochs, latest \in Nat :
              UpdateActiveValidatorSet(c, list, epoch, latest) /\ Against(c, latest)
<1> DEFINE n == registeredChains[c].epochLength
<1>0. Epochs \subseteq Nat /\ latestKnownEpoch[c] \in Nat /\ latestKnownEpoch[c] + 1 \in Nat
  BY HubAssumption DEF TypeInv, TypeOK, Epochs
<1>1. CASE Register(c)
  <2>1. PICK h \in Headers, bridge \in Bridges, m \in EpochLengths,
           vf \in VerificationFunctions \union {DefaultFunction}, chainType \in {"BSC", "BAS"} :
           RegisterChain(c, vf, h, chainType, bridge, m)
    BY <1>1 DEF Register, RegisterCertifiedBAS, RegisterUsingCheckpoint, RegisterBAS, RegisterBSC
  <2>2. m \in EpochLengths \ {0}
    BY <2>1, HubAssumption DEF RegisterChain
  <2>3. UpdateActiveValidatorSet(c, ParsedValidators(h, m), h.number \div m, latestKnownEpoch[c])
    BY <2>1 DEF RegisterChain
  <2> QED
    BY <1>0, <2>2, <2>3, HeaderType DEF Against
<1>2. ASSUME Transition(c)
      PROVE  n \in EpochLengths \ {0} /\ registeredChains'[c].chainStatus = "Active"
  <2>1. Registered(c) /\ registeredChains' = [registeredChains EXCEPT ![c].chainStatus = "Active"]
    BY <1>2, TransitionActivates DEF Activate
  <2>2. registeredChains \in [Chains -> Chain]
    BY DEF TypeInv, TypeOK
  <2> QED
    BY <2>1, <2>2 DEF TypeInv, EpochLengthsKnown, Chain
<1>3. ASSUME NEW proofs \in BlockProofs, NEW latest, ProvenTransition(c, proofs, latest), Transition(c)
      PROVE  \E list \in Seq(Accounts), epoch \in Epochs, m \in Nat :
                UpdateActiveValidatorSet(c, list, epoch, m) /\ Against(c, m)
  <2>1. UpdateActiveValidatorSet(c, NewValidatorSet(proofs, n), FirstEpoch(proofs, n), latest)
    BY <1>3 DEF ProvenTransition, ValidatorTransition
  <2>2. latest \in Nat /\ Against(c, latest)
    BY <1>0, <1>2, <1>3 DEF ProvenTransition, Against
  <2>3. NewValidatorSet(proofs, n) \in Seq(Accounts) /\ FirstEpoch(proofs, n) \in Epochs
    BY <1>2, <1>3, SubmittedProofs, ProofsType
  <2> QED
    BY <2>1, <2>2, <2>3
<1>5. ASSUME NEW h \in Headers, NEW k \in CheckpointHashes, NEW signatures \in SignatureLists,
             CheckpointTransition(c, h, k, signatures), Transition(c)
      PROVE  \E list \in Seq(Accounts), epoch \in Epochs, latest \in Nat :
                UpdateActiveValidatorSet(c, list, epoch, latest) /\ Against(c, latest)
  <2>1. UpdateActiveValidatorSet(c, ParsedValidators(h, n), h.number \div n, latestKnownEpoch[c])
    BY <1>5 DEF CheckpointTransition
  <2> QED
    BY <1>0, <1>2, <1>5, <2>1, HeaderType DEF Against
<1> QED
  BY <1>1, <1>3, <1>5, TransitionKinds

-----------------------------------------------------------------------------
(***************************************************************************)
(* Adding a list to the enumerable set: known validators keep their        *)
(* positions, the new ones take the next positions, one each.              *)
(***************************************************************************)
LEMMA KnownAfterAdd ==
    ASSUME NEW indexes \in [Accounts -> Nat], NEW list \in Seq(Accounts)
    PROVE  /\ \A v \in Known(indexes) : AddAll(indexes, list)[v] = indexes[v]
           /\ Known(AddAll(indexes, list)) = Known(indexes) \union Listed(list)
<1>1. Listed(list) \subseteq Accounts /\ Known(indexes) \subseteq Accounts
  BY DEF Listed, Known
<1>2. \A v \in Known(indexes) : AddAll(indexes, list)[v] = indexes[v]
  BY <1>1 DEF AddAll
<1>3. \A v \in Listed(list) : AddAll(indexes, list)[v] # 0
  BY AddAllType
<1>4. \A v \in Accounts \ (Known(indexes) \union Listed(list)) : AddAll(indexes, list)[v] = 0
  BY DEF AddAll, Known
<1>5. DOMAIN AddAll(indexes, list) = Accounts
  BY DEF AddAll
<1>6. \A v \in Known(indexes) : indexes[v] # 0
  BY DEF Known
<1>7. Known(AddAll(indexes, list)) = {v \in Accounts : AddAll(indexes, list)[v] # 0}
  BY <1>5 DEF Known
<1> QED
  BY <1>1, <1>2, <1>3, <1>4, <1>6, <1>7

LEMMA LengthAfterAdd ==
    ASSUME NEW indexes \in [Accounts -> Nat], NEW list \in Seq(Accounts)
    PROVE  /\ IsFiniteSet(Listed(list) \ Known(indexes))
           /\ Cardinality(Known(AddAll(indexes, list))) =
                 Cardinality(Known(indexes)) + Cardinality(Listed(list) \ Known(indexes))
<1> DEFINE New == Listed(list) \ Known(indexes)
<1>1. New \subseteq Accounts
  BY DEF Listed
<1>2. IsFiniteSet(New) /\ IsFiniteSet(Known(indexes))
  BY <1>1, AccountsAssumption, FS_Subset, KnownFinite
<1>3. Known(AddAll(indexes, list)) = Known(indexes) \union New /\ Known(indexes) \intersect New = {}
  BY KnownAfterAdd
<1>4. Cardinality(Known(indexes) \union New) =
         Cardinality(Known(indexes)) + Cardinality(New) - Cardinality(Known(indexes) \intersect New)
  BY <1>2, FS_Union
<1>5. Cardinality({}) = 0 /\ Cardinality(New) \in Nat /\ Cardinality(Known(indexes)) \in Nat
  BY <1>2, FS_EmptySet, FS_CardinalityType
<1>6. Cardinality(Known(indexes) \intersect New) = 0
  BY <1>3, <1>5
<1>7. Cardinality(Known(AddAll(indexes, list))) = Cardinality(Known(indexes) \union New)
  BY <1>3
<1> HIDE DEF New
<1>8. Cardinality(Known(AddAll(indexes, list))) = Cardinality(Known(indexes)) + Cardinality(New)
  BY <1>4, <1>5, <1>6, <1>7
<1> QED
  BY <1>2, <1>8 DEF New

\* v enters the set before w
LEMMA EarlierPosition ==
    ASSUME NEW indexes \in [Accounts -> Nat], NEW list \in Seq(Accounts),
           NEW v \in Listed(list) \ Known(indexes), NEW w \in Listed(list) \ Known(indexes),
           FirstPosition(list, v) < FirstPosition(list, w)
    PROVE  AddAll(indexes, list)[v] < AddAll(indexes, list)[w]
<1> DEFINE p == FirstPosition(list, v)  q == FirstPosition(list, w)
<1>1. p \in DOMAIN list /\ q \in DOMAIN list /\ \A j \in 1 .. q - 1 : list[j] # w
  BY FirstPositionIsFirst
<1>2. p \in Nat /\ q \in Nat
  BY <1>1
<1>3. 1 .. p \subseteq 1 .. q /\ 1 .. p \subseteq 1 .. q - 1
  BY <1>2
<1>4. AddedUpTo(indexes, list, v) \subseteq AddedUpTo(indexes, list, w)
  BY <1>3 DEF AddedUpTo
<1>5. w \notin AddedUpTo(indexes, list, v)
  BY <1>1, <1>3 DEF AddedUpTo
<1>6. /\ IsFiniteSet(AddedUpTo(indexes, list, w)) /\ w \in AddedUpTo(indexes, list, w)
      /\ Cardinality(AddedUpTo(indexes, list, v)) \in Nat
      /\ Cardinality(AddedUpTo(indexes, list, w)) \in Nat
  BY AddedFinite
<1>7. Cardinality(AddedUpTo(indexes, list, v)) < Cardinality(AddedUpTo(indexes, list, w))
  BY <1>4, <1>5, <1>6, FS_Subset
<1>8. Cardinality(Known(indexes)) \in Nat
  BY KnownFinite
<1>9. \A u \in {v, w} : AddAll(indexes, list)[u] =
         Cardinality(Known(indexes)) + Cardinality(AddedUpTo(indexes, list, u))
  BY DEF AddAll, Listed
<1> QED
  BY <1>6, <1>7, <1>8, <1>9

LEMMA NewPosition ==
    ASSUME NEW indexes \in [Accounts -> Nat], NEW list \in Seq(Accounts),
           NEW v \in Listed(list) \ Known(indexes)
    PROVE  /\ AddAll(indexes, list)[v] > Cardinality(Known(indexes))
           /\ AddAll(indexes, list)[v] <= Cardinality(Known(AddAll(indexes, list)))
<1>1. AddAll(indexes, list)[v] =
         Cardinality(Known(indexes)) + Cardinality(AddedUpTo(indexes, list, v))
  BY DEF AddAll, Listed
<1>2. /\ AddedUpTo(indexes, list, v) \subseteq Listed(list) \ Known(indexes)
      /\ v \in AddedUpTo(indexes, list, v) /\ IsFiniteSet(AddedUpTo(indexes, list, v))
  BY AddedFinite
<1>3. /\ Cardinality(AddedUpTo(indexes, list, v)) \in Nat \ {0}
      /\ Cardinality(AddedUpTo(indexes, list, v)) <= Cardinality(Listed(list) \ Known(indexes))
  BY <1>2, FS_EmptySet, FS_CardinalityType, FS_Subset, LengthAfterAdd
<1>4. Cardinality(Known(indexes)) \in Nat /\ Cardinality(Listed(list) \ Known(indexes)) \in Nat
  BY KnownFinite, LengthAfterAdd, FS_CardinalityType
<1>5. Cardinality(Known(AddAll(indexes, list))) =
         Cardinality(Known(indexes)) + Cardinality(Listed(list) \ Known(indexes))
  BY LengthAfterAdd
<1> QED
  BY <1>1, <1>3, <1>4, <1>5

\* The positions are 1 .. the number of known validators, one each.
Positions(indexes) ==
    /\ \A v, w \in Known(indexes) : indexes[v] = indexes[w] => v = w
    /\ \A v \in Accounts : indexes[v] <= Cardinality(Known(indexes))

LEMMA AddAllKeepsPositions ==
    ASSUME NEW indexes \in [Accounts -> Nat], NEW list \in Seq(Accounts), Positions(indexes)
    PROVE  Positions(AddAll(indexes, list))
<1> DEFINE after == AddAll(indexes, list)
<1>1. after \in [Accounts -> Nat]
  BY AddAllType
<1>2. /\ Known(after) = Known(indexes) \union Listed(list)
      /\ \A v \in Known(indexes) : after[v] = indexes[v]
  BY KnownAfterAdd
<1>3. \A v \in Listed(list) \ Known(indexes) :
         after[v] > Cardinality(Known(indexes)) /\ after[v] <= Cardinality(Known(after))
  BY NewPosition
<1>4. Known(indexes) \subseteq Accounts /\ Listed(list) \subseteq Accounts
  BY DEF Known, Listed
<1>5. Cardinality(Known(indexes)) <= Cardinality(Known(after))
  BY <1>1, <1>2, KnownFinite, FS_Subset
<1>6. /\ Cardinality(Known(indexes)) \in Nat /\ Cardinality(Known(after)) \in Nat
  BY <1>1, KnownFinite
<1> HIDE DEF after
<1>7. ASSUME NEW v \in Known(after), NEW w \in Known(after), after[v] = after[w], v # w
      PROVE  FALSE
  <2>1. CASE v \in Known(indexes) /\ w \in Known(indexes)
    BY <1>2, <1>7, <2>1 DEF Positions
  <2>2. CASE v \in Known(indexes) /\ w \notin Known(indexes)
    BY <1>1, <1>2, <1>3, <1>4, <1>6, <1>7, <2>2 DEF Positions
  <2>3. CASE v \notin Known(indexes) /\ w \in Known(indexes)
    BY <1>1, <1>2, <1>3, <1>4, <1>6, <1>7, <2>3 DEF Positions
  <2>4. CASE v \notin Known(indexes) /\ w \notin Known(indexes)
    <3>1. v \in Listed(list) \ Known(indexes) /\ w \in Listed(list) \ Known(indexes)
      BY <1>2, <2>4
    <3>2. /\ FirstPosition(list, v) \in DOMAIN list /\ list[FirstPosition(list, v)] = v
          /\ FirstPosition(list, w) \in DOMAIN list /\ list[FirstPosition(list, w)] = w
      BY <3>1, FirstPositionIsFirst
    <3>3. FirstPosition(list, v) # FirstPosition(list, w)
      BY <1>7, <3>2
    <3>4. FirstPosition(list, v) \in Nat /\ FirstPosition(list, w) \in Nat
      BY <3>2
    <3>5. \/ FirstPosition(list, v) < FirstPosition(list, w)
          \/ FirstPosition(list, w) < FirstPosition(list, v)
      BY <3>3, <3>4
    <3>6. after[v] < after[w] \/ after[w] < after[v]
      BY <3>1, <3>5, EarlierPosition DEF after
    <3> QED
      BY <1>1, <1>4, <1>7, <3>1, <3>6
  <2> QED
    BY <2>1, <2>2, <2>3, <2>4
<1>8. ASSUME NEW v \in Accounts PROVE after[v] <= Cardinality(Known(after))
  <2>1. CASE v \in Known(indexes)
    BY <1>1, <1>2, <1>5, <1>6, <2>1 DEF Positions
  <2>2. CASE v \in Listed(list) \ Known(indexes)
    BY <1>3, <2>2
  <2>3. CASE v \notin Known(indexes) \union Listed(list)
    <3>1. after[v] = 0
      BY <1>1, <1>2, <2>3 DEF Known
    <3> QED
      BY <1>6, <3>1
  <2> QED
    BY <2>1, <2>2, <2>3
<1> QED
  BY <1>7, <1>8 DEF Positions, after

-----------------------------------------------------------------------------
LEMMA DivMonotone ==
    ASSUME NEW a \in Nat, NEW b \in Nat, NEW n \in Nat \ {0}, a <= b
    PROVE  a \div n <= b \div n
  OBVIOUS

LEMMA Multiple ==
    ASSUME NEW a \in Nat, NEW n \in Nat \ {0}, a % n = 0
    PROVE  a = (a \div n) * n
OBVIOUS

LEMMA FirstBlockOfEpoch ==
    ASSUME NEW e \in Nat, NEW n \in Nat \ {0} PROVE (e * n) \div n = e
OBVIOUS

LEMMA QuotientZero ==
    ASSUME NEW a \in Nat, NEW n \in Nat \ {0}
    PROVE  /\ a \div n = 0 => a < n
           /\ a \div n > 0 => a > 0
OBVIOUS

(***************************************************************************)
(* A list sets at most as many bits as it is long.                         *)
(***************************************************************************)
LEMMA BitsCount ==
    ASSUME NEW indexes \in [Accounts -> Nat], NEW list \in Seq(Accounts)
    PROVE  /\ IsFiniteSet(Bits(indexes, list))
           /\ Cardinality(Bits(indexes, list)) <= Len(list)
<1> DEFINE f == [i \in 1 .. Len(list) |-> indexes[list[i]] - 1]
<1>1. Len(list) \in Nat /\ DOMAIN list = 1 .. Len(list)
  OBVIOUS
<1>2. f \in Surjection(1 .. Len(list), Bits(indexes, list))
  BY <1>1 DEF Surjection, Bits, Listed
<1>3. IsFiniteSet(1 .. Len(list)) /\ Cardinality(1 .. Len(list)) = Len(list)
  <2>1. /\ IsFiniteSet(1 .. Len(list))
        /\ Cardinality(1 .. Len(list)) = IF 1 > Len(list) THEN 0 ELSE Len(list) - 1 + 1
    BY <1>1, FS_Interval, 1 \in Int, Len(list) \in Int
  <2> QED
    BY <1>1, <2>1
<1> QED
  BY <1>2, <1>3, FS_Surjection

\* The bits of every epoch are positions, no more than the recorded count.
ChainIndexes(c) ==
    /\ Positions(allValidators[c])
    /\ \A e \in Epochs :
          /\ activeValidators[c][e] \subseteq {allValidators[c][v] - 1 : v \in Known(allValidators[c])}
          /\ Cardinality(activeValidators[c][e]) <= validatorCount[c][e]

LEMMA IndexesAgreeByChain == IndexesAgree <=> \A c \in Chains : ChainIndexes(c)
<1>1. ASSUME NEW c \in Chains
      PROVE  Bits(allValidators[c], [v \in Known(allValidators[c]) |-> v]) =
                {allValidators[c][v] - 1 : v \in Known(allValidators[c])}
  BY DEF Bits, Listed
<1> QED
  BY <1>1 DEF IndexesAgree, ChainIndexes, Positions

(***************************************************************************)
(* Every bit set so far lies in a word that the next recording allocates,  *)
(* so nothing of an earlier recording of the same epoch survives it.       *)
(***************************************************************************)
LEMMA NothingKept ==
    ASSUME HistoryType, NEW c \in Chains, ChainIndexes(c), NEW e \in Epochs
    PROVE  {b \in activeValidators[c][e] : Bucket(b) >= Buckets(c)} = {}
<1> DEFINE K == Cardinality(Known(allValidators[c]))
<1>1. allValidators[c] \in [Accounts -> Nat] /\ BitsPerBucket \in Nat \ {0}
  BY HubAssumption DEF HistoryType
<1>2. K \in Nat /\ Known(allValidators[c]) \subseteq Accounts
  BY <1>1, KnownFinite
<1>3. ASSUME NEW b \in activeValidators[c][e] PROVE Bucket(b) < Buckets(c)
  <2>1. PICK v \in Known(allValidators[c]) : b = allValidators[c][v] - 1
    BY <1>3 DEF ChainIndexes
  <2>2. allValidators[c][v] \in Nat /\ allValidators[c][v] # 0 /\ allValidators[c][v] <= K
    BY <1>1, <1>2, <2>1 DEF ChainIndexes, Positions, Known
  <2>3. b \in Nat /\ b <= K
    BY <1>2, <2>1, <2>2
  <2>4. b \div BitsPerBucket <= K \div BitsPerBucket
    BY <1>1, <1>2, <2>3, DivMonotone
  <2>5. b \div BitsPerBucket \in Nat /\ K \div BitsPerBucket \in Nat
    BY <1>1, <1>2, <2>3
  <2> QED
    BY <2>4, <2>5 DEF Bucket, Buckets
<1>4. \A b \in activeValidators[c][e] : Bucket(b) \in Int /\ Buckets(c) \in Int
  BY <1>1, <1>2 DEF Bucket, Buckets, HistoryType
<1> QED
  BY <1>3, <1>4

LEMMA UpdateKeepsIndexes ==
    ASSUME HistoryType, IndexesAgree, NEW c \in Chains, NEW list \in Seq(Accounts),
           NEW epoch \in Epochs, NEW latest,
           UpdateActiveValidatorSet(c, list, epoch, latest)
    PROVE  IndexesAgree'
<1> DEFINE indexes == AddAll(allValidators[c], list)
<1>1. \A d \in Chains : ChainIndexes(d)
  BY IndexesAgreeByChain
<1>2. allValidators[c] \in [Accounts -> Nat] /\ indexes \in [Accounts -> Nat]
  BY AddAllType DEF HistoryType
<1>3. /\ allValidators' = [allValidators EXCEPT ![c] = indexes]
      /\ activeValidators' = [activeValidators EXCEPT ![c][epoch] = Bits(indexes, list)]
      /\ validatorCount' = [validatorCount EXCEPT ![c][epoch] = Len(list)]
  BY <1>1, NothingKept DEF UpdateActiveValidatorSet
<1>4. /\ \A d \in Chains \ {c} : /\ allValidators'[d] = allValidators[d]
                                /\ activeValidators'[d] = activeValidators[d]
                                /\ validatorCount'[d] = validatorCount[d]
      /\ allValidators'[c] = indexes
      /\ \A e \in Epochs \ {epoch} : /\ activeValidators'[c][e] = activeValidators[c][e]
                                    /\ validatorCount'[c][e] = validatorCount[c][e]
      /\ activeValidators'[c][epoch] = Bits(indexes, list)
      /\ validatorCount'[c][epoch] = Len(list)
  BY <1>3 DEF HistoryType
<1>5. /\ Known(indexes) = Known(allValidators[c]) \union Listed(list)
      /\ \A v \in Known(allValidators[c]) : indexes[v] = allValidators[c][v]
  BY <1>2, KnownAfterAdd
<1>6. Positions(indexes)
  BY <1>1, <1>2, AddAllKeepsPositions DEF ChainIndexes
<1> HIDE DEF indexes
<1>7. ASSUME NEW d \in Chains \ {c} PROVE ChainIndexes(d)'
  BY <1>1, <1>4 DEF ChainIndexes
<1>8. ChainIndexes(c)'
  <2>1. Positions(allValidators'[c])
    BY <1>4, <1>6
  <2>2. ASSUME NEW e \in Epochs \ {epoch}
        PROVE  /\ activeValidators'[c][e] \subseteq {indexes[v] - 1 : v \in Known(indexes)}
               /\ Cardinality(activeValidators'[c][e]) <= validatorCount'[c][e]
    BY <1>1, <1>4, <1>5 DEF ChainIndexes
  <2>3. Bits(indexes, list) \subseteq {indexes[v] - 1 : v \in Known(indexes)}
    BY <1>5 DEF Bits
  <2>4. Cardinality(Bits(indexes, list)) <= Len(list)
    BY <1>2, BitsCount
  <2> QED
    BY <1>4, <2>1, <2>2, <2>3, <2>4 DEF ChainIndexes
<1>9. \A d \in Chains : ChainIndexes(d)'
  BY <1>7, <1>8
<1>10. ASSUME NEW d \in Chains
       PROVE  Bits(allValidators[d], [v \in Known(allValidators[d]) |-> v])' =
                 {allValidators'[d][v] - 1 : v \in Known(allValidators'[d])}
  BY DEF Bits, Listed
<1> QED
  BY <1>9, <1>10 DEF IndexesAgree, ChainIndexes, Positions

LEMMA InitialHub == Init => TypeInv /\ IndexesAgree
<1>1. Init => TypeInv
  BY HubAssumption DEF Init, TypeInv, TypeOK, Chain, EpochLengthsKnown, Registered, Epochs
<1>2. ASSUME Init, NEW c \in Chains PROVE ChainIndexes(c)
  <2>1. Known(allValidators[c]) = {}
    BY <1>2 DEF Init, Known
  <2>2. /\ \A v \in Accounts : allValidators[c][v] = 0
        /\ \A e \in Epochs : activeValidators[c][e] = {} /\ validatorCount[c][e] = 0
    BY <1>2 DEF Init
  <2>3. Cardinality({}) = 0
    BY FS_EmptySet
  <2>4. Cardinality(Known(allValidators[c])) = 0
    BY <2>1, <2>3
  <2>5. Positions(allValidators[c])
    BY <2>1, <2>2, <2>4 DEF Positions
  <2>6. \A e \in Epochs : Cardinality(activeValidators[c][e]) = 0
    BY <2>2, <2>3
  <2> QED
    BY <2>2, <2>5, <2>6 DEF ChainIndexes
<1> QED
  BY <1>1, <1>2, IndexesAgreeByChain

(***************************************************************************)
(* The enumerable set, the bitmaps and the counts agree in every reachable *)
(* state, however registrations and transitions follow one another         *)
(* (RelayHub.sol:187-210): positions are 1 .. the set's length, every bit  *)
(* is a validator's, and the count covers the bits.                        *)
(***************************************************************************)
THEOREM IndexesAlwaysAgree == Spec => []IndexesAgree
<1>1. Init => TypeInv /\ IndexesAgree
  BY InitialHub
<1>2. TypeInv /\ IndexesAgree /\ [Next]_vars => TypeInv' /\ IndexesAgree'
  <2> SUFFICES ASSUME TypeInv, IndexesAgree, [Next]_vars PROVE IndexesAgree'
    BY NextKeepsType
  <2>1. CASE UNCHANGED vars
    BY <2>1 DEF IndexesAgree, vars, history
  <2>2. CASE Next
    <3>1. PICK c \in Chains : Register(c) \/ Transition(c)
      BY <2>2 DEF Next
    <3>2. PICK list \in Seq(Accounts), epoch \in Epochs, latest \in Nat :
             UpdateActiveValidatorSet(c, list, epoch, latest)
      BY <3>1, StepRecords
    <3> QED
      BY <3>2, UpdateKeepsIndexes DEF TypeInv, TypeOK, HistoryType
  <2> QED
    BY <2>1, <2>2
<1> QED
  BY <1>1, <1>2, PTL DEF Spec

-----------------------------------------------------------------------------
HubInv == TypeInv /\ IndexesAgree

LEMMA HubInvHolds == Spec => []HubInv
<1>1. TypeInv /\ [Next]_vars => TypeInv'
  BY NextKeepsType
<1>2. Init => TypeInv
  BY HubAssumption DEF Init, TypeInv, TypeOK, Chain, EpochLengthsKnown, Registered, Epochs
<1>3. HubInv <=> TypeInv /\ IndexesAgree
  BY DEF HubInv
<1> QED
  BY <1>1, <1>2, <1>3, IndexesAlwaysAgree, PTL DEF Spec

(***************************************************************************)
(* Recording a set for one epoch of one chain changes no other set: the    *)
(* bitmap of another epoch is the same, and its bits still name the same   *)
(* validators, because the new validators took positions of their own.     *)
(***************************************************************************)
LEMMA RecordingKeepsOthers ==
    ASSUME HubInv, NEW c \in Chains, NEW list \in Seq(Accounts), NEW epoch \in Epochs,
           NEW latest, UpdateActiveValidatorSet(c, list, epoch, latest),
           NEW d \in Chains, NEW e \in Epochs, d # c \/ e # epoch
    PROVE  SameSet(d, e)
<1> DEFINE indexes == AddAll(allValidators[c], list)
<1>1. /\ allValidators \in [Chains -> [Accounts -> Nat]]
      /\ activeValidators \in [Chains -> [Epochs -> SUBSET Nat]]
      /\ validatorCount \in [Chains -> [Epochs -> Nat]]
  BY DEF HubInv, TypeInv, TypeOK
<1>2. /\ allValidators' = [allValidators EXCEPT ![c] = indexes]
      /\ activeValidators'[d][e] = activeValidators[d][e]
      /\ validatorCount'[d][e] = validatorCount[d][e]
  BY <1>1 DEF UpdateActiveValidatorSet
<1>3. CASE d # c
  <2>1. allValidators'[d] = allValidators[d]
    BY <1>1, <1>2, <1>3
  <2> QED
    BY <1>2, <2>1 DEF SameSet, ActiveSet, ExtractActiveValidators
<1>4. CASE d = c
  <2>1. allValidators'[d] = indexes /\ allValidators[c] \in [Accounts -> Nat]
    BY <1>1, <1>2, <1>4
  <2>2. ChainIndexes(c)
    BY IndexesAgreeByChain DEF HubInv
  <2>3. Positions(indexes)
    BY <2>1, <2>2, AddAllKeepsPositions DEF ChainIndexes
  <2>4. /\ Known(allValidators[c]) \subseteq Known(indexes)
        /\ \A v \in Known(allValidators[c]) : indexes[v] = allValidators[c][v]
    BY <2>1, KnownAfterAdd
  <2>5. indexes \in [Accounts -> Nat] /\ Known(indexes) \subseteq Accounts
    BY <2>1, AddAllType, KnownFinite
  <2> HIDE DEF indexes
  <2>6. ASSUME NEW v \in Known(indexes), indexes[v] - 1 \in activeValidators[c][e]
        PROVE  v \in Known(allValidators[c])
    <3>1. PICK u \in Known(allValidators[c]) : indexes[v] - 1 = allValidators[c][u] - 1
      BY <2>2, <2>6 DEF ChainIndexes
    <3>2. u \in Known(indexes) /\ indexes[v] = indexes[u]
      BY <2>1, <2>4, <2>5, <3>1
    <3> QED
      BY <2>3, <3>1, <3>2 DEF Positions
  <2>7. {v \in Known(indexes) : indexes[v] - 1 \in activeValidators[c][e]} =
        {v \in Known(allValidators[c]) : allValidators[c][v] - 1 \in activeValidators[c][e]}
    BY <2>4, <2>6
  <2> QED
    BY <1>2, <1>4, <2>1, <2>7 DEF SameSet, ActiveSet, ExtractActiveValidators
<1> QED
  BY <1>3, <1>4

LEMMA StutteringKeepsSets ==
    ASSUME UNCHANGED vars, NEW d, NEW e
    PROVE  SameSet(d, e)
BY DEF vars, history, SameSet, ActiveSet, ExtractActiveValidators, Known

\* What one step does to the history, whichever operation it is.
LEMMA StepEffect ==
    ASSUME HubInv, Next
    PROVE  \E c \in Chains : \E epoch \in Epochs, latest \in Nat :
              /\ latestKnownEpoch' = [latestKnownEpoch EXCEPT ![c] = epoch]
              /\ EpochFollows(latest, epoch) /\ Against(c, latest)
              /\ \A d \in Chains : \A e \in Epochs : (d # c \/ e # epoch) => SameSet(d, e)
<1>1. PICK c \in Chains : Register(c) \/ Transition(c)
  BY DEF Next
<1>2. PICK list \in Seq(Accounts), epoch \in Epochs, latest \in Nat :
         UpdateActiveValidatorSet(c, list, epoch, latest) /\ Against(c, latest)
  BY <1>1, StepRecords DEF HubInv
<1>3. latestKnownEpoch' = [latestKnownEpoch EXCEPT ![c] = epoch]
  BY <1>2 DEF UpdateActiveValidatorSet
<1>4. EpochFollows(latest, epoch)
  BY <1>2 DEF UpdateActiveValidatorSet, Recordable
<1>5. ASSUME NEW d \in Chains, NEW e \in Epochs, d # c \/ e # epoch
      PROVE  SameSet(d, e)
  BY <1>2, <1>5, RecordingKeepsOthers
<1> QED
  BY <1>2, <1>3, <1>4, <1>5

-----------------------------------------------------------------------------
(***************************************************************************)
(* A transaction changes the set of no epoch but the one it records, for   *)
(* any lists, however they overlap with the validators already known       *)
(* (RelayHub.sol:192-209).                                                 *)
(***************************************************************************)
THEOREM OtherEpochsAlwaysKept == Spec => OtherEpochsKept
<1> DEFINE Kept == \A c \in Chains : \A e \in Epochs \ {latestKnownEpoch'[c]} : SameSet(c, e)
<1>1. HubInv /\ [Next]_vars => [Kept]_vars
  <2> SUFFICES ASSUME HubInv, Next PROVE Kept
    OBVIOUS
  <2>1. PICK c \in Chains : \E epoch \in Epochs :
           /\ latestKnownEpoch' = [latestKnownEpoch EXCEPT ![c] = epoch]
           /\ \A d \in Chains : \A e \in Epochs : (d # c \/ e # epoch) => SameSet(d, e)
    BY StepEffect
  <2>2. latestKnownEpoch \in [Chains -> Epochs]
    BY DEF HubInv, TypeInv, TypeOK
  <2> QED
    BY <2>1, <2>2
<1> QED
  BY <1>1, HubInvHolds, PTL DEF Spec, OtherEpochsKept

(***************************************************************************)
(* No recorded epoch is ever recorded again but epoch 0, on every path     *)
(* that records one (RelayHub.sol:188-191); the latest epoch goes up by    *)
(* one, and by two only in a transition past an epoch whose header was     *)
(* submitted (RelayHub.sol:286-304).                                       *)
(***************************************************************************)
THEOREM NoEpochEverRewritten == Spec => NoEpochRewritten
<1> DEFINE Monotone ==
       \A c \in Chains : latestKnownEpoch[c] > 0 =>
          /\ \A e \in 1 .. latestKnownEpoch[c] : SameSet(c, e)
          /\ \/ latestKnownEpoch'[c] \in {0, latestKnownEpoch[c], latestKnownEpoch[c] + 1}
             \/ latestKnownEpoch'[c] = latestKnownEpoch[c] + 2 /\ PassedOver(c)
<1>1. HubInv /\ [Next]_vars => [Monotone]_vars
  <2> SUFFICES ASSUME HubInv, Next, NEW d \in Chains, latestKnownEpoch[d] > 0
               PROVE  /\ \A e \in 1 .. latestKnownEpoch[d] : SameSet(d, e)
                      /\ \/ latestKnownEpoch'[d] \in {0, latestKnownEpoch[d], latestKnownEpoch[d] + 1}
                         \/ latestKnownEpoch'[d] = latestKnownEpoch[d] + 2 /\ PassedOver(d)
    OBVIOUS
  <2>1. PICK c \in Chains : \E epoch \in Epochs, latest \in Nat :
           /\ latestKnownEpoch' = [latestKnownEpoch EXCEPT ![c] = epoch]
           /\ EpochFollows(latest, epoch) /\ Against(c, latest)
           /\ \A b \in Chains : \A e \in Epochs : (b # c \/ e # epoch) => SameSet(b, e)
    BY StepEffect
  <2>2. PICK epoch \in Epochs, latest \in Nat :
           /\ latestKnownEpoch' = [latestKnownEpoch EXCEPT ![c] = epoch]
           /\ EpochFollows(latest, epoch) /\ Against(c, latest)
           /\ \A b \in Chains : \A e \in Epochs : (b # c \/ e # epoch) => SameSet(b, e)
    BY <2>1
  <2>3. /\ latestKnownEpoch \in [Chains -> Epochs]
        /\ MaxEpoch \in Nat /\ latestKnownEpoch[d] \in Epochs
    BY HubAssumption DEF HubInv, TypeInv, TypeOK
  <2>4. 1 .. latestKnownEpoch[d] \subseteq Epochs
    BY <2>3 DEF Epochs
  <2>5. CASE d # c
    <3>1. latestKnownEpoch'[d] = latestKnownEpoch[d]
      BY <2>2, <2>3, <2>5
    <3> QED
      BY <2>2, <2>3, <2>4, <2>5, <3>1 DEF Epochs
  <2>6. CASE d = c
    <3>1. latestKnownEpoch'[d] = epoch
      BY <2>2, <2>3, <2>6
    <3>2. latest > 0 /\ latest \in {latestKnownEpoch[d], latestKnownEpoch[d] + 1}
      BY <2>2, <2>3, <2>6 DEF Against, Epochs
    <3>3. epoch = 0 \/ epoch = latest + 1
      BY <2>2, <2>3, <3>2 DEF EpochFollows, Epochs
    <3>4. epoch \notin 1 .. latestKnownEpoch[d]
      BY <2>3, <3>2, <3>3 DEF Epochs
    <3>5. \A e \in 1 .. latestKnownEpoch[d] : SameSet(d, e)
      BY <2>2, <2>4, <3>4
    <3>6. CASE latest = latestKnownEpoch[d] \/ epoch = 0
      BY <3>1, <3>3, <3>5, <3>6
    <3>7. CASE latest # latestKnownEpoch[d] /\ epoch # 0
      <4>1. epoch = latestKnownEpoch[d] + 2
        BY <2>3, <3>2, <3>3, <3>7 DEF Epochs
      <4>2. PassedOver(d)
        BY <2>2, <2>6, <3>7 DEF Against, NextEpochHeader, PassedOver
      <4> QED
        BY <3>1, <3>5, <4>1, <4>2
    <3> QED
      BY <3>6, <3>7
  <2> QED
    BY <2>5, <2>6
<1> QED
  BY <1>1, HubInvHolds, PTL DEF Spec, NoEpochRewritten

(***************************************************************************)
(* Nobody re-registers a chain that made a transition, through any of the  *)
(* four registrations, and no transition touches its description           *)
(* (RelayHub.sol:165).                                                     *)
(***************************************************************************)
THEOREM ActiveChainsStayFrozen == Spec => ActiveChainsFrozen
<1> DEFINE Frozen == \A c \in Chains : registeredChains[c].chainStatus = "Active" =>
                        registeredChains'[c] = registeredChains[c]
<1>1. HubInv /\ [Next]_vars => [Frozen]_vars
  <2> SUFFICES ASSUME HubInv, Next, NEW d \in Chains, registeredChains[d].chainStatus = "Active"
               PROVE  registeredChains'[d] = registeredChains[d]
    OBVIOUS
  <2>1. registeredChains \in [Chains -> Chain]
    BY DEF HubInv, TypeInv, TypeOK
  <2>2. PICK c \in Chains : Register(c) \/ Transition(c)
    BY DEF Next
  <2>3. CASE Register(c)
    <3>1. /\ Registrable(c)
          /\ \E new : registeredChains' = [registeredChains EXCEPT ![c] = new]
      BY <2>3 DEF Register, RegisterCertifiedBAS, RegisterUsingCheckpoint, RegisterBAS,
                  RegisterBSC, RegisterChain
    <3>2. d # c
      BY <3>1 DEF Registrable
    <3> QED
      BY <2>1, <3>1, <3>2
  <2>4. CASE Transition(c)
    <3>1. registeredChains' = [registeredChains EXCEPT ![c].chainStatus = "Active"]
      BY <2>4, TransitionActivates DEF Activate
    <3> QED
      BY <2>1, <3>1 DEF Chain
  <2> QED
    BY <2>2, <2>3, <2>4
<1> QED
  BY <1>1, HubInvHolds, PTL DEF Spec, ActiveChainsFrozen

-----------------------------------------------------------------------------
(***************************************************************************)
(* The set recorded for an epoch is the list it was recorded from.         *)
(***************************************************************************)
LEMMA RecordedSet ==
    ASSUME HubInv, NEW c \in Chains, NEW list \in Seq(Accounts), NEW epoch \in Epochs,
           NEW latest, UpdateActiveValidatorSet(c, list, epoch, latest)
    PROVE  ActiveSet(c, epoch)' = Listed(list)
<1> DEFINE indexes == AddAll(allValidators[c], list)
<1>1. /\ allValidators \in [Chains -> [Accounts -> Nat]]
      /\ activeValidators \in [Chains -> [Epochs -> SUBSET Nat]]
      /\ HistoryType
  BY DEF HubInv, TypeInv, TypeOK, HistoryType
<1>2. ChainIndexes(c)
  BY IndexesAgreeByChain DEF HubInv
<1>3. allValidators'[c] = indexes /\ activeValidators'[c][epoch] = Bits(indexes, list)
  BY <1>1, <1>2, NothingKept DEF UpdateActiveValidatorSet
<1>4. /\ Positions(indexes) /\ indexes \in [Accounts -> Nat]
      /\ Listed(list) \subseteq Known(indexes) /\ Known(indexes) \subseteq Accounts
  <2>1. allValidators[c] \in [Accounts -> Nat] /\ Positions(allValidators[c])
    BY <1>1, <1>2 DEF ChainIndexes
  <2>2. indexes \in [Accounts -> Nat] /\ Positions(indexes)
    BY <2>1, AddAllType, AddAllKeepsPositions
  <2>3. Listed(list) \subseteq Known(indexes)
    BY <2>1, KnownAfterAdd
  <2> QED
    BY <2>2, <2>3, KnownFinite
<1> HIDE DEF indexes
<1>5. ASSUME NEW v \in Known(indexes), indexes[v] - 1 \in Bits(indexes, list)
      PROVE  v \in Listed(list)
  <2>1. PICK u \in Listed(list) : indexes[v] - 1 = indexes[u] - 1
    BY <1>5 DEF Bits
  <2>2. u \in Known(indexes) /\ indexes[v] = indexes[u]
    BY <1>4, <2>1
  <2> QED
    BY <1>4, <2>1, <2>2 DEF Positions
<1>6. {v \in Known(indexes) : indexes[v] - 1 \in Bits(indexes, list)} = Listed(list)
  BY <1>4, <1>5 DEF Bits
<1> QED
  BY <1>3, <1>6 DEF ActiveSet, ExtractActiveValidators

(***************************************************************************)
(* The signers that make the hub's quorum are two thirds of the members:   *)
(* marked bits are different members, and the recorded count is at least   *)
(* the number of members.                                                  *)
(***************************************************************************)
LEMMA MembersCount ==
    ASSUME HubInv, NEW c \in Chains, NEW e \in Epochs
    PROVE  /\ IsFiniteSet(ActiveSet(c, e)) /\ Cardinality(ActiveSet(c, e)) \in Nat
           /\ Cardinality(ActiveSet(c, e)) <= validatorCount[c][e]
<1> DEFINE f == [v \in ActiveSet(c, e) |-> allValidators[c][v] - 1]
<1>1. /\ allValidators[c] \in [Accounts -> Nat] /\ activeValidators[c][e] \subseteq Nat
      /\ validatorCount[c][e] \in Nat
  BY DEF HubInv, TypeInv, TypeOK
<1>2. ChainIndexes(c)
  BY IndexesAgreeByChain DEF HubInv
<1>3. /\ \A v \in ActiveSet(c, e) : /\ v \in Known(allValidators[c]) /\ v \in Accounts
                                    /\ allValidators[c][v] - 1 \in activeValidators[c][e]
      /\ ActiveSet(c, e) \subseteq Accounts
  BY <1>1 DEF ActiveSet, ExtractActiveValidators, Known
<1>4. IsFiniteSet(ActiveSet(c, e)) /\ Cardinality(ActiveSet(c, e)) \in Nat
  BY <1>3, AccountsAssumption, FS_Subset, FS_CardinalityType
<1>5. ASSUME NEW b \in activeValidators[c][e]
      PROVE  \E v \in ActiveSet(c, e) : b = f[v]
  <2>1. PICK v \in Known(allValidators[c]) : b = allValidators[c][v] - 1
    BY <1>2, <1>5 DEF ChainIndexes
  <2> QED
    BY <1>5, <2>1 DEF ActiveSet, ExtractActiveValidators
<1>6. f \in Surjection(ActiveSet(c, e), activeValidators[c][e])
  BY <1>3, <1>5 DEF Surjection
<1>7. f \in Injection(ActiveSet(c, e), activeValidators[c][e])
  <2>1. ASSUME NEW v \in ActiveSet(c, e), NEW w \in ActiveSet(c, e), f[v] = f[w]
        PROVE  v = w
    <3>1. allValidators[c][v] = allValidators[c][w]
      BY <1>1, <1>3, <2>1
    <3> QED
      BY <1>2, <1>3, <2>1, <3>1 DEF ChainIndexes, Positions
  <2> QED
    BY <1>3, <2>1 DEF Injection, IsInjective
<1>8. IsFiniteSet(activeValidators[c][e])
  BY <1>4, <1>6, FS_Surjection
<1>9. /\ Cardinality(ActiveSet(c, e)) <= Cardinality(activeValidators[c][e])
      /\ Cardinality(activeValidators[c][e]) \in Nat
  BY <1>7, <1>8, FS_Injection, FS_CardinalityType
<1>10. Cardinality(activeValidators[c][e]) <= validatorCount[c][e]
  BY <1>2 DEF ChainIndexes
<1> QED
  BY <1>1, <1>4, <1>9, <1>10

\* the lists that are recorded: a header's or the empty one
HeaderLists == {<<>>} \union {h.validators : h \in Headers}

LEMMA ParsedLists ==
    /\ \A h \in Headers : \A n : ParsedValidators(h, n) \in HeaderLists
    /\ \A proofs \in Seq(Headers) : \A n : NewValidatorSet(proofs, n) \in HeaderLists
<1>1. \A h \in Headers : \A n : ParsedValidators(h, n) \in HeaderLists
  BY DEF ParsedValidators, HeaderLists
<1>2. ASSUME NEW proofs \in Seq(Headers), NEW n PROVE NewValidatorSet(proofs, n) \in HeaderLists
  <2>1. CASE proofs = <<>>
    BY <2>1 DEF NewValidatorSet, HeaderLists
  <2>2. CASE proofs # <<>>
    <3>1. proofs[1] \in Headers
      BY <2>2
    <3> QED
      BY <1>1, <2>2, <3>1 DEF NewValidatorSet
  <2> QED
    BY <2>1, <2>2
<1> QED
  BY <1>1, <1>2

\* One step records one such list for one epoch of one chain.
LEMMA StepRecordsList ==
    ASSUME HubInv, Next
    PROVE  \E c \in Chains, list \in Seq(Accounts) \intersect HeaderLists, epoch \in Epochs :
              \E latest : UpdateActiveValidatorSet(c, list, epoch, latest)
<1>1. ASSUME NEW c \in Chains, Register(c)
      PROVE  \E list \in Seq(Accounts) \intersect HeaderLists, epoch \in Epochs :
                \E latest : UpdateActiveValidatorSet(c, list, epoch, latest)
  <2>1. PICK h \in Headers, bridge \in Bridges, n \in EpochLengths,
           vf \in VerificationFunctions \union {DefaultFunction}, chainType \in {"BSC", "BAS"} :
           RegisterChain(c, vf, h, chainType, bridge, n)
    BY <1>1 DEF Register, RegisterCertifiedBAS, RegisterUsingCheckpoint, RegisterBAS, RegisterBSC
  <2>2. n \in EpochLengths \ {0}
    BY <2>1, HubAssumption DEF RegisterChain
  <2>3. UpdateActiveValidatorSet(c, ParsedValidators(h, n), h.number \div n, latestKnownEpoch[c])
    BY <2>1 DEF RegisterChain
  <2> QED
    BY <2>2, <2>3, HeaderType, ParsedLists
<1>2. ASSUME NEW c \in Chains, Transition(c)
      PROVE  \E list \in Seq(Accounts) \intersect HeaderLists, epoch \in Epochs :
                \E latest : UpdateActiveValidatorSet(c, list, epoch, latest)
  <2> DEFINE n == registeredChains[c].epochLength
             Recorded == \E list \in Seq(Accounts) \intersect HeaderLists, epoch \in Epochs :
                            \E latest : UpdateActiveValidatorSet(c, list, epoch, latest)
  <2>1. n \in EpochLengths \ {0}
    BY <1>2, TransitionActivates DEF HubInv, TypeInv, EpochLengthsKnown
  <2>2. ASSUME NEW proofs \in BlockProofs, NEW latest, ProvenTransition(c, proofs, latest) PROVE Recorded
    <3>1. UpdateActiveValidatorSet(c, NewValidatorSet(proofs, n), FirstEpoch(proofs, n), latest)
      BY <2>2 DEF ProvenTransition, ValidatorTransition
    <3> QED
      BY <2>1, <3>1, SubmittedProofs, ProofsType, ParsedLists
  <2>4. ASSUME NEW h \in Headers, NEW k \in CheckpointHashes, NEW signatures \in SignatureLists,
               CheckpointTransition(c, h, k, signatures)
        PROVE  Recorded
    <3>1. UpdateActiveValidatorSet(c, ParsedValidators(h, n), h.number \div n, latestKnownEpoch[c])
      BY <2>4 DEF CheckpointTransition
    <3> QED
      BY <2>1, <3>1, HeaderType, ParsedLists
  <2> QED
    BY <1>2, <2>2, <2>4, TransitionKinds
<1> QED
  BY <1>1, <1>2 DEF Next

-----------------------------------------------------------------------------
(***************************************************************************)
(* When the hub's quorum check never refuses what it should accept: as     *)
(* long as the accounts that headers ever list fit one bitmap word (256)   *)
(* the words that mark signers are enough.  With more accounts they are    *)
(* not, see HubClaims.                                                     *)
(***************************************************************************)
EverListed == UNION {Listed(list) : list \in HeaderLists}

OneWord == Cardinality(EverListed) <= BitsPerBucket

\* no header repeats a validator
DistinctLists ==
    \A h \in Headers : \A i, j \in DOMAIN h.validators : h.validators[i] = h.validators[j] => i = j

-----------------------------------------------------------------------------
(***************************************************************************)
(* With one word every bit is in it, and a set with a bit has a word of    *)
(* marks.                                                                  *)
(***************************************************************************)
LEMMA ListedFinite ==
    EverListed \subseteq Accounts /\ IsFiniteSet(EverListed) /\ Cardinality(EverListed) \in Nat
<1>1. \A list \in HeaderLists : list \in Seq(Accounts)
  <2>1. \A h \in Headers : h.validators \in Seq(Accounts)
    BY HeadersAssumption DEF Header
  <2>2. <<>> \in Seq(Accounts)
    OBVIOUS
  <2> QED
    BY <2>1, <2>2 DEF HeaderLists
<1>2. EverListed \subseteq Accounts
  BY <1>1 DEF EverListed, Listed
<1> QED
  BY <1>2, AccountsAssumption, FS_Subset, FS_CardinalityType

(***************************************************************************)
(* The enumerable set holds only accounts that a header listed.            *)
(***************************************************************************)
KnownListed == \A c \in Chains : Known(allValidators[c]) \subseteq EverListed

QuorumInv == HubInv /\ KnownListed

LEMMA ListKeepsListed ==
    ASSUME QuorumInv, NEW c \in Chains, NEW list \in Seq(Accounts) \intersect HeaderLists,
           NEW epoch, NEW latest, UpdateActiveValidatorSet(c, list, epoch, latest)
    PROVE  KnownListed'
<1>1. allValidators \in [Chains -> [Accounts -> Nat]]
  BY DEF QuorumInv, HubInv, TypeInv, TypeOK
<1>2. allValidators' = [allValidators EXCEPT ![c] = AddAll(allValidators[c], list)]
  BY DEF UpdateActiveValidatorSet
<1>3. Known(AddAll(allValidators[c], list)) \subseteq EverListed
  <2>1. Listed(list) \subseteq EverListed
    BY DEF EverListed
  <2>2. Known(AddAll(allValidators[c], list)) = Known(allValidators[c]) \union Listed(list)
    BY <1>1, KnownAfterAdd
  <2> QED
    BY <2>1, <2>2 DEF QuorumInv, KnownListed
<1> SUFFICES ASSUME NEW d \in Chains PROVE Known(allValidators'[d]) \subseteq EverListed
  BY DEF KnownListed
<1>4. CASE d = c
  BY <1>1, <1>2, <1>3, <1>4
<1>5. CASE d # c
  BY <1>1, <1>2, <1>5 DEF QuorumInv, KnownListed
<1> QED
  BY <1>4, <1>5

LEMMA StepKeepsListed ==
    ASSUME QuorumInv, [Next]_vars PROVE KnownListed'
<1>1. CASE UNCHANGED vars
  BY <1>1 DEF vars, history, QuorumInv, KnownListed
<1>2. CASE Next
  BY <1>2, StepRecordsList, ListKeepsListed DEF QuorumInv
<1> QED
  BY <1>1, <1>2

LEMMA QuorumInvHolds == Spec => []QuorumInv
<1>1. ASSUME Init PROVE KnownListed
  BY <1>1 DEF Init, KnownListed, Known
<1>2. QuorumInv /\ [Next]_vars => KnownListed'
  BY StepKeepsListed
<1>3. QuorumInv <=> HubInv /\ KnownListed
  BY DEF QuorumInv
<1> QED
  BY <1>1, <1>2, <1>3, HubInvHolds, PTL DEF Spec

LEMMA BelowWord ==
    ASSUME NEW b \in Nat, b < BitsPerBucket PROVE Bucket(b) = 0
<1>1. BitsPerBucket \in Nat \ {0}
  BY HubAssumption
<1> QED
  BY <1>1 DEF Bucket

LEMMA SomeMarks ==
    ASSUME NEW total \in Nat \ {0} PROVE MarkedBuckets(total) > 0
<1>1. BitsPerBucket \in Nat \ {0}
  BY HubAssumption
<1>2. BitsPerBucket \div BitsPerBucket = 1
  BY <1>1
<1>3. total + BitsPerBucket - 1 \in Nat /\ BitsPerBucket <= total + BitsPerBucket - 1
  BY <1>1
<1>4. BitsPerBucket \div BitsPerBucket <= (total + BitsPerBucket - 1) \div BitsPerBucket
  BY <1>1, <1>3, DivMonotone
<1>5. (total + BitsPerBucket - 1) \div BitsPerBucket \in Int
  BY <1>1, <1>3
<1> QED
  BY <1>2, <1>4, <1>5 DEF MarkedBuckets

LEMMA BitsFinite ==
    ASSUME HubInv, NEW c \in Chains, NEW e \in Epochs
    PROVE  /\ IsFiniteSet(activeValidators[c][e]) /\ Cardinality(activeValidators[c][e]) \in Nat
           /\ activeValidators[c][e] \subseteq Nat /\ validatorCount[c][e] \in Nat
           /\ \A b \in activeValidators[c][e] : \E v \in ActiveSet(c, e) : b = allValidators[c][v] - 1
           /\ \A v \in ActiveSet(c, e) : /\ v \in Accounts /\ v \in Known(allValidators[c])
                                         /\ allValidators[c][v] - 1 \in activeValidators[c][e]
<1>1. /\ allValidators[c] \in [Accounts -> Nat] /\ activeValidators[c][e] \subseteq Nat
      /\ validatorCount[c][e] \in Nat
  BY DEF HubInv, TypeInv, TypeOK
<1>2. \A v \in ActiveSet(c, e) : /\ v \in Accounts /\ v \in Known(allValidators[c])
                                 /\ allValidators[c][v] - 1 \in activeValidators[c][e]
  BY <1>1 DEF ActiveSet, ExtractActiveValidators, Known
<1>3. ASSUME NEW b \in activeValidators[c][e]
      PROVE  \E v \in ActiveSet(c, e) : b = allValidators[c][v] - 1
  <2>1. PICK v \in Known(allValidators[c]) : b = allValidators[c][v] - 1
    BY <1>3, IndexesAgreeByChain DEF ChainIndexes, HubInv
  <2> QED
    BY <1>3, <2>1 DEF ActiveSet, ExtractActiveValidators
<1>4. [v \in ActiveSet(c, e) |-> allValidators[c][v] - 1]
         \in Surjection(ActiveSet(c, e), activeValidators[c][e])
  BY <1>2, <1>3 DEF Surjection
<1>5. IsFiniteSet(activeValidators[c][e])
  BY <1>4, MembersCount, FS_Surjection
<1> QED
  BY <1>1, <1>2, <1>3, <1>5, FS_CardinalityType

LEMMA BitsMarked ==
    ASSUME QuorumInv, OneWord, NEW c \in Chains, NEW e \in Epochs, NEW b \in activeValidators[c][e]
    PROVE  Bucket(b) < MarkedBuckets(validatorCount[c][e])
<1>1. PICK v \in ActiveSet(c, e) : b = allValidators[c][v] - 1
  BY BitsFinite DEF QuorumInv
<1>2. v \in Accounts /\ allValidators[c] \in [Accounts -> Nat] /\ b \in Nat
  BY <1>1, BitsFinite DEF QuorumInv, HubInv, TypeInv, TypeOK
<1>3. allValidators[c][v] <= Cardinality(Known(allValidators[c]))
  BY <1>2, IndexesAgreeByChain DEF ChainIndexes, Positions, QuorumInv, HubInv
<1>4. /\ Cardinality(Known(allValidators[c])) <= Cardinality(EverListed)
      /\ Cardinality(Known(allValidators[c])) \in Nat
  BY <1>2, KnownFinite, ListedFinite, FS_Subset DEF QuorumInv, KnownListed
<1>5. b < BitsPerBucket
  BY <1>1, <1>2, <1>3, <1>4, ListedFinite, HubAssumption DEF OneWord
<1>6. validatorCount[c][e] \in Nat \ {0}
  <2>1. Cardinality(activeValidators[c][e]) # 0
    BY BitsFinite, FS_EmptySet DEF QuorumInv
  <2>2. Cardinality(activeValidators[c][e]) <= validatorCount[c][e]
    BY IndexesAgreeByChain DEF ChainIndexes, QuorumInv, HubInv
  <2> QED
    BY <2>1, <2>2, BitsFinite DEF QuorumInv
<1> QED
  BY <1>2, <1>5, <1>6, BelowWord, SomeMarks

-----------------------------------------------------------------------------
(***************************************************************************)
(* The recorded count is the number of bits when no list repeats a member. *)
(***************************************************************************)
CountExact == \A c \in Chains, e \in Epochs : Cardinality(activeValidators[c][e]) = validatorCount[c][e]

LEMMA DistinctBits ==
    ASSUME NEW indexes \in [Accounts -> Nat], NEW list \in Seq(Accounts), Positions(indexes),
           Listed(list) \subseteq Known(indexes),
           \A i, j \in DOMAIN list : list[i] = list[j] => i = j
    PROVE  Cardinality(Bits(indexes, list)) = Len(list)
<1> DEFINE f == [i \in 1 .. Len(list) |-> indexes[list[i]] - 1]
<1>1. Len(list) \in Nat /\ DOMAIN list = 1 .. Len(list) /\ \A i \in DOMAIN list : list[i] \in Accounts
  OBVIOUS
<1>2. f \in Surjection(1 .. Len(list), Bits(indexes, list))
  BY <1>1 DEF Surjection, Bits, Listed
<1>3. IsFiniteSet(1 .. Len(list)) /\ Cardinality(1 .. Len(list)) = Len(list)
  <2>1. 1 \in Int /\ Len(list) \in Int
    BY <1>1
  <2>2. /\ IsFiniteSet(1 .. Len(list))
        /\ Cardinality(1 .. Len(list)) = IF 1 > Len(list) THEN 0 ELSE Len(list) - 1 + 1
    BY <2>1, FS_Interval
  <2> QED
    BY <1>1, <2>2
<1>4. ASSUME NEW i \in 1 .. Len(list), NEW j \in 1 .. Len(list), f[i] = f[j] PROVE i = j
  <2>1. indexes[list[i]] = indexes[list[j]]
    BY <1>1, <1>4
  <2>2. list[i] \in Known(indexes) /\ list[j] \in Known(indexes)
    BY <1>1 DEF Listed
  <2>3. list[i] = list[j]
    BY <2>1, <2>2 DEF Positions
  <2> QED
    BY <1>1, <2>3
<1>5. f \in Injection(1 .. Len(list), Bits(indexes, list))
  <2>1. f \in [1 .. Len(list) -> Bits(indexes, list)]
    BY <1>2 DEF Surjection
  <2> QED
    BY <1>4, <2>1 DEF Injection, IsInjective
<1> QED
  BY <1>2, <1>3, <1>5, FS_Surjection

LEMMA StepKeepsCount ==
    ASSUME HubInv, CountExact, DistinctLists, [Next]_vars PROVE CountExact'
<1>1. CASE UNCHANGED vars
  BY <1>1 DEF vars, history, CountExact
<1>2. CASE Next
  <2>1. PICK c \in Chains, list \in Seq(Accounts) \intersect HeaderLists, epoch \in Epochs :
           \E latest : UpdateActiveValidatorSet(c, list, epoch, latest)
    BY <1>2, StepRecordsList
  <2>2. PICK latest : UpdateActiveValidatorSet(c, list, epoch, latest)
    BY <2>1
  <2> DEFINE indexes == AddAll(allValidators[c], list)
  <2>3. /\ allValidators[c] \in [Accounts -> Nat] /\ HistoryType /\ ChainIndexes(c)
        /\ activeValidators \in [Chains -> [Epochs -> SUBSET Nat]]
        /\ validatorCount \in [Chains -> [Epochs -> Nat]]
    BY IndexesAgreeByChain DEF HubInv, TypeInv, TypeOK, HistoryType
  <2>4. /\ activeValidators' = [activeValidators EXCEPT ![c][epoch] = Bits(indexes, list)]
        /\ validatorCount' = [validatorCount EXCEPT ![c][epoch] = Len(list)]
    BY <2>2, <2>3, NothingKept DEF UpdateActiveValidatorSet
  <2>5. \A i, j \in DOMAIN list : list[i] = list[j] => i = j
    BY DEF DistinctLists, HeaderLists
  <2>6. Positions(indexes) /\ indexes \in [Accounts -> Nat] /\ Listed(list) \subseteq Known(indexes)
    BY <2>3, AddAllType, AddAllKeepsPositions, KnownAfterAdd DEF ChainIndexes
  <2> HIDE DEF indexes
  <2>7. Cardinality(Bits(indexes, list)) = Len(list)
    BY <2>5, <2>6, DistinctBits
  <2> SUFFICES ASSUME NEW d \in Chains, NEW e \in Epochs
               PROVE  Cardinality(activeValidators'[d][e]) = validatorCount'[d][e]
    BY DEF CountExact
  <2>8. CASE d = c /\ e = epoch
    BY <2>3, <2>4, <2>7, <2>8
  <2>9. CASE d # c \/ e # epoch
    <3>1. activeValidators'[d][e] = activeValidators[d][e] /\ validatorCount'[d][e] = validatorCount[d][e]
      BY <2>3, <2>4, <2>9
    <3> QED
      BY <3>1 DEF CountExact
  <2> QED
    BY <2>8, <2>9
<1> QED
  BY <1>1, <1>2

LEMMA CountAlwaysExact == ASSUME DistinctLists PROVE Spec => []CountExact
<1>1. ASSUME Init PROVE CountExact
  BY <1>1, FS_EmptySet DEF Init, CountExact
<1>2. HubInv /\ CountExact /\ [Next]_vars => CountExact'
  BY StepKeepsCount
<1> QED
  BY <1>1, <1>2, HubInvHolds, PTL DEF Spec

(***************************************************************************)
(* When the listed accounts fit one bitmap word and no header repeats a    *)
(* validator, the signatures of a whole set are a quorum                   *)
(* (RelayHub.sol:354-378).                                                 *)
(***************************************************************************)
THEOREM FullQuorumAlwaysAccepted ==
    ASSUME OneWord, DistinctLists PROVE Spec => []FullQuorumAccepted
<1>1. QuorumInv /\ CountExact => FullQuorumAccepted
  <2> SUFFICES ASSUME QuorumInv, CountExact, NEW c \in Chains, NEW e \in Epochs
               PROVE  QuorumReached(c, [v \in ActiveSet(c, e) |-> v], e)
    BY DEF FullQuorumAccepted
  <2> DEFINE signers == [v \in ActiveSet(c, e) |-> v]
  <2>1. UniqueIndexes(c, signers, e) = activeValidators[c][e]
    BY BitsFinite DEF QuorumInv, UniqueIndexes
  <2>2. \A b \in activeValidators[c][e] : Bucket(b) < MarkedBuckets(validatorCount[c][e])
    BY BitsMarked
  <2>3. Cardinality(activeValidators[c][e]) >= RequiredQuorum(validatorCount[c][e])
    <3>1. Cardinality(activeValidators[c][e]) = validatorCount[c][e] /\ validatorCount[c][e] \in Nat
      BY BitsFinite DEF QuorumInv, CountExact
    <3> QED
      BY <3>1 DEF RequiredQuorum
  <2> QED
    BY <2>1, <2>2, <2>3 DEF QuorumReached
<1> QED
  BY <1>1, QuorumInvHolds, CountAlwaysExact, PTL

\* Members of a set as many as its quorum are a quorum for the hub.
LEMMA SealsAreQuorum ==
    ASSUME QuorumInv, OneWord, NEW c \in Chains, NEW e \in Epochs, NEW signers,
           Cardinality(Listed(signers) \intersect ActiveSet(c, e)) >= RequiredQuorum(validatorCount[c][e])
    PROVE  QuorumReached(c, signers, e)
<1> DEFINE seals == Listed(signers) \intersect ActiveSet(c, e)
           Unique == UniqueIndexes(c, signers, e)
           f == [v \in seals |-> allValidators[c][v] - 1]
<1>1. Unique \subseteq activeValidators[c][e] /\ IsFiniteSet(Unique) /\ Cardinality(Unique) \in Nat
  <2>1. Unique \subseteq activeValidators[c][e]
    BY DEF UniqueIndexes
  <2> QED
    BY <2>1, BitsFinite, FS_Subset, FS_CardinalityType DEF QuorumInv
<1>2. \A b \in Unique : Bucket(b) < MarkedBuckets(validatorCount[c][e])
  BY <1>1, BitsMarked
<1>3. allValidators[c] \in [Accounts -> Nat] /\ Positions(allValidators[c])
  BY IndexesAgreeByChain DEF QuorumInv, HubInv, TypeInv, TypeOK, ChainIndexes
<1>4. f \in [seals -> Unique]
  <2> SUFFICES ASSUME NEW v \in seals PROVE allValidators[c][v] - 1 \in Unique
    OBVIOUS
  <2>1. PICK i \in DOMAIN signers : v = signers[i]
    BY DEF Listed
  <2>2. allValidators[c][v] - 1 \in activeValidators[c][e]
    BY BitsFinite DEF QuorumInv
  <2> QED
    BY <2>1, <2>2 DEF UniqueIndexes
<1>5. ASSUME NEW v \in seals, NEW w \in seals, f[v] = f[w] PROVE v = w
  <2>1. v \in Known(allValidators[c]) /\ w \in Known(allValidators[c]) /\ v \in Accounts /\ w \in Accounts
    BY BitsFinite DEF QuorumInv
  <2>2. allValidators[c][v] = allValidators[c][w]
    BY <1>3, <1>5, <2>1
  <2> QED
    BY <2>1, <2>2, <1>3 DEF Positions
<1>6. f \in Injection(seals, Unique)
  BY <1>4, <1>5 DEF Injection, IsInjective
<1>7. Cardinality(seals) <= Cardinality(Unique) /\ Cardinality(seals) \in Nat
  BY <1>1, <1>6, FS_Injection, FS_CardinalityType
<1>8. validatorCount[c][e] \in Nat
  BY BitsFinite DEF QuorumInv
<1>9. RequiredQuorum(validatorCount[c][e]) \in Int
  BY <1>8 DEF RequiredQuorum
<1>10. Cardinality(Unique) >= RequiredQuorum(validatorCount[c][e])
  <2>1. Cardinality(seals) >= RequiredQuorum(validatorCount[c][e])
    OBVIOUS
  <2> HIDE DEF seals, Unique
  <2> QED
    BY <1>1, <1>7, <1>9, <2>1
<1> QED
  BY <1>2, <1>10 DEF QuorumReached

\* With one word there is room for every validator a list adds.
LEMMA RoomForList ==
    ASSUME QuorumInv, OneWord, NEW c \in Chains, NEW list \in Seq(Accounts) \intersect HeaderLists
    PROVE  \A b \in Bits(AddAll(allValidators[c], list), list) : Bucket(b) < Buckets(c)
<1> DEFINE indexes == AddAll(allValidators[c], list)
<1>1. allValidators[c] \in [Accounts -> Nat] /\ Positions(allValidators[c])
  BY IndexesAgreeByChain DEF QuorumInv, HubInv, TypeInv, TypeOK, ChainIndexes
<1>2. /\ indexes \in [Accounts -> Nat] /\ Positions(indexes)
      /\ \A v \in Listed(list) : indexes[v] >= 1 /\ v \in Accounts
  BY <1>1, AddAllType, AddAllKeepsPositions DEF Listed
<1> HIDE DEF indexes
<1>3. Cardinality(Known(indexes)) <= Cardinality(EverListed) /\ Cardinality(Known(indexes)) \in Nat
  <2>1. Known(indexes) \subseteq EverListed
    BY <1>1, KnownAfterAdd DEF indexes, EverListed, QuorumInv, KnownListed
  <2> QED
    BY <1>2, <2>1, KnownFinite, ListedFinite, FS_Subset
<1>4. Buckets(c) >= 1
  <2>1. Cardinality(Known(allValidators[c])) \in Nat /\ BitsPerBucket \in Nat \ {0}
    BY <1>1, KnownFinite, HubAssumption
  <2>2. Cardinality(Known(allValidators[c])) \div BitsPerBucket \in Nat
    BY <2>1
  <2> QED
    BY <2>2 DEF Buckets
<1>5. ASSUME NEW b \in Bits(indexes, list) PROVE Bucket(b) < Buckets(c)
  <2>1. PICK v \in Listed(list) : b = indexes[v] - 1
    BY <1>5 DEF Bits
  <2>2. indexes[v] <= Cardinality(Known(indexes)) /\ indexes[v] \in Nat /\ indexes[v] >= 1
    BY <1>2, <2>1 DEF Positions
  <2>3. b \in Nat /\ b < BitsPerBucket
    BY <1>3, <2>1, <2>2, ListedFinite, HubAssumption DEF OneWord
  <2>4. Bucket(b) = 0
    BY <2>3, BelowWord
  <2>5. Buckets(c) \in Int
    BY <1>1, KnownFinite, HubAssumption DEF Buckets
  <2> QED
    BY <1>4, <2>4, <2>5
<1> QED
  BY <1>5 DEF indexes
=============================================================================
