----------------------------- MODULE ProofFeed -----------------------------
(***************************************************************************)
(* relayer/proof.go and parlia.go composed with the hub of RelayHub: a     *)
(* relayer reads the headers of an epoch from its node one call at a time, *)
(* while the node's branch grows or is reorganised under it, and submits   *)
(* them to updateValidatorSet.  The loop that polls, retries and waits is  *)
(* Relayer's; here a transition is attempted whenever an epoch is          *)
(* confirmed, and its transaction is executed at once.                     *)
(***************************************************************************)
EXTENDS RelayHub

CONSTANTS
    Source,             \* the chain the relayer follows
    Genesis,            \* the header it is registered with
    FirstTip,           \* the node's last block when the relayer starts
    EpochLength, Confirmations,
    Word,               \* 2^64, the modulus of block numbers
    MaxReorg            \* the deepest reorganisation of the source chain

ASSUME SourceAssumption ==
    /\ Source \in Chains /\ Genesis \in Headers /\ Genesis.number = 0
    /\ EpochLength \in EpochLengths \ {0} /\ Confirmations \in Nat /\ MaxReorg \in Nat
    /\ FirstTip \in Headers /\ Word \in Nat /\ \A h \in Headers : h.number < Word

\* A hash names one header; the node keeps headers of the source chain only.
ASSUME NodeAssumption ==
    /\ \A g, h \in Headers : g.hash = h.hash => g = h
    /\ \A h \in Headers : h.chain = Source

VARIABLES
    tip,        \* the node's last block
    confirmed,  \* the confirmed number last handed to the worker
    reading,    \* is the worker reading headers
    quorum,     \* quorumRequired, from the previous epoch's block as it was read
    proofs      \* blockProofs so far

worker == <<confirmed, reading, quorum, proofs>>
feedVars == <<vars, tip, worker>>

FeedInit ==
    /\ Init
    /\ tip = FirstTip /\ confirmed = 0
    /\ reading = FALSE /\ quorum = 0 /\ proofs = <<>>

-----------------------------------------------------------------------------
\* The source chain: Branch[h] is h and its ancestors
Branch[h \in Headers] ==
    {h} \union UNION {Branch[p] : p \in {g \in Headers : g.hash = h.parentHash /\ g.number < h.number}}

ASSUME FirstTipAssumption == Genesis \in Branch[FirstTip]

(***************************************************************************)
(* The chain has as many blocks as the relayer waits for confirmations.    *)
(* On a shorter one the confirmed number wraps (ConfirmedBlock) and the    *)
(* epochs handed over are not confirmed at all.                            *)
(***************************************************************************)
LongEnough == Confirmations <= FirstTip.number

HasBlock(i) == \E h \in Branch[tip] : h.number = i

BlockAt(i) == CHOOSE h \in Branch[tip] : h.number = i

Extend ==
    /\ \E h \in Headers : h.parentHash = tip.hash /\ h.number = tip.number + 1 /\ tip' = h
    /\ UNCHANGED <<vars, worker>>

\* the node switches to a longer branch
Reorganise ==
    /\ \E h \in Headers :
          /\ h.number > tip.number /\ tip \notin Branch[h]
          /\ \E common \in Branch[h] \intersect Branch[tip] : tip.number - common.number <= MaxReorg
          /\ tip' = h
    /\ UNCHANGED <<vars, worker>>

RegisterSource ==
    /\ registeredChains[Source].chainStatus = "NotFound"
    /\ \E vf \in VerificationFunctions, bridgeAddress \in Bridges :
          RegisterBAS(Source, vf, Genesis, bridgeAddress, EpochLength)
    /\ UNCHANGED <<tip, worker>>

-----------------------------------------------------------------------------
\* extractParliaValidators
ExtractParliaValidators(h) == h.validators

\* recoverParliaBlockSigner, for a header of the chain the node is asked about
RecoverParliaBlockSigner(h) == h.sealer

\* mutant: two thirds of what is left without one
QuorumOfOthers(prevEpochBlock) ==
    ((Len(ExtractParliaValidators(prevEpochBlock)) - 1) * 2) \div 3

CalcRequiredQuorumForNextEpoch(prevEpochBlock) ==
    (Len(ExtractParliaValidators(prevEpochBlock)) * 2) \div 3

NextEpochBlock == (latestKnownEpoch[Source] + 1) * EpochLength

\* uint64: the guard "confirmedBlock < 0" never holds
ConfirmedBlock(n) == (n - Confirmations) % Word

PollAtOnce == tip.number # confirmed /\ confirmed' = tip.number    \* mutant

\* The tip's number only grows: above latestBlockNumber is where the result differs.
Poll == ConfirmedBlock(tip.number) # confirmed /\ confirmed' = ConfirmedBlock(tip.number)

HandOver == Poll /\ ~ reading /\ UNCHANGED <<vars, tip, reading, quorum, proofs>>

CreateBlockProofs ==
    /\ Registered(Source) /\ ~ reading
    /\ confirmed >= NextEpochBlock
    /\ HasBlock(NextEpochBlock - EpochLength)
    /\ reading' = TRUE
    /\ quorum' = CalcRequiredQuorumForNextEpoch(BlockAt(NextEpochBlock - EpochLength))
    /\ proofs' = <<>>
    /\ UNCHANGED <<vars, tip, confirmed>>

UniqueSigners(headers) == {headers[i].coinbase : i \in DOMAIN headers}

\* at least one block is read before the quorum is looked at
EnoughSigners(headers) == headers # <<>> /\ Cardinality(UniqueSigners(headers)) >= quorum

NextBlock == NextEpochBlock + Len(proofs)

Readable ==
    /\ NextBlock < NextEpochBlock + EpochLength
    /\ HasBlock(NextBlock)
    /\ RecoverParliaBlockSigner(BlockAt(NextBlock)) = BlockAt(NextBlock).coinbase

\* a sealer outside the previous set is logged and counted all the same
ReadBlock ==
    /\ reading /\ ~ EnoughSigners(proofs) /\ Readable
    /\ proofs' = Append(proofs, BlockAt(NextBlock))
    /\ UNCHANGED <<vars, tip, confirmed, reading, quorum>>

KeepReading == UNCHANGED <<tip, worker>>    \* mutant

Abandon ==
    /\ reading' = FALSE /\ quorum' = 0 /\ proofs' = <<>>
    /\ UNCHANGED <<tip, confirmed>>

ReadFails == reading /\ ~ EnoughSigners(proofs) /\ ~ Readable /\ Abandon /\ UNCHANGED vars

Accepted ==
    /\ BlocksReachQuorum(Source, proofs, EpochLength)
    /\ Recordable(Source, NewValidatorSet(proofs, EpochLength),
                  FirstEpoch(proofs, EpochLength), latestKnownEpoch[Source])

Submit ==
    /\ reading /\ EnoughSigners(proofs)
    /\ UpdateValidatorSet(Source, proofs) \/ (~ Accepted /\ UNCHANGED vars)
    /\ Abandon

-----------------------------------------------------------------------------
Work == HandOver \/ CreateBlockProofs \/ ReadBlock \/ ReadFails \/ Submit

FeedNext == Extend \/ Reorganise \/ RegisterSource \/ Work

(***************************************************************************)
(* The chain grows until the last header of the instance, the deployer     *)
(* registers it and the worker keeps working.                              *)
(***************************************************************************)
FeedSpec ==
    /\ FeedInit /\ [][FeedNext]_feedVars
    /\ WF_feedVars(Extend) /\ WF_feedVars(RegisterSource) /\ WF_feedVars(Work)

-----------------------------------------------------------------------------
(***************************************************************************)
(* The set recorded for every epoch is the one of the epoch's block on the *)
(* node's branch, whatever is reorganised meanwhile or later, when the     *)
(* chain is LongEnough and the confirmations cover the deepest             *)
(* reorganisation (service.go:114).                                        *)
(***************************************************************************)
RecordedOnBranch ==
    \A e \in 1 .. latestKnownEpoch[Source] :
        /\ HasBlock(e * EpochLength)
        /\ ExtractActiveValidators(Source, e) = Listed(BlockAt(e * EpochLength).validators)

(***************************************************************************)
(* A finished proof whose headers come from one branch and were sealed by  *)
(* the set the hub holds is accepted by the hub: what the relayer counts   *)
(* as a quorum, from the previous epoch's block and in another language,   *)
(* is one for the contract (proof.go:62-71 against RelayHub.sol:354-378).  *)
(***************************************************************************)
BuiltProofAccepted ==
    /\ reading /\ EnoughSigners(proofs) /\ Linked(proofs)
    /\ UniqueSigners(proofs) \subseteq ExtractActiveValidators(Source, latestKnownEpoch[Source])
    => Accepted

(***************************************************************************)
(* Reads that fail or mix two branches are only delays: the hub ends up    *)
(* with every epoch that stays confirmed (service.go:203-213).             *)
(***************************************************************************)
EveryEpochRecorded ==
    \A e \in Epochs \ {0} :
        []<>(confirmed >= e * EpochLength) => <>(latestKnownEpoch[Source] >= e)

(***************************************************************************)
(* proof.go:63: "make sure quorum is reached".  Sealers are counted who    *)
(* are not in the previous set (proof.go:54 only warns), the hub skips     *)
(* them: with nine validators the quorum takes six blocks, and Parlia lets *)
(* the new set seal from the sixth on.  The same headers are read again at *)
(* every retry.                                                            *)
(***************************************************************************)
QuorumMadeSure ==
    reading /\ EnoughSigners(proofs) /\ Linked(proofs) => Accepted
=============================================================================
