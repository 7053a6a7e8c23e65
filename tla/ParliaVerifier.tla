--------------------------- MODULE ParliaVerifier ---------------------------
(***************************************************************************)
(* The header checks of contracts/verifiers: what PoSaBlockVerifier and    *)
(* ParliaBlockVerifier accept, before any quorum is counted.               *)
(*                                                                         *)
(* A header is a record of the fields the checks read.  The two fields     *)
(* "sealer" and "chain" stand for the 65 signature bytes at the end of the *)
(* extra data: the account that sealed the header and the chain id it      *)
(* sealed it under.  ECDSA.recover over the signing data built for chain c *)
(* returns the sealer exactly when c is that chain, and an unrelated       *)
(* account otherwise.  "validators" is the validator list in the extra     *)
(* data.  hash = keccak256 of the header's bytes.                          *)
(***************************************************************************)
EXTENDS Integers, Sequences, FiniteSets

CONSTANTS
    ChainIds,     \* every chain headers are sealed for
    Chains,       \* those a caller registers with the hub
    Accounts,     \* account addresses
    NoAccount,    \* an address nobody holds a key of (the zero address, or the
                  \* result of recovering a signature of something else)
    BlockHashes,  \* keccak256 values of headers
    Headers       \* every header a caller can submit

Header == [chain: ChainIds, number: Nat, hash: BlockHashes, parentHash: BlockHashes,
           coinbase: Accounts, sealer: Accounts, validators: Seq(Accounts)]

ASSUME AccountsAssumption == IsFiniteSet(Accounts) /\ NoAccount \in Accounts

ASSUME HeadersAssumption == Headers \subseteq Header

(***************************************************************************)
(* _parseAndVerifyPoSaBlockHeader.  The genesis header carries no seal:    *)
(* it is taken as it is and its signer is the zero address.                *)
(***************************************************************************)
SealedUnderAnyChain(c, h) == h.number = 0 \/ h.sealer = h.coinbase    \* mutant

SealedByAnyone(c, h) == h.number = 0 \/ h.chain = c    \* mutant

Sealed(c, h) == h.number = 0 \/ (h.chain = c /\ h.sealer = h.coinbase)

Signer(h) == IF h.number = 0 THEN NoAccount ELSE h.coinbase

IsEpochBlock(h, epochLength) == h.number % epochLength = 0

ParsedValidators(h, epochLength) ==
    IF IsEpochBlock(h, epochLength) THEN h.validators ELSE <<>>

(***************************************************************************)
(* A sequence of headers, the first one being "the block with proof".  An  *)
(* empty sequence leaves the first block all zeros and the list empty.     *)
(***************************************************************************)
FirstNumber(proofs) == IF proofs = <<>> THEN 0 ELSE proofs[1].number

FirstEpoch(proofs, epochLength) == FirstNumber(proofs) \div epochLength

NewValidatorSet(proofs, epochLength) ==
    IF proofs = <<>> THEN <<>> ELSE ParsedValidators(proofs[1], epochLength)

Signers(proofs) == [i \in DOMAIN proofs |-> Signer(proofs[i])]

NeverUnlinked(proofs) == TRUE    \* mutant

Linked(proofs) == \A i \in 2 .. Len(proofs) : proofs[i].parentHash = proofs[i - 1].hash

\* _verifyBlocksAndReachedQuorum, up to the quorum it asks the hub about
BlocksVerified(c, proofs) ==
    /\ \A i \in DOMAIN proofs : Sealed(c, proofs[i])
    /\ Linked(proofs)
=============================================================================
