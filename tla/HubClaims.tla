----------------------------- MODULE HubClaims -----------------------------
(***************************************************************************)
(* What a comment of contracts/RelayHub.sol says of the code below it, and *)
(* what the code does not do: TLC refutes it.                              *)
(***************************************************************************)
EXTENDS HubAgreement

(***************************************************************************)
(* RelayHub.sol:370: "mark used validators to be sure quorum is            *)
(* well-calculated".  The marks are as many as the epoch's validators, the *)
(* positions marked are those among all validators the chain ever had: past*)
(* BitsPerBucket of them the check panics on signatures of the whole set.  *)
(* The statement is FullQuorumAccepted of HubAgreement.                    *)
(***************************************************************************)
WholeSetIsAQuorum == FullQuorumAccepted
=============================================================================
