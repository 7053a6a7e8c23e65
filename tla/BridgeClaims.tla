---------------------------- MODULE BridgeClaims ----------------------------
(***************************************************************************)
(* What the tests of the bridge say and the deployed contracts do not do.  *)
(***************************************************************************)
EXTENDS CrossChainBridge

(***************************************************************************)
(* test/cross-chain-bridge.js:205: "peg-in pegged to native (burn)" and    *)
(* :275 "peg-in pegged to erc20 (burn)" unlock what was burned.  Outside   *)
(* the tests' contracts it never is: the metadata of a burn name the       *)
(* token's origin chain, withdraw asks for a proof on that chain, and the  *)
(* receipt is on the chain the token was burned on.                        *)
(***************************************************************************)
BurnedUnlocked ==
    \A c \in Chains :
        (\E receipt \in receipts : receipt.chain # c /\ Parses(c, receipt)
                                   /\ PegIn(c, receipt).kind = "Burn")
        ~> (\E receipt \in usedProofs[c] : \E i \in DOMAIN receipt :
               receipt[i].kind = "Burn" /\ receipt[i].chain = c)
=============================================================================
