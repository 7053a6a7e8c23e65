----------------------------- MODULE MCRelayHub -----------------------------
(***************************************************************************)
(* Instances of HubAgreement for TLC.  Validators a, b and c are honest, f *)
(* is faulty; every canonical epoch has three validators, so a quorum is   *)
(* two and the faulty one alone is below it.                               *)
(***************************************************************************)
EXTENDS HubClaims, TLC

Sealing(chain, number, hash, parent, sealer, list) ==
    [chain |-> chain, number |-> number, hash |-> hash, parentHash |-> parent,
     coinbase |-> sealer, sealer |-> sealer, validators |-> list]

(***************************************************************************)
(* One chain with epochs of two blocks, four epochs long; the validator    *)
(* set rotates at every epoch.  x2 and x3 are a branch of f's own from     *)
(* block 1; m2 claims b's address but is sealed by f.                      *)
(***************************************************************************)
G0 == Sealing("bas", 0, "g0", "none", "none", <<"a", "b", "f">>)
H1 == Sealing("bas", 1, "h1", "g0", "a", <<>>)
H2 == Sealing("bas", 2, "h2", "h1", "b", <<"b", "c", "a">>)
H3 == Sealing("bas", 3, "h3", "h2", "a", <<>>)
H4 == Sealing("bas", 4, "h4", "h3", "c", <<"c", "b", "f">>)
H5 == Sealing("bas", 5, "h5", "h4", "b", <<>>)
H6 == Sealing("bas", 6, "h6", "h5", "c", <<"a", "c", "f">>)
X2 == Sealing("bas", 2, "x2", "h1", "f", <<"f">>)
X3 == Sealing("bas", 3, "x3", "x2", "f", <<>>)
M2 == [Sealing("bas", 2, "m2", "x3", "f", <<"f">>) EXCEPT !.coinbase = "b"]

OneChainCanonical == {G0, H1, H2, H3, H4, H5, H6}

(***************************************************************************)
(* Another chain whose validators hold the same accounts.                  *)
(***************************************************************************)
S0 == Sealing("side", 0, "s0", "none", "none", <<"b", "a", "c">>)
S1 == Sealing("side", 2, "s1", "s0", "b", <<"f", "a", "b">>)
S2 == Sealing("side", 3, "s2", "s1", "a", <<>>)

SideCanonical == {S0, S1, S2}
BothCanonical == OneChainCanonical \union SideCanonical

OneChainHeaders == OneChainCanonical \union {X2, X3, M2}
BothHeaders == OneChainHeaders \union SideCanonical

Alone(S) == {<<>>} \union {<<h>> : h \in S}
Pairs(S) == {<<g, h>> : g, h \in S}

OneChainProofs ==
    Alone(OneChainHeaders)
        \union Pairs({H2, H3, H4, X2, X3, M2})
        \union {<<H1, H2>>, <<H4, H5>>, <<H5, H6>>, <<H2, H5>>}
        \union {<<H2, H3, H4>>, <<H3, H4, H5>>, <<X2, X3, M2>>, <<X2, H3, H4>>}

Signs(list, h, k) == [i \in DOMAIN list |-> [signer |-> list[i], root |-> <<h.hash, k>>]]

OneChainSignatures ==
    {<<>>, Signs(<<"a", "b">>, H2, "k1"), Signs(<<"b", "c">>, H4, "k1"), Signs(<<"a", "a">>, H2, "k1"),
     Signs(<<"f", "f", "f">>, X2, "k2"), Signs(<<"f">>, H2, "k2") \o Signs(<<"a">>, H2, "k1")}

(***************************************************************************)
(* The same chain's canonical headers, for registrations that name other   *)
(* epoch lengths and bridges before the first transition.                  *)
(***************************************************************************)
ShortHeaders == {G0, H1, H2, H3, H4, H6}

ShortProofs == {<<>>, <<G0>>, <<H1>>, <<H2>>, <<H6>>, <<H2, H3>>, <<H3, H4>>, <<H4, H3>>}

ShortSignatures == {Signs(<<"a", "b">>, H2, "k1"), Signs(<<"c", "b">>, H4, "k1")}

(***************************************************************************)
(* A chain whose single validator is replaced at every epoch, for words of *)
(* two bits; the same run of events needs 257 validators for words of 256. *)
(***************************************************************************)
R0 == Sealing("bas", 0, "g0", "none", "none", <<"a">>)
R1 == Sealing("bas", 1, "h1", "g0", "a", <<"b">>)
R2 == Sealing("bas", 2, "h2", "h1", "b", <<"c">>)

RotationHeaders == {R0, R1, R2}
RotationProofs == {<<R1>>, <<R2>>}
RotationSignatures == {Signs(<<"a">>, R1, "k1")}

BothProofs == OneChainProofs \union {<<S0>>, <<S1>>, <<S1, S2>>, <<H2, S2>>, <<S1, H3>>}
BothSignatures == OneChainSignatures \union {Signs(<<"b", "a">>, S1, "k1")}

BothHashes == {h.hash : h \in BothHeaders} \union {"none"}
OneChainHashes == {h.hash : h \in OneChainHeaders} \union {"none"}
=============================================================================
