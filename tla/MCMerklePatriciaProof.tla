----------------------- MODULE MCMerklePatriciaProof -----------------------
(***************************************************************************)
(* An instance of MerklePatriciaProof for TLC.  Keys are the encodings of  *)
(* transaction indexes: 0, 1, 2, and two above 127, which share three      *)
(* nibbles.                                                                *)
(***************************************************************************)
EXTENDS MerklePatriciaProof, TLC

Keys == {<<8, 0>>, <<0, 1>>, <<0, 2>>, <<8, 1, 8, 0>>, <<8, 1, 8, 1>>}

TwoReceipts == {"first", "second"}

\* two transactions may leave equal receipts
Contents == UNION {[keys -> TwoReceipts] : keys \in SUBSET Keys \ {{}}}

KnownPrefixes == UNION {Prefixes(key) : key \in Keys}

AskedPaths ==
    {<<>>} \union {HexPrefix(p, leaf) :
                      p \in KnownPrefixes \union {<<8, 0, 1>>, <<8, 2, 8, 0>>, <<0, 3>>}, leaf \in BOOLEAN}

OtherBlock == {Root(<<8, 0>> :> "second"), Root((<<8, 0>> :> "first") @@ (<<0, 1>> :> "second"))}
=============================================================================
