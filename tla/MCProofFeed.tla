---------------------------- MODULE MCProofFeed ----------------------------
(***************************************************************************)
(* Instances of ProofFeed for TLC.                                         *)
(***************************************************************************)
EXTENDS ProofFeed, TLC

Block(hash, number, parent, sealer, list) ==
    [chain |-> "bas", number |-> number, hash |-> hash, parentHash |-> parent,
     coinbase |-> sealer, sealer |-> sealer, validators |-> list]

(***************************************************************************)
(* Six validators, epochs of four blocks, one validator replaced at every  *)
(* epoch.  Parlia lets a new set seal when half the old one has sealed: in *)
(* this instance, from the next epoch on.  Branch "n" leaves branch "m"    *)
(* before the block of the second epoch, branch "o" among the blocks that  *)
(* prove it; both replace other validators and have sealers out of turn.   *)
(***************************************************************************)
LastCommon == [m |-> 15, n |-> 6, o |-> 9]

SetOf(branch, epoch) ==
    CASE epoch = 0 -> <<"a", "b", "c", "d", "e", "f">>
      [] epoch = 1 -> <<"a", "b", "c", "d", "e", "g">>
      [] epoch = 2 -> IF branch = "n" THEN <<"a", "h", "c", "d", "e", "g">>
                                      ELSE <<"h", "b", "c", "d", "e", "g">>
      [] epoch = 3 -> IF branch = "m" THEN <<"h", "b", "c", "d", "f", "g">>
                                      ELSE <<"h", "b", "c", "a", "e", "g">>

OnBranch(branch, i) ==
    LET Of(k) == IF k <= LastCommon[branch] THEN "m" ELSE branch
        sealing == i \div 4 - 1
        turn == ((IF branch = "m" THEN i ELSE i + 1) % 6) + 1
    IN  Block(<<branch, i>>, i, <<Of(i - 1), i - 1>>,
              CASE i = 0 -> "z"
                [] i \in 1 .. 3 -> SetOf("m", 0)[turn]
                [] OTHER -> SetOf(Of(4 * sealing), sealing)[turn],
              IF i % 4 = 0 THEN SetOf(branch, i \div 4) ELSE <<>>)

Forks ==
    {OnBranch("m", i) : i \in 0 .. 15}
        \union UNION {{OnBranch(b, i) : i \in LastCommon[b] + 1 .. 15} : b \in {"n", "o"}}

(***************************************************************************)
(* Nine validators, epochs of eight blocks, one validator replaced at      *)
(* block 8: blocks 8 to 12 are sealed by the old set, block 13 by the new  *)
(* member w.                                                               *)
(***************************************************************************)
Nine == <<"v1", "v2", "v3", "v4", "v5", "v6", "v7", "v8", "v9">>

Replaced == [Nine EXCEPT ![9] = "w"]

SealerOf(i) ==
    CASE i = 0 -> "z"
      [] i \in 1 .. 12 -> Nine[(i % 9) + 1]
      [] i = 13 -> "w"
      [] OTHER -> Replaced[(i % 9) + 1]

LongEpochs ==
    {Block(i, i, i - 1, SealerOf(i),
           CASE i = 0 -> Nine [] i \in {8, 16} -> Replaced [] OTHER -> <<>>) : i \in 0 .. 16}

HeaderAt(i, headers) == CHOOSE h \in headers : h.number = i
ForksGenesis == HeaderAt(0, Forks)
ForksFirstTip == HeaderAt(5, Forks)
LongGenesis == HeaderAt(0, LongEpochs)
LongFirstTip == HeaderAt(2, LongEpochs)

ForksHashes == {"m", "n", "o"} \X (-1 .. 15)
LongHashes == -1 .. 16
=============================================================================
