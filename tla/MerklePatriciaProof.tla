------------------------ MODULE MerklePatriciaProof ------------------------
(***************************************************************************)
(* libraries/MerklePatriciaProof.sol: is a receipt the one a block's trie  *)
(* holds at a path, given the nodes on the way.                            *)
(*                                                                         *)
(* A node stands for its own keccak256 hash.  An item of a node is the     *)
(* hash of a child (32 bytes), a receipt (longer) or empty; byte strings   *)
(* are sequences of nibbles.  A path has no nibble above 15 and pathPtr    *)
(* never passes its end, so two of verify's checks never bite.  Lists that *)
(* do not decode, or have neither 2 nor 17 items, are no input.            *)
(***************************************************************************)
EXTENDS Integers, Sequences, FiniteSets, SequencesExt

CONSTANTS
    Tries,         \* contents of receipt tries: functions of keys, none a prefix of another
    Receipts,
    Paths,         \* hex-prefix encoded paths that are asked for
    ForeignNodes,  \* nodes of other tries
    MaxSiblings

Nibble == 0 .. 15

ASSUME TriesAssumption ==
    \A trie \in Tries :
        /\ DOMAIN trie # {} /\ IsFiniteSet(DOMAIN trie)
        /\ \A key \in DOMAIN trie : key \in Seq(Nibble) /\ key # <<>>
        /\ \A k, l \in DOMAIN trie : IsPrefix(k, l) => k = l

ASSUME PathsAssumption == \A path \in Paths : path \in Seq(Nibble)

-----------------------------------------------------------------------------
\* Nodes, as the node's software builds them
Hash(node) == <<"hash", node>>
Value(receipt) == <<"bytes", receipt>>
Empty == <<"empty">>

Branch(child, value) == <<"branch", child, value>>   \* 17 items
Pair(encodedPath, item) == <<"pair", encodedPath, item>>   \* a leaf or an extension

HexPrefix(nibbles, leaf) ==
    LET flag == IF leaf THEN 2 ELSE 0
    IN  IF Len(nibbles) % 2 = 1 THEN <<flag + 1>> \o nibbles ELSE <<flag, 0>> \o nibbles

Below(trie, p) == {key \in DOMAIN trie : IsPrefix(p, key)}

\* how far the keys below p go together
Fork(trie, p) == LongestCommonPrefix(Below(trie, p))

KeyPrefixes(trie) == UNION {Prefixes(key) : key \in DOMAIN trie}

From(s, d) == SubSeq(s, d + 1, Len(s))

\* the node that holds what the trie has below p, by the nodes further down
Layout(trie, p, node) ==
    LET f == Fork(trie, p)
    IN  IF f \in DOMAIN trie THEN Pair(HexPrefix(From(f, Len(p)), TRUE), Value(trie[f]))
        ELSE IF f # p THEN Pair(HexPrefix(From(f, Len(p)), FALSE), Hash(node[f]))
        ELSE Branch([x \in Nibble |->
                        IF Append(p, x) \in KeyPrefixes(trie) THEN Hash(node[Append(p, x)]) ELSE Empty],
                    Empty)

Nodes(trie) == LET node[p \in KeyPrefixes(trie)] == Layout(trie, p, node) IN node

Root(trie) == Nodes(trie)[<<>>]

BranchAt(trie, p) == Fork(trie, p) = p /\ p \notin DOMAIN trie

\* nodes are the root, branches, and what branches lead to
IsNode(trie, p) == p = <<>> \/ BranchAt(trie, p) \/ BranchAt(trie, Front(p))

NodesOf(trie) == {Nodes(trie)[p] : p \in {q \in KeyPrefixes(trie) : IsNode(trie, q)}}

\* the nodes from the root to a key
Depths(trie, key) == {d \in 0 .. Len(key) : IsNode(trie, SubSeq(key, 1, d))}

IsNth(D, i, d) == d \in D /\ Cardinality({e \in D : e < d}) = i - 1

HonestProof(trie, key) ==
    LET D == Depths(trie, key)
    IN  [i \in 1 .. Cardinality(D) |-> Nodes(trie)[SubSeq(key, 1, CHOOSE d \in D : IsNth(D, i, d))]]

-----------------------------------------------------------------------------
VARIABLES
    trie, path, receipt,  \* the block's trie and what is asked about it
    siblings,             \* the nodes looked at so far
    nodeKey, pathPtr,
    result

request == <<trie, path, receipt>>
vars == <<request, siblings, nodeKey, pathPtr, result>>

OddLeavesForgotten(b) == IF b = <<>> THEN <<>> ELSE SubSeq(b, IF b[1] = 1 THEN 2 ELSE 3, Len(b))    \* mutant

\* _getNibbleArray
NibbleArray(b) ==
    IF b = <<>> THEN <<>> ELSE SubSeq(b, IF b[1] \in {1, 3} THEN 2 ELSE 3, Len(b))

nibblePath == NibbleArray(path)

Rest == SubSeq(nibblePath, pathPtr + 1, Len(nibblePath))

Init ==
    /\ trie \in Tries /\ path \in Paths /\ receipt \in Receipts
    /\ siblings = <<>> /\ nodeKey = Hash(Root(trie)) /\ pathPtr = 0
    /\ result = IF nibblePath = <<>> THEN "false" ELSE "looking"

Return(answer) == result' = answer /\ UNCHANGED <<nodeKey, pathPtr>>

Revert == Return("revert")

Matches(item) == Return(IF item = Value(receipt) THEN "true" ELSE "false")

\* mutant: the nibbles just used are looked at again
SameNibbles(item, n) ==
    IF item[1] = "hash" THEN nodeKey' = item /\ UNCHANGED <<pathPtr, result>> ELSE Revert

\* toUintStrict takes 32 bytes and nothing else
Descend(item, n) ==
    IF item[1] = "hash"
    THEN nodeKey' = item /\ pathPtr' = pathPtr + n /\ UNCHANGED result
    ELSE Revert

AnyNode(node) == TRUE    \* mutant

IsNext(node) == nodeKey = Hash(node)

WrongNode(node) == ~ IsNext(node) /\ Return("false")

BranchNode(node) ==
    /\ IsNext(node) /\ node[1] = "branch"
    /\ \/ Rest = <<>> /\ Matches(node[3])
       \/ Rest # <<>> /\ Descend(node[2][Rest[1]], 1)

(***************************************************************************)
(* Leaves and extensions are told apart by where the path ends, not by     *)
(* their flag.  A partial path that is longer than what is left of the     *)
(* path is an index out of bounds.                                         *)
(***************************************************************************)
PairNode(node) ==
    LET partialPath == NibbleArray(node[2])
        traversed == IF IsPrefix(partialPath, Rest) THEN Len(partialPath) ELSE 0
    IN  /\ IsNext(node) /\ node[1] = "pair"
        /\ \/ Len(partialPath) > Len(Rest) /\ Revert
           \/ /\ Len(partialPath) <= Len(Rest)
              /\ \/ traversed = Len(Rest) /\ Matches(node[3])
                 \/ traversed # Len(Rest) /\ traversed = 0 /\ Return("false")
                 \/ traversed # Len(Rest) /\ traversed > 0 /\ Descend(node[3], traversed)

Look ==
    /\ result = "looking" /\ Len(siblings) < MaxSiblings
    /\ \E node \in NodesOf(trie) \union ForeignNodes :
          /\ siblings' = Append(siblings, node)
          /\ WrongNode(node) \/ BranchNode(node) \/ PairNode(node)
    /\ UNCHANGED request

NoMoreSiblings ==
    /\ result = "looking"
    /\ Return("false")
    /\ UNCHANGED <<request, siblings>>

Next == NoMoreSiblings \/ Look

Spec == Init /\ [][Next]_vars

-----------------------------------------------------------------------------
(***************************************************************************)
(* What is proved is what the trie holds at that path, whatever nodes, in  *)
(* whatever order, are passed as siblings and although leaves and          *)
(* extensions are not told apart (MerklePatriciaProof.sol:38-69).          *)
(***************************************************************************)
OnlyHeldProved ==
    result = "true" => nibblePath \in DOMAIN trie /\ trie[nibblePath] = receipt

(***************************************************************************)
(* The nodes on the way to a receipt prove it, whatever shape the trie     *)
(* has around it and with either flag in the encoded path                  *)
(* (MerklePatriciaProof.sol:38-69, 101-125).                               *)
(***************************************************************************)
HeldIsProved ==
    /\ nibblePath \in DOMAIN trie /\ trie[nibblePath] = receipt
    /\ siblings = HonestProof(trie, nibblePath)
    => result = "true"

(***************************************************************************)
(* The node looked for is the one that holds what the trie has below the   *)
(* nibbles walked: a mistake in skipping nibbles shows here long before an *)
(* answer is wrong (MerklePatriciaProof.sol:54-55, 64-65).                 *)
(***************************************************************************)
NodeOfPrefix ==
    result = "looking" =>
        LET walked == SubSeq(nibblePath, 1, pathPtr)
        IN  /\ pathPtr <= Len(nibblePath) /\ walked \in KeyPrefixes(trie)
            /\ nodeKey = Hash(Nodes(trie)[walked])
=============================================================================
