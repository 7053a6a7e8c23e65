---------------------------- MODULE MerkleProofs ----------------------------
(***************************************************************************)
(* Theorems about Merkle proofs of receipts (MerklePatriciaProof), for     *)
(* every trie, path, receipt and list of nodes.                            *)
(***************************************************************************)
EXTENDS MerklePatriciaProof, SequenceTheorems, FiniteSums

Nibbles == Seq(Nibble)

-----------------------------------------------------------------------------
(***************************************************************************)
(* Prefixes, nibble by nibble.                                             *)
(***************************************************************************)
LEMMA FirstNibbles ==
    ASSUME NEW s \in Nibbles, NEW d \in 0 .. Len(s)
    PROVE  /\ SubSeq(s, 1, d) \in Nibbles /\ Len(SubSeq(s, 1, d)) = d
           /\ \A i \in 1 .. d : SubSeq(s, 1, d)[i] = s[i]
<1>1. \A i \in 1 .. d : s[i] \in Nibble
  BY ElementOfSeq DEF Nibbles
<1> QED
  BY <1>1, SubSeqProperties DEF Nibbles

LEMMA RestNibbles ==
    ASSUME NEW s \in Nibbles, NEW d \in 0 .. Len(s)
    PROVE  /\ From(s, d) \in Nibbles /\ Len(From(s, d)) = Len(s) - d
           /\ \A i \in 1 .. Len(s) - d : From(s, d)[i] = s[d + i]
<1>1. \A i \in d + 1 .. Len(s) : s[i] \in Nibble
  BY ElementOfSeq DEF Nibbles
<1>2. Len(s) \in Nat /\ d + 1 \in Int
  BY LenProperties DEF Nibbles
<1>3. /\ From(s, d) \in Nibbles
      /\ Len(From(s, d)) = IF d + 1 <= Len(s) THEN Len(s) - (d + 1) + 1 ELSE 0
      /\ \A i \in 1 .. Len(s) - (d + 1) + 1 : From(s, d)[i] = s[d + 1 + i - 1]
  BY <1>1, <1>2, SubSeqProperties DEF From, Nibbles
<1> QED
  BY <1>2, <1>3

LEMMA PrefixNibbles ==
    ASSUME NEW s \in Nibbles, NEW t \in Nibbles
    PROVE  IsPrefix(s, t) <=> Len(s) <= Len(t) /\ \A i \in 1 .. Len(s) : s[i] = t[i]
<1>1. Len(s) \in Nat /\ Len(t) \in Nat
  BY LenProperties DEF Nibbles
<1>2. CASE Len(s) <= Len(t)
  <2>1. SubSeq(s, 1, Len(s)) = s
    BY SubSeqFull DEF Nibbles
  <2>2. /\ SubSeq(t, 1, Len(s)) \in Nibbles /\ Len(SubSeq(t, 1, Len(s))) = Len(s)
        /\ \A i \in 1 .. Len(s) : SubSeq(t, 1, Len(s))[i] = t[i]
    BY <1>1, <1>2, FirstNibbles
  <2>3. (\A i \in 1 .. Len(s) : s[i] = t[i]) => s = SubSeq(t, 1, Len(s))
    BY <2>2, SeqEqual DEF Nibbles
  <2> QED
    BY <1>2, <2>1, <2>2, <2>3 DEF IsPrefix
<1>3. CASE ~ (Len(s) <= Len(t))
  BY <1>3 DEF IsPrefix
<1> QED
  BY <1>2, <1>3

LEMMA PrefixIsFirst ==
    ASSUME NEW s \in Nibbles, NEW t \in Nibbles, IsPrefix(s, t)
    PROVE  Len(s) \in 0 .. Len(t) /\ s = SubSeq(t, 1, Len(s))
<1>1. Len(s) \in Nat /\ Len(t) \in Nat
  BY LenProperties DEF Nibbles
<1> QED
  BY <1>1, SubSeqFull DEF IsPrefix, Nibbles

LEMMA FirstIsPrefix ==
    ASSUME NEW s \in Nibbles, NEW d \in 0 .. Len(s)
    PROVE  IsPrefix(SubSeq(s, 1, d), s)
<1>1. Len(s) \in Nat
  BY LenProperties DEF Nibbles
<1>2. /\ SubSeq(s, 1, d) \in Nibbles /\ Len(SubSeq(s, 1, d)) = d
      /\ \A i \in 1 .. d : SubSeq(s, 1, d)[i] = s[i]
  BY FirstNibbles
<1>3. PICK p : p = SubSeq(s, 1, d)
  OBVIOUS
<1>4. p \in Nibbles /\ Len(p) <= Len(s) /\ \A i \in 1 .. Len(p) : p[i] = s[i]
  BY <1>1, <1>2, <1>3
<1>5. IsPrefix(p, s)
  BY <1>4, PrefixNibbles
<1> QED
  BY <1>3, <1>5

\* Prefixes of one sequence are prefixes of each other; a prefix of a prefix is one.
LEMMA PrefixOrder ==
    ASSUME NEW s \in Nibbles, NEW t \in Nibbles, NEW u \in Nibbles
    PROVE  /\ IsPrefix(s, t) /\ IsPrefix(t, u) => IsPrefix(s, u)
           /\ IsPrefix(s, u) /\ IsPrefix(t, u) /\ Len(s) <= Len(t) => IsPrefix(s, t)
           /\ IsPrefix(s, t) /\ Len(s) >= Len(t) => s = t
<1>1. Len(s) \in Nat /\ Len(t) \in Nat /\ Len(u) \in Nat
  BY LenProperties DEF Nibbles
<1>2. IsPrefix(s, t) /\ IsPrefix(t, u) => IsPrefix(s, u)
  BY <1>1, PrefixNibbles
<1>3. IsPrefix(s, u) /\ IsPrefix(t, u) /\ Len(s) <= Len(t) => IsPrefix(s, t)
  BY <1>1, PrefixNibbles
<1>4. IsPrefix(s, t) /\ Len(s) >= Len(t) => s = t
  <2> SUFFICES ASSUME IsPrefix(s, t), Len(s) >= Len(t) PROVE s = t
    OBVIOUS
  <2>1. Len(s) = Len(t) /\ \A i \in 1 .. Len(s) : s[i] = t[i]
    BY <1>1, PrefixNibbles
  <2> QED
    BY <2>1, SeqEqual DEF Nibbles
<1> QED
  BY <1>2, <1>3, <1>4

LEMMA EmptyPrefix ==
    ASSUME NEW s \in Nibbles
    PROVE  <<>> \in Nibbles /\ Len(<<>>) = 0 /\ IsPrefix(<<>>, s) /\ (Len(s) = 0 <=> s = <<>>)
<1>1. <<>> \in Nibbles /\ Len(<<>>) = 0 /\ Len(s) \in Nat /\ (s # <<>> => Len(s) \in Nat \ {0})
  BY EmptySeq, LenProperties DEF Nibbles
<1>2. IsPrefix(<<>>, s)
  BY <1>1, PrefixNibbles
<1> QED
  BY <1>1, <1>2

-----------------------------------------------------------------------------
(***************************************************************************)
(* The hex-prefix encoding is undone by _getNibbleArray, whatever the      *)
(* parity and the flag.                                                    *)
(***************************************************************************)
LEMMA EncodedDecoded ==
    ASSUME NEW s \in Nibbles, NEW leaf \in BOOLEAN
    PROVE  NibbleArray(HexPrefix(s, leaf)) = s
<1> DEFINE flag == IF leaf THEN 2 ELSE 0
<1>1. Len(s) \in Nat
  BY LenProperties DEF Nibbles
<1>2. flag \in 0 .. 2 /\ flag \in Nibble /\ flag + 1 \in Nibble /\ 0 \in Nibble /\ flag \notin {1, 3} /\ flag + 1 \in {1, 3}
  BY DEF Nibble
<1> HIDE DEF flag
<1>3. CASE Len(s) % 2 = 1
  <2>1. HexPrefix(s, leaf) = <<flag + 1>> \o s
    BY <1>3 DEF HexPrefix, flag
  <2> DEFINE b == <<flag + 1>> \o s
  <2>2. <<flag + 1>> \in Nibbles /\ Len(<<flag + 1>>) = 1 /\ <<flag + 1>>[1] = flag + 1
    BY <1>2 DEF Nibbles
  <2>3. /\ b \in Nibbles /\ Len(b) = 1 + Len(s)
        /\ \A i \in 1 .. 1 + Len(s) : b[i] = IF i <= 1 THEN <<flag + 1>>[i] ELSE s[i - 1]
    BY <2>2, ConcatProperties DEF Nibbles
  <2> HIDE DEF b
  <2>4. b # <<>> /\ b[1] = flag + 1
    BY <1>1, <2>2, <2>3, EmptyPrefix
  <2>5. NibbleArray(b) = From(b, 1)
    BY <1>2, <2>4 DEF NibbleArray, From
  <2>6. From(b, 1) \in Nibbles /\ Len(From(b, 1)) = Len(s) /\ \A i \in 1 .. Len(s) : From(b, 1)[i] = b[1 + i]
    <3>1. 1 \in 0 .. Len(b) /\ Len(b) - 1 = Len(s)
      BY <1>1, <2>3
    <3>2. /\ From(b, 1) \in Nibbles /\ Len(From(b, 1)) = Len(b) - 1
          /\ \A i \in 1 .. Len(b) - 1 : From(b, 1)[i] = b[1 + i]
      BY <2>3, <3>1, RestNibbles
    <3> QED
      BY <3>1, <3>2
  <2>7. \A i \in 1 .. Len(s) : From(b, 1)[i] = s[i]
    BY <1>1, <2>3, <2>6
  <2>8. From(b, 1) = s
    BY <2>6, <2>7, SeqEqual DEF Nibbles
  <2> QED
    BY <2>1, <2>5, <2>8 DEF b
<1>4. CASE Len(s) % 2 # 1
  <2>1. HexPrefix(s, leaf) = <<flag, 0>> \o s
    BY <1>4 DEF HexPrefix, flag
  <2> DEFINE b == <<flag, 0>> \o s
  <2>2. <<flag, 0>> \in Nibbles /\ Len(<<flag, 0>>) = 2 /\ <<flag, 0>>[1] = flag
    BY <1>2 DEF Nibbles
  <2>3. /\ b \in Nibbles /\ Len(b) = 2 + Len(s)
        /\ \A i \in 1 .. 2 + Len(s) : b[i] = IF i <= 2 THEN <<flag, 0>>[i] ELSE s[i - 2]
    BY <2>2, ConcatProperties DEF Nibbles
  <2> HIDE DEF b
  <2>4. b # <<>> /\ b[1] = flag
    BY <1>1, <2>2, <2>3, EmptyPrefix
  <2>5. NibbleArray(b) = From(b, 2)
    BY <1>2, <2>4 DEF NibbleArray, From
  <2>6. From(b, 2) \in Nibbles /\ Len(From(b, 2)) = Len(s) /\ \A i \in 1 .. Len(s) : From(b, 2)[i] = b[2 + i]
    <3>1. 2 \in 0 .. Len(b) /\ Len(b) - 2 = Len(s)
      BY <1>1, <2>3
    <3>2. /\ From(b, 2) \in Nibbles /\ Len(From(b, 2)) = Len(b) - 2
          /\ \A i \in 1 .. Len(b) - 2 : From(b, 2)[i] = b[2 + i]
      BY <2>3, <3>1, RestNibbles
    <3> QED
      BY <3>1, <3>2
  <2>7. \A i \in 1 .. Len(s) : From(b, 2)[i] = s[i]
    BY <1>1, <2>3, <2>6
  <2>8. From(b, 2) = s
    BY <2>6, <2>7, SeqEqual DEF Nibbles
  <2> QED
    BY <2>1, <2>5, <2>8 DEF b
<1> QED
  BY <1>3, <1>4

LEMMA DecodedNibbles ==
    ASSUME NEW b \in Nibbles
    PROVE  NibbleArray(b) \in Nibbles
<1>1. Len(b) \in Nat
  BY LenProperties DEF Nibbles
<1>2. ASSUME NEW m \in 2 .. 3 PROVE SubSeq(b, m, Len(b)) \in Nibbles
  <2>1. \A i \in m .. Len(b) : b[i] \in Nibble
    BY <1>1, ElementOfSeq DEF Nibbles
  <2> QED
    BY <1>1, <2>1, SubSeqProperties DEF Nibbles
<1> QED
  BY <1>2, EmptyPrefix DEF NibbleArray

-----------------------------------------------------------------------------
(***************************************************************************)
(* Where the keys below a prefix part.                                     *)
(***************************************************************************)
LEMMA TrieKeys ==
    ASSUME NEW t \in Tries
    PROVE  /\ DOMAIN t # {} /\ IsFiniteSet(DOMAIN t)
           /\ DOMAIN t \subseteq Nibbles /\ <<>> \notin DOMAIN t
           /\ \A k, l \in DOMAIN t : IsPrefix(k, l) => k = l
BY TriesAssumption DEF Nibbles

LEMMA PrefixesOfKeys ==
    ASSUME NEW t \in Tries, NEW p
    PROVE  p \in KeyPrefixes(t) <=> p \in Nibbles /\ Below(t, p) # {}
<1>1. ASSUME p \in KeyPrefixes(t) PROVE p \in Nibbles /\ Below(t, p) # {}
  <2>1. PICK key \in DOMAIN t : p \in Prefixes(key)
    BY <1>1 DEF KeyPrefixes
  <2>2. PICK d \in 0 .. Len(key) : p = SubSeq(key, 1, d)
    BY <2>1 DEF Prefixes
  <2>3. key \in Nibbles
    BY TrieKeys
  <2> QED
    BY <2>2, <2>3, FirstNibbles, FirstIsPrefix DEF Below
<1>2. ASSUME p \in Nibbles, Below(t, p) # {} PROVE p \in KeyPrefixes(t)
  <2>1. PICK key \in DOMAIN t : IsPrefix(p, key)
    BY <1>2 DEF Below
  <2>2. Len(p) \in 0 .. Len(key) /\ p = SubSeq(key, 1, Len(p))
    BY <1>2, <2>1, TrieKeys, PrefixIsFirst
  <2>3. p \in Prefixes(key)
    BY <2>2 DEF Prefixes
  <2> QED
    BY <2>3 DEF KeyPrefixes
<1> QED
  BY <1>1, <1>2

LEMMA LeastOf ==
    ASSUME NEW S, S \subseteq Nat, S # {}
    PROVE  \E m \in S : \A n \in S : m <= n
<1>1. PICK m \in S : \A n \in S : ~ (<<n, m>> \in OpToRel(<, Nat))
  BY NatLessThanWellFounded, WFMin
<1>2. \A n \in S : ~ (n < m)
  BY <1>1 DEF OpToRel
<1> QED
  BY <1>2

LEMMA LongestCommon ==
    ASSUME NEW B \in SUBSET Nibbles, B # {}
    PROVE  /\ LongestCommonPrefix(B) \in Nibbles
           /\ \A k \in B : IsPrefix(LongestCommonPrefix(B), k)
           /\ \A q \in Nibbles : (\A k \in B : IsPrefix(q, k)) => Len(q) <= Len(LongestCommonPrefix(B))
<1> DEFINE Common == CommonPrefixes(B)
<1>1. ASSUME NEW q, q \in Common PROVE q \in Nibbles /\ \A k \in B : IsPrefix(q, k)
  <2>1. PICK k \in B : q \in Prefixes(k)
    BY <1>1 DEF CommonPrefixes
  <2>2. PICK d \in 0 .. Len(k) : q = SubSeq(k, 1, d)
    BY <2>1 DEF Prefixes
  <2>3. q \in Nibbles
    BY <2>2, FirstNibbles
  <2> QED
    BY <1>1, <2>3 DEF CommonPrefixes
<1>2. ASSUME NEW q \in Nibbles, \A k \in B : IsPrefix(q, k) PROVE q \in Common
  <2>1. PICK k \in B : TRUE
    OBVIOUS
  <2>2. Len(q) \in 0 .. Len(k) /\ q = SubSeq(k, 1, Len(q))
    BY <1>2, PrefixIsFirst
  <2>3. q \in Prefixes(k)
    BY <2>2 DEF Prefixes
  <2> QED
    BY <1>2, <2>3 DEF CommonPrefixes
<1>3. <<>> \in Common
  BY <1>2, EmptyPrefix
<1>4. LongestCommonPrefix(B) = CHOOSE longest \in Common : \A other \in Common : Len(other) <= Len(longest)
  BY DEF LongestCommonPrefix
<1> HIDE DEF Common
<1>5. PICK k \in B : TRUE
  OBVIOUS
<1>6. \A q \in Common : Len(k) - Len(q) \in Nat /\ Len(q) \in Nat /\ Len(k) \in Nat
  BY <1>1, PrefixIsFirst
<1>7. PICK m \in {Len(k) - Len(q) : q \in Common} : \A n \in {Len(k) - Len(q) : q \in Common} : m <= n
  <2>1. {Len(k) - Len(q) : q \in Common} \subseteq Nat /\ {Len(k) - Len(q) : q \in Common} # {}
    BY <1>3, <1>6
  <2> QED
    BY <2>1, LeastOf
<1>8. PICK longest \in Common : m = Len(k) - Len(longest)
  BY <1>7
<1>9. ASSUME NEW other \in Common PROVE Len(other) <= Len(longest)
  <2>1. Len(k) - Len(longest) <= Len(k) - Len(other)
    BY <1>7, <1>8
  <2> QED
    BY <1>6, <2>1
<1>10. LongestCommonPrefix(B) \in Common /\ \A other \in Common : Len(other) <= Len(LongestCommonPrefix(B))
  BY <1>4, <1>9
<1> QED
  BY <1>1, <1>2, <1>10

\* The fork of a prefix is the longest prefix that all keys below it go through.
LEMMA ForkOfPrefix ==
    ASSUME NEW t \in Tries, NEW p \in KeyPrefixes(t)
    PROVE  /\ p \in Nibbles /\ Below(t, p) # {} /\ Below(t, p) \subseteq Nibbles
           /\ Fork(t, p) \in KeyPrefixes(t) /\ Fork(t, p) \in Nibbles
           /\ IsPrefix(p, Fork(t, p)) /\ Len(p) <= Len(Fork(t, p))
           /\ Below(t, Fork(t, p)) = Below(t, p)
           /\ \A q \in Nibbles : (\A k \in Below(t, p) : IsPrefix(q, k)) => IsPrefix(q, Fork(t, p))
<1> DEFINE f == Fork(t, p)
<1>1. p \in Nibbles /\ Below(t, p) # {}
  BY PrefixesOfKeys
<1>2. Below(t, p) \in SUBSET Nibbles
  BY TrieKeys DEF Below
<1>3. /\ f \in Nibbles /\ \A k \in Below(t, p) : IsPrefix(f, k)
      /\ \A q \in Nibbles : (\A k \in Below(t, p) : IsPrefix(q, k)) => Len(q) <= Len(f)
  BY <1>1, <1>2, LongestCommon DEF Fork
<1> HIDE DEF f
<1>4. PICK k \in Below(t, p) : k \in Nibbles
  BY <1>1, <1>2
<1>5. ASSUME NEW q \in Nibbles, \A l \in Below(t, p) : IsPrefix(q, l) PROVE IsPrefix(q, f) /\ Len(q) <= Len(f)
  BY <1>3, <1>4, <1>5, PrefixOrder
<1>6. IsPrefix(p, f) /\ Len(p) <= Len(f)
  BY <1>1, <1>5 DEF Below
<1>7. ASSUME NEW l \in DOMAIN t, IsPrefix(f, l) PROVE IsPrefix(p, l)
  BY <1>1, <1>3, <1>6, <1>7, TrieKeys, PrefixOrder
<1>8. Below(t, f) = Below(t, p)
  BY <1>3, <1>7 DEF Below
<1>9. f \in KeyPrefixes(t)
  BY <1>1, <1>3, <1>8, PrefixesOfKeys
<1> QED
  BY <1>1, <1>2, <1>3, <1>5, <1>6, <1>8, <1>9 DEF f

LEMMA BeforeFork ==
    ASSUME NEW t \in Tries, NEW p \in KeyPrefixes(t), NEW q \in Nibbles,
           IsPrefix(p, q), IsPrefix(q, Fork(t, p))
    PROVE  q \in KeyPrefixes(t) /\ Below(t, q) = Below(t, p) /\ Fork(t, q) = Fork(t, p)
<1>1. /\ p \in Nibbles /\ Fork(t, p) \in Nibbles /\ Below(t, Fork(t, p)) = Below(t, p)
      /\ Below(t, p) # {}
  BY ForkOfPrefix
<1>2. \A k \in DOMAIN t : k \in Nibbles
  BY TrieKeys
<1>3. \A k \in DOMAIN t : IsPrefix(Fork(t, p), k) => IsPrefix(q, k)
  BY <1>1, <1>2, PrefixOrder
<1>4. \A k \in DOMAIN t : IsPrefix(q, k) => IsPrefix(p, k)
  BY <1>1, <1>2, PrefixOrder
<1>5. Below(t, q) = Below(t, p)
  BY <1>1, <1>3, <1>4 DEF Below
<1> QED
  BY <1>1, <1>5, PrefixesOfKeys DEF Fork

\* Below a prefix is one key, or several that go on after the fork.
LEMMA ForkKinds ==
    ASSUME NEW t \in Tries, NEW p \in KeyPrefixes(t), NEW k \in Below(t, p)
    PROVE  /\ Fork(t, p) \in DOMAIN t => k = Fork(t, p)
           /\ Fork(t, p) \notin DOMAIN t => Len(Fork(t, p)) < Len(k)
<1>1. Fork(t, p) \in Nibbles /\ k \in DOMAIN t /\ k \in Nibbles /\ IsPrefix(Fork(t, p), k)
  BY ForkOfPrefix, TrieKeys DEF Below
<1>2. Fork(t, p) \in DOMAIN t => k = Fork(t, p)
  BY <1>1, TrieKeys
<1>3. Len(k) <= Len(Fork(t, p)) => Fork(t, p) = k
  BY <1>1, PrefixOrder
<1>4. Len(k) \in Nat /\ Len(Fork(t, p)) \in Nat
  BY <1>1, LenProperties DEF Nibbles
<1> QED
  BY <1>1, <1>2, <1>3, <1>4

-----------------------------------------------------------------------------
(***************************************************************************)
(* The nodes of a trie exist: as keys are finite in number and length, the *)
(* recursion that lays a node out by those further down ends.              *)
(***************************************************************************)
LEMMA LongestKey ==
    ASSUME NEW t \in Tries
    PROVE  \E n \in Nat : \A key \in DOMAIN t : Len(key) <= n
<1> DEFINE Bounded == {T \in SUBSET DOMAIN t : \E n \in Nat : \A key \in T : Len(key) <= n}
<1>1. \A key \in DOMAIN t : Len(key) \in Nat
  BY TrieKeys, LenProperties DEF Nibbles
<1>2. ASSUME NEW T \in SUBSET DOMAIN t, \A U \in SUBSET T : U # T => U \in Bounded
      PROVE  T \in Bounded
  <2>1. CASE T = {}
    BY <2>1
  <2>2. CASE T # {}
    <3>1. PICK x \in T : TRUE
      BY <2>2
    <3>2. PICK n \in Nat : \A key \in T \ {x} : Len(key) <= n
      <4>1. T \ {x} \in SUBSET T /\ T \ {x} # T
        BY <3>1
      <4>2. T \ {x} \in Bounded
        BY <1>2, <4>1
      <4> QED
        BY <4>2
    <3>3. Len(x) \in Nat /\ n + Len(x) \in Nat /\ n <= n + Len(x) /\ Len(x) <= n + Len(x)
      BY <1>1, <3>1
    <3>4. ASSUME NEW key \in T PROVE Len(key) <= n + Len(x)
      <4>1. Len(key) \in Nat /\ (key = x \/ Len(key) <= n)
        BY <1>1, <3>2
      <4> QED
        BY <3>3, <4>1
    <3> QED
      BY <3>3, <3>4
  <2> QED
    BY <2>1, <2>2
<1> HIDE DEF Bounded
<1>3. SUBSET DOMAIN t \subseteq Bounded
  BY <1>2, TrieKeys, SubsetInduction
<1>4. DOMAIN t \in Bounded
  BY <1>3
<1> QED
  BY <1>4 DEF Bounded

LEMMA LayoutLooksDown ==
    ASSUME NEW t \in Tries, NEW p \in KeyPrefixes(t), NEW g, NEW h,
           \A q \in KeyPrefixes(t) : Len(q) > Len(p) => g[q] = h[q]
    PROVE  Layout(t, p, g) = Layout(t, p, h)
<1>1. /\ p \in Nibbles /\ Fork(t, p) \in KeyPrefixes(t) /\ Fork(t, p) \in Nibbles
      /\ IsPrefix(p, Fork(t, p))
  BY ForkOfPrefix
<1>2. Len(p) \in Nat /\ Len(Fork(t, p)) \in Nat
  BY <1>1, LenProperties DEF Nibbles
<1>3. Fork(t, p) # p => g[Fork(t, p)] = h[Fork(t, p)]
  <2>1. Fork(t, p) # p => Len(Fork(t, p)) > Len(p)
    BY <1>1, <1>2, PrefixOrder
  <2> QED
    BY <1>1, <2>1
<1>4. \A x \in Nibble : Append(p, x) \in KeyPrefixes(t) => g[Append(p, x)] = h[Append(p, x)]
  <2>1. ASSUME NEW x \in Nibble PROVE Len(Append(p, x)) = Len(p) + 1
    BY <1>1, AppendProperties DEF Nibbles
  <2>2. Len(p) + 1 > Len(p)
    BY <1>2
  <2> QED
    BY <2>1, <2>2
<1> QED
  BY <1>3, <1>4 DEF Layout

Deep(t, n) == {p \in KeyPrefixes(t) : Len(p) >= n}

LaidOut(t, n, g) == g = [p \in Deep(t, n) |-> Layout(t, p, g)]

LEMMA OneLevelUp ==
    ASSUME NEW t \in Tries, NEW n \in Nat, \E g : LaidOut(t, n + 1, g)
    PROVE  \E g : LaidOut(t, n, g)
<1>1. PICK g : LaidOut(t, n + 1, g)
  OBVIOUS
<1> DEFINE h == [p \in Deep(t, n) |-> IF p \in Deep(t, n + 1) THEN g[p] ELSE Layout(t, p, g)]
<1>2. \A p \in KeyPrefixes(t) : Len(p) \in Nat
  BY PrefixesOfKeys, LenProperties DEF Nibbles
<1>3. \A p \in Deep(t, n + 1) : p \in Deep(t, n) /\ g[p] = h[p]
  BY <1>2 DEF Deep
<1>4. ASSUME NEW p \in Deep(t, n) PROVE h[p] = Layout(t, p, h)
  <2>1. p \in KeyPrefixes(t) /\ Len(p) >= n
    BY DEF Deep
  <2>2. \A q \in KeyPrefixes(t) : Len(q) > Len(p) => q \in Deep(t, n + 1)
    BY <1>2, <2>1 DEF Deep
  <2>3. \A q \in KeyPrefixes(t) : Len(q) > Len(p) => g[q] = h[q]
    BY <1>3, <2>2
  <2>4. Layout(t, p, g) = Layout(t, p, h)
    BY <2>1, <2>3, LayoutLooksDown
  <2>5. p \in Deep(t, n + 1) => g[p] = Layout(t, p, g)
    BY <1>1 DEF LaidOut
  <2> QED
    BY <2>4, <2>5
<1>5. h = [p \in Deep(t, n) |-> h[p]]
  OBVIOUS
<1>6. PICK f : f = h
  OBVIOUS
<1>7. f = [p \in Deep(t, n) |-> Layout(t, p, f)]
  BY <1>4, <1>5, <1>6
<1> QED
  BY <1>7 DEF LaidOut

LEMMA NodesUnfold ==
    ASSUME NEW t \in Tries, NEW p \in KeyPrefixes(t)
    PROVE  Nodes(t)[p] = Layout(t, p, Nodes(t))
<1> DEFINE Levels == {n \in Nat : \E g : LaidOut(t, n, g)}
<1>1. PICK top \in Nat : \A key \in DOMAIN t : Len(key) <= top
  BY LongestKey
<1>2. Deep(t, top + 1) = {}
  <2> SUFFICES ASSUME NEW q \in Deep(t, top + 1) PROVE FALSE
    OBVIOUS
  <2>1. q \in KeyPrefixes(t) /\ Len(q) >= top + 1
    BY DEF Deep
  <2>2. PICK key \in Below(t, q) : TRUE
    BY <2>1, PrefixesOfKeys
  <2>3. key \in DOMAIN t /\ key \in Nibbles /\ q \in Nibbles /\ IsPrefix(q, key)
    BY <2>1, PrefixesOfKeys, TrieKeys DEF Below
  <2>4. Len(q) \in 0 .. Len(key) /\ Len(key) \in Nat
    BY <2>3, PrefixIsFirst, LenProperties DEF Nibbles
  <2> QED
    BY <1>1, <2>1, <2>3, <2>4
<1>3. top + 1 \in Levels
  <2>1. PICK g : g = [q \in {} |-> {}]
    OBVIOUS
  <2>2. g = [q \in Deep(t, top + 1) |-> Layout(t, q, g)]
    BY <1>2, <2>1
  <2> QED
    BY <2>2 DEF LaidOut
<1>4. PICK n \in Levels : \A m \in Levels : n <= m
  BY <1>3, LeastOf
<1>5. n = 0
  <2> SUFFICES ASSUME n # 0 PROVE FALSE
    OBVIOUS
  <2>1. n - 1 \in Nat /\ (n - 1) + 1 = n
    OBVIOUS
  <2>2. PICK m \in Nat : m = n - 1
    BY <2>1
  <2>3. \E g : LaidOut(t, m + 1, g)
    BY <2>1, <2>2
  <2>4. m \in Levels
    BY <2>3, OneLevelUp
  <2> QED
    BY <1>4, <2>2, <2>4
<1>6. Deep(t, 0) = KeyPrefixes(t)
  BY PrefixesOfKeys, LenProperties DEF Deep, Nibbles
<1>7. \E g : g = [q \in KeyPrefixes(t) |-> Layout(t, q, g)]
  BY <1>4, <1>5, <1>6 DEF LaidOut
<1>8. Nodes(t) = CHOOSE g : g = [q \in KeyPrefixes(t) |-> Layout(t, q, g)]
  BY DEF Nodes
<1>9. Nodes(t) = [q \in KeyPrefixes(t) |-> Layout(t, q, Nodes(t))]
  BY <1>7, <1>8
<1> QED
  BY <1>9

-----------------------------------------------------------------------------
(***************************************************************************)
(* One turn of the loop: what a node of the trie makes of the path.        *)
(***************************************************************************)
LEMMA RestOfPath ==
    ASSUME NEW s \in Nibbles, NEW d \in 0 .. Len(s), NEW f \in Nibbles,
           IsPrefix(SubSeq(s, 1, d), f)
    PROVE  /\ From(f, d) \in Nibbles /\ From(s, d) \in Nibbles
           /\ Len(From(f, d)) = Len(f) - d /\ Len(From(s, d)) = Len(s) - d
           /\ d <= Len(f) /\ Len(f) \in Nat /\ Len(s) \in Nat
           /\ IsPrefix(From(f, d), From(s, d)) <=> IsPrefix(f, s)
<1>1. PICK p : p = SubSeq(s, 1, d)
  OBVIOUS
<1>2. p \in Nibbles /\ Len(p) = d /\ (\A i \in 1 .. d : p[i] = s[i]) /\ IsPrefix(p, f)
  BY <1>1, FirstNibbles
<1>3. d \in 0 .. Len(f) /\ Len(f) \in Nat /\ Len(s) \in Nat /\ \A i \in 1 .. d : f[i] = s[i]
  BY <1>2, PrefixNibbles, LenProperties DEF Nibbles
<1>4. /\ From(f, d) \in Nibbles /\ Len(From(f, d)) = Len(f) - d
      /\ \A i \in 1 .. Len(f) - d : From(f, d)[i] = f[d + i]
  BY <1>3, RestNibbles
<1>5. /\ From(s, d) \in Nibbles /\ Len(From(s, d)) = Len(s) - d
      /\ \A i \in 1 .. Len(s) - d : From(s, d)[i] = s[d + i]
  BY RestNibbles
<1>6. PICK a \in Nibbles : a = From(f, d)
  BY <1>4
<1>7. PICK b \in Nibbles : b = From(s, d)
  BY <1>5
<1>8. IsPrefix(a, b) <=> Len(a) <= Len(b) /\ \A i \in 1 .. Len(a) : a[i] = b[i]
  BY PrefixNibbles
<1>9. IsPrefix(f, s) <=> Len(f) <= Len(s) /\ \A i \in 1 .. Len(f) : f[i] = s[i]
  BY PrefixNibbles
<1>10. Len(a) <= Len(b) <=> Len(f) <= Len(s)
  BY <1>3, <1>4, <1>5, <1>6, <1>7
<1>11. ASSUME Len(f) <= Len(s)
       PROVE  (\A i \in 1 .. Len(a) : a[i] = b[i]) <=> (\A i \in 1 .. Len(f) : f[i] = s[i])
  <2>1. ASSUME \A i \in 1 .. Len(a) : a[i] = b[i], NEW i \in 1 .. Len(f) PROVE f[i] = s[i]
    <3>1. CASE i <= d
      BY <1>3, <3>1
    <3>2. CASE i > d
      <4>1. PICK j \in 1 .. Len(f) - d : i = d + j
        BY <1>3, <3>2
      <4>2. a[j] = b[j] /\ a[j] = f[d + j] /\ b[j] = s[d + j]
        BY <1>3, <1>4, <1>5, <1>6, <1>7, <1>11, <2>1
      <4> QED
        BY <4>1, <4>2
    <3> QED
      BY <1>3, <3>1, <3>2
  <2>2. ASSUME \A i \in 1 .. Len(f) : f[i] = s[i], NEW i \in 1 .. Len(a) PROVE a[i] = b[i]
    <3>1. i \in 1 .. Len(f) - d /\ i \in 1 .. Len(s) - d /\ d + i \in 1 .. Len(f)
      BY <1>3, <1>4, <1>6, <1>11
    <3> QED
      BY <1>4, <1>5, <1>6, <1>7, <2>2, <3>1
  <2> QED
    BY <2>1, <2>2
<1> QED
  BY <1>3, <1>4, <1>5, <1>6, <1>7, <1>8, <1>9, <1>10, <1>11

Walked == SubSeq(nibblePath, 1, pathPtr)

Walking ==
    /\ trie \in Tries /\ nibblePath \in Nibbles
    /\ pathPtr \in 0 .. Len(nibblePath) /\ Walked \in KeyPrefixes(trie)

Stops == Revert \/ Return("false")

GoesOn(q) == nodeKey' = Hash(Nodes(trie)[q]) /\ pathPtr' = Len(q) /\ UNCHANGED result

\* A pair's path is followed when the keys below it are reached by the path.
LEMMA PairFollowed ==
    ASSUME Walking, NEW f \in Nibbles, IsPrefix(Walked, f), NEW leaf \in BOOLEAN, NEW item, NEW node,
           node = Pair(HexPrefix(From(f, pathPtr), leaf), item), PairNode(node)
    PROVE  /\ f = nibblePath => Matches(item)
           /\ IsPrefix(f, nibblePath) /\ f # nibblePath /\ f # Walked => Descend(item, Len(f) - pathPtr)
           /\ ~ IsPrefix(f, nibblePath) \/ (f # nibblePath /\ f = Walked) => Stops
<1> DEFINE partialPath == NibbleArray(node[2])
           traversed == IF IsPrefix(partialPath, Rest) THEN Len(partialPath) ELSE 0
<1>1. /\ \/ Len(partialPath) > Len(Rest) /\ Revert
         \/ /\ Len(partialPath) <= Len(Rest)
            /\ \/ traversed = Len(Rest) /\ Matches(node[3])
               \/ traversed # Len(Rest) /\ traversed = 0 /\ Return("false")
               \/ traversed # Len(Rest) /\ traversed > 0 /\ Descend(node[3], traversed)
  BY DEF PairNode
<1>2. node[2] = HexPrefix(From(f, pathPtr), leaf) /\ node[3] = item
  BY DEF Pair
<1>3. Rest = From(nibblePath, pathPtr)
  BY DEF Rest, From
<1>4. /\ nibblePath \in Nibbles /\ pathPtr \in 0 .. Len(nibblePath)
      /\ IsPrefix(SubSeq(nibblePath, 1, pathPtr), f)
  BY DEF Walking, Walked
<1>5. PICK s \in Nibbles, d \in 0 .. Len(nibblePath) : s = nibblePath /\ d = pathPtr
  BY <1>4
<1>6. /\ From(f, d) \in Nibbles /\ From(s, d) \in Nibbles
      /\ Len(From(f, d)) = Len(f) - d /\ Len(From(s, d)) = Len(s) - d
      /\ d <= Len(f) /\ Len(f) \in Nat /\ Len(s) \in Nat
      /\ IsPrefix(From(f, d), From(s, d)) <=> IsPrefix(f, s)
  BY <1>4, <1>5, RestOfPath
<1>7. NibbleArray(HexPrefix(From(f, d), leaf)) = From(f, d)
  BY <1>6, EncodedDecoded
<1>8. partialPath = From(f, d) /\ Rest = From(s, d)
  BY <1>2, <1>3, <1>5, <1>7
<1>9. /\ Len(partialPath) = Len(f) - d /\ Len(Rest) = Len(s) - d
      /\ traversed = IF IsPrefix(f, s) THEN Len(f) - d ELSE 0
  BY <1>6, <1>8
<1>10. Walked \in Nibbles /\ Len(Walked) = d
  BY <1>5, FirstNibbles DEF Walked
<1>11. /\ f = s => IsPrefix(f, s) /\ Len(f) = Len(s)
       /\ IsPrefix(f, s) => Len(f) <= Len(s) /\ (Len(f) = Len(s) => f = s)
       /\ Len(f) = d <=> f = Walked
  <2>1. IsPrefix(f, s) => Len(f) <= Len(s) /\ (Len(f) = Len(s) => f = s)
    BY <1>6, PrefixOrder, PrefixIsFirst
  <2>2. IsPrefix(s, s)
    BY <1>6, PrefixNibbles
  <2>3. Len(f) = d => f = Walked
    BY <1>6, <1>10, PrefixOrder
  <2> QED
    BY <1>10, <2>1, <2>2, <2>3
<1>12. PICK n, r, l : n = traversed /\ r = Len(Rest) /\ l = Len(partialPath)
  OBVIOUS
<1>13. \/ l > r /\ Revert
       \/ /\ l <= r
          /\ \/ n = r /\ Matches(item)
             \/ n # r /\ n = 0 /\ Return("false")
             \/ n # r /\ n > 0 /\ Descend(item, n)
  BY <1>1, <1>2, <1>12
<1>14. l = Len(f) - d /\ r = Len(s) - d /\ n = IF IsPrefix(f, s) THEN Len(f) - d ELSE 0
  BY <1>9, <1>12
<1> HIDE DEF partialPath, traversed
<1>15. f = s => l = r /\ n = r
  BY <1>6, <1>11, <1>14
<1>16. IsPrefix(f, s) /\ f # s /\ f # Walked => l <= r /\ n # r /\ n > 0 /\ n = Len(f) - d
  BY <1>6, <1>11, <1>14
<1>17. IsPrefix(f, s) /\ f # s /\ f = Walked => n = 0 /\ n # r /\ l <= r
  BY <1>6, <1>11, <1>14
<1>18. ~ IsPrefix(f, s) /\ l <= r => n = 0 /\ n # r
  <2> SUFFICES ASSUME ~ IsPrefix(f, s), l <= r, r = 0 PROVE FALSE
    BY <1>14
  <2>1. Len(f) = d
    BY <1>6, <1>14
  <2>2. f = Walked
    BY <1>11, <2>1
  <2>3. IsPrefix(Walked, s)
    BY <1>5, FirstIsPrefix DEF Walked
  <2> QED
    BY <2>2, <2>3
<1>19. ~ (l > r) \/ ~ (l <= r)
  BY <1>6, <1>14
<1>20. ~ (n = 0 /\ n > 0)
  OBVIOUS
<1>21. f = s => Matches(item)
  BY <1>13, <1>15, <1>19, <1>6, <1>14
<1>22. IsPrefix(f, s) /\ f # s /\ f # Walked => Descend(item, Len(f) - d)
  <2> SUFFICES ASSUME IsPrefix(f, s), f # s, f # Walked PROVE Descend(item, n)
    BY <1>16
  <2> QED
    BY <1>13, <1>16, <1>19, <1>20, Zenon
<1>23. ~ IsPrefix(f, s) \/ (f # s /\ f = Walked) => Stops
  BY <1>13, <1>17, <1>18, <1>19, <1>20, Zenon DEF Stops
<1> QED
  BY <1>5, <1>21, <1>22, <1>23

NextNode == IF Fork(trie, Walked) # Walked THEN Fork(trie, Walked)
            ELSE SubSeq(nibblePath, 1, pathPtr + 1)

\* A branch leads on to the nibble that follows, or nowhere.
LEMMA BranchFollowed ==
    ASSUME Walking, Fork(trie, Walked) \notin DOMAIN trie, Fork(trie, Walked) = Walked,
           NEW node, node = Nodes(trie)[Walked], BranchNode(node)
    PROVE  IF pathPtr < Len(nibblePath) /\ NextNode \in KeyPrefixes(trie) THEN GoesOn(NextNode) ELSE Stops
<1> DEFINE child == [x \in Nibble |-> IF Append(Walked, x) \in KeyPrefixes(trie)
                                      THEN Hash(Nodes(trie)[Append(Walked, x)]) ELSE Empty]
<1>1. /\ nibblePath \in Nibbles /\ pathPtr \in 0 .. Len(nibblePath) /\ Len(nibblePath) \in Nat
      /\ trie \in Tries /\ Walked \in KeyPrefixes(trie)
  BY LenProperties DEF Walking, Nibbles
<1>2. node = Branch(child, Empty)
  <2>1. node = Layout(trie, Walked, Nodes(trie))
    BY <1>1, NodesUnfold
  <2> QED
    BY <2>1 DEF Layout
<1>3. node[2] = child /\ node[3] = Empty
  BY <1>2 DEF Branch
<1>4. Rest = From(nibblePath, pathPtr)
  BY DEF Rest, From
<1>5. /\ Rest \in Nibbles /\ Len(Rest) = Len(nibblePath) - pathPtr
      /\ \A i \in 1 .. Len(nibblePath) - pathPtr : Rest[i] = nibblePath[pathPtr + i]
  BY <1>1, <1>4, RestNibbles
<1>6. Rest = <<>> <=> pathPtr = Len(nibblePath)
  BY <1>1, <1>5, EmptyPrefix
<1>7. CASE pathPtr = Len(nibblePath)
  <2>1. Matches(Empty)
    BY <1>3, <1>6, <1>7 DEF BranchNode
  <2>2. Empty # Value(receipt)
    BY DEF Empty, Value
  <2>3. Return("false")
    BY <2>1, <2>2 DEF Matches
  <2> QED
    BY <1>1, <1>7, <2>3 DEF Stops
<1>8. CASE pathPtr < Len(nibblePath)
  <2>1. PICK x \in Nibble : x = nibblePath[pathPtr + 1] /\ x = Rest[1]
    BY <1>1, <1>5, <1>8, ElementOfSeq DEF Nibbles
  <2>2. Descend(child[x], 1)
    BY <1>3, <1>6, <1>8, <2>1 DEF BranchNode
  <2>3. NextNode = Append(Walked, x) /\ Len(NextNode) = pathPtr + 1
    <3>1. PICK q : q = SubSeq(nibblePath, 1, pathPtr + 1)
      OBVIOUS
    <3>2. /\ q \in Nibbles /\ Len(q) = pathPtr + 1
          /\ \A i \in 1 .. pathPtr + 1 : q[i] = nibblePath[i]
      <4>1. pathPtr + 1 \in 0 .. Len(nibblePath)
        BY <1>1, <1>8
      <4> QED
        BY <1>1, <3>1, <4>1, FirstNibbles
    <3>3. PICK p : p = Walked
      OBVIOUS
    <3>4. p \in Nibbles /\ Len(p) = pathPtr /\ \A i \in 1 .. pathPtr : p[i] = nibblePath[i]
      BY <1>1, <3>3, FirstNibbles DEF Walked
    <3>5. PICK a : a = Append(p, x)
      OBVIOUS
    <3>6. /\ a \in Nibbles /\ Len(a) = pathPtr + 1 /\ a[pathPtr + 1] = x
          /\ \A i \in 1 .. pathPtr : a[i] = p[i]
      BY <3>4, <3>5, AppendProperties DEF Nibbles
    <3>7. ASSUME NEW i \in 1 .. pathPtr + 1 PROVE a[i] = q[i]
      <4>1. i = pathPtr + 1 \/ i \in 1 .. pathPtr
        BY <1>1
      <4> QED
        BY <2>1, <3>2, <3>4, <3>6, <4>1
    <3>8. a = q
      BY <3>2, <3>6, <3>7, SeqEqual DEF Nibbles
    <3> QED
      BY <3>1, <3>2, <3>3, <3>5, <3>8 DEF NextNode
  <2>4. CASE NextNode \in KeyPrefixes(trie)
    <3>1. child[x] = Hash(Nodes(trie)[NextNode])
      BY <2>3, <2>4
    <3>2. GoesOn(NextNode)
      BY <2>2, <2>3, <3>1 DEF Descend, GoesOn, Hash
    <3> QED
      BY <1>8, <2>4, <3>2
  <2>5. CASE NextNode \notin KeyPrefixes(trie)
    <3>1. child[x] = Empty
      BY <2>3, <2>5
    <3>2. Revert
      BY <2>2, <3>1 DEF Descend, Empty
    <3> QED
      BY <2>5, <3>2 DEF Stops
  <2> QED
    BY <2>4, <2>5
<1> QED
  BY <1>1, <1>7, <1>8

\* A leaf answers, if the path ends with it, and ends the walk.
LEMMA LeafFollowed ==
    ASSUME Walking, Fork(trie, Walked) \in DOMAIN trie,
           NEW node, node = Nodes(trie)[Walked], BranchNode(node) \/ PairNode(node)
    PROVE  IF Fork(trie, Walked) = nibblePath
           THEN Return(IF trie[nibblePath] = receipt THEN "true" ELSE "false") ELSE Stops
<1> DEFINE f == Fork(trie, Walked)
<1>1. trie \in Tries /\ Walked \in KeyPrefixes(trie) /\ Len(Walked) = pathPtr
  BY FirstNibbles DEF Walking, Walked
<1>2. f \in Nibbles /\ IsPrefix(Walked, f)
  BY <1>1, ForkOfPrefix
<1>3. node = Pair(HexPrefix(From(f, pathPtr), TRUE), Value(trie[f]))
  <2>1. node = Layout(trie, Walked, Nodes(trie))
    BY <1>1, NodesUnfold
  <2> QED
    BY <1>1, <2>1 DEF Layout
<1>4. PairNode(node)
  BY <1>3 DEF Pair, BranchNode
<1>5. PICK g, item : g = f /\ item = Value(trie[f])
  OBVIOUS
<1>6. /\ g = nibblePath => Matches(item)
      /\ IsPrefix(g, nibblePath) /\ g # nibblePath /\ g # Walked => Descend(item, Len(g) - pathPtr)
      /\ ~ IsPrefix(g, nibblePath) \/ (g # nibblePath /\ g = Walked) => Stops
  BY <1>2, <1>3, <1>4, <1>5, PairFollowed
<1>7. CASE g = nibblePath
  <2>1. Matches(Value(trie[g]))
    BY <1>5, <1>6, <1>7
  <2>2. Value(trie[g]) = Value(receipt) <=> trie[g] = receipt
    BY DEF Value
  <2> QED
    BY <1>5, <1>7, <2>1, <2>2 DEF Matches
<1>8. CASE g # nibblePath
  <2>1. Descend(item, Len(g) - pathPtr) => Revert
    BY <1>5 DEF Descend, Value
  <2>2. Stops
    BY <1>6, <1>8, <2>1 DEF Stops
  <2> QED
    BY <1>5, <1>8, <2>2
<1> QED
  BY <1>7, <1>8

\* An extension leads to the fork, if the path goes through it.
LEMMA ExtensionFollowed ==
    ASSUME Walking, Fork(trie, Walked) \notin DOMAIN trie, Fork(trie, Walked) # Walked,
           NEW node, node = Nodes(trie)[Walked], BranchNode(node) \/ PairNode(node)
    PROVE  IF IsPrefix(NextNode, nibblePath) /\ NextNode # nibblePath THEN GoesOn(NextNode) ELSE Stops
<1> DEFINE f == Fork(trie, Walked)
<1>1. /\ trie \in Tries /\ Walked \in KeyPrefixes(trie) /\ Len(Walked) = pathPtr
      /\ pathPtr \in Nat
  BY FirstNibbles, LenProperties DEF Walking, Walked, Nibbles
<1>2. f \in Nibbles /\ IsPrefix(Walked, f) /\ Len(f) \in Nat
  BY <1>1, ForkOfPrefix, LenProperties DEF Nibbles
<1>3. node = Pair(HexPrefix(From(f, pathPtr), FALSE), Hash(Nodes(trie)[f]))
  <2>1. node = Layout(trie, Walked, Nodes(trie))
    BY <1>1, NodesUnfold
  <2> QED
    BY <1>1, <2>1 DEF Layout
<1>4. PairNode(node)
  BY <1>3 DEF Pair, BranchNode
<1>5. PICK g, item : g = f /\ item = Hash(Nodes(trie)[f]) /\ g = NextNode
  BY DEF NextNode
<1>6. /\ g = nibblePath => Matches(item)
      /\ IsPrefix(g, nibblePath) /\ g # nibblePath /\ g # Walked => Descend(item, Len(g) - pathPtr)
      /\ ~ IsPrefix(g, nibblePath) \/ (g # nibblePath /\ g = Walked) => Stops
  BY <1>2, <1>3, <1>4, <1>5, PairFollowed
<1>7. Matches(item) => Stops
  BY <1>5 DEF Matches, Hash, Value, Stops
<1>8. Descend(item, Len(g) - pathPtr) => GoesOn(g)
  BY <1>1, <1>2, <1>5 DEF Descend, Hash, GoesOn
<1> QED
  BY <1>5, <1>6, <1>7, <1>8, Zenon

-----------------------------------------------------------------------------
(***************************************************************************)
(* The walk stays on the path, and answers with what the trie holds there. *)
(***************************************************************************)
WalkInv ==
    /\ trie \in Tries /\ path \in Paths
    /\ siblings \in Seq(NodesOf(trie) \union ForeignNodes)
    /\ pathPtr \in Nat
    /\ NodeOfPrefix /\ OnlyHeldProved

LEMMA LookingIsWalking ==
    ASSUME WalkInv, result = "looking"
    PROVE  Walking /\ nodeKey = Hash(Nodes(trie)[Walked])
<1>1. nibblePath \in Nibbles /\ Len(nibblePath) \in Nat
  BY DecodedNibbles, PathsAssumption, LenProperties DEF WalkInv, nibblePath, Nibbles
<1> QED
  BY <1>1 DEF WalkInv, NodeOfPrefix, Walking, Walked

\* A node that is next either ends the walk, answers, or leads on along the path.
LEMMA TurnOfLoop ==
    ASSUME Walking, NEW node, node = Nodes(trie)[Walked], BranchNode(node) \/ PairNode(node)
    PROVE  \/ Stops
           \/ /\ Fork(trie, Walked) \in DOMAIN trie /\ Fork(trie, Walked) = nibblePath
              /\ Return(IF trie[nibblePath] = receipt THEN "true" ELSE "false")
           \/ /\ Fork(trie, Walked) \notin DOMAIN trie /\ GoesOn(NextNode)
              /\ NextNode \in KeyPrefixes(trie) /\ IsPrefix(NextNode, nibblePath)
<1>1. /\ nibblePath \in Nibbles /\ pathPtr \in 0 .. Len(nibblePath) /\ Len(nibblePath) \in Nat
      /\ trie \in Tries /\ Walked \in KeyPrefixes(trie)
  BY LenProperties DEF Walking, Nibbles
<1>2. CASE Fork(trie, Walked) \in DOMAIN trie
  BY <1>2, LeafFollowed
<1>3. CASE Fork(trie, Walked) \notin DOMAIN trie /\ Fork(trie, Walked) # Walked
  <2>1. NextNode \in KeyPrefixes(trie)
    BY <1>1, <1>3, ForkOfPrefix DEF NextNode
  <2> QED
    BY <1>3, <2>1, ExtensionFollowed
<1>4. CASE Fork(trie, Walked) \notin DOMAIN trie /\ Fork(trie, Walked) = Walked
  <2>1. BranchNode(node)
    <3>1. node = Layout(trie, Walked, Nodes(trie))
      BY <1>1, NodesUnfold
    <3>2. node[1] = "branch"
      BY <1>4, <3>1 DEF Layout, Branch
    <3> QED
      BY <3>2 DEF PairNode
  <2>2. IF pathPtr < Len(nibblePath) /\ NextNode \in KeyPrefixes(trie) THEN GoesOn(NextNode) ELSE Stops
    BY <1>4, <2>1, BranchFollowed
  <2>3. pathPtr < Len(nibblePath) => IsPrefix(NextNode, nibblePath)
    <3> SUFFICES ASSUME pathPtr < Len(nibblePath) PROVE IsPrefix(NextNode, nibblePath)
      OBVIOUS
    <3>1. pathPtr + 1 \in 0 .. Len(nibblePath)
      BY <1>1
    <3> QED
      BY <1>1, <1>4, <3>1, FirstIsPrefix DEF NextNode
  <2> QED
    BY <1>4, <2>2, <2>3
<1> QED
  BY <1>2, <1>3, <1>4

LEMMA WalkStarts == Init => WalkInv
<1> SUFFICES ASSUME Init PROVE WalkInv
  OBVIOUS
<1>1. trie \in Tries /\ path \in Paths /\ siblings = <<>> /\ pathPtr = 0
      /\ nodeKey = Hash(Nodes(trie)[<<>>]) /\ result \in {"false", "looking"}
  BY DEF Init, Root
<1>2. nibblePath \in Nibbles /\ Len(nibblePath) \in Nat
  BY <1>1, DecodedNibbles, PathsAssumption, LenProperties DEF nibblePath, Nibbles
<1>3. Walked = <<>>
  BY <1>1, SubSeqEmpty DEF Walked
<1>4. <<>> \in KeyPrefixes(trie)
  <2>1. PICK key \in DOMAIN trie : key \in Nibbles
    BY <1>1, TrieKeys
  <2>2. IsPrefix(<<>>, key) /\ <<>> \in Nibbles
    BY <2>1, EmptyPrefix
  <2> QED
    BY <1>1, <2>1, <2>2, PrefixesOfKeys DEF Below
<1>5. NodeOfPrefix
  <2>1. SubSeq(nibblePath, 1, pathPtr) = <<>> /\ pathPtr <= Len(nibblePath)
    BY <1>1, <1>2, <1>3 DEF Walked
  <2> QED
    BY <1>1, <1>4, <2>1 DEF NodeOfPrefix
<1>6. siblings \in Seq(NodesOf(trie) \union ForeignNodes)
  BY <1>1, EmptySeq
<1>7. OnlyHeldProved /\ pathPtr \in Nat
  BY <1>1 DEF OnlyHeldProved
<1> QED
  BY <1>1, <1>5, <1>6, <1>7 DEF WalkInv

LEMMA WalkGoesOn == WalkInv /\ [Next]_vars => WalkInv'
<1> SUFFICES ASSUME WalkInv, [Next]_vars PROVE WalkInv'
  OBVIOUS
<1>1. CASE UNCHANGED vars
  BY <1>1 DEF WalkInv, vars, request, NodeOfPrefix, OnlyHeldProved, nibblePath
<1>2. CASE NoMoreSiblings
  <2>1. result' = "false" /\ UNCHANGED <<trie, path, receipt, siblings, nodeKey, pathPtr>>
    BY <1>2 DEF NoMoreSiblings, Return, request
  <2> QED
    BY <2>1 DEF WalkInv, NodeOfPrefix, OnlyHeldProved
<1>3. CASE Look
  <2>1. PICK node \in NodesOf(trie) \union ForeignNodes :
            siblings' = Append(siblings, node) /\ (WrongNode(node) \/ BranchNode(node) \/ PairNode(node))
    BY <1>3 DEF Look
  <2>2. result = "looking" /\ UNCHANGED <<trie, path, receipt>>
    BY <1>3 DEF Look, request
  <2>3. Walking /\ nodeKey = Hash(Nodes(trie)[Walked])
    BY <2>2, LookingIsWalking
  <2>4. nibblePath' = nibblePath
    BY <2>2 DEF nibblePath
  <2>5. nibblePath \in Nibbles /\ pathPtr \in Nat /\ trie \in Tries /\ Walked \in KeyPrefixes(trie)
    BY <2>3 DEF Walking, WalkInv
  <2>6. siblings' \in Seq(NodesOf(trie') \union ForeignNodes)
    BY <2>1, <2>2, AppendProperties DEF WalkInv
  <2>7. ASSUME Stops PROVE pathPtr' \in Nat /\ NodeOfPrefix' /\ OnlyHeldProved'
    BY <2>5, <2>7 DEF Stops, Revert, Return, NodeOfPrefix, OnlyHeldProved
  <2>8. CASE WrongNode(node)
    <3>1. Stops
      BY <2>8 DEF WrongNode, Stops
    <3> QED
      BY <2>2, <2>6, <2>7, <3>1 DEF WalkInv
  <2>9. CASE BranchNode(node) \/ PairNode(node)
    <3>1. Hash(node) = Hash(Nodes(trie)[Walked])
      BY <2>3, <2>9 DEF BranchNode, PairNode, IsNext
    <3>2. node = Nodes(trie)[Walked]
      BY <3>1 DEF Hash
    <3>3. CASE /\ Fork(trie, Walked) \in DOMAIN trie /\ Fork(trie, Walked) = nibblePath
               /\ Return(IF trie[nibblePath] = receipt THEN "true" ELSE "false")
      <4>1. pathPtr' = pathPtr /\ result' \in {"true", "false"}
        BY <3>3 DEF Return
      <4>2. OnlyHeldProved'
        BY <2>2, <2>4, <3>3 DEF OnlyHeldProved, Return
      <4>3. NodeOfPrefix'
        BY <4>1 DEF NodeOfPrefix
      <4> QED
        BY <2>2, <2>5, <2>6, <4>1, <4>2, <4>3 DEF WalkInv
    <3>4. CASE /\ GoesOn(NextNode)
               /\ NextNode \in KeyPrefixes(trie) /\ IsPrefix(NextNode, nibblePath)
      <4>1. PICK q : q = NextNode
        OBVIOUS
      <4>2. q \in Nibbles /\ IsPrefix(q, nibblePath) /\ q \in KeyPrefixes(trie)
        BY <2>5, <3>4, <4>1, PrefixesOfKeys
      <4>3. Len(q) \in 0 .. Len(nibblePath) /\ q = SubSeq(nibblePath, 1, Len(q))
        BY <2>5, <4>2, PrefixIsFirst
      <4>4. nodeKey' = Hash(Nodes(trie)[q]) /\ pathPtr' = Len(q) /\ result' = "looking"
        BY <2>2, <3>4, <4>1 DEF GoesOn
      <4>5. SubSeq(nibblePath', 1, pathPtr') = q /\ pathPtr' <= Len(nibblePath') /\ pathPtr' \in Nat
        BY <2>4, <4>3, <4>4, LenProperties, <2>5 DEF Nibbles
      <4>6. NodeOfPrefix'
        BY <2>2, <4>2, <4>4, <4>5 DEF NodeOfPrefix
      <4>7. OnlyHeldProved'
        BY <4>4 DEF OnlyHeldProved
      <4> QED
        BY <2>2, <2>5, <2>6, <4>5, <4>6, <4>7 DEF WalkInv
    <3>5. Stops => WalkInv'
      BY <2>2, <2>6, <2>7 DEF WalkInv
    <3> QED
      BY <2>3, <2>9, <3>2, <3>3, <3>4, <3>5, TurnOfLoop
  <2> QED
    BY <2>1, <2>8, <2>9
<1> QED
  BY <1>1, <1>2, <1>3 DEF Next

LEMMA WalkAlways == Spec => []WalkInv
BY WalkStarts, WalkGoesOn, PTL DEF Spec

(***************************************************************************)
(* NodeOfPrefix holds of every trie and path: the node looked for is the   *)
(* one below the nibbles walked.                                           *)
(***************************************************************************)
THEOREM AlwaysNodeOfPrefix == Spec => []NodeOfPrefix
<1>1. WalkInv => NodeOfPrefix
  BY DEF WalkInv
<1> QED
  BY <1>1, WalkAlways, PTL

(***************************************************************************)
(* OnlyHeldProved holds of every trie, path, receipt and list of nodes:    *)
(* what is proved is what the trie holds at that path.                     *)
(***************************************************************************)
THEOREM OnlyHeldEverProved == Spec => []OnlyHeldProved
<1>1. WalkInv => OnlyHeldProved
  BY DEF WalkInv
<1> QED
  BY <1>1, WalkAlways, PTL

-----------------------------------------------------------------------------
(***************************************************************************)
(* The nodes on the way to a key, in the order of their depths.            *)
(***************************************************************************)
LEMMA SmallerSubset ==
    ASSUME NEW S, IsFiniteSet(S), NEW T \in SUBSET S, T # S
    PROVE  Cardinality(T) < Cardinality(S)
<1>1. IsFiniteSet(T) /\ Cardinality(T) <= Cardinality(S) /\ Cardinality(T) # Cardinality(S)
  BY FS_Subset
<1>2. Cardinality(T) \in Nat /\ Cardinality(S) \in Nat
  BY <1>1, FS_CardinalityType
<1> QED
  BY <1>1, <1>2

LEMMA NthIsOne ==
    ASSUME NEW D, IsFiniteSet(D), D \subseteq Nat, NEW i \in Nat, NEW d, NEW e,
           IsNth(D, i, d), IsNth(D, i, e)
    PROVE  d = e
<1>1. ASSUME NEW a \in D, NEW b \in D, a < b
      PROVE  Cardinality({x \in D : x < a}) # Cardinality({x \in D : x < b})
  <2>1. {x \in D : x < a} \subseteq {x \in D : x < b}
    <3>1. \A x \in D : x \in Nat /\ (x < a => x < b)
      BY <1>1
    <3> QED
      BY <3>1
  <2>2. a \in {x \in D : x < b} /\ a \notin {x \in D : x < a}
    BY <1>1
  <2>3. IsFiniteSet({x \in D : x < b})
    BY FS_Subset
  <2>4. {x \in D : x < a} # {x \in D : x < b}
    BY <2>2
  <2>5. Cardinality({x \in D : x < a}) < Cardinality({x \in D : x < b})
    BY <2>1, <2>3, <2>4, SmallerSubset
  <2>6. Cardinality({x \in D : x < b}) \in Nat /\ Cardinality({x \in D : x < a}) \in Nat
    BY FS_Subset, FS_CardinalityType
  <2> QED
    BY <2>5, <2>6
<1>2. d \in D /\ e \in D /\ Cardinality({x \in D : x < d}) = Cardinality({x \in D : x < e})
  BY DEF IsNth
<1>3. d \in Nat /\ e \in Nat
  BY <1>2
<1>4. ~ (d < e)
  BY <1>1, <1>2
<1>5. ~ (e < d)
  BY <1>1, <1>2
<1> QED
  BY <1>3, <1>4, <1>5

LEMMA NthGoesOn ==
    ASSUME NEW D, IsFiniteSet(D), D \subseteq Nat, NEW i \in Nat, NEW d, IsNth(D, i, d),
           NEW e \in D, d < e, \A x \in D : x < e => x <= d
    PROVE  IsNth(D, i + 1, e) /\ i < Cardinality(D)
<1>1. d \in D /\ Cardinality({x \in D : x < d}) = i - 1
  BY DEF IsNth
<1>2. {x \in D : x < e} = {x \in D : x < d} \union {d}
  <2>1. \A x \in D : x < e <=> x < d \/ x = d
    <3> SUFFICES ASSUME NEW x \in D PROVE x < e <=> x < d \/ x = d
      OBVIOUS
    <3>1. x \in Nat /\ d \in Nat /\ e \in Nat /\ (x < e => x <= d)
      BY <1>1
    <3> QED
      BY <3>1
  <2> QED
    BY <1>1, <2>1
<1>3. IsFiniteSet({x \in D : x < d}) /\ d \notin {x \in D : x < d}
  BY <1>1, FS_Subset
<1>4. Cardinality({x \in D : x < e}) = i
  BY <1>1, <1>2, <1>3, FS_AddElement
<1>5. Cardinality({x \in D : x < e}) < Cardinality(D)
  <2>1. {x \in D : x < e} \subseteq D /\ {x \in D : x < e} # D
    <3>1. e \in D /\ e \notin {x \in D : x < e}
      OBVIOUS
    <3> QED
      BY <3>1
  <2> QED
    BY <2>1, SmallerSubset
<1> QED
  BY <1>4, <1>5 DEF IsNth

LEMMA DepthsOfKey ==
    ASSUME NEW t \in Tries, NEW s \in DOMAIN t
    PROVE  /\ IsFiniteSet(Depths(t, s)) /\ Depths(t, s) \subseteq Nat
           /\ IsNth(Depths(t, s), 1, 0) /\ s \in Nibbles /\ Len(s) \in Nat
           /\ \A d \in 0 .. Len(s) : SubSeq(s, 1, d) \in KeyPrefixes(t)
<1>1. s \in Nibbles /\ Len(s) \in Nat
  BY TrieKeys, LenProperties DEF Nibbles
<1>2. Depths(t, s) \subseteq 0 .. Len(s)
  BY DEF Depths
<1>3. IsFiniteSet(Depths(t, s)) /\ Depths(t, s) \subseteq Nat
  <2>1. IsFiniteSet(0 .. Len(s)) /\ 0 .. Len(s) \subseteq Nat
    BY <1>1, FS_Interval
  <2> QED
    BY <1>2, <2>1, FS_Subset
<1>4. ASSUME NEW d \in 0 .. Len(s) PROVE SubSeq(s, 1, d) \in KeyPrefixes(t)
  <2>1. SubSeq(s, 1, d) \in Prefixes(s)
    BY DEF Prefixes
  <2> QED
    BY <2>1 DEF KeyPrefixes
<1>5. 0 \in Depths(t, s)
  <2>1. SubSeq(s, 1, 0) = <<>>
    BY SubSeqEmpty
  <2> QED
    BY <1>1, <2>1 DEF Depths, IsNode
<1>6. IsNth(Depths(t, s), 1, 0)
  <2>1. {e \in Depths(t, s) : e < 0} = {}
    BY <1>3
  <2> QED
    BY <1>5, <2>1, FS_EmptySet DEF IsNth
<1> QED
  BY <1>1, <1>3, <1>4, <1>6

\* The node at depth d on the way to s, at p, leads to q.
LeadsOn(t, s, d, p, q) ==
    /\ d \in Depths(t, s) /\ p = SubSeq(s, 1, d) /\ Fork(t, p) \notin DOMAIN t
    /\ q = IF Fork(t, p) # p THEN Fork(t, p) ELSE SubSeq(s, 1, d + 1)

\* Where the walk goes on to from a node is the next node on the way to the key.
LEMMA NextDepth ==
    ASSUME NEW t \in Tries, NEW s \in DOMAIN t, NEW d, NEW p, NEW q, LeadsOn(t, s, d, p, q)
    PROVE  /\ d < Len(s) /\ IsPrefix(q, s) /\ q \in KeyPrefixes(t) /\ (Fork(t, p) # p => q # s)
           /\ Len(q) \in Depths(t, s) /\ d < Len(q)
           /\ \A e \in Depths(t, s) : e < Len(q) => e <= d
<1>0. /\ d \in Depths(t, s) /\ p = SubSeq(s, 1, d) /\ Fork(t, p) \notin DOMAIN t
      /\ q = IF Fork(t, p) # p THEN Fork(t, p) ELSE SubSeq(s, 1, d + 1)
  BY DEF LeadsOn
<1>1. /\ s \in Nibbles /\ Len(s) \in Nat /\ Depths(t, s) \subseteq Nat
      /\ \A e \in 0 .. Len(s) : SubSeq(s, 1, e) \in KeyPrefixes(t)
  BY DepthsOfKey
<1>2. d \in 0 .. Len(s) /\ p \in KeyPrefixes(t) /\ p \in Nibbles /\ Len(p) = d /\ IsPrefix(p, s)
  BY <1>0, <1>1, FirstNibbles, FirstIsPrefix DEF Depths
<1>3. s \in Below(t, p)
  BY <1>2 DEF Below
<1> DEFINE f == Fork(t, p)
<1>4. /\ f \in Nibbles /\ f \in KeyPrefixes(t) /\ IsPrefix(p, f) /\ IsPrefix(f, s)
      /\ Len(f) \in Nat /\ d <= Len(f) /\ Len(f) < Len(s) /\ f \notin DOMAIN t
  <2>1. f \in Nibbles /\ f \in KeyPrefixes(t) /\ IsPrefix(p, f) /\ Below(t, f) = Below(t, p) /\ Len(p) <= Len(f)
    BY <1>2, ForkOfPrefix
  <2>2. Len(f) < Len(s)
    BY <1>0, <1>2, <1>3, ForkKinds
  <2> QED
    BY <1>0, <1>2, <1>3, <2>1, <2>2, LenProperties DEF Below, Nibbles
<1> HIDE DEF f
<1>5. f = SubSeq(s, 1, Len(f)) /\ Len(f) \in 0 .. Len(s)
  BY <1>1, <1>4, PrefixIsFirst
<1>6. ASSUME NEW e \in d .. Len(f) PROVE Fork(t, SubSeq(s, 1, e)) = f
  <2>1. e \in 0 .. Len(s) /\ e \in 0 .. Len(f)
    BY <1>2, <1>4
  <2>2. PICK g : g = SubSeq(s, 1, e)
    OBVIOUS
  <2>3. g \in Nibbles /\ Len(g) = e /\ IsPrefix(g, s)
    BY <1>1, <2>1, <2>2, FirstNibbles, FirstIsPrefix
  <2>4. IsPrefix(p, g) /\ IsPrefix(g, f)
    <3>1. Len(p) <= Len(g) /\ Len(g) <= Len(f)
      BY <1>2, <1>4, <2>1, <2>3
    <3>2. p \in Nibbles /\ f \in Nibbles /\ IsPrefix(p, s) /\ IsPrefix(f, s)
      BY <1>2, <1>4
    <3>3. IsPrefix(p, g)
      BY <1>1, <2>3, <3>1, <3>2, PrefixOrder
    <3>4. IsPrefix(g, f)
      BY <1>1, <2>3, <3>1, <3>2, PrefixOrder
    <3> QED
      BY <3>3, <3>4
  <2> QED
    BY <1>0, <1>2, <2>2, <2>3, <2>4, BeforeFork DEF f
<1>7. BranchAt(t, f)
  <2>1. Len(f) \in d .. Len(f)
    BY <1>2, <1>4
  <2> QED
    BY <1>4, <1>5, <1>6, <2>1 DEF BranchAt
<1>8. ASSUME NEW e \in d .. Len(f), e # Len(f) PROVE ~ BranchAt(t, SubSeq(s, 1, e))
  <2>1. Len(SubSeq(s, 1, e)) = e
    BY <1>1, <1>2, <1>4, <1>8, FirstNibbles
  <2>2. Fork(t, SubSeq(s, 1, e)) # SubSeq(s, 1, e)
    BY <1>6, <1>8, <2>1
  <2> QED
    BY <2>2 DEF BranchAt
<1>9. ASSUME NEW e \in 1 .. Len(s) PROVE Front(SubSeq(s, 1, e)) = SubSeq(s, 1, e - 1) /\ SubSeq(s, 1, e) # <<>>
  <2>1. PICK g : g = SubSeq(s, 1, e)
    OBVIOUS
  <2>2. g \in Nibbles /\ Len(g) = e /\ (\A i \in 1 .. e : g[i] = s[i]) /\ e \in Nat /\ e - 1 \in 0 .. e /\ e - 1 \in 0 .. Len(s)
    BY <1>1, <2>1, FirstNibbles
  <2>3. PICK c \in 0 .. e : c = e - 1
    BY <2>2
  <2>4. /\ SubSeq(g, 1, c) \in Nibbles /\ Len(SubSeq(g, 1, c)) = c
        /\ \A i \in 1 .. c : SubSeq(g, 1, c)[i] = g[i]
    BY <2>2, FirstNibbles
  <2>5. /\ SubSeq(s, 1, c) \in Nibbles /\ Len(SubSeq(s, 1, c)) = c
        /\ \A i \in 1 .. c : SubSeq(s, 1, c)[i] = s[i]
    BY <1>1, <2>2, <2>3, FirstNibbles
  <2>6. \A i \in 1 .. c : SubSeq(g, 1, c)[i] = SubSeq(s, 1, c)[i]
    BY <2>2, <2>3, <2>4, <2>5
  <2>7. SubSeq(g, 1, c) = SubSeq(s, 1, c)
    BY <2>4, <2>5, <2>6, SeqEqual DEF Nibbles
  <2>8. Front(g) = SubSeq(g, 1, c)
    BY <2>2, <2>3 DEF Front
  <2> QED
    BY <2>1, <2>2, <2>3, <2>7, <2>8, EmptyPrefix
<1>10. CASE f # p
  <2>1. q = f
    BY <1>0, <1>10 DEF f
  <2>2. Len(f) # d /\ d < Len(f)
    <3>1. p \in Nibbles /\ f \in Nibbles /\ IsPrefix(p, f) /\ p # f
      BY <1>2, <1>4, <1>10
    <3>2. ~ (Len(p) >= Len(f))
      BY <3>1, PrefixOrder
    <3> QED
      BY <1>2, <1>4, <3>2
  <2>3. Len(f) \in Depths(t, s)
    BY <1>5, <1>7 DEF Depths, IsNode
  <2>4. ASSUME NEW e \in Depths(t, s), e < Len(f), e > d PROVE FALSE
    <3>1. e \in 1 .. Len(s) /\ e \in d .. Len(f) /\ e - 1 \in d .. Len(f) /\ e # Len(f) /\ e - 1 # Len(f)
      BY <1>1, <1>2, <1>4, <2>4
    <3>2. IsNode(t, SubSeq(s, 1, e))
      BY DEF Depths
    <3>3. BranchAt(t, SubSeq(s, 1, e)) \/ BranchAt(t, SubSeq(s, 1, e - 1))
      BY <1>9, <3>1, <3>2 DEF IsNode
    <3> QED
      BY <1>8, <3>1, <3>3
  <2>5. \A e \in Depths(t, s) : e < Len(f) => e <= d
    BY <1>1, <1>2, <2>4
  <2> QED
    BY <1>1, <1>2, <1>4, <2>1, <2>2, <2>3, <2>5 DEF f
<1>11. CASE f = p
  <2>1. q = SubSeq(s, 1, d + 1) /\ d + 1 \in 1 .. Len(s) /\ d + 1 \in 0 .. Len(s) /\ d < Len(s)
    BY <1>0, <1>1, <1>2, <1>4, <1>11 DEF f
  <2>2. q \in Nibbles /\ Len(q) = d + 1 /\ IsPrefix(q, s) /\ q \in KeyPrefixes(t)
    BY <1>1, <2>1, FirstNibbles, FirstIsPrefix
  <2>3. Front(q) = p
    <3>1. PICK e \in 1 .. Len(s) : e = d + 1
      BY <2>1
    <3>2. q = SubSeq(s, 1, e) /\ e - 1 = d
      <4>1. d \in Nat
        BY <1>2
      <4>2. e - 1 = d
        BY <3>1, <4>1
      <4> QED
        BY <2>1, <3>1, <4>2
    <3>3. Front(SubSeq(s, 1, e)) = SubSeq(s, 1, e - 1)
      BY <1>9
    <3> QED
      BY <1>0, <3>2, <3>3
  <2>4. d + 1 \in Depths(t, s)
    BY <1>7, <1>11, <2>1, <2>3 DEF Depths, IsNode
  <2> QED
    BY <1>1, <1>2, <1>11, <2>1, <2>2, <2>4 DEF f
<1> QED
  BY <1>10, <1>11

LEMMA HonestNodes ==
    ASSUME NEW t \in Tries, NEW s \in DOMAIN t
    PROVE  /\ Cardinality(Depths(t, s)) \in Nat \ {0}
           /\ Len(HonestProof(t, s)) = Cardinality(Depths(t, s))
           /\ \A i \in 1 .. Cardinality(Depths(t, s)) : \A d :
                  IsNth(Depths(t, s), i, d) => HonestProof(t, s)[i] = Nodes(t)[SubSeq(s, 1, d)]
<1>1. PICK D : D = Depths(t, s)
  OBVIOUS
<1>2. IsFiniteSet(D) /\ D \subseteq Nat /\ IsNth(D, 1, 0)
  BY <1>1, DepthsOfKey
<1>3. Cardinality(D) \in Nat /\ D # {}
  BY <1>2, FS_CardinalityType DEF IsNth
<1>4. PICK n \in Nat \ {0} : n = Cardinality(D)
  BY <1>2, <1>3, FS_EmptySet
<1> DEFINE node(i) == Nodes(t)[SubSeq(s, 1, CHOOSE d \in D : IsNth(D, i, d))]
<1>5. HonestProof(t, s) = [i \in 1 .. n |-> node(i)]
  BY <1>1, <1>4 DEF HonestProof
<1>6. ASSUME NEW i \in 1 .. n, NEW d, IsNth(D, i, d) PROVE node(i) = Nodes(t)[SubSeq(s, 1, d)]
  <2>1. d \in D
    BY <1>6 DEF IsNth
  <2>2. PICK e : e = CHOOSE x \in D : IsNth(D, i, x)
    OBVIOUS
  <2>3. IsNth(D, i, e)
    BY <1>6, <2>1, <2>2
  <2>4. d = e
    <3>1. i \in Nat
      OBVIOUS
    <3> QED
      BY <1>2, <1>6, <2>3, <3>1, NthIsOne
  <2> QED
    BY <2>2, <2>4
<1> HIDE DEF node
<1>7. Len(HonestProof(t, s)) = n
  BY <1>5
<1>8. \A i \in 1 .. n : HonestProof(t, s)[i] = node(i)
  BY <1>5
<1> QED
  BY <1>1, <1>4, <1>6, <1>7, <1>8

-----------------------------------------------------------------------------
(***************************************************************************)
(* While the siblings are the first nodes of the honest proof, pathPtr is  *)
(* the depth of the next one.  HeldIsProved alone is not inductive: it     *)
(* says nothing until the last node.                                       *)
(***************************************************************************)
Held == nibblePath \in DOMAIN trie /\ trie[nibblePath] = receipt

Honest == HonestProof(trie, nibblePath)

OnTheWay ==
    Len(siblings) <= Len(Honest) /\ \A i \in 1 .. Len(siblings) : siblings[i] = Honest[i]

HeldInv ==
    Held => /\ siblings = Honest => result = "true"
            /\ result = "looking" /\ OnTheWay
               => IsNth(Depths(trie, nibblePath), Len(siblings) + 1, pathPtr)

LEMMA HeldStarts == Init => HeldInv
<1> SUFFICES ASSUME Init, Held PROVE HeldInv
  BY DEF HeldInv
<1>1. trie \in Tries /\ siblings = <<>> /\ pathPtr = 0 /\ nibblePath \in DOMAIN trie
  BY DEF Init, Held
<1>2. IsNth(Depths(trie, nibblePath), 1, 0) /\ Len(siblings) + 1 = 1
  BY <1>1, DepthsOfKey
<1>3. PICK t, s : t \in Tries /\ t = trie /\ s = nibblePath
  BY <1>1
<1>4. Len(HonestProof(t, s)) # 0
  BY <1>1, <1>3, HonestNodes
<1>5. Honest # siblings
  BY <1>1, <1>3, <1>4 DEF Honest
<1> QED
  BY <1>1, <1>2, <1>5 DEF HeldInv

\* The next node of the honest proof answers, or leads to the one after it.
LEMMA HonestTurn ==
    ASSUME WalkInv, HeldInv, Held, Look, OnTheWay'
    PROVE  /\ IsNth(Depths(trie, nibblePath), Len(siblings) + 1, pathPtr)
           /\ \/ Return("true")
              \/ /\ result' = "looking" /\ Len(siblings) + 1 < Cardinality(Depths(trie, nibblePath))
                 /\ IsNth(Depths(trie, nibblePath), Len(siblings) + 2, pathPtr')
<1>1. PICK node \in NodesOf(trie) \union ForeignNodes :
          siblings' = Append(siblings, node) /\ (WrongNode(node) \/ BranchNode(node) \/ PairNode(node))
  BY DEF Look
<1>2. result = "looking" /\ trie' = trie /\ nibblePath' = nibblePath
  BY DEF Look, request, nibblePath
<1>3. Walking /\ nodeKey = Hash(Nodes(trie)[Walked])
  BY <1>2, LookingIsWalking
<1>4. PICK t, s : t \in Tries /\ s \in DOMAIN t /\ t = trie /\ s = nibblePath
  BY DEF WalkInv, Held
<1>5. PICK D : D = Depths(t, s)
  OBVIOUS
<1>6. PICK n \in Nat : n = Len(siblings)
  BY LenProperties DEF WalkInv
<1>7. Len(siblings') = n + 1 /\ siblings'[n + 1] = node /\ \A i \in 1 .. n : siblings'[i] = siblings[i]
  BY <1>1, <1>6, AppendProperties DEF WalkInv
<1>8. Honest = HonestProof(t, s) /\ Honest' = HonestProof(t, s)
  BY <1>2, <1>4 DEF Honest
<1>9. PICK c \in Nat : c = Cardinality(D) /\ Len(HonestProof(t, s)) = c
  BY <1>4, <1>5, HonestNodes
<1>10. n + 1 <= c /\ (\A i \in 1 .. n : siblings[i] = HonestProof(t, s)[i]) /\ node = HonestProof(t, s)[n + 1]
  <2>1. n + 1 <= c /\ \A i \in 1 .. n + 1 : siblings'[i] = HonestProof(t, s)[i]
    BY <1>7, <1>8, <1>9 DEF OnTheWay
  <2>2. n + 1 \in 1 .. n + 1 /\ \A i \in 1 .. n : i \in 1 .. n + 1
    OBVIOUS
  <2> QED
    BY <1>7, <2>1, <2>2
<1>11. OnTheWay
  BY <1>6, <1>8, <1>9, <1>10 DEF OnTheWay
<1>12. IsNth(D, n + 1, pathPtr)
  BY <1>2, <1>4, <1>5, <1>6, <1>11 DEF HeldInv
<1>13. node = Nodes(trie)[Walked]
  <2>1. n + 1 \in 1 .. c
    BY <1>10
  <2>2. PICK i, d : i \in 1 .. c /\ i = n + 1 /\ d = pathPtr
    BY <2>1
  <2>3. HonestProof(t, s)[i] = Nodes(t)[SubSeq(s, 1, d)]
    BY <1>4, <1>5, <1>9, <1>12, <2>2, HonestNodes
  <2> QED
    BY <1>4, <1>10, <2>2, <2>3 DEF Walked
<1>14. BranchNode(node) \/ PairNode(node)
  BY <1>1, <1>3, <1>13 DEF WrongNode, IsNext
<1>15. s \in Below(t, Walked) /\ Walked \in KeyPrefixes(t)
  BY <1>3, <1>4, FirstIsPrefix DEF Walking, Walked, Below
<1>16. CASE Fork(trie, Walked) \in DOMAIN trie
  <2>1. Fork(trie, Walked) = nibblePath
    BY <1>4, <1>15, <1>16, ForkKinds
  <2>2. Return("true")
    BY <1>3, <1>13, <1>14, <1>16, <2>1, LeafFollowed DEF Held
  <2> QED
    BY <1>4, <1>5, <1>6, <1>12, <2>2
<1>17. CASE Fork(trie, Walked) \notin DOMAIN trie
  <2>1. PICK p, q, d : p = Walked /\ q = NextNode /\ d = pathPtr
    OBVIOUS
  <2>2. LeadsOn(t, s, d, p, q)
    BY <1>4, <1>5, <1>12, <1>17, <2>1 DEF Walked, NextNode, IsNth, LeadsOn
  <2>3. /\ d < Len(s) /\ IsPrefix(q, s) /\ q \in KeyPrefixes(t) /\ (Fork(t, p) # p => q # s)
        /\ Len(q) \in Depths(t, s) /\ d < Len(q)
        /\ \A e \in Depths(t, s) : e < Len(q) => e <= d
    BY <1>4, <2>2, NextDepth
  <2>4. GoesOn(NextNode)
    <3>1. CASE Fork(trie, Walked) # Walked
      BY <1>3, <1>4, <1>13, <1>14, <1>17, <2>1, <2>3, <3>1, ExtensionFollowed
    <3>2. CASE Fork(trie, Walked) = Walked
      <4>1. BranchNode(node)
        <5>1. node = Layout(t, Walked, Nodes(t))
          BY <1>4, <1>13, <1>15, NodesUnfold
        <5>2. node[1] = "branch"
          BY <1>4, <1>17, <3>2, <5>1 DEF Layout, Branch
        <5> QED
          BY <1>14, <5>2 DEF PairNode
      <4> QED
        BY <1>3, <1>4, <1>13, <1>17, <2>1, <2>3, <3>2, <4>1, BranchFollowed
    <3> QED
      BY <3>1, <3>2
  <2>5. pathPtr' = Len(q) /\ result' = "looking"
    BY <1>2, <2>1, <2>4 DEF GoesOn
  <2>6. PICK i, e : i \in Nat /\ i = n + 1 /\ e = Len(q)
    <3>1. n + 1 \in Nat
      OBVIOUS
    <3> QED
      BY <3>1
  <2>7. IsFiniteSet(D) /\ D \subseteq Nat
    BY <1>4, <1>5, DepthsOfKey
  <2>8. i \in Nat /\ IsNth(D, i, d) /\ e \in D /\ d < e /\ \A x \in D : x < e => x <= d
    BY <1>5, <1>12, <2>1, <2>3, <2>6
  <2>9. IsNth(D, i + 1, e) /\ i < Cardinality(D)
    BY <2>7, <2>8, NthGoesOn
  <2>10. i + 1 = n + 2
    BY <2>6
  <2> QED
    BY <1>4, <1>5, <1>6, <1>12, <2>5, <2>6, <2>9, <2>10
<1> QED
  BY <1>16, <1>17

LEMMA HeldGoesOn == WalkInv /\ HeldInv /\ [Next]_vars => HeldInv'
<1> SUFFICES ASSUME WalkInv, HeldInv, [Next]_vars PROVE HeldInv'
  OBVIOUS
<1>1. CASE UNCHANGED vars
  BY <1>1 DEF HeldInv, vars, request, Held, Honest, OnTheWay, nibblePath
<1>2. CASE NoMoreSiblings
  <2>1. result = "looking" /\ result' = "false" /\ UNCHANGED <<trie, path, receipt, siblings>>
    BY <1>2 DEF NoMoreSiblings, Return, request
  <2>2. Held' = Held /\ Honest' = Honest
    BY <2>1 DEF Held, Honest, nibblePath
  <2> QED
    BY <2>1, <2>2 DEF HeldInv
<1>3. CASE Look
  <2>1. UNCHANGED <<trie, path, receipt>> /\ nibblePath' = nibblePath /\ Held' = Held /\ Honest' = Honest
    BY <1>3 DEF Look, request, nibblePath, Held, Honest
  <2> SUFFICES ASSUME Held PROVE HeldInv'
    BY <2>1 DEF HeldInv
  <2>2. PICK n, c : n = Len(siblings) /\ c = Cardinality(Depths(trie, nibblePath))
    OBVIOUS
  <2>3. n \in Nat /\ c \in Nat /\ Len(siblings') = n + 1 /\ Len(Honest) = c
    <3>1. PICK node \in NodesOf(trie) \union ForeignNodes : siblings' = Append(siblings, node)
      BY <1>3 DEF Look
    <3>2. n \in Nat /\ Len(siblings') = n + 1
      BY <2>2, <3>1, LenProperties, AppendProperties DEF WalkInv
    <3> QED
      BY <2>2, <3>2, HonestNodes DEF Honest, Held, WalkInv
  <2>4. siblings' = Honest => OnTheWay'
    <3> SUFFICES ASSUME siblings' = Honest PROVE OnTheWay'
      OBVIOUS
    <3>1. Len(siblings') <= Len(Honest')
      BY <2>1, <2>3
    <3> QED
      BY <2>1, <3>1 DEF OnTheWay
  <2>5. CASE ~ OnTheWay'
    BY <2>1, <2>4, <2>5 DEF HeldInv
  <2>6. CASE OnTheWay'
    <3>1. \/ Return("true")
          \/ result' = "looking" /\ n + 1 < c /\ IsNth(Depths(trie, nibblePath), n + 2, pathPtr')
      BY <1>3, <2>2, <2>6, HonestTurn
    <3>2. CASE Return("true")
      BY <3>2 DEF Return, HeldInv
    <3>3. CASE result' = "looking" /\ n + 1 < c /\ IsNth(Depths(trie, nibblePath), n + 2, pathPtr')
      <4>1. siblings' # Honest
        BY <2>3, <3>3
      <4>2. Len(siblings') + 1 = n + 2
        BY <2>3
      <4> QED
        BY <2>1, <3>3, <4>1, <4>2 DEF HeldInv
    <3> QED
      BY <3>1, <3>2, <3>3
  <2> QED
    BY <2>5, <2>6
<1> QED
  BY <1>1, <1>2, <1>3 DEF Next

(***************************************************************************)
(* HeldIsProved holds of every trie: the nodes on the way to a receipt     *)
(* prove it, whatever the shape of the trie and the flag of the path.      *)
(***************************************************************************)
THEOREM HeldAlwaysProved == Spec => []HeldIsProved
<1>1. WalkInv /\ HeldInv /\ [Next]_vars => HeldInv'
  BY HeldGoesOn
<1>2. HeldInv => HeldIsProved
  BY DEF HeldInv, HeldIsProved, Held, Honest
<1> QED
  BY <1>1, <1>2, HeldStarts, WalkAlways, PTL DEF Spec
=============================================================================
