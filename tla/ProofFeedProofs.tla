-------------------------- MODULE ProofFeedProofs --------------------------
(***************************************************************************)
(* Theorems about the relayer's proofs (ProofFeed): what they make the hub *)
(* record stays on the node's branch, and the hub accepts them.  For every *)
(* tree of headers, epoch length and number of confirmations that covers   *)
(* the deepest reorganisation.                                             *)
(***************************************************************************)
EXTENDS RelayHubProofs, ProofFeed

-----------------------------------------------------------------------------
(***************************************************************************)
(* Branch is defined by recursion over a tree; its equation has a          *)
(* solution, the least closed set around a header, so Branch satisfies it. *)
(***************************************************************************)
Parents(h) == {g \in Headers : g.hash = h.parentHash /\ g.number < h.number}

Closed(S) == S \subseteq Headers /\ \A h \in S : Parents(h) \subseteq S

Ancestors(h) == {g \in Headers : \A S \in SUBSET Headers : h \in S /\ Closed(S) => g \in S}

LEMMA AncestorsClosed ==
    ASSUME NEW h \in Headers PROVE h \in Ancestors(h) /\ Closed(Ancestors(h))
<1>1. ASSUME NEW g \in Ancestors(h), NEW p \in Parents(g) PROVE p \in Ancestors(h)
  <2> SUFFICES ASSUME NEW S \in SUBSET Headers, h \in S, Closed(S) PROVE p \in S
    BY DEF Ancestors, Parents
  <2>1. g \in S
    BY DEF Ancestors
  <2> QED
    BY <2>1 DEF Closed
<1> QED
  BY <1>1 DEF Closed, Ancestors

LEMMA AncestorsUnfold ==
    ASSUME NEW h \in Headers
    PROVE  Ancestors(h) = {h} \union UNION {Ancestors(p) : p \in Parents(h)}
<1> DEFINE T == {h} \union UNION {Ancestors(p) : p \in Parents(h)}
<1>1. Parents(h) \subseteq Headers
  BY DEF Parents
<1>2. ASSUME NEW p \in Parents(h), NEW g \in Ancestors(p) PROVE g \in Ancestors(h)
  <2> SUFFICES ASSUME NEW S \in SUBSET Headers, h \in S, Closed(S) PROVE g \in S
    BY DEF Ancestors
  <2>1. p \in S
    BY DEF Closed
  <2> QED
    BY <2>1 DEF Ancestors
<1>3. T \subseteq Ancestors(h)
  BY <1>2, AncestorsClosed
<1>4. Closed(T)
  <2>1. T \subseteq Headers
    BY DEF Ancestors
  <2>2. ASSUME NEW g \in T, NEW q \in Parents(g) PROVE q \in T
    <3>1. CASE g = h
      <4>1. q \in Parents(h)
        BY <2>2, <3>1
      <4>2. q \in Ancestors(q)
        BY <1>1, <4>1, AncestorsClosed
      <4> QED
        BY <4>1, <4>2
    <3>2. ASSUME NEW p \in Parents(h), g \in Ancestors(p) PROVE q \in T
      <4>1. q \in Ancestors(p)
        BY <1>1, <2>2, <3>2, AncestorsClosed DEF Closed
      <4> QED
        BY <4>1
    <3> QED
      BY <3>1, <3>2
  <2> QED
    BY <2>1, <2>2 DEF Closed
<1>5. ASSUME NEW g \in Ancestors(h) PROVE g \in T
  <2>1. T \in SUBSET Headers /\ h \in T
    BY <1>4 DEF Closed
  <2> HIDE DEF T
  <2> QED
    BY <1>4, <2>1 DEF Ancestors
<1> QED
  BY <1>3, <1>5

LEMMA BranchUnfolds ==
    ASSUME NEW h \in Headers
    PROVE  Branch[h] = {h} \union UNION {Branch[p] : p \in Parents(h)}
<1> DEFINE Solves(f) == f = [g \in Headers |-> {g} \union
              UNION {f[p] : p \in {q \in Headers : q.hash = g.parentHash /\ q.number < g.number}}]
           A == [g \in Headers |-> Ancestors(g)]
<1>1. Solves(A)
  <2>1. ASSUME NEW g \in Headers
        PROVE  A[g] = {g} \union
              UNION {A[p] : p \in {q \in Headers : q.hash = g.parentHash /\ q.number < g.number}}
    <3>1. Parents(g) = {q \in Headers : q.hash = g.parentHash /\ q.number < g.number}
      BY DEF Parents
    <3>2. {A[p] : p \in Parents(g)} = {Ancestors(p) : p \in Parents(g)}
      BY DEF Parents
    <3> QED
      BY <3>1, <3>2, AncestorsUnfold
  <2> QED
    BY <2>1
<1>2. Branch = CHOOSE f : Solves(f)
  BY DEF Branch
<1> HIDE DEF Solves, A
<1>3. Solves(Branch)
  BY <1>1, <1>2
<1>4. Branch = [g \in Headers |-> {g} \union
              UNION {Branch[p] : p \in {q \in Headers : q.hash = g.parentHash /\ q.number < g.number}}]
  BY <1>3 DEF Solves
<1> QED
  BY <1>4 DEF Parents

-----------------------------------------------------------------------------
(***************************************************************************)
(* A branch is a line of headers: a block of each number at most, and the  *)
(* branch of any of its blocks is the part up to that block.               *)
(***************************************************************************)
LEMMA Numbers == \A h \in Headers : h.number \in Nat
BY HeadersAssumption DEF Header

LEMMA BranchBelow ==
    ASSUME NEW h \in Headers
    PROVE  /\ Branch[h] \subseteq Headers /\ h \in Branch[h]
           /\ \A g \in Branch[h] : g = h \/ g.number < h.number
<1> DEFINE Good(g) == /\ Branch[g] \subseteq Headers
                      /\ \A q \in Branch[g] : q = g \/ q.number < g.number
           Bad == {g.number : g \in {q \in Headers : ~ Good(q)}}
<1>1. h \in Branch[h]
  BY BranchUnfolds
<1>2. ASSUME Bad # {} PROVE FALSE
  <2>1. Bad \subseteq Nat
    BY Numbers
  <2>2. PICK m \in Bad : \A n \in Bad : m <= n
    BY <1>2, <2>1, LeastElement
  <2>3. PICK g \in Headers : ~ Good(g) /\ m = g.number
    BY <2>2
  <2>4. \A p \in Parents(g) : p \in Headers /\ p.number < g.number /\ Good(p)
    <3> SUFFICES ASSUME NEW p \in Parents(g) PROVE p \in Headers /\ p.number < g.number /\ Good(p)
      OBVIOUS
    <3>1. p \in Headers /\ p.number < g.number
      BY DEF Parents
    <3>2. ~ Good(p) => p.number \in Bad
      BY <3>1
    <3> HIDE DEF Good, Bad
    <3> QED
      BY <2>2, <2>3, <3>1, <3>2, Numbers
  <2>5. \A p \in Parents(g) : \A q \in Branch[p] : q \in Headers /\ q.number < g.number
    BY <2>4, Numbers
  <2>6. Branch[g] = {g} \union UNION {Branch[p] : p \in Parents(g)}
    BY BranchUnfolds
  <2>7. ASSUME NEW q \in Branch[g] PROVE q \in Headers /\ (q = g \/ q.number < g.number)
    BY <2>5, <2>6, Zenon
  <2> QED
    BY <2>3, <2>7
<1>3. Good(h)
  BY <1>2
<1> QED
  BY <1>1, <1>3

\* The branch of a block is the block alone, or the block above its parent's branch.
LEMMA BranchStep ==
    ASSUME NEW h \in Headers, NEW p \in Parents(h)
    PROVE  Branch[h] = {h} \union Branch[p]
<1>1. \A q \in Parents(h) : q = p
  BY NodeAssumption DEF Parents
<1> QED
  BY <1>1, BranchUnfolds

LEMMA BranchOf ==
    ASSUME NEW h \in Headers, NEW c \in Branch[h]
    PROVE  Branch[c] = {g \in Branch[h] : g.number <= c.number}
<1> DEFINE Good(g) == \A q \in Branch[g] : Branch[q] = {r \in Branch[g] : r.number <= q.number}
           Bad == {g.number : g \in {q \in Headers : ~ Good(q)}}
<1>1. ASSUME Bad # {} PROVE FALSE
  <2>1. Bad \subseteq Nat
    BY Numbers
  <2>2. PICK m \in Bad : \A n \in Bad : m <= n
    BY <1>1, <2>1, LeastElement
  <2>3. PICK g \in Headers : ~ Good(g) /\ m = g.number
    BY <2>2
  <2>4. PICK q \in Branch[g] : Branch[q] # {r \in Branch[g] : r.number <= q.number}
    BY <2>3
  <2>5. q # g
    <3>1. \A r \in Branch[g] : r.number <= g.number
      BY BranchBelow, Numbers
    <3> QED
      BY <2>4, <3>1
  <2>6. PICK p \in Parents(g) : q \in Branch[p]
    BY <2>5, BranchUnfolds
  <2>7. p \in Headers /\ p.number < g.number
    BY DEF Parents
  <2>8. Good(p)
    <3>1. ~ Good(p) => p.number \in Bad
      BY <2>7
    <3> HIDE DEF Good, Bad
    <3> QED
      BY <2>2, <2>3, <2>7, <3>1, Numbers
  <2>9. Branch[q] = {r \in Branch[p] : r.number <= q.number}
    BY <2>6, <2>8
  <2>10. q \in Headers /\ q.number <= p.number /\ q.number \in Nat /\ p.number \in Nat /\ g.number \in Nat
    BY <2>6, <2>7, BranchBelow, Numbers
  <2>11. Branch[g] = {g} \union Branch[p] /\ ~ (g.number <= q.number)
    BY <2>6, <2>7, <2>10, BranchStep
  <2> QED
    BY <2>4, <2>9, <2>11
<1>2. Good(h)
  BY <1>1
<1> QED
  BY <1>2

LEMMA OneBlock ==
    ASSUME NEW h \in Headers, NEW g \in Branch[h], NEW q \in Branch[h], g.number = q.number
    PROVE  g = q
<1>1. g \in Headers /\ q \in Headers /\ g.number \in Nat /\ q.number \in Nat
  BY BranchBelow, Numbers
<1>2. q \in Branch[g]
  BY <1>1, BranchOf
<1> QED
  BY <1>1, <1>2, BranchBelow

LEMMA BlockAtIs ==
    ASSUME tip \in Headers, NEW g \in Branch[tip]
    PROVE  HasBlock(g.number) /\ BlockAt(g.number) = g
<1>1. \A q \in Branch[tip] : q.number = g.number => q = g
  BY OneBlock
<1> QED
  BY <1>1 DEF HasBlock, BlockAt

\* Two branches agree up to any block they share.
LEMMA BranchesAgree ==
    ASSUME NEW h \in Headers, NEW t \in Headers, NEW common \in Branch[h] \intersect Branch[t],
           NEW g \in Branch[t], g.number <= common.number
    PROVE  g \in Branch[h]
<1>1. g \in Branch[common]
  BY BranchOf
<1> QED
  BY <1>1, BranchOf

-----------------------------------------------------------------------------
(***************************************************************************)
(* The inductive invariant.  What is confirmed is deeper than any          *)
(* reorganisation reaches; the hub's sets, and the counts recorded with    *)
(* them, are those of the epochs' blocks on the branch, all confirmed; and *)
(* the worker that reads headers does so for the epoch after the hub's     *)
(* latest one, with the quorum that the hub will ask for, and the first    *)
(* header it read is confirmed and so stays on the branch.                 *)
(***************************************************************************)
FeedType ==
    /\ tip \in Headers /\ confirmed \in Nat /\ proofs \in Seq(Headers)
    /\ reading \in BOOLEAN

Rooted ==
    /\ Genesis \in Branch[tip] /\ Confirmations <= tip.number
    /\ confirmed = 0 \/ confirmed <= tip.number - Confirmations

SourceKnown ==
    IF Registered(Source) THEN registeredChains[Source].epochLength = EpochLength
                          ELSE latestKnownEpoch[Source] = 0

RecordedFrom(e, h) ==
    /\ h \in Branch[tip] /\ h.number = e * EpochLength /\ h.number <= confirmed
    /\ ActiveSet(Source, e) = Listed(h.validators)
    /\ validatorCount[Source][e] = Len(h.validators)

EpochsOnBranch ==
    Registered(Source) =>
        \A e \in 0 .. latestKnownEpoch[Source] : \E h \in Headers : RecordedFrom(e, h)

ReadingNext ==
    reading =>
        /\ Registered(Source) /\ NextEpochBlock <= confirmed
        /\ quorum = RequiredQuorum(validatorCount[Source][latestKnownEpoch[Source]])
        /\ \A i \in DOMAIN proofs : /\ proofs[i].number = NextEpochBlock + i - 1
                                    /\ proofs[i].sealer = proofs[i].coinbase
        /\ proofs # <<>> => proofs[1] \in Branch[tip]

FeedLocal == FeedType /\ Rooted /\ SourceKnown /\ EpochsOnBranch /\ ReadingNext

FeedInv == QuorumInv /\ FeedLocal

-----------------------------------------------------------------------------
LEMMA SourceType ==
    /\ Source \in Chains /\ Genesis \in Headers /\ Genesis.number = 0
    /\ EpochLength \in EpochLengths \ {0} /\ EpochLength \in Nat \ {0}
    /\ Confirmations \in Nat /\ MaxReorg \in Nat
    /\ FirstTip \in Headers /\ Word \in Nat /\ \A h \in Headers : h.number < Word
BY SourceAssumption, HubAssumption

LEMMA HubUnchanged ==
    ASSUME QuorumInv, UNCHANGED vars
    PROVE  /\ QuorumInv' /\ (Registered(Source)' <=> Registered(Source))
           /\ \A e \in Epochs : SameSet(Source, e)
<1>1. TypeInv' /\ KnownListed'
  BY NextKeepsType, StepKeepsListed DEF QuorumInv, HubInv
<1>2. IndexesAgree'
  BY DEF QuorumInv, HubInv, IndexesAgree, vars, history
<1>3. \A e \in Epochs : SameSet(Source, e)
  BY StutteringKeepsSets
<1> QED
  BY <1>1, <1>2, <1>3 DEF QuorumInv, HubInv, Registered, vars

\* The epochs up to the latest one are epochs, and the next one's block has a number.
LEMMA LatestEpochs ==
    ASSUME QuorumInv
    PROVE  /\ latestKnownEpoch[Source] \in Nat /\ 0 .. latestKnownEpoch[Source] \subseteq Epochs
           /\ latestKnownEpoch[Source] \in Epochs /\ NextEpochBlock \in Nat
           /\ NextEpochBlock - EpochLength = latestKnownEpoch[Source] * EpochLength
           /\ NextEpochBlock >= EpochLength
<1> DEFINE latest == latestKnownEpoch[Source]
<1>1. latest \in Epochs
  BY SourceType DEF QuorumInv, HubInv, TypeInv, TypeOK
<1>2. latest \in Nat /\ 0 .. latest \subseteq Epochs
  BY <1>1, HubAssumption DEF Epochs
<1>3. NextEpochBlock = (latest + 1) * EpochLength
  BY DEF NextEpochBlock
<1> HIDE DEF latest
<1>4. (latest + 1) * EpochLength = latest * EpochLength + EpochLength /\ latest * EpochLength \in Nat
  BY <1>2, SourceType
<1> QED
  BY <1>1, <1>2, <1>3, <1>4, SourceType DEF latest

(***************************************************************************)
(* The branch may change above what is confirmed.                          *)
(***************************************************************************)
LEMMA TipMoves ==
    ASSUME FeedInv, NEW h \in Headers, NEW common \in Branch[h] \intersect Branch[tip],
           confirmed <= common.number, tip.number <= h.number,
           tip' = h, UNCHANGED <<vars, worker>>
    PROVE  FeedInv'
<1>0. /\ QuorumInv /\ tip \in Headers /\ confirmed \in Nat /\ Confirmations \in Nat
      /\ tip.number \in Nat /\ h.number \in Nat /\ common \in Headers /\ common.number \in Nat
  BY BranchBelow, Numbers, SourceType DEF FeedInv, FeedLocal, FeedType
<1>1. \A g \in Branch[tip] : g.number <= confirmed => g \in Branch[h]
  <2> SUFFICES ASSUME NEW g \in Branch[tip], g.number <= confirmed PROVE g \in Branch[h]
    OBVIOUS
  <2>1. g.number <= common.number
    BY <1>0, BranchBelow, Numbers
  <2> QED
    BY <1>0, <2>1, BranchesAgree
<1>2. FeedType'
  BY DEF FeedInv, FeedLocal, FeedType, worker
<1>3. Rooted'
  <2>1. Genesis \in Branch[h]
    BY <1>0, <1>1, SourceType DEF FeedInv, FeedLocal, Rooted
  <2>2. /\ Confirmations <= h.number
        /\ confirmed = 0 \/ confirmed <= h.number - Confirmations
    BY <1>0 DEF FeedInv, FeedLocal, Rooted
  <2> QED
    BY <2>1, <2>2 DEF Rooted, worker
<1>4. QuorumInv' /\ (Registered(Source)' <=> Registered(Source)) /\ \A e \in Epochs : SameSet(Source, e)
  BY <1>0, HubUnchanged
<1>5. registeredChains' = registeredChains /\ latestKnownEpoch' = latestKnownEpoch /\ validatorCount' = validatorCount
  BY DEF vars, history
<1>6. SourceKnown'
  BY <1>4, <1>5 DEF FeedInv, FeedLocal, SourceKnown
<1>7. EpochsOnBranch'
  <2> SUFFICES ASSUME Registered(Source), NEW e \in 0 .. latestKnownEpoch[Source]
               PROVE  \E g \in Headers : RecordedFrom(e, g)'
    BY <1>4, <1>5 DEF EpochsOnBranch
  <2>1. PICK g \in Headers : RecordedFrom(e, g)
    BY DEF FeedInv, FeedLocal, EpochsOnBranch
  <2>2. g \in Branch[h]
    BY <1>1, <2>1 DEF RecordedFrom
  <2>3. e \in Epochs
    BY <1>0, LatestEpochs
  <2>4. SameSet(Source, e)
    BY <1>4, <2>3
  <2> QED
    BY <2>1, <2>2, <2>4 DEF RecordedFrom, SameSet, worker
<1>8. ReadingNext'
  <2>1. NextEpochBlock' = NextEpochBlock /\ UNCHANGED worker
    BY <1>5 DEF NextEpochBlock
  <2>2. ASSUME reading, proofs # <<>> PROVE proofs[1] \in Branch[h]
    <3>1. proofs \in Seq(Headers) /\ proofs[1] \in Branch[tip]
      BY <2>2 DEF FeedInv, FeedLocal, FeedType, ReadingNext
    <3>2. 1 \in DOMAIN proofs
      BY <2>2, <3>1
    <3>3. proofs[1].number = NextEpochBlock + 1 - 1 /\ NextEpochBlock <= confirmed
      BY <2>2, <3>2 DEF FeedInv, FeedLocal, ReadingNext
    <3>4. proofs[1].number <= confirmed
      BY <1>0, <3>3, LatestEpochs
    <3> QED
      BY <1>1, <3>1, <3>4
  <2> QED
    BY <1>4, <1>5, <2>1, <2>2 DEF FeedInv, FeedLocal, ReadingNext, worker
<1> QED
  BY <1>2, <1>3, <1>4, <1>6, <1>7, <1>8 DEF FeedInv, FeedLocal

LEMMA ConfirmedBelowTip ==
    ASSUME FeedInv
    PROVE  /\ tip \in Headers /\ tip.number \in Nat /\ confirmed \in Nat
           /\ confirmed <= tip.number /\ Confirmations <= tip.number
           /\ confirmed # 0 => confirmed <= tip.number - Confirmations
BY Numbers, SourceType DEF FeedInv, FeedLocal, FeedType, Rooted

LEMMA ExtendKeeps ==
    ASSUME FeedInv, Extend PROVE FeedInv'
<1>1. PICK h \in Headers : h.parentHash = tip.hash /\ h.number = tip.number + 1 /\ tip' = h
  BY DEF Extend
<1>2. tip \in Parents(h)
  BY <1>1, ConfirmedBelowTip, Numbers DEF Parents
<1>3. tip \in Branch[h] \intersect Branch[tip]
  BY <1>2, ConfirmedBelowTip, BranchBelow, BranchUnfolds
<1>4. confirmed <= tip.number /\ tip.number <= h.number /\ UNCHANGED <<vars, worker>>
  BY <1>1, ConfirmedBelowTip DEF Extend
<1> QED
  BY <1>1, <1>3, <1>4, TipMoves

LEMMA ReorganiseKeeps ==
    ASSUME FeedInv, MaxReorg <= Confirmations, Reorganise PROVE FeedInv'
<1>1. PICK h \in Headers :
         /\ h.number > tip.number /\ tip' = h
         /\ \E common \in Branch[h] \intersect Branch[tip] : tip.number - common.number <= MaxReorg
  BY DEF Reorganise
<1>2. PICK common \in Branch[h] \intersect Branch[tip] : tip.number - common.number <= MaxReorg
  BY <1>1
<1>3. common.number \in Nat /\ h.number \in Nat
  BY <1>2, BranchBelow, Numbers
<1>4. confirmed <= common.number /\ tip.number <= h.number
  BY <1>1, <1>2, <1>3, ConfirmedBelowTip, SourceType
<1>5. UNCHANGED <<vars, worker>>
  BY DEF Reorganise
<1> QED
  BY <1>1, <1>4, <1>5, TipMoves

(***************************************************************************)
(* A step that leaves the hub and the branch alone keeps what is recorded, *)
(* when no less is confirmed after it.                                     *)
(***************************************************************************)
LEMMA WorkerMoves ==
    ASSUME FeedInv, UNCHANGED <<vars, tip>>, confirmed' \in Nat, confirmed <= confirmed',
           confirmed' = confirmed \/ confirmed' <= tip.number - Confirmations
    PROVE  QuorumInv' /\ Rooted' /\ SourceKnown' /\ EpochsOnBranch'
<1>0. QuorumInv
  BY DEF FeedInv
<1>1. QuorumInv' /\ (Registered(Source)' <=> Registered(Source)) /\ \A e \in Epochs : SameSet(Source, e)
  BY <1>0, HubUnchanged
<1>2. registeredChains' = registeredChains /\ latestKnownEpoch' = latestKnownEpoch
  BY DEF vars, history
<1>3. Rooted' /\ SourceKnown'
  BY <1>1, <1>2 DEF FeedInv, FeedLocal, Rooted, SourceKnown
<1>4. EpochsOnBranch'
  <2> SUFFICES ASSUME Registered(Source), NEW e \in 0 .. latestKnownEpoch[Source]
               PROVE  \E h \in Headers : RecordedFrom(e, h)'
    BY <1>1, <1>2 DEF EpochsOnBranch
  <2>1. PICK h \in Headers : RecordedFrom(e, h)
    BY DEF FeedInv, FeedLocal, EpochsOnBranch
  <2>2. SameSet(Source, e)
    BY <1>0, <1>1, LatestEpochs
  <2>3. h.number <= confirmed'
    BY <2>1, Numbers, ConfirmedBelowTip DEF RecordedFrom
  <2> QED
    BY <2>1, <2>2, <2>3 DEF RecordedFrom, SameSet
<1> QED
  BY <1>1, <1>3, <1>4

LEMMA HandOverKeeps ==
    ASSUME FeedInv, HandOver PROVE FeedInv'
<1>0. ConfirmedBlock(tip.number) = tip.number - Confirmations
  <2>1. ASSUME NEW n \in Nat, NEW w \in Nat, n < w PROVE n % w = n
    BY <2>1
  <2> DEFINE n == tip.number - Confirmations
  <2>2. n \in Nat /\ Word \in Nat /\ n < Word
    BY ConfirmedBelowTip, SourceType
  <2> HIDE DEF n
  <2>3. n % Word = n
    BY <2>1, <2>2
  <2> QED
    BY <2>3 DEF ConfirmedBlock, n
<1>1. /\ confirmed' \in Nat /\ confirmed <= confirmed' /\ confirmed' <= tip.number - Confirmations
      /\ UNCHANGED <<vars, tip, reading, quorum, proofs>> /\ ~ reading
  BY <1>0, ConfirmedBelowTip, SourceType DEF HandOver, Poll
<1>2. QuorumInv' /\ Rooted' /\ SourceKnown' /\ EpochsOnBranch'
  BY <1>1, WorkerMoves
<1> QED
  BY <1>1, <1>2 DEF FeedInv, FeedLocal, FeedType, ReadingNext

LEMMA CreateKeeps ==
    ASSUME FeedInv, CreateBlockProofs PROVE FeedInv'
<1>0. QuorumInv
  BY DEF FeedInv
<1>1. /\ Registered(Source) /\ confirmed >= NextEpochBlock /\ reading' = TRUE /\ proofs' = <<>>
      /\ quorum' = CalcRequiredQuorumForNextEpoch(BlockAt(NextEpochBlock - EpochLength))
      /\ UNCHANGED <<vars, tip, confirmed>>
  BY DEF CreateBlockProofs
<1>2. QuorumInv' /\ Rooted' /\ SourceKnown' /\ EpochsOnBranch'
  BY <1>1, ConfirmedBelowTip, WorkerMoves
<1>3. /\ registeredChains' = registeredChains /\ latestKnownEpoch' = latestKnownEpoch
      /\ validatorCount' = validatorCount
  BY <1>1 DEF vars, history
<1>4. quorum' = RequiredQuorum(validatorCount[Source][latestKnownEpoch[Source]])
  <2>1. latestKnownEpoch[Source] \in 0 .. latestKnownEpoch[Source]
    BY <1>0, LatestEpochs
  <2>2. PICK h \in Headers : RecordedFrom(latestKnownEpoch[Source], h)
    BY <1>1, <2>1 DEF FeedInv, FeedLocal, EpochsOnBranch
  <2>3. h.number = NextEpochBlock - EpochLength
    BY <1>0, <2>2, LatestEpochs DEF RecordedFrom
  <2>4. BlockAt(NextEpochBlock - EpochLength) = h
    BY <2>2, <2>3, ConfirmedBelowTip, BlockAtIs DEF RecordedFrom
  <2> QED
    BY <1>1, <2>2, <2>4 DEF CalcRequiredQuorumForNextEpoch, ExtractParliaValidators, RequiredQuorum,
                            RecordedFrom
<1>5. ReadingNext'
  <2>1. NextEpochBlock' = NextEpochBlock /\ (Registered(Source)' <=> Registered(Source))
    BY <1>3 DEF NextEpochBlock, Registered
  <2>2. NextEpochBlock <= confirmed
    BY <1>0, <1>1, ConfirmedBelowTip, LatestEpochs
  <2> QED
    BY <1>1, <1>3, <1>4, <2>1, <2>2 DEF ReadingNext
<1>6. FeedType'
  BY <1>1, ConfirmedBelowTip DEF FeedType
<1> QED
  BY <1>2, <1>5, <1>6 DEF FeedInv, FeedLocal

LEMMA ReadKeeps ==
    ASSUME FeedInv, ReadBlock PROVE FeedInv'
<1> DEFINE b == BlockAt(NextBlock)
<1>0. /\ QuorumInv /\ proofs \in Seq(Headers) /\ tip \in Headers
      /\ Len(proofs) \in Nat /\ DOMAIN proofs = 1 .. Len(proofs)
  BY DEF FeedInv, FeedLocal, FeedType
<1>1. /\ reading /\ HasBlock(NextBlock) /\ b.sealer = b.coinbase
      /\ proofs' = Append(proofs, b) /\ UNCHANGED <<vars, tip, confirmed, reading, quorum>>
  BY DEF ReadBlock, Readable, RecoverParliaBlockSigner
<1>2. b \in Branch[tip] /\ b.number = NextBlock /\ b \in Headers
  <2>1. PICK g \in Branch[tip] : g.number = NextBlock
    BY <1>1 DEF HasBlock
  <2>2. b = g
    BY <1>0, <2>1, BlockAtIs
  <2> QED
    BY <1>0, <2>1, <2>2, BranchBelow
<1>3. QuorumInv' /\ Rooted' /\ SourceKnown' /\ EpochsOnBranch'
  BY <1>1, ConfirmedBelowTip, WorkerMoves
<1>4. /\ registeredChains' = registeredChains /\ latestKnownEpoch' = latestKnownEpoch
      /\ validatorCount' = validatorCount
  BY <1>1 DEF vars, history
<1> HIDE DEF b
<1>5. /\ proofs' \in Seq(Headers) /\ Len(proofs') = Len(proofs) + 1
      /\ DOMAIN proofs' = 1 .. Len(proofs) + 1
      /\ \A i \in DOMAIN proofs : proofs'[i] = proofs[i]
      /\ proofs'[Len(proofs) + 1] = b
  BY <1>0, <1>1, <1>2
<1>6. FeedType'
  BY <1>1, <1>5 DEF FeedInv, FeedLocal, FeedType
<1>7. ReadingNext'
  <2>1. NextEpochBlock' = NextEpochBlock /\ (Registered(Source)' <=> Registered(Source))
    BY <1>4 DEF NextEpochBlock, Registered
  <2>2. /\ Registered(Source) /\ NextEpochBlock <= confirmed
        /\ quorum = RequiredQuorum(validatorCount[Source][latestKnownEpoch[Source]])
        /\ \A i \in DOMAIN proofs : /\ proofs[i].number = NextEpochBlock + i - 1
                                    /\ proofs[i].sealer = proofs[i].coinbase
        /\ proofs # <<>> => proofs[1] \in Branch[tip]
    BY <1>1 DEF FeedInv, FeedLocal, ReadingNext
  <2>3. ASSUME NEW i \in DOMAIN proofs'
        PROVE  proofs'[i].number = NextEpochBlock + i - 1 /\ proofs'[i].sealer = proofs'[i].coinbase
    <3>1. CASE i \in DOMAIN proofs
      BY <1>5, <2>2, <3>1
    <3>2. CASE i = Len(proofs) + 1
      <4>1. NextBlock = NextEpochBlock + (Len(proofs) + 1) - 1
        BY <1>0, LatestEpochs DEF NextBlock
      <4> QED
        BY <1>1, <1>2, <1>5, <3>2, <4>1 DEF b
    <3> QED
      BY <1>0, <1>5, <3>1, <3>2
  <2>4. proofs'[1] \in Branch[tip]
    <3>1. CASE proofs = <<>>
      BY <1>0, <1>2, <1>5, <3>1, Len(proofs) = 0
    <3>2. CASE proofs # <<>>
      <4>1. 1 \in DOMAIN proofs
        BY <1>0, <3>2
      <4> QED
        BY <1>5, <2>2, <3>2, <4>1
    <3> QED
      BY <3>1, <3>2
  <2> QED
    BY <1>1, <1>4, <2>1, <2>2, <2>3, <2>4 DEF ReadingNext
<1> QED
  BY <1>3, <1>6, <1>7 DEF FeedInv, FeedLocal

LEMMA AbandonKeeps ==
    ASSUME FeedInv, Abandon, UNCHANGED vars PROVE FeedInv'
<1>1. UNCHANGED <<vars, tip>> /\ confirmed' = confirmed /\ reading' = FALSE /\ proofs' = <<>>
  BY DEF Abandon
<1>2. QuorumInv' /\ Rooted' /\ SourceKnown' /\ EpochsOnBranch'
  BY <1>1, ConfirmedBelowTip, WorkerMoves
<1>3. FeedType' /\ ReadingNext'
  <2>1. <<>> \in Seq(Headers) /\ tip' \in Headers /\ confirmed' \in Nat
    BY <1>1, ConfirmedBelowTip
  <2> QED
    BY <1>1, <2>1 DEF FeedType, ReadingNext
<1> QED
  BY <1>2, <1>3 DEF FeedInv, FeedLocal

-----------------------------------------------------------------------------
(***************************************************************************)
(* Recording a header's list for an epoch of the source chain: the epoch's *)
(* set and count are the list's, every other epoch's stay.                 *)
(***************************************************************************)
LEMMA SourceRecords ==
    ASSUME FeedInv, NEW h \in Headers, h.number % EpochLength = 0, NEW epoch \in Epochs, NEW latest,
           UpdateActiveValidatorSet(Source, h.validators, epoch, latest)
    PROVE  /\ latestKnownEpoch'[Source] = epoch
           /\ ActiveSet(Source, epoch)' = Listed(h.validators)
           /\ validatorCount'[Source][epoch] = Len(h.validators)
           /\ \A e \in Epochs \ {epoch} : SameSet(Source, e)
           /\ IndexesAgree' /\ KnownListed'
<1>1. QuorumInv /\ HubInv /\ Source \in Chains
  BY SourceType DEF FeedInv, QuorumInv
<1>2. h.validators \in Seq(Accounts) \intersect HeaderLists
  BY HeadersAssumption DEF Header, HeaderLists
<1>3. /\ latestKnownEpoch' = [latestKnownEpoch EXCEPT ![Source] = epoch]
      /\ validatorCount' = [validatorCount EXCEPT ![Source][epoch] = Len(h.validators)]
  BY DEF UpdateActiveValidatorSet
<1>4. latestKnownEpoch \in [Chains -> Epochs] /\ validatorCount \in [Chains -> [Epochs -> Nat]]
  BY <1>1 DEF HubInv, TypeInv, TypeOK
<1>5. latestKnownEpoch'[Source] = epoch /\ validatorCount'[Source][epoch] = Len(h.validators)
  BY <1>1, <1>3, <1>4
<1>6. ActiveSet(Source, epoch)' = Listed(h.validators)
  BY <1>1, <1>2, RecordedSet
<1>7. \A e \in Epochs \ {epoch} : SameSet(Source, e)
  BY <1>1, <1>2, RecordingKeepsOthers
<1>8. IndexesAgree'
  BY <1>1, <1>2, UpdateKeepsIndexes DEF HubInv, TypeInv, TypeOK, HistoryType
<1>9. KnownListed'
  BY <1>1, <1>2, ListKeepsListed
<1> QED
  BY <1>5, <1>6, <1>7, <1>8, <1>9

LEMMA RegisterKeeps ==
    ASSUME FeedInv, RegisterSource PROVE FeedInv'
<1>1. PICK vf \in VerificationFunctions, bridge \in Bridges :
         RegisterBAS(Source, vf, Genesis, bridge, EpochLength)
  BY DEF RegisterSource
<1>2. /\ RegisterChain(Source, vf, Genesis, "BAS", bridge, EpochLength)
      /\ ~ Registered(Source) /\ UNCHANGED <<tip, worker>>
  BY <1>1 DEF RegisterBAS, RegisterSource, Registered
<1>3. 0 % EpochLength = 0 /\ 0 \div EpochLength = 0 /\ 0 * EpochLength = 0
  BY SourceType
<1>4. Genesis.number % EpochLength = 0 /\ ParsedValidators(Genesis, EpochLength) = Genesis.validators
  BY <1>3, SourceType DEF ParsedValidators, IsEpochBlock
<1>5. UpdateActiveValidatorSet(Source, Genesis.validators, 0, latestKnownEpoch[Source])
  BY <1>2, <1>3, <1>4, SourceType DEF RegisterChain
<1>6. 0 \in Epochs
  BY HubAssumption DEF Epochs
<1>7. /\ latestKnownEpoch'[Source] = 0 /\ ActiveSet(Source, 0)' = Listed(Genesis.validators)
      /\ validatorCount'[Source][0] = Len(Genesis.validators) /\ IndexesAgree' /\ KnownListed'
  BY <1>4, <1>5, <1>6, SourceType, SourceRecords
<1>8. TypeInv'
  BY <1>2, SourceType, RegisterKeepsType DEF FeedInv, QuorumInv, HubInv
<1>9. Registered(Source)' /\ registeredChains'[Source].epochLength = EpochLength
  <2>1. registeredChains \in [Chains -> Chain]
    BY DEF FeedInv, QuorumInv, HubInv, TypeInv, TypeOK
  <2> QED
    BY <1>2, <2>1, SourceType DEF RegisterChain, Registered
<1>10. EpochsOnBranch'
  <2>1. RecordedFrom(0, Genesis)'
    BY <1>2, <1>3, <1>7, SourceType, ConfirmedBelowTip DEF RecordedFrom, FeedInv, FeedLocal, Rooted, worker
  <2> QED
    BY <1>7, <2>1, SourceType DEF EpochsOnBranch
<1>11. FeedType' /\ Rooted' /\ ReadingNext' /\ SourceKnown'
  BY <1>2, <1>9 DEF FeedInv, FeedLocal, FeedType, Rooted, ReadingNext, SourceKnown, worker
<1> QED
  BY <1>7, <1>8, <1>10, <1>11 DEF FeedInv, FeedLocal, QuorumInv, HubInv

LEMMA Multiples == ASSUME NEW k \in Nat, NEW n \in Nat \ {0} PROVE (k * n) % n = 0 /\ (k * n) \div n = k
OBVIOUS

\* What a proof begins with: the block of the epoch after the hub's latest one.
LEMMA ProofStart ==
    ASSUME FeedInv, reading, proofs # <<>>
    PROVE  /\ proofs \in Seq(Headers) /\ proofs[1] \in Headers /\ proofs[1] \in Branch[tip]
           /\ proofs[1].number = NextEpochBlock /\ NextEpochBlock <= confirmed
           /\ FirstEpoch(proofs, EpochLength) = latestKnownEpoch[Source] + 1
           /\ proofs[1].number % EpochLength = 0
           /\ NewValidatorSet(proofs, EpochLength) = proofs[1].validators
           /\ Registered(Source) /\ registeredChains[Source].epochLength = EpochLength
<1>1. /\ proofs \in Seq(Headers) /\ QuorumInv
      /\ Registered(Source) /\ registeredChains[Source].epochLength = EpochLength
      /\ NextEpochBlock <= confirmed /\ proofs[1] \in Branch[tip]
      /\ \A i \in DOMAIN proofs : proofs[i].number = NextEpochBlock + i - 1
  BY DEF FeedInv, FeedLocal, FeedType, ReadingNext, SourceKnown
<1>2. 1 \in DOMAIN proofs /\ proofs[1] \in Headers
  BY <1>1
<1>3. proofs[1].number = NextEpochBlock
  BY <1>1, <1>2, LatestEpochs
<1>4. NextEpochBlock % EpochLength = 0 /\ NextEpochBlock \div EpochLength = latestKnownEpoch[Source] + 1
  <2>1. latestKnownEpoch[Source] + 1 \in Nat
    BY <1>1, LatestEpochs
  <2> QED
    BY <2>1, SourceType, Multiples DEF NextEpochBlock
<1> QED
  BY <1>1, <1>2, <1>3, <1>4 DEF FirstEpoch, FirstNumber, NewValidatorSet, ParsedValidators, IsEpochBlock

LEMMA SubmitKeeps ==
    ASSUME FeedInv, Submit PROVE FeedInv'
<1> DEFINE latest == latestKnownEpoch[Source]
<1>1. reading /\ proofs # <<>> /\ Abandon
  BY DEF Submit, EnoughSigners
<1>2. ASSUME UpdateValidatorSet(Source, proofs) PROVE FeedInv'
  <2>1. /\ proofs \in Seq(Headers) /\ proofs[1] \in Headers /\ proofs[1] \in Branch[tip]
        /\ proofs[1].number = NextEpochBlock /\ NextEpochBlock <= confirmed
        /\ FirstEpoch(proofs, EpochLength) = latest + 1
        /\ proofs[1].number % EpochLength = 0
        /\ NewValidatorSet(proofs, EpochLength) = proofs[1].validators
        /\ Registered(Source) /\ registeredChains[Source].epochLength = EpochLength
    BY <1>1, ProofStart
  <2>2. UpdateActiveValidatorSet(Source, proofs[1].validators, latest + 1, latest) /\ Activate(Source)
    BY <1>2, <2>1 DEF UpdateValidatorSet, ValidatorTransition
  <2>3. TypeInv'
    <3>1. ProvenTransition(Source, proofs, latest)
      BY <1>2 DEF UpdateValidatorSet, ProvenTransition
    <3> QED
      BY <2>1, <3>1, SourceType, ProvenKeepsType DEF FeedInv, QuorumInv, HubInv
  <2>4. latest + 1 \in Epochs /\ latest \in Nat /\ 0 .. latest \subseteq Epochs
    BY <2>1, SourceType, ProofsType, LatestEpochs DEF FeedInv
  <2> PICK next \in Epochs : next = latest + 1
    BY <2>4
  <2>5. /\ latestKnownEpoch'[Source] = next
        /\ ActiveSet(Source, next)' = Listed(proofs[1].validators)
        /\ validatorCount'[Source][next] = Len(proofs[1].validators)
        /\ \A e \in Epochs \ {next} : SameSet(Source, e)
        /\ IndexesAgree' /\ KnownListed'
    <3> PICK h \in Headers : h = proofs[1]
      BY <2>1
    <3>1. UpdateActiveValidatorSet(Source, h.validators, next, latest) /\ h.number % EpochLength = 0
      BY <2>1, <2>2
    <3> QED
      BY <3>1, SourceRecords
  <2>6. Registered(Source)' /\ registeredChains'[Source].epochLength = EpochLength
    <3>1. registeredChains \in [Chains -> Chain]
      BY DEF FeedInv, QuorumInv, HubInv, TypeInv, TypeOK
    <3> QED
      BY <2>1, <2>2, <3>1, SourceType DEF Activate, Registered, Chain
  <2>7. UNCHANGED <<tip, confirmed>> /\ reading' = FALSE /\ proofs' = <<>>
    BY <1>1 DEF Abandon
  <2>8. EpochsOnBranch'
    <3> SUFFICES ASSUME NEW e \in 0 .. next PROVE \E h \in Headers : RecordedFrom(e, h)'
      BY <2>5 DEF EpochsOnBranch
    <3>1. CASE e = next
      <4> PICK h \in Headers : h = proofs[1]
        BY <2>1
      <4>1. RecordedFrom(e, h)'
        BY <2>1, <2>5, <2>7, <3>1 DEF RecordedFrom, NextEpochBlock
      <4> QED
        BY <4>1
    <3>2. CASE e \in 0 .. latest
      <4>1. PICK h \in Headers : RecordedFrom(e, h)
        BY <2>1, <3>2 DEF FeedInv, FeedLocal, EpochsOnBranch
      <4>2. SameSet(Source, e)
        BY <2>4, <2>5, <3>2
      <4> QED
        BY <2>7, <4>1, <4>2 DEF RecordedFrom, SameSet
    <3> QED
      BY <2>4, <3>1, <3>2
  <2>9. FeedType' /\ Rooted' /\ ReadingNext' /\ SourceKnown'
    <3>1. <<>> \in Seq(Headers)
      OBVIOUS
    <3> QED
      BY <2>6, <2>7, <3>1 DEF FeedInv, FeedLocal, FeedType, Rooted, ReadingNext, SourceKnown
  <2> QED
    BY <2>3, <2>5, <2>8, <2>9 DEF FeedInv, FeedLocal, QuorumInv, HubInv
<1> QED
  BY <1>1, <1>2, AbandonKeeps DEF Submit

-----------------------------------------------------------------------------
(***************************************************************************)
(* Every step of the node, the deployer and the worker keeps the invariant.*)
(***************************************************************************)
LEMMA FeedStep ==
    ASSUME MaxReorg <= Confirmations, FeedInv, [FeedNext]_feedVars PROVE FeedInv'
<1>1. CASE UNCHANGED feedVars
  <2>1. UNCHANGED <<vars, tip, confirmed, reading, quorum, proofs>>
    BY <1>1 DEF feedVars, worker
  <2>2. QuorumInv' /\ Rooted' /\ SourceKnown' /\ EpochsOnBranch'
    BY <2>1, ConfirmedBelowTip, WorkerMoves
  <2>3. NextEpochBlock' = NextEpochBlock /\ (Registered(Source)' <=> Registered(Source))
        /\ latestKnownEpoch' = latestKnownEpoch /\ validatorCount' = validatorCount
    BY <2>1 DEF NextEpochBlock, Registered, vars, history
  <2> QED
    BY <2>1, <2>2, <2>3 DEF FeedInv, FeedLocal, FeedType, ReadingNext
<1>2. CASE ReadFails
  BY <1>2, AbandonKeeps DEF ReadFails
<1> QED
  BY <1>1, <1>2, ExtendKeeps, ReorganiseKeeps, RegisterKeeps, HandOverKeeps, CreateKeeps, ReadKeeps,
     SubmitKeeps DEF FeedNext, Work

LEMMA FeedInitially ==
    ASSUME LongEnough PROVE FeedInit => FeedInv
<1> SUFFICES ASSUME FeedInit PROVE FeedInv
  OBVIOUS
<1>1. Init /\ tip = FirstTip /\ confirmed = 0 /\ reading = FALSE /\ proofs = <<>>
  BY DEF FeedInit
<1>2. QuorumInv
  BY <1>1, InitialHub DEF QuorumInv, HubInv, KnownListed, Init, Known
<1>3. ~ Registered(Source) /\ latestKnownEpoch[Source] = 0
  BY <1>1, SourceType DEF Init, Registered
<1>4. <<>> \in Seq(Headers)
  OBVIOUS
<1>5. Genesis \in Branch[FirstTip] /\ Confirmations <= FirstTip.number
  BY FirstTipAssumption DEF LongEnough
<1> QED
  BY <1>1, <1>2, <1>3, <1>4, <1>5, SourceType
     DEF FeedInv, FeedLocal, FeedType, Rooted, SourceKnown, EpochsOnBranch, ReadingNext

LEMMA FeedInvHolds ==
    ASSUME LongEnough, MaxReorg <= Confirmations PROVE FeedSpec => []FeedInv
<1>1. FeedInv /\ [FeedNext]_feedVars => FeedInv'
  BY FeedStep
<1> QED
  BY <1>1, FeedInitially, PTL DEF FeedSpec

-----------------------------------------------------------------------------
(***************************************************************************)
(* The hub's set for every epoch is the one that the epoch's block lists   *)
(* on the node's branch, now and after every later reorganisation, when    *)
(* the chain has as many blocks as confirmations are asked for when the    *)
(* relayer starts, and the confirmations cover the deepest reorganisation  *)
(* (service.go:114, proof.go:27-73).                                       *)
(***************************************************************************)
THEOREM RecordedStaysOnBranch ==
    ASSUME LongEnough, MaxReorg <= Confirmations PROVE FeedSpec => []RecordedOnBranch
<1>1. FeedInv => RecordedOnBranch
  <2> SUFFICES ASSUME FeedInv, NEW e \in 1 .. latestKnownEpoch[Source]
               PROVE  /\ HasBlock(e * EpochLength)
                      /\ ExtractActiveValidators(Source, e) = Listed(BlockAt(e * EpochLength).validators)
    BY DEF RecordedOnBranch
  <2>1. latestKnownEpoch[Source] \in Nat /\ e \in 0 .. latestKnownEpoch[Source]
    BY LatestEpochs DEF FeedInv
  <2>2. Registered(Source)
    BY <2>1 DEF FeedInv, FeedLocal, SourceKnown
  <2>3. PICK h \in Headers : RecordedFrom(e, h)
    BY <2>1, <2>2 DEF FeedInv, FeedLocal, EpochsOnBranch
  <2>4. HasBlock(h.number) /\ BlockAt(h.number) = h
    BY <2>3, ConfirmedBelowTip, BlockAtIs DEF RecordedFrom
  <2> QED
    BY <2>3, <2>4 DEF RecordedFrom, ActiveSet
<1> QED
  BY <1>1, FeedInvHolds, PTL

(***************************************************************************)
(* A finished proof whose headers are of one branch and sealed by the set  *)
(* that the hub holds passes the quorum check and is recorded, when the    *)
(* accounts that headers list fit one bitmap word, the chain is LongEnough *)
(* and the confirmations cover the deepest reorganisation (proof.go:62-71  *)
(* against RelayHub.sol:187-200 and 354-378).                              *)
(***************************************************************************)
THEOREM BuiltProofsAccepted ==
    ASSUME LongEnough, MaxReorg <= Confirmations, OneWord PROVE FeedSpec => []BuiltProofAccepted
<1>1. FeedInv => BuiltProofAccepted
  <2> SUFFICES ASSUME FeedInv, reading, EnoughSigners(proofs), Linked(proofs),
                      UniqueSigners(proofs) \subseteq ExtractActiveValidators(Source, latestKnownEpoch[Source])
               PROVE  Accepted
    BY DEF BuiltProofAccepted
  <2> DEFINE latest == latestKnownEpoch[Source]
  <2>1. /\ proofs # <<>> /\ Cardinality(UniqueSigners(proofs)) >= quorum
        /\ quorum = RequiredQuorum(validatorCount[Source][latest])
        /\ \A i \in DOMAIN proofs : /\ proofs[i].number = NextEpochBlock + i - 1
                                    /\ proofs[i].sealer = proofs[i].coinbase
    BY DEF EnoughSigners, FeedInv, FeedLocal, ReadingNext
  <2>2. /\ proofs \in Seq(Headers) /\ FirstEpoch(proofs, EpochLength) = latest + 1
        /\ registeredChains[Source].epochLength = EpochLength
    BY <2>1, ProofStart
  <2>3. QuorumInv /\ latest \in Epochs /\ latest \in Nat /\ NextEpochBlock \in Nat
        /\ NextEpochBlock >= EpochLength /\ EpochLength \in Nat \ {0}
    BY LatestEpochs, SourceType DEF FeedInv
  <2>4. \A i \in DOMAIN proofs : /\ proofs[i] \in Headers /\ proofs[i].number # 0
                                 /\ proofs[i].chain = Source
    <3> SUFFICES ASSUME NEW i \in DOMAIN proofs
                 PROVE  proofs[i] \in Headers /\ proofs[i].number # 0 /\ proofs[i].chain = Source
      OBVIOUS
    <3>1. proofs[i] \in Headers /\ i \in Nat /\ i >= 1
      BY <2>2
    <3>2. proofs[i].number = NextEpochBlock + i - 1
      BY <2>1
    <3> QED
      BY <2>3, <3>1, <3>2, NodeAssumption
  <2>5. BlocksVerified(Source, proofs)
    BY <2>1, <2>4 DEF BlocksVerified, Sealed
  <2>6. Listed(Signers(proofs)) = UniqueSigners(proofs)
    BY <2>4 DEF Listed, Signers, Signer, UniqueSigners
  <2>7. QuorumReached(Source, Signers(proofs), latest)
    <3>1. Listed(Signers(proofs)) \intersect ActiveSet(Source, latest) = UniqueSigners(proofs)
      BY <2>6 DEF ActiveSet
    <3> QED
      BY <2>1, <2>3, <3>1, SourceType, SealsAreQuorum
  <2>8. BlocksReachQuorum(Source, proofs, EpochLength)
    BY <2>2, <2>3, <2>5, <2>7 DEF BlocksReachQuorum
  <2>9. NewValidatorSet(proofs, EpochLength) \in Seq(Accounts) \intersect HeaderLists
    BY <2>2, SourceType, ProofsType, ParsedLists
  <2>10. Recordable(Source, NewValidatorSet(proofs, EpochLength), latest + 1, latest)
    BY <2>3, <2>9, SourceType, RoomForList DEF Recordable, EpochFollows
  <2> QED
    BY <2>2, <2>8, <2>10 DEF Accepted
<1> QED
  BY <1>1, FeedInvHolds, PTL
=============================================================================
