---------------------------- MODULE GossipProofs ----------------------------
(***************************************************************************)
(* Theorems about the signature gossip, for any peers, epochs, quorums,    *)
(* forks and channel capacities.                                           *)
(***************************************************************************)
EXTENDS CheckpointGossip, TLAPS

USE DEF SignCheckpointProofReply

LEMMA TailElements ==
    ASSUME NEW S, NEW s \in Seq(S), s # <<>>
    PROVE  /\ Head(s) \in S /\ Head(s) = s[1] /\ 1 \in DOMAIN s
           /\ Tail(s) \in Seq(S)
           /\ \A i \in DOMAIN Tail(s) : i + 1 \in DOMAIN s /\ Tail(s)[i] = s[i + 1]
<1>1. DOMAIN s = 1 .. Len(s) /\ Len(s) \in Nat /\ DOMAIN Tail(s) = 1 .. Len(s) - 1
  OBVIOUS
<1>2. Head(s) \in S /\ Head(s) = s[1] /\ 1 \in DOMAIN s /\ Tail(s) \in Seq(S)
  OBVIOUS
<1>3. ASSUME NEW i \in DOMAIN Tail(s) PROVE i + 1 \in DOMAIN s /\ Tail(s)[i] = s[i + 1]
  <2>1. i \in 1 .. Len(s) - 1
    BY <1>1
  <2> QED
    BY <1>1, <2>1
<1> QED
  BY <1>2, <1>3

LEMMA Updated ==
    ASSUME NEW S, NEW s \in Seq(S), NEW i, NEW x, i \in DOMAIN s => x \in S
    PROVE  [s EXCEPT ![i] = x] \in Seq(S)
<1>1. CASE i \in DOMAIN s
  BY <1>1
<1>2. CASE i \notin DOMAIN s
  <2>1. [s EXCEPT ![i] = x] = s
    BY <1>2
  <2> QED
    BY <2>1
<1> QED
  BY <1>1, <1>2

LEMMA AppendElements ==
    ASSUME NEW S, NEW s \in Seq(S), NEW x \in S
    PROVE  /\ Append(s, x) \in Seq(S) /\ Len(Append(s, x)) = Len(s) + 1
           /\ \A i \in DOMAIN Append(s, x) :
                 (i \in DOMAIN s /\ Append(s, x)[i] = s[i]) \/ Append(s, x)[i] = x
  OBVIOUS

-----------------------------------------------------------------------------
(***************************************************************************)
(* The invariant: a lookup by hash never finds a proof, so what a relayer  *)
(* hands to its streams keeps its own signature alone.                     *)
(***************************************************************************)
Signed(ref, signatures) ==
    \A s \in signatures :
        /\ s.root = ref.checkpoint
        /\ \E d \in Directions : CheckpointOf(s.signer, d, ref.epoch) = ref.checkpoint

Own(p, ref) == ref.author = p /\ heap[p][ref] = SignCheckpointProof(p, ref.checkpoint)

LookupsFail(p) == \A k \in Checkpoints : proofsMap[p][<<"hash", k>>] = NoProof

HeapSigned(p) == \A ref \in References : Signed(ref, heap[p][ref])

InboxSigned(p) ==
    \A i \in DOMAIN inbox[p] :
        inbox[p][i].ref.author # p /\ Signed(inbox[p][i].ref, inbox[p][i].signatures)

QueuesOwn(p) ==
    /\ \A i \in DOMAIN listeners[p] : listeners[p][i].client # p
    /\ \A i \in DOMAIN listeners[p] : \A j \in DOMAIN listeners[p][i].queue :
          Own(p, listeners[p][i].queue[j])

WorkerOwn(w) ==
    /\ todo[w] # {} => pc[w] = "waiting"
    /\ pc[w] = "waiting" => mine[w] \in References /\ Own(w[1], mine[w])

GossipInv ==
    /\ TypeOK
    /\ \A p \in Peers : LookupsFail(p) /\ HeapSigned(p) /\ InboxSigned(p) /\ QueuesOwn(p)
    /\ \A w \in Workers : WorkerOwn(w)

-----------------------------------------------------------------------------
\* mergeCheckpointProof always stores, as its lookup always fails
LEMMA Merged ==
    ASSUME GossipInv, NEW p \in Peers, NEW ref \in References, NEW signatures,
           Merge(p, ref, signatures)
    PROVE  /\ proofsMap' = [proofsMap EXCEPT ![p][StoreKey(ref)] = ref]
           /\ heap' = [heap EXCEPT ![p][ref] = signatures]
           /\ Existing(p, ref) = NoProof
<1>1. ref.checkpoint \in Checkpoints
  BY DEF References
<1>2. Existing(p, ref) = NoProof
  BY <1>1 DEF GossipInv, LookupsFail, Existing, LookupKey
<1> QED
  BY <1>2 DEF Merge

OwnProof(w) ==
    [author |-> w[1], epoch |-> epoch[w], checkpoint |-> CheckpointOf(w[1], w[2], epoch[w])]

LEMMA OwnProofType ==
    ASSUME TypeOK, NEW w \in Workers
    PROVE  /\ w[1] \in Peers /\ w[2] \in Directions
           /\ OwnProof(w) \in References /\ OwnProof(w).author = w[1]
           /\ SignCheckpointProof(w[1], OwnProof(w).checkpoint) \in SUBSET Signature
           /\ Signed(OwnProof(w), SignCheckpointProof(w[1], OwnProof(w).checkpoint))
<1>1. w[1] \in Peers /\ w[2] \in Directions /\ epoch[w] \in Epochs
  BY DEF Workers, TypeOK
<1>2. CheckpointOf(w[1], w[2], epoch[w]) \in Checkpoints
  BY <1>1 DEF CheckpointOf, Checkpoints
<1>3. OwnProof(w) \in References /\ OwnProof(w).author = w[1]
      /\ OwnProof(w).checkpoint = CheckpointOf(w[1], w[2], epoch[w])
      /\ OwnProof(w).epoch = epoch[w]
  BY <1>1, <1>2 DEF OwnProof, References
<1>4. SignCheckpointProof(w[1], OwnProof(w).checkpoint) \in SUBSET Signature
  BY <1>1, <1>2, <1>3 DEF SignCheckpointProof, Signature
<1>5. ASSUME NEW s \in SignCheckpointProof(w[1], OwnProof(w).checkpoint)
      PROVE  s.signer = w[1] /\ s.root = OwnProof(w).checkpoint
  BY <1>5 DEF SignCheckpointProof
<1> QED
  BY <1>1, <1>3, <1>4, <1>5 DEF Signed

\* What createCheckpointTransition does to the shared state
LEMMA Created ==
    ASSUME GossipInv, NEW w \in Workers, CreateCheckpointProof(w)
    PROVE  /\ proofsMap' = [proofsMap EXCEPT ![w[1]][StoreKey(OwnProof(w))] = OwnProof(w)]
           /\ heap' = [heap EXCEPT ![w[1]][OwnProof(w)] =
                          SignCheckpointProof(w[1], OwnProof(w).checkpoint)]
           /\ mine' = [mine EXCEPT ![w] = OwnProof(w)]
<1>1. OwnProof(w) \in References /\ w[1] \in Peers
  BY OwnProofType DEF GossipInv
<1>2. /\ Merge(w[1], OwnProof(w), SignCheckpointProof(w[1], OwnProof(w).checkpoint))
      /\ mine' = [mine EXCEPT ![w] = IF Existing(w[1], OwnProof(w)) = NoProof
                                     THEN OwnProof(w) ELSE Existing(w[1], OwnProof(w))]
  BY DEF CreateCheckpointProof, OwnProof
<1> HIDE DEF OwnProof
<1>3. /\ proofsMap' = [proofsMap EXCEPT ![w[1]][StoreKey(OwnProof(w))] = OwnProof(w)]
      /\ heap' = [heap EXCEPT ![w[1]][OwnProof(w)] =
                      SignCheckpointProof(w[1], OwnProof(w).checkpoint)]
      /\ Existing(w[1], OwnProof(w)) = NoProof
  BY <1>1, <1>2, Merged
<1>4. mine' = [mine EXCEPT ![w] = OwnProof(w)]
  BY <1>2, <1>3
<1> QED
  BY <1>3, <1>4

\* What collectCheckpointProofsWorker does to the shared state
LEMMA Collected ==
    ASSUME GossipInv, NEW p \in Peers, CollectCheckpointProofs(p)
    PROVE  LET m == Head(inbox[p])
           IN  /\ m.ref \in References /\ m.ref.author # p
               /\ m.signatures \in SUBSET Signature /\ Signed(m.ref, m.signatures)
               /\ proofsMap' = [proofsMap EXCEPT ![p][StoreKey(m.ref)] = m.ref]
               /\ heap' = [heap EXCEPT ![p][m.ref] = m.signatures]
<1> DEFINE m == Head(inbox[p])
<1>1. inbox[p] \in Seq(SignCheckpointProofReply) /\ inbox[p] # <<>>
  BY DEF GossipInv, TypeOK, CollectCheckpointProofs
<1>2. m \in SignCheckpointProofReply /\ 1 \in DOMAIN inbox[p] /\ m = inbox[p][1]
  BY <1>1, TailElements
<1>3. m.ref \in References /\ m.signatures \in SUBSET Signature
  BY <1>2
<1>4. m.ref.author # p /\ Signed(m.ref, m.signatures)
  BY <1>2 DEF GossipInv, InboxSigned
<1>5. Merge(p, m.ref, m.signatures)
  BY DEF CollectCheckpointProofs
<1> QED
  BY <1>3, <1>4, <1>5, Merged

-----------------------------------------------------------------------------
\* Listeners after a push, a cut and a transfer
LEMMA ListenerAppended ==
    ASSUME NEW ls \in [Peers -> Seq(Listener)], NEW p \in Peers, NEW i, NEW ref \in References,
           NEW ls2, ls2 = [ls EXCEPT ![p][i].queue = Append(@, ref)]
    PROVE  ls2 \in [Peers -> Seq(Listener)]
<1>1. ls[p] \in Seq(Listener) /\ DOMAIN ls[p] = 1 .. Len(ls[p])
  OBVIOUS
<1>2. ASSUME i \in DOMAIN ls[p] PROVE ls[p][i] \in Listener
  BY <1>1, <1>2
<1>3. ASSUME i \in DOMAIN ls[p]
      PROVE  [ls[p][i] EXCEPT !.queue = Append(@, ref)] \in Listener
  BY <1>2, <1>3, AppendElements DEF Listener
<1>4. [ls[p] EXCEPT ![i] = [ls[p][i] EXCEPT !.queue = Append(@, ref)]] \in Seq(Listener)
  BY <1>1, <1>3, Updated
<1> QED
  BY <1>4

LEMMA ListenerCut ==
    ASSUME NEW ls \in [Peers -> Seq(Listener)], NEW p \in Peers, NEW i,
           NEW ls2, ls2 = [ls EXCEPT ![p][i].live = FALSE]
    PROVE  ls2 \in [Peers -> Seq(Listener)]
<1>1. ls[p] \in Seq(Listener) /\ DOMAIN ls[p] = 1 .. Len(ls[p])
  OBVIOUS
<1>2. ASSUME i \in DOMAIN ls[p] PROVE ls[p][i] \in Listener
  BY <1>1, <1>2
<1>3. ASSUME i \in DOMAIN ls[p]
      PROVE  [ls[p][i] EXCEPT !.live = FALSE] \in Listener
  BY <1>2, <1>3 DEF Listener
<1>4. [ls[p] EXCEPT ![i] = [ls[p][i] EXCEPT !.live = FALSE]] \in Seq(Listener)
  BY <1>1, <1>3, Updated
<1> QED
  BY <1>4

LEMMA ListenerShortened ==
    ASSUME NEW ls \in [Peers -> Seq(Listener)], NEW p \in Peers, NEW i \in DOMAIN ls[p],
           ls[p][i].queue # <<>>,
           NEW ls2, ls2 = [ls EXCEPT ![p][i].queue = Tail(@)]
    PROVE  ls2 \in [Peers -> Seq(Listener)]
<1>1. ls[p] \in Seq(Listener) /\ DOMAIN ls[p] = 1 .. Len(ls[p])
  OBVIOUS
<1>2. ls[p][i] \in Listener
  BY <1>1
<1>3. ls[p][i].queue \in Seq(References)
  BY <1>2 DEF Listener
<1>4. Tail(ls[p][i].queue) \in Seq(References)
  BY <1>3, TailElements
<1>5. [ls[p][i] EXCEPT !.queue = Tail(@)] \in Listener
  BY <1>2, <1>4 DEF Listener
<1>6. [ls[p] EXCEPT ![i] = [ls[p][i] EXCEPT !.queue = Tail(@)]] \in Seq(Listener)
  BY <1>1, <1>5
<1> QED
  BY <1>6

-----------------------------------------------------------------------------
LEMMA StepType ==
    ASSUME GossipInv, [Next]_gossipVars PROVE TypeOK'
<1> USE DEF Step
<1>1. TypeOK
  BY DEF GossipInv
<1>2. ASSUME NEW p \in Peers, NEW ref \in References, NEW signatures \in SUBSET Signature,
             proofsMap' = [proofsMap EXCEPT ![p][StoreKey(ref)] = ref],
             heap' = [heap EXCEPT ![p][ref] = signatures]
      PROVE  /\ heap' \in [Peers -> [References -> SUBSET Signature]]
             /\ proofsMap' \in [Peers -> [Keys -> References \union {NoProof}]]
  <2>1. heap' \in [Peers -> [References -> SUBSET Signature]]
    BY <1>1, <1>2 DEF TypeOK
  <2>2. proofsMap' \in [Peers -> [Keys -> References \union {NoProof}]]
    BY <1>1, <1>2 DEF TypeOK
  <2> QED
    BY <2>1, <2>2
<1>3. ASSUME NEW w \in Workers, CreateCheckpointProof(w) PROVE TypeOK'
  <2>1. /\ w[1] \in Peers /\ OwnProof(w) \in References
        /\ SignCheckpointProof(w[1], OwnProof(w).checkpoint) \in SUBSET Signature
    BY <1>1, OwnProofType
  <2>2. /\ heap' \in [Peers -> [References -> SUBSET Signature]]
        /\ proofsMap' \in [Peers -> [Keys -> References \union {NoProof}]]
    BY <1>2, <1>3, <2>1, Created
  <2>3. mine' \in [Workers -> References \union {NoProof}]
    <3>1. mine' = [mine EXCEPT ![w] = OwnProof(w)]
      BY <1>3, Created
    <3> QED
      BY <1>1, <2>1, <3>1 DEF TypeOK
  <2>4. todo' \in [Workers -> SUBSET (Nat \ {0})]
    <3>1. listeners[w[1]] \in Seq(Listener)
      BY <1>1, <2>1 DEF TypeOK
    <3>2. DOMAIN listeners[w[1]] \subseteq Nat \ {0}
      BY <3>1
    <3> QED
      BY <1>1, <1>3, <3>2 DEF CreateCheckpointProof, TypeOK
  <2> QED
    BY <1>1, <1>3, <2>2, <2>3, <2>4 DEF CreateCheckpointProof, TypeOK
<1>4. ASSUME NEW w \in Workers, NEW i \in todo[w], Push(w, i) PROVE TypeOK'
  <2>1. w[1] \in Peers /\ mine[w] \in References
    BY <1>4 DEF Workers, GossipInv, WorkerOwn
  <2>2. /\ listeners' = [listeners EXCEPT ![w[1]][i].queue = Append(@, mine[w])]
        /\ listeners \in [Peers -> Seq(Listener)]
    BY <1>1, <1>4 DEF Push, TypeOK
  <2>3. listeners' \in [Peers -> Seq(Listener)]
    BY <2>1, <2>2, ListenerAppended
  <2>4. todo' \in [Workers -> SUBSET (Nat \ {0})]
    BY <1>1, <1>4 DEF Push, TypeOK
  <2>5. lock' \in [Peers -> (Workers \X (Nat \ {0})) \union {NoPush}]
    BY <1>1, <1>4 DEF Push, TypeOK
  <2> QED
    BY <1>1, <1>4, <2>3, <2>4, <2>5 DEF Push, TypeOK
<1>5. ASSUME NEW w \in Workers, QuorumReached(w) \/ TimesOut(w) \/ NodeFails(w) PROVE TypeOK'
  BY <1>1, <1>5 DEF QuorumReached, TimesOut, NodeFails, TypeOK
<1>6. ASSUME NEW w \in Workers, NextTransition(w) PROVE TypeOK'
  <2>1. epoch' \in [Workers -> Epochs]
    <3>1. PICK e \in epoch[w] .. MaxEpoch : epoch' = [epoch EXCEPT ![w] = e]
      BY <1>6 DEF NextTransition
    <3>2. e \in Epochs
      BY <1>1, GossipAssumption DEF TypeOK, Epochs
    <3> QED
      BY <1>1, <3>1, <3>2 DEF TypeOK
  <2>2. attempts' \in [Workers -> 1 .. MaxAttempts]
    <3>1. attempts[w] + 1 \in 1 .. MaxAttempts
      BY <1>1, <1>6, GossipAssumption DEF NextTransition, TypeOK
    <3> QED
      BY <1>1, <1>6, <3>1 DEF NextTransition, TypeOK
  <2> QED
    BY <1>1, <1>6, <2>1, <2>2 DEF NextTransition, TypeOK
<1>7. ASSUME NEW c \in Peers, NEW p \in Peers, OpenStream(c, p) PROVE TypeOK'
  <2>1. [client |-> c, live |-> TRUE, queue |-> <<>>] \in Listener
    BY DEF Listener
  <2>2. listeners' \in [Peers -> Seq(Listener)]
    BY <1>1, <1>7, <2>1, AppendElements DEF OpenStream, TypeOK
  <2> QED
    BY <1>1, <1>7, <2>2 DEF OpenStream, TypeOK
<1>8. ASSUME NEW c \in Peers, ListenPanics(c) PROVE TypeOK'
  BY <1>1, <1>8 DEF ListenPanics, TypeOK
<1>9. ASSUME NEW c \in Peers, NEW p \in Peers, CutStream(c, p) PROVE TypeOK'
  <2>1. PICK i \in Streams(c, p) : listeners' = [listeners EXCEPT ![p][i].live = FALSE]
    BY <1>9 DEF CutStream
  <2>2. listeners' \in [Peers -> Seq(Listener)]
    BY <1>1, <2>1, ListenerCut DEF TypeOK
  <2> QED
    BY <1>1, <1>9, <2>2 DEF CutStream, TypeOK
<1>10. ASSUME NEW c \in Peers, NEW p \in Peers, Transfer(c, p) PROVE TypeOK'
  <2>1. PICK i \in Streams(c, p) :
           /\ listeners[p][i].queue # <<>>
           /\ inbox' = [inbox EXCEPT ![c] = Append(@, Reply(p, Head(listeners[p][i].queue)))]
           /\ listeners' = [listeners EXCEPT ![p][i].queue = Tail(@)]
    BY <1>10 DEF Transfer
  <2>2. i \in DOMAIN listeners[p] /\ listeners[p][i] \in Listener
    BY <1>1 DEF Streams, TypeOK
  <2>3. listeners[p][i].queue \in Seq(References)
    BY <2>2 DEF Listener
  <2>4. Head(listeners[p][i].queue) \in References
    BY <2>1, <2>3, TailElements
  <2>5. Reply(p, Head(listeners[p][i].queue)) \in SignCheckpointProofReply
    BY <1>1, <2>4 DEF Reply, TypeOK
  <2>6. inbox' \in [Peers -> Seq(SignCheckpointProofReply)]
    BY <1>1, <2>1, <2>5, AppendElements DEF TypeOK
  <2>7. listeners' \in [Peers -> Seq(Listener)]
    BY <1>1, <2>1, <2>2, ListenerShortened DEF TypeOK
  <2> QED
    BY <1>1, <1>10, <2>6, <2>7 DEF Transfer, TypeOK
<1>11. ASSUME NEW p \in Peers, CollectCheckpointProofs(p) PROVE TypeOK'
  <2>1. /\ heap' \in [Peers -> [References -> SUBSET Signature]]
        /\ proofsMap' \in [Peers -> [Keys -> References \union {NoProof}]]
    BY <1>2, <1>11, Collected
  <2>2. inbox' \in [Peers -> Seq(SignCheckpointProofReply)]
    BY <1>1, <1>11, TailElements DEF CollectCheckpointProofs, TypeOK
  <2> QED
    BY <1>1, <1>11, <2>1, <2>2 DEF CollectCheckpointProofs, TypeOK
<1>12. CASE UNCHANGED gossipVars
  BY <1>1, <1>12 DEF gossipVars, TypeOK
<1>13. ASSUME NEW w \in Workers, NEW i \in todo[w], Wait(w, i) PROVE TypeOK'
  <2>1. <<w, i>> \in Workers \X (Nat \ {0})
    BY <1>1 DEF TypeOK
  <2>2. lock' \in [Peers -> (Workers \X (Nat \ {0})) \union {NoPush}]
    <3>1. lock' = [lock EXCEPT ![w[1]] = <<w, i>>]
      BY <1>13 DEF Wait
    <3> QED
      BY <1>1, <2>1, <3>1 DEF TypeOK
  <2> QED
    BY <1>1, <1>13, <2>2 DEF Wait, TypeOK
<1> QED
  BY <1>13, <1>3, <1>4, <1>5, <1>6, <1>7, <1>8, <1>9, <1>10, <1>11, <1>12 DEF Next, Work, Listen

-----------------------------------------------------------------------------
\* Two handlers write proofs; all other steps leave them alone
LEMMA Writers ==
    ASSUME [Next]_gossipVars
    PROVE  \/ UNCHANGED <<heap, proofsMap>>
           \/ \E w \in Workers : CreateCheckpointProof(w)
           \/ \E p \in Peers : CollectCheckpointProofs(p)
  BY DEF Next, Work, Listen, Step, gossipVars, Wait, Push, QuorumReached, TimesOut, NodeFails,
         NextTransition, OpenStream, ListenPanics, CutStream, Transfer

\* A relayer's own proof, once made, is never written with anything else
LEMMA OwnKept ==
    ASSUME GossipInv, [Next]_gossipVars, NEW p \in Peers, NEW ref \in References, Own(p, ref)
    PROVE  Own(p, ref)'
<1>1. heap \in [Peers -> [References -> SUBSET Signature]]
  BY DEF GossipInv, TypeOK
<1>2. CASE UNCHANGED <<heap, proofsMap>>
  BY <1>2 DEF Own, SignCheckpointProof
<1>3. ASSUME NEW w \in Workers, CreateCheckpointProof(w) PROVE Own(p, ref)'
  <2>1. w[1] \in Peers /\ OwnProof(w) \in References
    BY OwnProofType DEF GossipInv
  <2>2. heap' = [heap EXCEPT ![w[1]][OwnProof(w)] = SignCheckpointProof(w[1], OwnProof(w).checkpoint)]
    BY <1>3, Created
  <2>3. CASE w[1] = p /\ OwnProof(w) = ref
    <3>1. heap'[p][ref] = SignCheckpointProof(p, ref.checkpoint)
      BY <1>1, <2>1, <2>2, <2>3
    <3> QED
      BY <3>1 DEF Own, SignCheckpointProof
  <2>4. CASE ~ (w[1] = p /\ OwnProof(w) = ref)
    <3>1. heap'[p][ref] = heap[p][ref]
      BY <1>1, <2>1, <2>2, <2>4
    <3> QED
      BY <3>1 DEF Own, SignCheckpointProof
  <2> QED
    BY <2>3, <2>4
<1>4. ASSUME NEW q \in Peers, CollectCheckpointProofs(q) PROVE Own(p, ref)'
  <2> DEFINE m == Head(inbox[q])
  <2>1. /\ m.ref \in References /\ m.ref.author # q
        /\ heap' = [heap EXCEPT ![q][m.ref] = m.signatures]
    BY <1>4, Collected
  <2>2. heap'[p][ref] = heap[p][ref]
    BY <1>1, <2>1 DEF Own
  <2> QED
    BY <2>2 DEF Own, SignCheckpointProof
<1> QED
  BY <1>2, <1>3, <1>4, Writers

\* The same, for a reference that a primed expression names
LEMMA OwnStays ==
    ASSUME GossipInv, [Next]_gossipVars, NEW p \in Peers, NEW ref \in References, Own(p, ref)
    PROVE  ref.author = p /\ heap'[p][ref] = SignCheckpointProof(p, ref.checkpoint)
<1>1. Own(p, ref)'
  BY OwnKept
<1> QED
  BY <1>1 DEF Own, SignCheckpointProof

LEMMA StepLookups ==
    ASSUME GossipInv, [Next]_gossipVars, NEW p \in Peers PROVE LookupsFail(p)'
<1>1. proofsMap \in [Peers -> [Keys -> References \union {NoProof}]] /\ LookupsFail(p)
  BY DEF GossipInv, TypeOK
<1>2. ASSUME NEW q \in Peers, NEW ref \in References,
             proofsMap' = [proofsMap EXCEPT ![q][StoreKey(ref)] = ref]
      PROVE  LookupsFail(p)'
  <2>1. ASSUME NEW k \in Checkpoints PROVE proofsMap'[p][<<"hash", k>>] = NoProof
    <3>1. <<"hash", k>> # StoreKey(ref) /\ <<"hash", k>> \in Keys
      BY DEF StoreKey, Keys
    <3>2. proofsMap'[p][<<"hash", k>>] = proofsMap[p][<<"hash", k>>]
      BY <1>1, <1>2, <3>1
    <3> QED
      BY <1>1, <3>2 DEF LookupsFail
  <2> QED
    BY <2>1 DEF LookupsFail
<1>3. CASE UNCHANGED <<heap, proofsMap>>
  BY <1>1, <1>3 DEF LookupsFail
<1>4. ASSUME NEW w \in Workers, CreateCheckpointProof(w) PROVE LookupsFail(p)'
  <2>1. w[1] \in Peers /\ OwnProof(w) \in References
    BY OwnProofType DEF GossipInv
  <2>2. proofsMap' = [proofsMap EXCEPT ![w[1]][StoreKey(OwnProof(w))] = OwnProof(w)]
    BY <1>4, Created
  <2> QED
    BY <1>2, <2>1, <2>2
<1>5. ASSUME NEW q \in Peers, CollectCheckpointProofs(q) PROVE LookupsFail(p)'
  BY <1>2, <1>5, Collected
<1> QED
  BY <1>3, <1>4, <1>5, Writers

LEMMA StepHeap ==
    ASSUME GossipInv, [Next]_gossipVars, NEW p \in Peers PROVE HeapSigned(p)'
<1>1. heap \in [Peers -> [References -> SUBSET Signature]] /\ HeapSigned(p)
  BY DEF GossipInv, TypeOK
<1>2. ASSUME NEW q \in Peers, NEW ref \in References, NEW signatures, Signed(ref, signatures),
             heap' = [heap EXCEPT ![q][ref] = signatures]
      PROVE  HeapSigned(p)'
  <2>1. ASSUME NEW other \in References PROVE Signed(other, heap'[p][other])
    <3>1. \/ heap'[p][other] = heap[p][other]
          \/ other = ref /\ heap'[p][other] = signatures
      BY <1>1, <1>2
    <3> QED
      BY <1>1, <1>2, <3>1 DEF HeapSigned
  <2> QED
    BY <2>1 DEF HeapSigned, Signed
<1>3. CASE UNCHANGED <<heap, proofsMap>>
  BY <1>1, <1>3 DEF HeapSigned, Signed
<1>4. ASSUME NEW w \in Workers, CreateCheckpointProof(w) PROVE HeapSigned(p)'
  <2>1. /\ w[1] \in Peers /\ OwnProof(w) \in References
        /\ Signed(OwnProof(w), SignCheckpointProof(w[1], OwnProof(w).checkpoint))
    BY OwnProofType DEF GossipInv
  <2>2. heap' = [heap EXCEPT ![w[1]][OwnProof(w)] = SignCheckpointProof(w[1], OwnProof(w).checkpoint)]
    BY <1>4, Created
  <2> QED
    BY <1>2, <2>1, <2>2
<1>5. ASSUME NEW q \in Peers, CollectCheckpointProofs(q) PROVE HeapSigned(p)'
  BY <1>2, <1>5, Collected
<1> QED
  BY <1>3, <1>4, <1>5, Writers

LEMMA StepInbox ==
    ASSUME GossipInv, [Next]_gossipVars, NEW p \in Peers PROVE InboxSigned(p)'
<1>1. /\ inbox \in [Peers -> Seq(SignCheckpointProofReply)]
      /\ InboxSigned(p) /\ TypeOK
  BY DEF GossipInv, TypeOK
<1>2. CASE inbox'[p] = inbox[p]
  BY <1>1, <1>2 DEF InboxSigned, Signed
<1>3. ASSUME NEW c \in Peers, NEW q \in Peers, Transfer(c, q) PROVE InboxSigned(p)'
  <2>1. PICK i \in Streams(c, q) :
           /\ listeners[q][i].queue # <<>>
           /\ inbox' = [inbox EXCEPT ![c] = Append(@, Reply(q, Head(listeners[q][i].queue)))]
    BY <1>3 DEF Transfer
  <2> DEFINE ref == Head(listeners[q][i].queue)
  <2>2. i \in DOMAIN listeners[q] /\ listeners[q][i] \in Listener /\ listeners[q][i].client = c
    BY <1>1 DEF Streams, TypeOK
  <2>3. listeners[q][i].queue \in Seq(References)
    BY <2>2 DEF Listener
  <2>4. ref \in References /\ ref = listeners[q][i].queue[1] /\ 1 \in DOMAIN listeners[q][i].queue
    BY <2>1, <2>3, TailElements
  <2>5. ref.author = q
    BY <2>2, <2>4 DEF GossipInv, QueuesOwn, Own
  <2>6. Signed(ref, heap[q][ref])
    BY <2>4 DEF GossipInv, HeapSigned
  <2>7. Reply(q, ref) \in SignCheckpointProofReply
        /\ Reply(q, ref).ref = ref /\ Reply(q, ref).signatures = heap[q][ref]
    BY <1>1, <2>4 DEF Reply, TypeOK
  <2>8. CASE c = p
    <3>1. p # q
      BY <2>2, <2>8 DEF GossipInv, QueuesOwn
    <3>2. ASSUME NEW k \in DOMAIN inbox'[p]
          PROVE  (k \in DOMAIN inbox[p] /\ inbox'[p][k] = inbox[p][k]) \/ inbox'[p][k] = Reply(q, ref)
      BY <1>1, <2>1, <2>7, <2>8, <3>2, AppendElements
    <3> QED
      BY <1>1, <2>5, <2>6, <2>7, <3>1, <3>2 DEF InboxSigned, Signed
  <2>9. CASE c # p
    BY <1>1, <1>2, <2>1, <2>9
  <2> QED
    BY <2>8, <2>9
<1>4. ASSUME NEW q \in Peers, CollectCheckpointProofs(q) PROVE InboxSigned(p)'
  <2>1. inbox' = [inbox EXCEPT ![q] = Tail(@)] /\ inbox[q] # <<>>
    BY <1>4 DEF CollectCheckpointProofs
  <2>2. CASE q = p
    <3>1. \A k \in DOMAIN inbox'[p] : k + 1 \in DOMAIN inbox[p] /\ inbox'[p][k] = inbox[p][k + 1]
      BY <1>1, <2>1, <2>2, TailElements
    <3> QED
      BY <1>1, <3>1 DEF InboxSigned, Signed
  <2> QED
    BY <1>1, <1>2, <2>1, <2>2
<1>5. \/ inbox' = inbox
      \/ \E c \in Peers, q \in Peers : Transfer(c, q)
      \/ \E q \in Peers : CollectCheckpointProofs(q)
  BY DEF Next, Work, Listen, Step, gossipVars, Wait, Push, QuorumReached, TimesOut, NodeFails,
         NextTransition, OpenStream, ListenPanics, CutStream, CreateCheckpointProof
<1> QED
  BY <1>2, <1>3, <1>4, <1>5

\* What a listener of the next state holds, it held before or was just handed
LEMMA StepListener ==
    ASSUME GossipInv, [Next]_gossipVars, NEW p \in Peers, NEW k \in DOMAIN listeners'[p]
    PROVE  /\ listeners'[p][k].client # p
           /\ \A j \in DOMAIN listeners'[p][k].queue :
                 /\ listeners'[p][k].queue[j] \in References
                 /\ Own(p, listeners'[p][k].queue[j])
<1>1. /\ TypeOK /\ listeners \in [Peers -> Seq(Listener)] /\ QueuesOwn(p)
      /\ listeners[p] \in Seq(Listener)
  BY DEF GossipInv, TypeOK
<1>2. ASSUME NEW n \in DOMAIN listeners[p]
      PROVE  /\ listeners[p][n] \in Listener /\ listeners[p][n].client # p
             /\ listeners[p][n].queue \in Seq(References)
             /\ \A j \in DOMAIN listeners[p][n].queue :
                   listeners[p][n].queue[j] \in References /\ Own(p, listeners[p][n].queue[j])
  <2>1. listeners[p][n] \in Listener
    BY <1>1
  <2>2. listeners[p][n].queue \in Seq(References)
    BY <2>1 DEF Listener
  <2> QED
    BY <1>1, <2>1, <2>2 DEF QueuesOwn
<1>3. CASE k \in DOMAIN listeners[p] /\ listeners'[p][k].client = listeners[p][k].client
           /\ listeners'[p][k].queue = listeners[p][k].queue
  BY <1>2, <1>3
<1>4. ASSUME NEW w \in Workers, NEW i \in todo[w], Push(w, i)
      PROVE  /\ listeners'[p][k].client # p
             /\ \A j \in DOMAIN listeners'[p][k].queue :
                   listeners'[p][k].queue[j] \in References /\ Own(p, listeners'[p][k].queue[j])
  <2>1. /\ w[1] \in Peers /\ mine[w] \in References /\ Own(w[1], mine[w])
    BY <1>4 DEF Workers, GossipInv, WorkerOwn
  <2>2. listeners' = [listeners EXCEPT ![w[1]][i].queue = Append(@, mine[w])]
    BY <1>4 DEF Push
  <2>3. DOMAIN listeners'[p] = DOMAIN listeners[p]
    BY <1>1, <2>1, <2>2
  <2>4. CASE w[1] = p /\ i = k
    <3>1. /\ listeners'[p][k].client = listeners[p][k].client
          /\ listeners'[p][k].queue = Append(listeners[p][k].queue, mine[w])
      <4>1. listeners'[p][k] = [listeners[p][k] EXCEPT !.queue = Append(@, mine[w])]
        BY <1>1, <2>1, <2>2, <2>3, <2>4
      <4>2. listeners[p][k] \in Listener
        BY <1>2, <2>3
      <4> QED
        BY <4>1, <4>2 DEF Listener
    <3>2. \A j \in DOMAIN listeners'[p][k].queue :
             \/ j \in DOMAIN listeners[p][k].queue
                /\ listeners'[p][k].queue[j] = listeners[p][k].queue[j]
             \/ listeners'[p][k].queue[j] = mine[w]
      BY <1>2, <2>1, <2>3, <3>1, AppendElements
    <3> QED
      BY <1>2, <2>1, <2>3, <2>4, <3>1, <3>2
  <2>5. CASE ~ (w[1] = p /\ i = k)
    <3>1. listeners'[p][k] = listeners[p][k]
      BY <1>1, <2>1, <2>2, <2>3, <2>5
    <3> QED
      BY <1>2, <2>3, <3>1
  <2> QED
    BY <2>4, <2>5
<1>5. ASSUME NEW c \in Peers, NEW q \in Peers, OpenStream(c, q)
      PROVE  /\ listeners'[p][k].client # p
             /\ \A j \in DOMAIN listeners'[p][k].queue :
                   listeners'[p][k].queue[j] \in References /\ Own(p, listeners'[p][k].queue[j])
  <2> DEFINE new == [client |-> c, live |-> TRUE, queue |-> <<>>]
  <2>1. c # q /\ listeners' = [listeners EXCEPT ![q] = Append(@, new)] /\ new \in Listener
    BY <1>5 DEF OpenStream, Listener
  <2>2. CASE q = p
    <3>1. listeners'[p] = Append(listeners[p], new)
      BY <1>1, <2>1, <2>2
    <3>2. (k \in DOMAIN listeners[p] /\ listeners'[p][k] = listeners[p][k]) \/ listeners'[p][k] = new
      BY <1>1, <2>1, <3>1, AppendElements
    <3> QED
      BY <1>2, <2>1, <2>2, <3>2
  <2>3. CASE q # p
    BY <1>1, <1>2, <2>1, <2>3
  <2> QED
    BY <2>2, <2>3
<1>6. ASSUME NEW c \in Peers, NEW q \in Peers, CutStream(c, q)
      PROVE  k \in DOMAIN listeners[p] /\ listeners'[p][k].client = listeners[p][k].client
             /\ listeners'[p][k].queue = listeners[p][k].queue
  <2>1. PICK i \in Streams(c, q) : listeners' = [listeners EXCEPT ![q][i].live = FALSE]
    BY <1>6 DEF CutStream
  <2>2. DOMAIN listeners'[p] = DOMAIN listeners[p]
    BY <1>1, <2>1
  <2>3. listeners[p][k] \in Listener
    BY <1>2, <2>2
  <2>4. listeners'[p][k] = listeners[p][k]
        \/ listeners'[p][k] = [listeners[p][k] EXCEPT !.live = FALSE]
    BY <1>1, <2>1, <2>2
  <2> QED
    BY <2>2, <2>3, <2>4 DEF Listener
<1>7. ASSUME NEW c \in Peers, NEW q \in Peers, Transfer(c, q)
      PROVE  /\ listeners'[p][k].client # p
             /\ \A j \in DOMAIN listeners'[p][k].queue :
                   listeners'[p][k].queue[j] \in References /\ Own(p, listeners'[p][k].queue[j])
  <2>1. PICK i \in Streams(c, q) :
           /\ listeners[q][i].queue # <<>>
           /\ listeners' = [listeners EXCEPT ![q][i].queue = Tail(@)]
    BY <1>7 DEF Transfer
  <2>2. DOMAIN listeners'[p] = DOMAIN listeners[p]
    BY <1>1, <2>1
  <2>3. CASE q = p /\ i = k
    <3>1. /\ listeners'[p][k].client = listeners[p][k].client
          /\ listeners'[p][k].queue = Tail(listeners[p][k].queue)
      <4>1. listeners'[p][k] = [listeners[p][k] EXCEPT !.queue = Tail(@)]
        BY <1>1, <2>1, <2>2, <2>3
      <4>2. listeners[p][k] \in Listener
        BY <1>2, <2>2
      <4> QED
        BY <4>1, <4>2 DEF Listener
    <3>2. \A j \in DOMAIN listeners'[p][k].queue :
             /\ j + 1 \in DOMAIN listeners[p][k].queue
             /\ listeners'[p][k].queue[j] = listeners[p][k].queue[j + 1]
      <4>1. listeners[p][k].queue \in Seq(References) /\ listeners[p][k].queue # <<>>
        BY <1>2, <2>1, <2>2, <2>3
      <4> QED
        BY <3>1, <4>1, TailElements
    <3> QED
      BY <1>2, <2>2, <3>1, <3>2
  <2>4. CASE ~ (q = p /\ i = k)
    <3>1. listeners'[p][k] = listeners[p][k]
      BY <1>1, <2>1, <2>2, <2>4
    <3> QED
      BY <1>2, <2>2, <3>1
  <2> QED
    BY <2>3, <2>4
<1>8. \/ listeners' = listeners
      \/ \E w \in Workers : \E i \in todo[w] : Push(w, i)
      \/ \E c \in Peers, q \in Peers : OpenStream(c, q) \/ CutStream(c, q) \/ Transfer(c, q)
  BY DEF Next, Work, Listen, Step, gossipVars, Wait, QuorumReached, TimesOut, NodeFails,
         NextTransition, ListenPanics, CreateCheckpointProof, CollectCheckpointProofs
<1> QED
  BY <1>3, <1>4, <1>5, <1>6, <1>7, <1>8

LEMMA StepQueues ==
    ASSUME GossipInv, [Next]_gossipVars, NEW p \in Peers PROVE QueuesOwn(p)'
<1>1. ASSUME NEW k \in DOMAIN listeners'[p], NEW j \in DOMAIN listeners'[p][k].queue
      PROVE  Own(p, listeners[p][k].queue[j])'
  <2>1. /\ listeners'[p][k].queue[j] \in References /\ Own(p, listeners'[p][k].queue[j])
    BY <1>1, StepListener
  <2>2. /\ listeners'[p][k].queue[j].author = p
        /\ heap'[p][listeners'[p][k].queue[j]] =
              SignCheckpointProof(p, listeners'[p][k].queue[j].checkpoint)
    BY <2>1, OwnStays
  <2> QED
    BY <2>2 DEF Own, SignCheckpointProof
<1> QED
  BY <1>1, StepListener DEF QueuesOwn

LEMMA StepWorker ==
    ASSUME GossipInv, [Next]_gossipVars, NEW w \in Workers PROVE WorkerOwn(w)'
<1> USE DEF Step
<1>1. /\ TypeOK /\ WorkerOwn(w) /\ w[1] \in Peers
      /\ todo \in [Workers -> SUBSET (Nat \ {0})]
      /\ mine \in [Workers -> References \union {NoProof}]
      /\ pc \in [Workers -> {"idle", "waiting", "sent", "refused"}]
  BY DEF GossipInv, TypeOK, Workers
<1>2. CASE todo'[w] \subseteq todo[w] /\ pc'[w] = pc[w] /\ mine'[w] = mine[w]
  <2>1. ASSUME pc[w] = "waiting" PROVE Own(w[1], mine[w])'
    <3>1. mine[w] \in References /\ Own(w[1], mine[w])
      BY <1>1, <2>1 DEF WorkerOwn
    <3>2. mine'[w] = mine[w] /\ mine'[w] \in References /\ Own(w[1], mine'[w])
      BY <1>2, <3>1
    <3>3. /\ mine'[w].author = w[1]
          /\ heap'[w[1]][mine'[w]] = SignCheckpointProof(w[1], mine'[w].checkpoint)
      BY <1>1, <3>2, OwnStays
    <3> QED
      BY <3>3 DEF Own, SignCheckpointProof
  <2> QED
    BY <1>1, <1>2, <2>1 DEF WorkerOwn
<1>3. ASSUME NEW v \in Workers, CreateCheckpointProof(v) PROVE WorkerOwn(w)'
  <2>1. CASE v = w
    <3>1. OwnProof(w) \in References /\ OwnProof(w).author = w[1]
      BY <1>1, OwnProofType
    <3>2. /\ mine'[w] = OwnProof(w) /\ pc'[w] = "waiting"
          /\ heap'[w[1]][OwnProof(w)] = SignCheckpointProof(w[1], OwnProof(w).checkpoint)
      <4>1. mine' = [mine EXCEPT ![w] = OwnProof(w)]
        BY <1>3, <2>1, Created
      <4>2. heap' = [heap EXCEPT ![w[1]][OwnProof(w)] =
                        SignCheckpointProof(w[1], OwnProof(w).checkpoint)]
        BY <1>3, <2>1, Created
      <4>3. pc' = [pc EXCEPT ![w] = "waiting"]
        BY <1>3, <2>1 DEF CreateCheckpointProof
      <4> QED
        BY <1>1, <3>1, <4>1, <4>2, <4>3 DEF TypeOK
    <3>3. Own(w[1], mine[w])'
      BY <3>1, <3>2 DEF Own, SignCheckpointProof
    <3> QED
      BY <3>1, <3>2, <3>3 DEF WorkerOwn
  <2>2. CASE v # w
    <3>1. todo'[w] = todo[w] /\ pc'[w] = pc[w]
      BY <1>1, <1>3, <2>2 DEF CreateCheckpointProof
    <3>2. mine' = [mine EXCEPT ![v] = OwnProof(v)]
      BY <1>3, Created
    <3> QED
      BY <1>1, <1>2, <2>2, <3>1, <3>2
  <2> QED
    BY <2>1, <2>2
<1>4. ASSUME NEW v \in Workers, \E i \in todo[v] : Push(v, i) PROVE WorkerOwn(w)'
  BY <1>1, <1>2, <1>4 DEF Push
<1>5. ASSUME NEW v \in Workers, QuorumReached(v) \/ TimesOut(v) \/ NodeFails(v)
      PROVE  WorkerOwn(w)'
  <2>1. CASE v = w
    BY <1>1, <1>5, <2>1 DEF QuorumReached, TimesOut, NodeFails, WorkerOwn
  <2> QED
    BY <1>1, <1>2, <1>5, <2>1 DEF QuorumReached, TimesOut, NodeFails
<1>6. ASSUME NEW v \in Workers, NextTransition(v) PROVE WorkerOwn(w)'
  <2>1. CASE v = w
    BY <1>1, <1>6, <2>1 DEF NextTransition, WorkerOwn
  <2> QED
    BY <1>1, <1>2, <1>6, <2>1 DEF NextTransition
<1>7. CASE UNCHANGED <<todo, pc, mine>>
  BY <1>2, <1>7
<1>8. \/ UNCHANGED <<todo, pc, mine>>
      \/ \E v \in Workers :
            \/ CreateCheckpointProof(v) \/ (\E i \in todo[v] : Push(v, i)) \/ QuorumReached(v)
            \/ TimesOut(v) \/ NodeFails(v) \/ NextTransition(v)
  BY DEF Next, Work, Listen, gossipVars, Wait, OpenStream, ListenPanics, CutStream, Transfer,
         CollectCheckpointProofs
<1> QED
  BY <1>3, <1>4, <1>5, <1>6, <1>7, <1>8

-----------------------------------------------------------------------------
LEMMA Inductive == GossipInv /\ [Next]_gossipVars => GossipInv'
  BY StepType, StepLookups, StepHeap, StepInbox, StepQueues, StepWorker DEF GossipInv

LEMMA Initially == Init => GossipInv
<1> SUFFICES ASSUME Init PROVE GossipInv
  OBVIOUS
<1>1. TypeOK
  <2>1. epoch \in [Workers -> Epochs] /\ attempts \in [Workers -> 1 .. MaxAttempts]
    BY GossipAssumption DEF Init, Epochs
  <2> QED
    BY <2>1 DEF Init, TypeOK
<1>2. ASSUME NEW p \in Peers
      PROVE  LookupsFail(p) /\ HeapSigned(p) /\ InboxSigned(p) /\ QueuesOwn(p)
  <2>1. LookupsFail(p)
    BY DEF Init, LookupsFail, Keys
  <2> QED
    BY <2>1, GossipAssumption DEF Init, HeapSigned, InboxSigned, QueuesOwn, Signed
<1>3. ASSUME NEW w \in Workers PROVE WorkerOwn(w)
  BY DEF Init, WorkerOwn
<1> QED
  BY <1>1, <1>2, <1>3 DEF GossipInv

(***************************************************************************)
(* The maps, channels and proof objects of every relayer are well-typed in *)
(* every reachable state (service.go:19-33, checkpoint.go:18-26).          *)
(***************************************************************************)
THEOREM TypesHold == Spec => []TypeOK
<1>1. GossipInv => TypeOK
  BY DEF GossipInv
<1> QED
  BY <1>1, Inductive, Initially, PTL DEF Spec

(***************************************************************************)
(* Every signature in a proof was made over that proof's checkpoint by a   *)
(* peer that computed it, for any number of peers, epochs and branches     *)
(* (service.go:80-95).                                                     *)
(***************************************************************************)
THEOREM SignaturesAlwaysOfCheckpoint == Spec => []SignaturesOfCheckpoint
<1>1. GossipInv => SignaturesOfCheckpoint
  BY DEF GossipInv, HeapSigned, Signed, SignaturesOfCheckpoint
<1> QED
  BY <1>1, Inductive, Initially, PTL DEF Spec

(***************************************************************************)
(* No handler ever ranges over a map that is being written, and no worker  *)
(* counts one: a proof that waits to be streamed or for signatures keeps   *)
(* those it has (server.go:107, service.go:245).                           *)
(***************************************************************************)
THEOREM PublishedAlwaysFrozen == Spec => PublishedFrozen
<1> DEFINE Frozen ==
        \A p \in Peers : \A ref \in Published(p) : heap'[p][ref] = heap[p][ref]
<1>1. ASSUME GossipInv, NEW p \in Peers, NEW ref \in Published(p)
      PROVE  ref \in References /\ Own(p, ref)
  <2>1. CASE \E w \in Workers : w[1] = p /\ pc[w] = "waiting" /\ ref = mine[w]
    BY <1>1, <2>1 DEF GossipInv, WorkerOwn
  <2>2. CASE \E i \in DOMAIN listeners[p] :
                \E j \in DOMAIN listeners[p][i].queue : ref = listeners[p][i].queue[j]
    <3>1. PICK i \in DOMAIN listeners[p] :
             \E j \in DOMAIN listeners[p][i].queue : ref = listeners[p][i].queue[j]
      BY <2>2
    <3>2. PICK j \in DOMAIN listeners[p][i].queue : ref = listeners[p][i].queue[j]
      BY <3>1
    <3>3. listeners[p][i] \in Listener
      BY <1>1 DEF GossipInv, TypeOK
    <3>4. listeners[p][i].queue \in Seq(References)
      BY <3>3 DEF Listener
    <3> QED
      BY <1>1, <3>2, <3>4 DEF GossipInv, QueuesOwn
  <2> QED
    BY <1>1, <2>1, <2>2 DEF Published
<1>2. GossipInv /\ [Next]_gossipVars => [Frozen]_gossipVars
  <2> SUFFICES ASSUME GossipInv, [Next]_gossipVars, NEW p \in Peers, NEW ref \in Published(p)
               PROVE  heap'[p][ref] = heap[p][ref]
    OBVIOUS
  <2>1. ref \in References /\ Own(p, ref)
    BY <1>1
  <2>2. Own(p, ref)'
    BY <2>1, OwnKept
  <2> QED
    BY <2>1, <2>2 DEF Own, SignCheckpointProof
<1>3. Spec => [][Frozen]_gossipVars
  BY <1>2, Inductive, Initially, PTL DEF Spec
<1> QED
  BY <1>3 DEF PublishedFrozen
=============================================================================
