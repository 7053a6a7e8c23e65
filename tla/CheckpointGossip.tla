-------------------------- MODULE CheckpointGossip --------------------------
(***************************************************************************)
(* relayer/checkpoint.go, server.go, emitter.go and the checkpoint half of *)
(* service.go: relayers sign the checkpoint of every epoch of both         *)
(* directions, stream their proofs to each other and wait for a quorum of  *)
(* signatures.                                                             *)
(*                                                                         *)
(* Proofs are shared by reference: the map of a relayer, its worker, the   *)
(* channels of its streams and their handlers hold the same object, so the *)
(* model keeps a heap per relayer and passes references.  A reference is   *)
(* who made the proof, for which epoch and which checkpoint.               *)
(***************************************************************************)
EXTENDS Integers, Sequences, FiniteSets

CONSTANTS
    Peers,
    Directions,      \* the source chains: "root" and "child"
    MaxEpoch,        \* bound on the epochs of the run
    Quorum,          \* per direction and epoch, two thirds of the previous set
    Forked,          \* peers whose node of every chain is on another branch
    ChannelCapacity, \* 10_000
    MaxAttempts,     \* bound on the attempts of a worker, at any epochs
    MaxStreams,      \* per peer, bound on the streams it serves
    Connections,     \* what a client's calls do: "stream" or "panic"
    NoProof, NoPush

Epochs == 1 .. MaxEpoch

ASSUME GossipAssumption ==
    /\ {MaxEpoch, MaxAttempts, ChannelCapacity} \subseteq Nat \ {0} /\ MaxStreams \in [Peers -> Nat]
    /\ Quorum \in [Directions -> [Epochs -> Nat]]
    /\ Forked \subseteq Peers /\ Connections \subseteq {"stream", "panic"}

\* what createCheckpointProof computes from the blocks of the peer's node
CheckpointOf(p, d, e) == <<IF p \in Forked THEN "fork" ELSE "main", d, e>>

Checkpoints == {"fork", "main"} \X Directions \X Epochs

\* the keys of the map: epoch numbers and hashes are different types
Keys == ({"epoch"} \X Epochs) \union ({"hash"} \X Checkpoints)

References == [author: Peers, epoch: Epochs, checkpoint: Checkpoints]

Workers == Peers \X Directions

VARIABLES
    alive,      \* per peer, is the process running
    conn,       \* per peer, what calls on its dialled connections do
    pc, epoch,  \* per worker, where it is and which epoch it works on
    attempts,   \* per worker, how often it has tried
    mine,       \* per worker, the proof it waits on
    todo,       \* per worker, the listeners its emission still has to reach
    lock,       \* per peer, the push that waits inside the emitter
    heap,       \* per peer, the signatures of every proof object: signer and root
    proofsMap,  \* per peer, the proof under each key
    listeners,  \* per peer, one per stream it ever served
    inbox       \* per peer, the channel of collectCheckpointProofsWorker

gossipVars == <<alive, conn, pc, epoch, attempts, mine, todo, lock, heap, proofsMap, listeners, inbox>>

Signature == [signer: Peers, root: Checkpoints]

\* the message: validators and signatures, in the same order
SignCheckpointProofReply == [ref: References, signatures: SUBSET Signature]

Listener == [client: Peers, live: BOOLEAN, queue: Seq(References)]

Init ==
    /\ alive = [p \in Peers |-> TRUE]
    /\ conn \in [Peers -> Connections]
    /\ pc = [w \in Workers |-> "idle"]
    /\ epoch = [w \in Workers |-> 1]
    /\ attempts = [w \in Workers |-> 1]
    /\ mine = [w \in Workers |-> NoProof]
    /\ todo = [w \in Workers |-> {}]
    /\ lock = [p \in Peers |-> NoPush]
    /\ heap = [p \in Peers |-> [ref \in References |-> {}]]
    /\ proofsMap = [p \in Peers |-> [key \in Keys |-> NoProof]]
    /\ listeners = [p \in Peers |-> <<>>]
    /\ inbox = [p \in Peers |-> <<>>]

-----------------------------------------------------------------------------
(***************************************************************************)
(* mergeCheckpointProof.  It looks the proof up under its checkpoint hash  *)
(* and stores it under its epoch number, so the lookup never finds one.    *)
(***************************************************************************)
ByEpoch(ref) == <<"epoch", ref.epoch>>    \* mutant

LookupKey(ref) == <<"hash", ref.checkpoint>>

StoreKey(ref) == <<"epoch", ref.epoch>>

Existing(p, ref) == proofsMap[p][LookupKey(ref)]

AddSignatures(p, ref, signatures) == heap' = [heap EXCEPT ![p][ref] = @ \union signatures]

Merge(p, ref, signatures) ==
    IF Existing(p, ref) = NoProof
    THEN /\ proofsMap' = [proofsMap EXCEPT ![p][StoreKey(ref)] = ref]
         /\ heap' = [heap EXCEPT ![p][ref] = signatures]
    ELSE AddSignatures(p, Existing(p, ref), signatures) /\ UNCHANGED proofsMap

-----------------------------------------------------------------------------
(***************************************************************************)
(* The emitter.  Every listener is a channel with a capacity; an emission  *)
(* returns when it reached all of them, one push at a time and in any      *)
(* order.  A push to a full channel keeps the emitter's lock until there   *)
(* is room.                                                                *)
(***************************************************************************)
Room(p, i) == Len(listeners[p][i].queue) < ChannelCapacity

Unlocked(p) == lock[p] = NoPush

Wait(w, i) ==
    LET p == w[1]
    IN  /\ alive[p] /\ i \in todo[w] /\ Unlocked(p) /\ ~ Room(p, i)
        /\ lock' = [lock EXCEPT ![p] = <<w, i>>]
        /\ UNCHANGED <<alive, conn, pc, epoch, attempts, mine, todo, heap, proofsMap, listeners, inbox>>

Push(w, i) ==
    LET p == w[1]
    IN  /\ alive[p] /\ i \in todo[w] /\ lock[p] \in {NoPush, <<w, i>>} /\ Room(p, i)
        /\ listeners' = [listeners EXCEPT ![p][i].queue = Append(@, mine[w])]
        /\ todo' = [todo EXCEPT ![w] = @ \ {i}]
        /\ lock' = [lock EXCEPT ![p] = NoPush]
        /\ UNCHANGED <<alive, conn, pc, epoch, attempts, mine, heap, proofsMap, inbox>>

-----------------------------------------------------------------------------
(***************************************************************************)
(* The worker: createCheckpointTransition up to its outcome.  crypto.Sign  *)
(* is over the checkpoint hash alone.                                      *)
(***************************************************************************)
SignBlockHash(p, checkpoint) == {[signer |-> p, root |-> <<"block hash", checkpoint>>]}    \* mutant

SignCheckpointProof(p, checkpoint) == {[signer |-> p, root |-> checkpoint]}

CreateCheckpointProof(w) ==
    LET p == w[1]
        ref == [author |-> p, epoch |-> epoch[w], checkpoint |-> CheckpointOf(p, w[2], epoch[w])]
    IN  /\ alive[p] /\ pc[w] = "idle" /\ Unlocked(p)
        /\ Merge(p, ref, SignCheckpointProof(p, ref.checkpoint))
        /\ mine' = [mine EXCEPT ![w] = IF Existing(p, ref) = NoProof THEN ref ELSE Existing(p, ref)]
        /\ todo' = [todo EXCEPT ![w] = DOMAIN listeners[p]]
        /\ pc' = [pc EXCEPT ![w] = "waiting"]
        /\ UNCHANGED <<alive, conn, epoch, attempts, lock, listeners, inbox>>

Step(w, from, to) ==
    /\ alive[w[1]] /\ pc[w] = from
    /\ pc' = [pc EXCEPT ![w] = to]

QuorumReached(w) ==
    /\ todo[w] = {} /\ Step(w, "waiting", "sent")
    /\ Cardinality(heap[w[1]][mine[w]]) >= Quorum[w[2]][epoch[w]]
    /\ UNCHANGED <<alive, conn, epoch, attempts, mine, todo, lock, heap, proofsMap, listeners, inbox>>

NeverTimesOut(w) == FALSE    \* mutant

TimesOut(w) ==
    /\ todo[w] = {} /\ Step(w, "waiting", "refused")
    /\ Cardinality(heap[w[1]][mine[w]]) < Quorum[w[2]][epoch[w]]
    /\ UNCHANGED <<alive, conn, epoch, attempts, mine, todo, lock, heap, proofsMap, listeners, inbox>>

\* a node that does not answer: no blocks to sign, or no quorum to wait for
NodeFails(w) ==
    /\ todo[w] = {} /\ (Step(w, "idle", "refused") \/ Step(w, "waiting", "refused"))
    /\ UNCHANGED <<alive, conn, epoch, attempts, mine, todo, lock, heap, proofsMap, listeners, inbox>>

(***************************************************************************)
(* After a transition the worker takes up what the hub asks for next; when *)
(* the attempt and the confirmation transition after it failed, the same   *)
(* epoch again, with a proof that equals the first.                        *)
(***************************************************************************)
NextTransition(w) ==
    /\ Step(w, "sent", "idle") \/ Step(w, "refused", "idle")
    /\ attempts[w] < MaxAttempts /\ attempts' = [attempts EXCEPT ![w] = @ + 1]
    /\ \E e \in epoch[w] .. MaxEpoch : epoch' = [epoch EXCEPT ![w] = e]
    /\ mine' = [mine EXCEPT ![w] = NoProof]
    /\ UNCHANGED <<alive, conn, todo, lock, heap, proofsMap, listeners, inbox>>

-----------------------------------------------------------------------------
(***************************************************************************)
(* The streams.  A client opens one whenever it has none; the server adds  *)
(* a listener for it that nothing removes.  After 15 seconds, or on any    *)
(* error, the stream ends and what its listener holds is lost.             *)
(***************************************************************************)
Streams(c, p) == {i \in DOMAIN listeners[p] : listeners[p][i].client = c /\ listeners[p][i].live}

OpenStream(c, p) ==
    /\ c # p /\ alive[c] /\ alive[p] /\ conn[c] = "stream"
    /\ Streams(c, p) = {} /\ Len(listeners[p]) < MaxStreams[p] /\ Unlocked(p)
    /\ listeners' = [listeners EXCEPT ![p] =
          Append(@, [client |-> c, live |-> TRUE, queue |-> <<>>])]
    /\ UNCHANGED <<alive, conn, pc, epoch, attempts, mine, todo, lock, heap, proofsMap, inbox>>

(***************************************************************************)
(* A call panics on the nil connection of a failed dial, and on any other  *)
(* with a library that calls the nil option it is given.                   *)
(***************************************************************************)
ListenPanics(c) ==
    /\ alive[c] /\ conn[c] = "panic"
    /\ alive' = [alive EXCEPT ![c] = FALSE]
    /\ UNCHANGED <<conn, pc, epoch, attempts, mine, todo, lock, heap, proofsMap, listeners, inbox>>

CutStream(c, p) ==
    /\ \E i \in Streams(c, p) : listeners' = [listeners EXCEPT ![p][i].live = FALSE]
    /\ UNCHANGED <<alive, conn, pc, epoch, attempts, mine, todo, lock, heap, proofsMap, inbox>>

(***************************************************************************)
(* SignCheckpointProof sends what the proof holds when it is sent; the     *)
(* client makes a proof of its own from the message and emits it to its    *)
(* collecting worker.                                                      *)
(***************************************************************************)
Reply(p, ref) == [ref |-> ref, signatures |-> heap[p][ref]]

Transfer(c, p) ==
    /\ alive[c] /\ alive[p] /\ Len(inbox[c]) < ChannelCapacity /\ Unlocked(c)
    /\ \E i \in Streams(c, p) :
          /\ listeners[p][i].queue # <<>>
          /\ inbox' = [inbox EXCEPT ![c] = Append(@, Reply(p, Head(listeners[p][i].queue)))]
          /\ listeners' = [listeners EXCEPT ![p][i].queue = Tail(@)]
    /\ UNCHANGED <<alive, conn, pc, epoch, attempts, mine, todo, lock, heap, proofsMap>>

CollectCheckpointProofs(p) ==
    /\ alive[p] /\ inbox[p] # <<>>
    /\ Merge(p, Head(inbox[p]).ref, Head(inbox[p]).signatures)
    /\ inbox' = [inbox EXCEPT ![p] = Tail(@)]
    /\ UNCHANGED <<alive, conn, pc, epoch, attempts, mine, todo, lock, listeners>>

-----------------------------------------------------------------------------
Work(w) ==
    \/ CreateCheckpointProof(w) \/ (\E i \in todo[w] : Wait(w, i) \/ Push(w, i))
    \/ QuorumReached(w) \/ TimesOut(w) \/ NextTransition(w)

Listen(c) ==
    \/ ListenPanics(c) \/ CollectCheckpointProofs(c)
    \/ \E p \in Peers : OpenStream(c, p) \/ Transfer(c, p)

Next ==
    \/ \E w \in Workers : Work(w) \/ NodeFails(w)
    \/ \E c \in Peers : Listen(c)
    \/ \E c, p \in Peers : CutStream(c, p)

(***************************************************************************)
(* Goroutines run, a wait for signatures ends by its deadline and so does  *)
(* every stream.                                                           *)
(***************************************************************************)
Spec ==
    /\ Init /\ [][Next]_gossipVars
    /\ \A w \in Workers : WF_gossipVars(Work(w))
    /\ \A c \in Peers : WF_gossipVars(Listen(c))
    /\ \A c, p \in Peers : WF_gossipVars(CutStream(c, p))

-----------------------------------------------------------------------------
TypeOK ==
    /\ alive \in [Peers -> BOOLEAN] /\ conn \in [Peers -> Connections]
    /\ pc \in [Workers -> {"idle", "waiting", "sent", "refused"}]
    /\ epoch \in [Workers -> Epochs] /\ attempts \in [Workers -> 1 .. MaxAttempts]
    /\ mine \in [Workers -> References \union {NoProof}]
    /\ todo \in [Workers -> SUBSET (Nat \ {0})]
    /\ lock \in [Peers -> (Workers \X (Nat \ {0})) \union {NoPush}]
    /\ heap \in [Peers -> [References -> SUBSET Signature]]
    /\ proofsMap \in [Peers -> [Keys -> References \union {NoProof}]]
    /\ listeners \in [Peers -> Seq(Listener)]
    /\ inbox \in [Peers -> Seq(SignCheckpointProofReply)]

(***************************************************************************)
(* Every signature a proof carries was made over that proof's checkpoint,  *)
(* by a peer whose node computed it: neither the two directions, which     *)
(* share one map and number their epochs alike, nor peers on different     *)
(* branches ever mix (service.go:80-95).                                   *)
(***************************************************************************)
SignaturesOfCheckpoint ==
    \A p \in Peers, ref \in References : \A s \in heap[p][ref] :
        /\ s.root = ref.checkpoint
        /\ \E d \in Directions : CheckpointOf(s.signer, d, ref.epoch) = ref.checkpoint

\* the proofs that a worker or a handler of p may be reading
Published(p) ==
    {mine[w] : w \in {v \in Workers : v[1] = p /\ pc[v] = "waiting"}}
    \union UNION {{listeners[p][i].queue[j] : j \in DOMAIN listeners[p][i].queue} :
                     i \in {k \in DOMAIN listeners[p] : listeners[p][k].live}}

(***************************************************************************)
(* A proof is never written while it waits to be streamed or its worker    *)
(* waits for signatures: the handler ranges over its signatures without    *)
(* the lock (server.go:107), the worker counts them without it             *)
(* (service.go:245), and a concurrent write to a map ends the process.     *)
(***************************************************************************)
PublishedFrozen ==
    [][\A p \in Peers : \A ref \in Published(p) : heap'[p][ref] = heap[p][ref]]_gossipVars

\* a push waits for room in the channel of a stream that was cut, which nobody reads
Stuck(p) == lock[p] # NoPush /\ ~ listeners[p][lock[p][2]].live

(***************************************************************************)
(* Every attempt of a live relayer to collect signatures ends, with a      *)
(* quorum or without, however slowly its peers read and however often the  *)
(* attempt is repeated, unless its emitter is stuck: nothing else can keep *)
(* it from the confirmation transition (service.go:189-200, 244-252).      *)
(***************************************************************************)
AttemptsEnd ==
    \A w \in Workers :
        pc[w] = "waiting" ~> pc[w] \in {"sent", "refused"} \/ ~ alive[w[1]] \/ Stuck(w[1])
=============================================================================
