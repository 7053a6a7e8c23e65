------------------------------ MODULE Relayer ------------------------------
(***************************************************************************)
(* relayer/service.go: relayers that follow one source chain and record    *)
(* its epochs in the hub on a target chain.  A relayer's process runs a    *)
(* fetcher that polls heads, hands the confirmed number over an unbuffered *)
(* channel and waits until it is taken, and a worker that makes one        *)
(* transition at a time.  The worker of the other direction shares only    *)
(* the process: when it fails, both die (Crash).                           *)
(*                                                                         *)
(* The environment: the source chain grows; the target chain executes      *)
(* every sender's transactions in nonce order; with Faults it executes     *)
(* them late or never, nodes lag or fail, and processes die and are        *)
(* started again.  A fault uses up one of MaxFaults.                       *)
(*                                                                         *)
(* The hub is abstracted to its latest epoch: it takes epoch e after       *)
(* e - 1, or any epoch while it knows none (RelayHub!EpochFollows), and    *)
(* the proofs a relayer builds (ProofFeed says when it does).              *)
(***************************************************************************)
EXTENDS Integers, Sequences, FiniteSets

CONSTANTS
    Relayers,
    Configured,          \* those whose configured chain ids are their nodes'
    EpochLength, Confirmations,
    Word,                \* 2^64, the modulus of block numbers
    ProofBlocks,         \* blocks createBlockProofs reads to reach its quorum
    GasLimit,            \* of the target chain's configuration; 0: none
    TxGasReserve, FixedGas,  \* 100_000 and 1_000_000
    TransitionGas,       \* what one updateValidatorSet takes
    InputsPerTx,         \* transitions that fit txMaxInput
    HasPeers,            \* RelayerUrls is not empty
    CheckpointsAccepted, \* the hub takes the signatures the peers collect
    FirstHead, MaxHead,  \* bound: a poll at MaxHead stands for all later ones
    Faults,              \* of those in FaultKinds
    MaxFaults,           \* bound on how often they strike
    MaxPending           \* bound on one relayer's unmined transactions

FaultKinds == {"late", "drop", "crash", "rpc", "lag", "instant"}

None == -1

ASSUME RelayerAssumption ==
    /\ Configured \subseteq Relayers
    /\ EpochLength \in Nat \ {0} /\ Confirmations \in Nat
    /\ Word \in Nat /\ MaxHead < Word
    /\ ProofBlocks \in 1 .. EpochLength
    /\ GasLimit \in Nat /\ TxGasReserve \in Nat /\ FixedGas \in Nat
    /\ TransitionGas \in Nat \ {0} /\ InputsPerTx \in Nat
    /\ HasPeers \in BOOLEAN /\ CheckpointsAccepted \in BOOLEAN
    /\ FirstHead \in Nat /\ MaxHead \in Nat /\ FirstHead <= MaxHead
    /\ Faults \subseteq FaultKinds /\ MaxFaults \in Nat
    /\ MaxPending \in Nat \ {0}

VARIABLES
    head,       \* number of the source chain's last block
    recorded,   \* the hub's latestKnownEpoch of the source chain
    pending,    \* per relayer, its unmined transactions in nonce order
    awaited,    \* what became of the last one, when the worker waits for it
    up,         \* is the process running
    young,      \* no transition was finished since the process started
    seen,       \* latestBlockNumber of the fetcher
    offer,      \* the number the fetcher is sending on the channel
    pc,         \* where the worker is
    known,      \* latestKnownBlock of the worker
    latest,     \* latestTransitionedEpoch of the worker
    faultsLeft

chains == <<head, recorded, pending>>
process == <<awaited, up, young, seen, offer, pc, known, latest>>
vars == <<chains, process, faultsLeft>>

Transaction == [first: Nat, last: Nat, gas: {"estimated", "fixed"}]

Init ==
    /\ head = FirstHead /\ recorded = 0 /\ faultsLeft = MaxFaults
    /\ pending = [r \in Relayers |-> <<>>]
    /\ awaited = [r \in Relayers |-> "none"]
    /\ up = [r \in Relayers |-> FALSE]
    /\ young = [r \in Relayers |-> TRUE]
    /\ seen = [r \in Relayers |-> 0]
    /\ offer = [r \in Relayers |-> None]
    /\ pc = [r \in Relayers |-> "idle"]
    /\ known = [r \in Relayers |-> 0]
    /\ latest = [r \in Relayers |-> 0]

Strike(fault) ==
    /\ fault \in Faults
    /\ faultsLeft > 0
    /\ faultsLeft' = faultsLeft - 1

At(r, place) == up[r] /\ pc[r] = place

Go(r, place) == pc' = [pc EXCEPT ![r] = place]

-----------------------------------------------------------------------------
(***************************************************************************)
(* The process.  A chain id that is not the node's is fatal, and so is     *)
(* every error of getLatestTransitionedEpoch.                              *)
(***************************************************************************)
ToNodeConfig(r) == r \in Configured

Start(r) ==
    /\ ~ up[r] /\ ToNodeConfig(r)
    /\ up' = [up EXCEPT ![r] = TRUE]
    /\ latest' = [latest EXCEPT ![r] = recorded]
    /\ UNCHANGED <<chains, awaited, young, seen, offer, pc, known, faultsLeft>>

\* what a process that ends leaves behind: nothing of its own
Die(r) ==
    /\ up' = [up EXCEPT ![r] = FALSE]
    /\ awaited' = [awaited EXCEPT ![r] = "none"]
    /\ young' = [young EXCEPT ![r] = TRUE]
    /\ seen' = [seen EXCEPT ![r] = 0]
    /\ offer' = [offer EXCEPT ![r] = None]
    /\ known' = [known EXCEPT ![r] = 0]
    /\ latest' = [latest EXCEPT ![r] = 0]
    /\ Go(r, "idle")
    /\ UNCHANGED chains

Crash(r) == up[r] /\ Strike("crash") /\ Die(r)

-----------------------------------------------------------------------------
\* The fetcher.  Block numbers are unsigned: confirmedBlock < 0 never holds.
UnconfirmedBlock(n) == n    \* mutant

ConfirmedBlock(n) == (n - Confirmations) % Word

Reported == IF "lag" \in Faults THEN FirstHead .. head ELSE {head}

LatestBlockFetcher(r) ==
    /\ up[r] /\ offer[r] = None
    /\ \E n \in Reported :
          /\ n > seen[r] \/ n = MaxHead
          /\ seen' = [seen EXCEPT ![r] = n]
          /\ offer' = [offer EXCEPT ![r] = ConfirmedBlock(n)]
    /\ UNCHANGED <<chains, awaited, up, young, pc, known, latest, faultsLeft>>

-----------------------------------------------------------------------------
\* The worker: the block it waits for, and the next transition
NextEpoch(r) == latest[r] + 1

WaitForBlock(r) == NextEpoch(r) * EpochLength

EpochWorker(r) ==
    /\ At(r, "idle") /\ offer[r] # None
    /\ offer' = [offer EXCEPT ![r] = None]
    /\ known' = [known EXCEPT ![r] = offer[r]]
    /\ Go(r, IF offer[r] < WaitForBlock(r) THEN "idle"
             ELSE IF HasPeers THEN "checkpoint" ELSE "confirm")
    /\ UNCHANGED <<chains, awaited, up, young, seen, latest, faultsLeft>>

Accepts(e) == recorded = 0 \/ e = recorded + 1

Send(r, tx, place) ==
    /\ Len(pending[r]) < MaxPending
    /\ pending' = [pending EXCEPT ![r] = Append(@, tx)]
    /\ awaited' = [awaited EXCEPT ![r] = "pending"]
    /\ Go(r, place)
    /\ UNCHANGED <<head, recorded, up, young, seen, offer, known, latest>>

(***************************************************************************)
(* createCheckpointTransition.  It needs every block of the epoch, the     *)
(* signatures of a quorum within two minutes and a hub that takes them;    *)
(* its failure is only logged and the confirmation transition follows.     *)
(***************************************************************************)
CheckpointTransition(r) ==
    /\ At(r, "checkpoint") /\ CheckpointsAccepted
    /\ WaitForBlock(r) + EpochLength - 1 <= head
    /\ Accepts(NextEpoch(r))
    /\ Send(r, [first |-> NextEpoch(r), last |-> NextEpoch(r), gas |-> "estimated"],
            "checkpoint_sent")
    /\ UNCHANGED faultsLeft

CheckpointTransitionFails(r) ==
    /\ At(r, "checkpoint")
    /\ Go(r, "confirm")
    /\ UNCHANGED <<chains, awaited, up, young, seen, offer, known, latest, faultsLeft>>

(***************************************************************************)
(* createEpochTransition.  With a gas limit the transition is estimated    *)
(* and sent in a batch that takes in the epochs up to the confirmed block; *)
(* a block that is missing for any of them fails the whole batch.  A gas   *)
(* limit below the reserve wraps to a negative size: the batch is empty.   *)
(***************************************************************************)
Batching == GasLimit > 0

BatchSize ==
    LET byGas == IF GasLimit < TxGasReserve THEN 0
                 ELSE (GasLimit - TxGasReserve) \div TransitionGas
    IN  IF byGas < InputsPerTx THEN byGas ELSE InputsPerTx

WholeBatch(r) == latest[r] + BatchSize    \* mutant

BatchEnd(r) ==
    LET confirmed == known[r] \div EpochLength
    IN  IF confirmed < latest[r] + BatchSize THEN confirmed ELSE latest[r] + BatchSize

LastEpoch(r) == IF Batching THEN BatchEnd(r) ELSE NextEpoch(r)

CanBuild(r) ==
    \A e \in NextEpoch(r) .. LastEpoch(r) \union {NextEpoch(r)} :
        e * EpochLength + ProofBlocks - 1 <= head

\* with a fixed gas limit nothing is estimated, so nothing is refused
Estimated(r) == Batching => Accepts(NextEpoch(r))

CreateEpochTransition(r) ==
    /\ At(r, "confirm") /\ CanBuild(r) /\ Estimated(r)
    /\ Send(r, [first |-> NextEpoch(r), last |-> LastEpoch(r),
                gas |-> IF Batching THEN "estimated" ELSE "fixed"], "sent")
    /\ UNCHANGED faultsLeft

CreateEpochTransitionFails(r) ==
    /\ At(r, "confirm")
    /\ \/ ~ (CanBuild(r) /\ Estimated(r)) /\ UNCHANGED faultsLeft
       \/ Strike("rpc")
    /\ Go(r, "asleep")
    /\ UNCHANGED <<chains, awaited, up, young, seen, offer, known, latest>>

\* the 30 seconds are over; latestTransitionedEpoch is what it was
Wake(r) ==
    /\ At(r, "asleep")
    /\ Go(r, "idle")
    /\ UNCHANGED <<chains, awaited, up, young, seen, offer, known, latest, faultsLeft>>

(***************************************************************************)
(* waitTxToBeMined: a receipt is a success whatever its status says; after *)
(* 30 tries the worker gives up on a transaction that may yet be mined.    *)
(***************************************************************************)
Waiting(r) == up[r] /\ pc[r] \in {"checkpoint_sent", "sent"}

StopWaiting(r, place) ==
    /\ Waiting(r)
    /\ awaited' = [awaited EXCEPT ![r] = "none"]
    /\ Go(r, place)
    /\ UNCHANGED <<chains, up, young, seen, offer, known, latest>>

\* mutant: giving up is taken for success
TxMinedOrNot(r) == awaited[r] \in {"mined", "lost"} /\ StopWaiting(r, "done") /\ UNCHANGED faultsLeft

TxMined(r) == awaited[r] = "mined" /\ StopWaiting(r, "done") /\ UNCHANGED faultsLeft

TxNotMinedInTime(r) ==
    /\ \/ awaited[r] = "lost" /\ UNCHANGED faultsLeft
       \/ awaited[r] = "pending" /\ Strike("late")
    /\ StopWaiting(r, IF pc[r] = "checkpoint_sent" THEN "confirm" ELSE "asleep")

(***************************************************************************)
(* After a success the latest epoch is read again.  The statistics divide  *)
(* by the seconds since the start, zero in the very first second.          *)
(***************************************************************************)
LatestKept(r) == latest[r]    \* mutant

LatestPlusBatch(r) == latest[r] + BatchSize    \* mutant

LatestOfHub(r) == recorded

EpochProcessed(r) ==
    /\ At(r, "done")
    /\ latest' = [latest EXCEPT ![r] = LatestOfHub(r)]
    /\ young' = [young EXCEPT ![r] = FALSE]
    /\ Go(r, "idle")
    /\ UNCHANGED <<chains, awaited, up, seen, offer, known, faultsLeft>>

DividesByZero(r) == At(r, "done") /\ young[r] /\ Strike("instant") /\ Die(r)

-----------------------------------------------------------------------------
\* The chains
Grow ==
    /\ head < MaxHead
    /\ head' = head + 1
    /\ UNCHANGED <<recorded, pending, process, faultsLeft>>

Executes(tx) ==
    /\ tx.gas = "fixed" => TransitionGas <= FixedGas
    /\ tx.first <= tx.last
    /\ Accepts(tx.first)

Mine(r) ==
    /\ pending[r] # <<>>
    /\ recorded' = IF Executes(Head(pending[r])) THEN Head(pending[r]).last ELSE recorded
    /\ pending' = [pending EXCEPT ![r] = Tail(@)]
    /\ awaited' = [awaited EXCEPT ![r] = IF @ = "pending" /\ Len(pending[r]) = 1 THEN "mined" ELSE @]
    /\ UNCHANGED <<head, up, young, seen, offer, pc, known, latest, faultsLeft>>

Drop(r) ==
    /\ pending[r] # <<>> /\ Strike("drop")
    /\ pending' = [pending EXCEPT ![r] = <<>>]
    /\ awaited' = [awaited EXCEPT ![r] = IF @ = "pending" THEN "lost" ELSE @]
    /\ UNCHANGED <<head, recorded, up, young, seen, offer, pc, known, latest>>

-----------------------------------------------------------------------------
Fetch(r) == LatestBlockFetcher(r)

Work(r) ==
    \/ EpochWorker(r)
    \/ CheckpointTransition(r) \/ CheckpointTransitionFails(r)
    \/ CreateEpochTransition(r) \/ CreateEpochTransitionFails(r) \/ Wake(r)
    \/ TxMined(r) \/ TxNotMinedInTime(r)
    \/ EpochProcessed(r) \/ DividesByZero(r)

Next ==
    \/ Grow
    \/ \E r \in Relayers : Start(r) \/ Fetch(r) \/ Work(r) \/ Mine(r) \/ Crash(r) \/ Drop(r)

(***************************************************************************)
(* The chain grows and executes what is pending, a dead process is started *)
(* again, the ticker fires every 3 seconds, and no call of the worker      *)
(* blocks forever: every wait in it has a deadline.                        *)
(***************************************************************************)
Fairness ==
    /\ WF_vars(Grow)
    /\ \A r \in Relayers :
          WF_vars(Start(r)) /\ WF_vars(Fetch(r)) /\ WF_vars(Work(r)) /\ WF_vars(Mine(r))

Spec == Init /\ [][Next]_vars /\ Fairness

-----------------------------------------------------------------------------
Places == {"idle", "checkpoint", "checkpoint_sent", "confirm", "sent", "asleep", "done"}

TypeOK ==
    /\ head \in FirstHead .. MaxHead /\ recorded \in Nat /\ faultsLeft \in 0 .. MaxFaults
    /\ pending \in [Relayers -> Seq(Transaction)]
    /\ awaited \in [Relayers -> {"none", "pending", "mined", "lost"}]
    /\ up \in [Relayers -> BOOLEAN] /\ young \in [Relayers -> BOOLEAN]
    /\ seen \in [Relayers -> Nat] /\ offer \in [Relayers -> Nat \union {None}]
    /\ pc \in [Relayers -> Places]
    /\ known \in [Relayers -> Nat] /\ latest \in [Relayers -> 0 .. recorded]

(***************************************************************************)
(* The transaction a worker waited for, mined, means that the hub has the  *)
(* epoch: the receipt's status is ignored (common.go:45-48), and rightly   *)
(* so only as long as another's transaction made the reverted one          *)
(* redundant.                                                              *)
(***************************************************************************)
SuccessIsRecorded == \A r \in Relayers : At(r, "done") => recorded >= NextEpoch(r)

(***************************************************************************)
(* Nothing is sent, and so nothing recorded, about an epoch whose first    *)
(* block does not yet have its confirmations (service.go:114, 299-303).    *)
(***************************************************************************)
OnlyConfirmed ==
    \A r \in Relayers : \A i \in DOMAIN pending[r] :
        pending[r][i].last * EpochLength + Confirmations <= head

(***************************************************************************)
(* Every relayer learns of every epoch the hub records, whoever's          *)
(* transaction did it (service.go:203-213).                                *)
(***************************************************************************)
WorkersFollow ==
    \A r \in Configured, e \in 1 .. MaxHead : recorded >= e ~> latest[r] >= e

(***************************************************************************)
(* Crashing, late, lost and racing, the relayers of a direction implement  *)
(* EpochFeed: epochs go up, are confirmed when recorded, and every         *)
(* confirmed one is recorded in the end (service.go:163-225).              *)
(***************************************************************************)
Feed == INSTANCE EpochFeed

RefinesFeed == Feed!Spec
=============================================================================
