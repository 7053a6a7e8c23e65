# BAS relay hub: a formal model

This directory holds TLA+ modules that model the relay hub of this repository, TLC configurations
that check them on small instances, and theorems about them with machine-checked proofs.
`PROJECT.json` is the index: components, runs, the source lines every definition stands for,
hazards, findings and theorems.

## 1. The system

| part | state it keeps | operations | depends on |
|---|---|---|---|
| **Relay hub** `contracts/RelayHub.sol` | per chain: status, type, verifier, bridge, epoch length; the set of all validators, a bitmap of active ones and their count per epoch, checkpoints, the latest epoch | four registrations, `updateValidatorSet`, `updateValidatorSetUsingEpochBlocks`, `checkpointTransition`; views `checkReceiptProof`, `checkValidatorsAndQuorumReached`, `getActiveValidators` | a verifier, the BSC staking contract |
| **Verifiers** `contracts/verifiers` | none | parse and check sealed headers, link them, ask the hub for the quorum | hub (callback), RLP, Merkle proof |
| **Relayer** `relayer/service.go`, `proof.go`, `common.go` | per direction: last head seen, latest transitioned epoch | poll heads, build header proofs, send transitions, wait for receipts | nodes of two chains, hub |
| **Checkpoint gossip** `relayer/checkpoint.go`, `server.go`, `emitter.go` | proofs with signatures by peers | sign, stream to peers, merge, wait for a quorum | relayer, other relayers |
| **Bridge** `contracts/bridge` | locked balances, pegged tokens, used proofs, nonce, pause | deposit (native, pegged, ERC20), withdraw, token factory, pause, router | hub (`checkReceiptProof`, `getBridgeAddress`), receipt parser |
| **Libraries** `contracts/libraries` | none | RLP, receipts, Merkle proofs, bit scans | – |

A relayer follows a *source* chain and writes to the hub on a *target* chain; two workers do it in
both directions. The bridge on the target asks the hub whether a receipt belongs to a block of the
source. The hub decides by counting seals: a block of epoch *e* is accepted when it is the first of
linked headers whose sealers include two thirds of the set recorded for epoch *e − 1*; the same
count lets the epoch's first block replace the set. Anyone may call any operation of the hub, in
any order.

What is hard, and what must hold:

* **Hub.** Long sequences of legal calls: registrations repeated with other parameters before the
  first transition, transitions along either path, updates for epoch 0 in between. Validators get
  positions in one growing set, and every epoch's bitmap is a set of positions. Correct means: an
  old bitmap never comes to name other validators; no epoch between the first and the latest is
  rewritten, and none is skipped without a header of it; active chains keep their configuration; recorded sets and accepted blocks are those of
  the canonical branch as long as the previous set has an honest member in every quorum; and the
  relayer's honest proof is never refused.
* **Verifiers.** Header order, branches, seals of another chain whose validators use the same
  accounts, headers before the first block.
* **Relayer.** Time-outs racing transactions already sent, batches that revert as a whole, receipts
  of reverted transactions, a retry that waits for another head, reads that span a reorganisation,
  two relayers racing. Correct means: only confirmed epochs of the canonical branch are recorded,
  and every one of them eventually.
* **Gossip.** Lost streams, merge keyed differently from lookup, unlocked reads, channels nobody
  drains any more. Correct means: a signature is only ever attached to the checkpoint it was made
  over, no proof is written under a reader, and nothing but such a channel keeps an attempt to collect
  a quorum from ending.
* **Bridge.** What is locked covers what is minted and owed, on all chains together; a receipt is
  paid once; a deposit is paid in the end although bridges are paused and chains registered in
  between. Anyone registers a chain, so this is about chains whose first transition fixed an honest
  registration.

`PROJECT.json` "hazards" places these at their lines.

## 2. The modules

| module | models | notes |
|---|---|---|
| `ParliaVerifier` | `PoSaBlockVerifier`, `ParliaBlockVerifier` (`EmbeddedParliaBlockVerifier` makes the same checks in a precompile) | headers as records, what the checks accept |
| `RelayHub` | `RelayHub.sol` | one action per external operation that changes state; the views as operators |
| `EpochLedger` | – | abstract specification of the hub: a ledger of validator sets, no bitmaps and no indexes |
| `HubAgreement` | – | fault model (honest accounts, canonical branches), the properties that depend on it, the refinement mapping to `EpochLedger` |
| `Relayer` | `relayer/service.go`, `common.go` | one direction: fetchers, epoch workers, transactions and the processes around them, over a hub reduced to its latest epoch |
| `EpochFeed` | – | abstract specification of a direction: epochs go up, are confirmed when recorded, all are recorded |
| `ProofFeed` | `relayer/proof.go`, `parlia.go` **composed with** `RelayHub` | header by header reads from a node whose branch grows or is reorganised |
| `CheckpointGossip` | `relayer/checkpoint.go`, `server.go`, `emitter.go` and the signature part of `service.go` | any number of relayers, both directions |
| `CrossChainBridge` | `contracts/bridge`, `ReceiptParser.sol` | a bridge on every chain over the hubs' promise |
| `MerklePatriciaProof` | `libraries/MerklePatriciaProof.sol` | the walk from the receipts root to a receipt, against tries as the node software builds them |
| `HubClaims`, `RelayerClaims`, `BridgeClaims` | – | statements of comments, messages and tests that the code does not meet |
| `MCRelayHub`, `MCProofFeed`, `MCCheckpointGossip`, `MCCrossChainBridge`, `MCMerklePatriciaProof` | – | instances for TLC (`Relayer` needs none) |
| `RelayHubProofs`, `HubAgreementProofs`, `ProofFeedProofs`, `RelayerProofs`, `GossipProofs`, `BridgeProofs`, `MerkleProofs` | – | theorems, the second and third on top of the first |
| `FiniteSums` | – | induction on finite sets and lemmas about sums, for `BridgeProofs` and `MerkleProofs` |

How they fit together: `ProofFeed` extends `RelayHub`, so its transitions are the hub's own action
`UpdateValidatorSet` on proofs the relayer built. `Relayer` replaces the hub by the guard
`Accepts(e)`, which is `RelayHub!EpochFollows`, and the building of a proof by `CanBuild`; whether a
built proof is accepted is what `ProofFeed` answers. `CheckpointTransition` in `Relayer` may or may
not happen (`CheckpointsAccepted`), which is all the worker sees of `CheckpointGossip`.
`CrossChainBridge` uses of the hub what `HubAgreement!AcceptedBlocksCanonical` promises: an accepted
block is one of the chain it is accepted for, and of the receipts what `MerklePatriciaProof` shows:
a receipt is proved exactly when the block's trie holds it.

### Correspondence: hub and verifiers

* **Transactions.** A step of `Next` is one transaction. `require`, array and arithmetic panics are
  guards, since a reverted transaction changes nothing. `Multicall` runs several steps in a row in
  one transaction; every such result is reachable by the single steps.
* **State.** `registeredChains[c]` is `BAS`; `allValidators[c][v]` is the `_indexes` entry of the
  enumerable set (position from 1, 0 if absent; its length is the number of entries that are not 0,
  as values are never removed); `activeValidators[c][e]` is the set of bits of the epoch's bitmap;
  `validatorCount`, `epochCheckpoints` and `latestKnownEpoch` are the fields of those names.
* **Adding validators.** `AddAll` gives the result of the loop of `add` calls in closed form: a new
  validator's position is the length before the call plus the number of new validators named up to
  its first occurrence. `Buckets` is the word count taken *before* the loop, as in the code.
* **Headers.** A header carries `sealer` and `chain` for its 65 signature bytes: recovering it with
  chain id `c` yields `sealer` exactly when it was sealed for `c`. Headers may be sealed for chains
  the hub never registers (`ChainIds`). The byte surgery of
  `PoSaBlockVerifier.sol:20-127` is abstracted to that. Headers that do not decode are not inputs,
  since all of them revert.
* **Checkpoints.** A signature is a signer with the root it signed. Recovering it for another root
  gives an account outside every list.
* **Verification function.** A registration may name a deployed Parlia verifier or zero, which the
  hub resolves to its own. All of them make the checks of `ParliaVerifier`; contracts that make
  others are outside the model.
* **`updateValidatorSetUsingEpochBlocks`.** The loop consumes the leading epoch headers
  (`LeadingEpochBlocks`), raises the latest epoch by one for the first and records no set for it. The
  assembly then moves the array's base, and the offsets of the remaining elements, which the ABI
  reads relative to the base, are the caller's: the rest decodes to headers of the caller's choice,
  as many as are left (`Rebased`). The verifier checks that rest like any other and its epoch must be
  the one after the one passed over, whose set is asked for the quorum although it was usually never
  recorded, so its quorum is 0. When nothing was consumed the call is `updateValidatorSet`; when
  nothing is left, it records an empty list for epoch 0. The set of a passed-over epoch can thus be
  anybody's choice, while the comment of `RelayHub.sol:188` says "make sure epochs updated one by
  one": `NoEpochRewritten` and `EpochLedger` (`PassOver`) say exactly how far the code goes instead.
* **Not in the hub's state.** Events; the Merkle proof inside `checkReceiptProof`, which has a module
  of its own: a pure function whose loop is the state machine. A node stands for its hash, a path is
  a sequence of nibbles, `Look` is one turn of the loop on any node of the trie or of another
  block's. The trie itself is the reference the answers are compared with: `Nodes` lays out the node
  that holds what the trie has below a prefix, from where its keys part (`Fork`); `HonestProof` lists
  those on the way to a key.

### Correspondence: relayer

* **Goroutines.** `LatestBlockFetcher` is one tick of the fetcher; `offer` is the value it is
  blocked on (the channel has no buffer). The worker is a program counter: `EpochWorker` receives a
  number, `CheckpointTransition` and its failure are the attempt with peers' signatures,
  `CreateEpochTransition` the confirmation that follows, `TxMined` and `TxNotMinedInTime` the wait,
  `Wake` the 30 seconds after an error, `EpochProcessed` the second read of the hub.
* **Numbers.** `ConfirmedBlock` of `Relayer` and of `ProofFeed` subtracts modulo `Word`, as Go does
  for `uint64`; the guard `confirmedBlock < 0` that never holds is not there. On a chain with fewer
  blocks than confirmations the difference is near 2^64, it is handed over, and epochs that are not
  confirmed are recorded: `OnlyConfirmed` and `RecordedOnBranch` are false there. The instances start
  on chains that are long enough, so they do not exercise the wrap; the theorems name that condition
  (`LongEnough`).
* **Transactions.** `pending[r]` is in nonce order; `Mine` executes the first. A reverted one is
  mined too: its receipt counts (`common.go:45-48`). A worker that gives up leaves it pending. With
  a gas limit several epochs go in one multicall, which reverts as a whole.
* **Faults.** A transaction is mined after the wait (`late`) or never (`drop`), the process dies
  (`crash`), a call fails (`rpc`), a node reports an older head (`lag`), the statistics divide by
  zero in the first second (`instant`). Each use takes one of `MaxFaults`; nothing persists but the
  chains, so `Die` resets the process and `Start` reads the hub.
* **Proofs.** `ProofFeed` reads one header per step (`ReadBlock`), from whatever branch the node is
  on; `EnoughSigners` counts coinbases as `proof.go:62-71` does; `Submit` executes at once.

### Correspondence: gossip

* `proofsMap` has one map per process for both directions, with keys of two kinds because the code
  stores under `<<"epoch", n>>` and looks up under `<<"hash", checkpoint>>`. `heap` holds the proof
  objects the map points to, so that a change is seen through every reference.
* A listener is a channel of the emitter; nothing removes it when its stream is cut. `todo` are the
  listeners an emission has not reached. A push to a full channel waits inside the emitter (`Wait`)
  and holds its lock meanwhile: emissions of the process and new streams then wait too (`Unlocked`).
  The emitter is a library; its lock and its one push per listener are modelled from what its users
  in `relayer/` need of it and marked external.
* `Transfer` reads the proof when it is sent, not when it was emitted. `NodeFails` is any error of
  the worker's node; `TimesOut` the two-minute deadline, which covers the wait for signatures and not the emission
  before it. `NextTransition` takes up the epoch the hub asks for: the same one after a failed
  attempt, or a later one.
* Received signatures are attached to a proof as they come: `server.go:76-87` makes a proof of a
  message without verifying anything but the two lengths. All peers of the model are honest (they
  differ in the branch of their nodes), so `SignaturesOfCheckpoint` says that honest relayers mix
  nothing up, not that a message of somebody else is refused.
* `Connections` says what a client's calls do, which the gRPC library decides. With the version in
  `go.mod` a dial without credentials returns nil and an error, which is logged, and the nil
  connection is used (`server.go:43-47`); and the stream is opened with a nil call option
  (`server.go:65`), which a library may call. Either way the process dies (`ListenPanics`).
  Everything about streams is modelled for a library with which the dial succeeds and the option is
  harmless (`OpenStream`); the instance has both outcomes.

### Correspondence: bridge

* `logs[c]` are the events of the transaction being executed on `c`; `Mined` turns them into a
  receipt. `Addressed` and `Parses` are the parser's choice: events for other chains are skipped,
  a second one for this chain is refused.
* Balances are sums over holders: `locked` per token, `supply` per pegged token. The address of a
  pegged token is a function of the bridge's chain and the origin's address, as `CREATE2` makes it.
* `usedProofs` holds the receipts themselves for their hashes. The nonce makes every event different.
* **Registration.** Anyone registers a chain (`RegisterBAS` stands for the four registrations):
  under any id, with any header, with any bridge address, and again until the first transition fixes
  the last registration (`RelayHub.sol:165,177`). Of the header only one thing matters here,
  `genuine`: whether the chain registered under the id is that chain. If it is, the hub accepts only
  receipts of that chain; if not, whoever registered it makes its blocks, and `CheckReceiptProof`
  accepts a receipt of any chain. `GetBridgeAddress` is what the last registrant gave, and is what
  deposits, withdrawals and `BridgeRouter` use; `BridgeAddress(d)` is where d's bridge really is.
  What can go wrong with a rogue registration that becomes active goes wrong in the code too: money
  is only safe where the activation was honest (`HonestActivation`), and `Solvent` and `LockedPaid`
  state that as their condition. Registrations that are wrong *before* the activation are no
  exception to them.
* `FactoryPeggedToken` takes a token that exists at the address as it is, with the origin chain it was
  created with (by a withdrawal, or by the owner's `WarmUp`, whose metadata need not be those of the
  chain it names); only a new one must match the address. A mint or a transfer to the zero address
  reverts.
* `Deployments` selects the registrations that are tried, where other contracts emit, who receives,
  what is warmed up, and the real contracts or the tests' (`TestRelayHub`, `TestCrossChainBridge`),
  which trust every receipt. Only under the latter are burned tokens ever unlocked, see `burned`.

Definitions marked `mutant` in a comment are alternative bodies used to test the properties; nothing
in the specification refers to them.

## 3. What is checked

| run | instance | shows |
|---|---|---|
| `agreement` | 1 registered chain, epochs of 2 blocks, sets {a,b,f} → {a,b,c} → {b,c,f}; f is faulty and seals a branch x2–x4 of its own and a header that claims b's address; blocks of another chain sealed by the same accounts; all proofs of up to two of the chain's headers and some others; signature lists with repeated signers and mixed roots; re-based arrays that decode to any of the proofs; epoch lengths 0 and 2 | `AcceptedBlocksCanonical`, `TransitionsCanonical`, `CheckpointsSigned`: where the previous set was recorded, only the canonical branch is accepted and recorded, and nothing of another chain; `CanonicalProofAccepted`: the relayer's proof passes; `RefinesLedger`: the hub implements `EpochLedger`, its passing over of epochs included |
| `registration` | 1 chain, canonical headers only, epoch lengths 0, 1 and 2, two bridges, re-based arrays | `IndexesAgree`, `FullQuorumAccepted`, `OtherEpochsKept`, `NoEpochRewritten`, `ActiveChainsFrozen` under repeated registration |
| `follow` | 2 relayers on one direction, 2 confirmable epochs, no gas limit, one fault of any kind | `SuccessIsRecorded`: ignoring the receipt's status is right as long as gas suffices; `OnlyConfirmed`; `WorkersFollow`: both learn of every epoch; `RefinesFeed`: together they implement `EpochFeed`, its liveness included |
| `batches` | 1 relayer with a gas limit of two transitions per multicall, 4 epochs, three faults (no crash, and no late transaction, see `stuck_batch`) | `WorkersFollow`, `RefinesFeed` for batches cut by the gas limit or by the confirmed block |
| `mixed_proofs` | six validators, epochs of 4 blocks, one member replaced per epoch; two forks, one that changes the block of epoch 2 and one among the blocks that prove it; 5 confirmations, 5 blocks at the start, reorganisations of depth 5 | `RecordedOnBranch`: what is recorded is on the node's branch for good; `EveryEpochRecorded`: reads that fail or mix branches are only a delay; `BuiltProofAccepted`: the relayer's count and the hub's agree |
| `gossip` | 2 relayers on different branches, 2 epochs with quorums 1 and 2, two attempts each at the same or another epoch, channels of one proof, two streams on one server and one on the other, calls that panic | `SignaturesOfCheckpoint`, `PublishedFrozen`: no signature on another checkpoint, no write under a handler or under the worker that counts; `AttemptsEnd`: an attempt ends unless its push waits on the channel of a cut stream |
| `pegs` | 3 chains, seven deployments; real contracts between two of them: two deposits per transaction with another contract's events, and with a pause; owners that warm up the right and the wrong origin, and deposits to the zero address; registrations of another contract as the bridge and of another chain under the id, on either side and in any order before the first transition; tests' contracts: burns, unlocks and an ERC20 whose amounts double on the way, deposits for two chains in one transaction, and a peg deposited on to a third chain | `Solvent`; `PaidOnce`: the receipts a bridge has paid share no deposit; `LockedPaid` |
| `receipts` | the tries of all sets of the transaction indexes 0, 1, 2, 128 and 129 with two receipts; all paths near these; nodes of two other tries | `OnlyHeldProved`, `HeldIsProved`: exactly what the trie holds at the path is proved, although leaves and extensions are not told apart; `NodeOfPrefix` |

Four runs are expected to fail. Each states what a comment, a message or a test says and shows the
shortest behaviour in which the code does otherwise:

| run | statement | what the code does |
|---|---|---|
| `many_validators` | `RelayHub.sol:370` "to be sure quorum is well-calculated" | marks are sized by the epoch's count and indexed by the position among all validators; with words of 2 bits three successive validators suffice, with 256 it takes 257 |
| `stuck_batch` | `service.go:125` "create stream from root to child" | with a gas limit, an epoch recorded by a transaction the worker gave up on makes every later estimate revert, and the error path never reads the hub again |
| `rotating_sealers` | `proof.go:63` "make sure quorum is reached" | a sealer of the new set counts for the relayer and not for the hub; with nine validators one replaced member is enough, and every retry reads the same headers |
| `burned` | `test/cross-chain-bridge.js:205` "peg-in pegged to native (burn)" | a burn's metadata name the origin chain, so its receipt is asked for on a chain where it is not |

### What the properties take into account

Behaviours of the code that the models have and that limit how a property can be stated:

* For an epoch that was never recorded the count is 0 and any list is a quorum
  (`RelayHub.sol:377`), also when `updateValidatorSetUsingEpochBlocks` has just passed it over, and an update for epoch 0 always passes the guard (`RelayHub.sol:189`). The
  agreement properties are therefore about epochs whose predecessor was recorded with an honest
  enough set (`HonestQuorums`).
* `updateValidatorSetUsingEpochBlocks` requires the snapshots to differ, where its comments say they
  must not (`RelayHub.sol:292-293`), passes over one epoch at most, and records an empty list for epoch 0
  when no header is left, which `NoEpochRewritten` excludes by its epochs.
* `FullQuorumAccepted` is about sets that fit one word, where it catches a wrong rounding of the
  words or a wrong count; that positions outgrow the words is the run `many_validators`. An empty recorded
  list has quorum 0, so no property refuses it. `ActiveChainsFrozen` begins with the first
  transition: what a changing bridge address does before that shows in `LockedPaid`.
* The BSC branch of `checkpointTransition` counts signatures, not signers (`RelayHub.sol:332`):
  `CheckpointsSigned` speaks of BAS chains, and `TransitionsCanonical` asks for honest stakers (`HonestStakers`).
* Relayers sign the checkpoint hash, the hub recovers signers from the block hash together with it
  (`checkpoint.go:70`, `RelayHub.sol:335`): no collected quorum counts in the hub. `Relayer` keeps
  both outcomes (`CheckpointsAccepted`).
* The confirmed block of a chain shorter than its confirmations is near 2^64 (`service.go:114`), and
  a mined transaction that ran out of gas counts as done (`common.go:46`): the assumptions
  `LongEnough` and `GasSuffices`.
* A proof is stored under its epoch and looked up under its checkpoint hash (`service.go:85`): what a
  peer sends for the checkpoint a worker waits on replaces the proof in the map and never joins the
  one the worker holds, so an attempt ends with the worker's own signature or in its deadline.
  `AttemptsEnd` asks that it ends, not that it has a quorum.
* The channel of a cut stream stays among the listeners and nobody reads it (`server.go:92`). When it is
  full, the next emission waits for ever with the emitter's lock held, and with it every later attempt
  of the process. `AttemptsEnd` names that state (`Stuck`) as the one exception, and without the
  exception it is violated; a push that waits on a stream that is still served is not one.
* Until a chain's first transition its bridge address may change under a deposit that was addressed to
  a peg of the first one (`RelayHub.sol:165`); if the last address is wrong the deposit is never paid.
  `LockedPaid` asks that nobody registered a wrong bridge for the receiving chain while deposits were
  made, and that the receiving chain activated the sender honestly, whatever was registered before.
  It leaves out deposits to the zero address, which no token mints to, and deposits for the chain they are
  made on.
* An absent value of a branch is the empty string, so the empty string is proved at a path that ends
  in a branch. Callers ask for receipts, which are never empty.
* Tokens at one address on two chains share one pegged token (`BridgeRouter.sol:12`): `Solvent` sums
  over an address.

### Bounds

* Hub: a quorum of three validators is two, so one faulty validator is just below it and any two
  distinct members are just enough; with repeated headers the branch x2–x4 has three seals of one
  signer. `BitsPerBucket` is 4, the number of accounts that are ever listed, which puts the last
  position at the edge of a word (256 in the code). `MaxEpoch` bounds the numbers of the headers,
  not the behaviour: no guard mentions it. In `agreement` it leaves epochs 1 to 3, the least with an
  epoch that is passed over and one after it (20,961 states); `registration` has 6 (56,439 states).
* Relayer: `MaxHead` ends the chain; a poll there may repeat, standing for all later ones.
  `MaxPending` of 2 leaves room for one transaction that was given up on and the retry.
  `Word` is 64 for 2^64.
* Proofs: the two forks are placed so that each of the interesting reads happens: an epoch block
  that is replaced before it is confirmed, and a proof that is read while its tail is replaced. A
  proof of four blocks outlasts reorganisations of fewer, so five confirmations are the least with
  which both matter.
* Receipts: the encodings of 128 and 129 share three nibbles, so tries have leaves, extensions and
  branches at every parity of the path; `MaxSiblings` of 5 is the longest proof.
* Gossip: `ChannelCapacity` of 1 (10,000 in the code) is less than the two attempts of a worker
  (`MaxAttempts`) emit, so channels of live and of cut streams fill up, pushes wait, and the emitter
  gets stuck. The attempts reach stale listeners, a proof that arrives for another epoch, the same
  epoch again, and both outcomes of the wait. `MaxStreams` gives one server two streams and the
  other one (256,516 states). The two directions of one process are in the theorems, not in this
  instance.
* Bridge: two transactions of two events are the least with a second claim, a foreign event among
  the bridge's and, with a third chain, an event for another chain next to one for this; three
  transactions let a token go out, back and out again. The foreign events, the pause, the
  warm-ups and the wrong registrations are in deployments of their own, and deposits for two chains in
  one whose bridges need no registration to pay. A wrong registration names a contract
  that is not the bridge, or has a header that is not the chain's, and comes before or after the right
  one. Amounts are 1 (scaled to 2): solvency is
  linear in them. All deployments together have 37,164 states.

### Fairness

* **Hub:** none. Nothing obliges anyone to call it; liveness belongs to the relayer.
* **Relayer:** weak fairness of the chain's growth, of the fetcher (a ticker every 3 seconds), of
  the worker (every wait in it has a deadline: two minutes for checkpoints, 30 tries for a receipt,
  30 seconds after an error), of mining, and of the restart of a dead process.
* **Proofs:** weak fairness of the chain's growth, of registration and of the worker's next read.
* **Gossip:** weak fairness of each worker and of each listening loop, and of the end of each stream,
  which the client's deadline of 15 seconds brings about (`server.go:63`). Nothing else is assumed of
  a stream's life: it may be cut before it delivers anything.
* **Bridge:** weak fairness of a first registration, by anyone and of whatever the deployment
  offers, of activation (the relayer's liveness), mining and unpausing; strong fairness of withdrawals, as a claimant keeps trying while the owner pauses.

`LockedPaid` is stated for deposits that are alone in their transaction for their chain
(`Payable`): the parser refuses a receipt with two, and then neither is ever paid.

## 4. What is proved

For every value of the constants that satisfies the assumptions (finite accounts; well-typed
headers, proofs and signature lists; in `HubAgreement`, honest accounts that seal and sign only
canonical headers, hashes that identify headers, and no zero address among the stakers; in
`ProofFeed`, hashes that identify headers, all of them of the source chain):

* `TypeCorrect` (`RelayHubProofs`): `TypeOK` always holds. The inductive invariant adds
  `EpochLengthsKnown`: a registered chain's epoch length is one a registration named, never 0,
  without which the divisions of a transition would not be epochs.
* `IndexesAlwaysAgree` (`RelayHubProofs`): `IndexesAgree` always holds. `AddAllKeepsPositions`
  shows that the closed form of the loop yields positions 1 .. length, one each; `NothingKept`
  shows that no bit of an earlier recording of an epoch survives, because every bit is a position
  and lies in a word the next recording allocates; with both, the bits and the count agree.
* `AcceptedBlocksAlwaysCanonical` (`HubAgreementProofs`): `AcceptedBlocksCanonical` always holds.
  A quorum contains an honest member (`QuorumHasHonestMember`, a counting argument), its header is
  canonical and of the chain asked about, and canonicity goes back along parent hashes to the first
  header (`LinkedToCanonical`, by the least canonical position).

* `OtherEpochsAlwaysKept`, `NoEpochEverRewritten`, `ActiveChainsStayFrozen` (`RelayHubProofs`):
  the three action properties of `registration`. `RecordingKeepsOthers` is their core: new
  validators take positions of their own, so an old bitmap still names the validators it named
  (this needs `IndexesAgree`); `StepEffect` sums up what any operation does to the history.
* `TransitionsAlwaysCanonical`, `CheckpointsAlwaysSigned` (`HubAgreementProofs`): the recorded set
  is the list it was recorded from (`RecordedSet`), and the header it comes from is canonical,
  either through a quorum of seals (`QuorumOfCanonicalBlock`) or through an honest signature over
  its checkpoint (`HonestSignature`, `CheckpointedHeaderCanonical`).
* `HubRefinesLedger` (`HubAgreementProofs`): `Spec` implements `EpochLedger`, for whatever headers a
  re-based array decodes to. Every operation is mapped by
  a lemma of its own to an anchoring, an advance, a passing over, a restart or a stutter, on the facts that
  `RecordsInLedger` (what is recorded becomes the ledger's set) and `QuorumIsTwoThirds` (positions
  that count are distinct members) establish. `HubInv` is not enough: a signature over something else
  recovers the zero address, so `LedgerInv` adds that the zero address is in no set (`NobodyListed`).
* `FullQuorumAlwaysAccepted` (`RelayHubProofs`), `CanonicalProofAlwaysAccepted` (`HubAgreementProofs`): the converse of
  agreement, that the hub refuses nothing it should take. Both assume `OneWord`, that the accounts
  headers ever list fit one bitmap word (256 in the code); without it they are false, as the run
  `many_validators` shows. The first also assumes that no header repeats a validator
  (`DistinctLists`: the recorded count is the length of the list), the second that canonical headers
  are sealed by their coinbase (`CanonicalSealed`). `QuorumInv` adds to `HubInv` that the enumerable set
  holds only accounts a header listed; `CountExact` that the recorded counts are exact.

All the hub's action properties follow from the inductive invariant `HubInv` (`TypeInv` and
`IndexesAgree`).

For the relayer's proofs (`ProofFeedProofs`), any tree of headers, any branch the node may hold and
any epoch length:

* `RecordedStaysOnBranch`: `RecordedOnBranch` always holds, if no reorganisation is deeper than the
  confirmations (`MaxReorg <= Confirmations`; one block deeper, and an epoch that was recorded can be
  reorganised away) and the chain has as many blocks as confirmations when the relayer starts
  (`LongEnough`; on a shorter one the confirmed number wraps and the property is false).
* `BuiltProofsAccepted`: `BuiltProofAccepted` always holds, under the same conditions and `OneWord`. The
  relayer counts headers with a validator of the *previous epoch's block, as it was read*; the hub
  counts bits of a bitmap. That both counts agree needs every recorded epoch to be the list of the
  node's own block, which is the first theorem's invariant.

Both rest on `FeedInv`: the hub's `QuorumInv`, and `FeedLocal`, which TLC checked on the instances of
`mixed_proofs` and `rotating_sealers` before it was proved. It says that every recorded epoch is the list of the block that is on
the node's branch at the epoch's start and is not above what was confirmed (`EpochsOnBranch`), that
a half-built proof has consecutive numbers from the next epoch's block on, whose first block is on
the branch while later ones may not be (`ReadingNext`, which is why mixed proofs only delay), and
that what was confirmed is below the tip by the confirmations (`Rooted`). The property alone is not
inductive: it says nothing of the proof that will be recorded next. `Branch` is a recursive function
over the tree; its equation holds because the least closed set around a header (`Ancestors`) solves
it (`BranchUnfolds`), and `BranchesAgree` is what a reorganisation keeps.

For the relayer's service (`RelayerProofs`), any number of relayers and any faults:

* `TypesHold`. `TypeOK` includes that no worker is ahead of the hub, which makes it inductive.
* `ConfirmedOnly`, under `LongEnough` (the chain is at least as long as the confirmations when the
  relayers start; without it the unsigned difference wraps and the property is false). The invariant
  `ConfirmInv` follows a confirmed number from the fetcher's offer through the worker's `known` into
  the transaction, while the head only grows.
* `FeedRefined`, under the same assumption: initial states and steps map to `EpochFeed`. The only
  steps that change the abstract state are `Grow` and `Mine`; for a `Mine` that executes, `ConfirmInv`
  gives the confirmation of the last epoch of the batch.
* `MinedMeansRecorded`, under `GasSuffices` (the fixed gas covers a transition and a batch holds at
  least one; without it a receipt of nothing counts as success). The invariant `SuccessInv` says that
  an awaited transaction starts at the worker's next epoch, so if it reverts the hub is past it.

For the gossip (`GossipProofs`), any number of peers, branches, epochs and capacities:

* `TypesHold`, `SignaturesAlwaysOfCheckpoint` and `PublishedAlwaysFrozen`, from one inductive
  invariant `GossipInv`, for honest peers that sign what they compute: lookups by hash always fail (nothing is ever stored under one), every object
  and message carries signatures of its own checkpoint, and the queues of a relayer hold only proofs
  of its own. Merging therefore always stores a message as an object of its own and never writes one
  that a handler may be reading: the mismatch of keys that loses signatures is also what keeps the unlocked reads safe.

For the bridge (`BridgeProofs`), any chains, tokens, deployments and numbers of deposits:

* `TypesHold`: no locked balance and no supply is ever negative.
* `DepositsPaidOnce`: `PaidOnce` always holds. A paid receipt is marked, but nothing marks a deposit;
  that it is in no other receipt needs the inductive invariant `EventsInv`: the nonce of a bridge's
  event is spent (`SpentInLogs`, `SpentInReceipts`), the event is in one receipt only
  (`InOneReceipt`), and none of the running transaction's is mined yet (`NotYetMined`).

* `AlwaysSolvent`: `Solvent` always holds, for any scales, any registrations by anyone before the
  activations and however deposits are batched. `Solvent` itself is about states in which every active chain
  was activated honestly, which is an assumption on the first transitions and not on who registers:
  a chain activated as something else takes what others have locked, in the code as in the model.
  Activations are final, so all earlier states were honest too (`HonestBefore`). Besides
  `EventsInv`, `SolventInv` needs that receipts are finitely many and `TrustedEvents`: a bridge's event
  names its origin or a peg of it for the receiver (else a burn could unlock native coins of another
  origin), and where the tests' contracts are deployed no other contract emits (`TestsAlone`; they
  trust every receipt, so without it the theorem is false). Each operation is shown to change the
  backing (locked minus minted) by at least what it changes the claims: `DepositBacks` and
  `ClaimsAfterDeposit`, `ClaimsAfterMined`, `WithdrawBacks` and `ClaimsAfterWithdraw`. The sums are the
  library's fold; `FiniteSums` shows that its recursive function exists and that the order does not
  matter, by induction on subsets stated as membership in a set of sets. The scale of native coins
  (1) and the finiteness of `Chains` are assumptions of the module.

For the receipt proofs (`MerkleProofs`), any finite trie whose keys are nonempty and no prefixes of
each other, any path of nibbles, any receipts and any nodes of other tries (a node stands for its
hash, so distinct nodes have distinct hashes):

* `AlwaysNodeOfPrefix`, `OnlyHeldEverProved`: `NodeOfPrefix` and `OnlyHeldProved` always hold, from
  `WalkInv`, whose inductive part is `NodeOfPrefix`. `EncodedDecoded` shows that `_getNibbleArray`
  undoes the hex-prefix encoding at both parities; `LeafFollowed`, `ExtensionFollowed` and
  `BranchFollowed` say what one turn of the loop makes of each kind of node (a leaf that ends before
  the path does reverts, as its receipt is taken for a hash).
* `HeldAlwaysProved`: `HeldIsProved` always holds. It says nothing until the last node, so `HeldInv`
  adds that `pathPtr` is the depth of the next node of the honest proof; `NextDepth` shows that a
  node leads to the next depth at which there is a node, and `NthGoesOn` counts them.

`Nodes` is a recursive function on prefixes. That it exists is shown level by level from the
longest key up (`OneLevelUp`, `NodesUnfold`), as the least level from which the nodes can be laid out
is 0. TLC checked `WalkInv` and `HeldInv` on the instance of `receipts` before they were proved.

**Only model-checked:** all liveness (`WorkersFollow`, the fairness of `EpochFeed`,
`EveryEpochRecorded`, `AttemptsEnd`, `LockedPaid`), which is out of the prover's reach. Every
invariant and action property of the passing runs is a theorem. The refuted statements need no proof.

## 5. Not modelled

* RLP, strings and bit scans: byte operations without state. Their callers are modelled by what a
  successful decoding yields; input that does not decode reverts and changes nothing.
* The process shell: options, environment, logging, the statistics (but for the division that ends
  the process). `Stop` is never called.
* Generated bindings, but for the calls the relayer makes.
* Of the bridge: `setTokenFactory` and `changeRouter` (owner's replacements of code), transfers of
  pegged tokens between holders, which leave the sums alone, and ERC20 contracts that do not keep
  their interface.
* Deployment scripts and fake verifiers. The deployment script (`migrations/1_relay_hub.js`) gives
  the hub a zero staking address where there is no staking contract, so there the BSC branch of
  `checkpointTransition` always reverts; the model keeps the branch with a staking contract of
  constant membership.
