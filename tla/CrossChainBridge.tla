-------------------------- MODULE CrossChainBridge --------------------------
(***************************************************************************)
(* contracts/bridge and ReceiptParser: a bridge on every chain locks or    *)
(* burns what is deposited and, on the chain a deposit names, mints or     *)
(* unlocks it against a proof of the deposit's receipt.                    *)
(*                                                                         *)
(* The hub of every chain is abstracted to the status and the bridge of    *)
(* the chains it knows and to its promise that an accepted block is one of *)
(* the chain it is accepted for (RelayHub, HubAgreement), which holds of a *)
(* chain registered with its own header.  Anyone registers a chain, with   *)
(* any bridge, again and again until its first transition.  Balances are   *)
(* summed over their holders; metadata is reduced to the origin.           *)
(***************************************************************************)
EXTENDS Integers, Sequences, FiniteSets, FiniteSetsExt, Functions

CONSTANTS
    Chains,
    Symbol,         \* the symbol of each chain's native token
    Scale,          \* per address, 10 ^ (18 - decimals)
    Amounts,
    Deployments     \* what may be deployed, see Deployment

(***************************************************************************)
(* A deployment says whether TestRelayHub and TestCrossChainBridge, which  *)
(* trust every receipt, replace the real contracts, which ERC20s there are *)
(* (a chain and an address), and bounds the inputs: how which chain is     *)
(* registered where (on a chain, another one, its bridge's address and     *)
(* whether the header is its own), where another contract emits events     *)
(* like a bridge's (a chain and the chain it names), who receives, what    *)
(* metadata the owners warm up, transactions with deposits, deposits of    *)
(* one transaction, how often an owner pauses a bridge.                    *)
(***************************************************************************)
NoBridge == <<"none">>
ZeroAddress == "zero"

Contracts == {"bridge", "other"} \X Chains

Deployment ==
    [testContracts : BOOLEAN, erc20s : SUBSET (Chains \X DOMAIN Scale),
     registrations : SUBSET (Chains \X Chains \X (Contracts \union {NoBridge}) \X BOOLEAN),
     emitters : SUBSET (Chains \X Chains),
     receivers : SUBSET {"account", ZeroAddress},
     metadata : SUBSET ((DOMAIN Scale) \X Chains),
     maxReceipts : Nat, maxLogs : Nat, maxPauses : Nat]

\* the pseudo-address hashed from the symbol
NativeAddress(c) == <<"native", Symbol[c]>>

\* CREATE2 from the bridge and the origin's address, which is no other token's
PeggedTokenAddress(bridge, origin) == <<"pegged", bridge, origin>>

Origins ==
    {NativeAddress(c) : c \in Chains}
        \union {token[2] : token \in UNION {d.erc20s : d \in Deployments}}

ASSUME BridgeAssumption ==
    /\ IsFiniteSet(Chains)
    /\ \A d \in Deployments : d \in Deployment
    /\ \A origin \in Origins : Scale[origin] \in Nat \ {0}
    /\ \A bridge \in Contracts, origin, p \in Origins : PeggedTokenAddress(bridge, origin) # p
    /\ \A c \in Chains : Scale[NativeAddress(c)] = 1
    /\ Amounts \subseteq Nat \ {0}

VARIABLES
    deployment, \* one of Deployments, never changed
    registeredChains, \* per chain, what its hub knows of every other chain
    paused, pauses,
    nonce,      \* _globalNonce
    locked,     \* per chain and token address, the bridge's balance
    supply,     \* per chain and origin, the pegged token's total supply
    pegged,     \* per chain and origin, the pegged token's _originChain
    logs,       \* per chain, the events of the transaction being executed
    receipts,
    usedProofs

hubs == <<deployment, registeredChains>>
owner == <<paused, pauses>>
money == <<locked, supply, pegged>>
vars == <<hubs, owner, nonce, money, logs, receipts, usedProofs>>

NoChain == "none"

Tokens(c) ==
    {NativeAddress(c)} \union {token \in Origins : <<c, token>> \in deployment.erc20s}

Init ==
    /\ deployment \in Deployments
    /\ registeredChains = [c \in Chains |-> [d \in Chains |->
           [chainStatus |-> "NotFound", bridgeAddress |-> NoBridge, genuine |-> FALSE]]]
    /\ paused = [c \in Chains |-> FALSE] /\ pauses = 0
    /\ nonce = [c \in Chains |-> 0]
    /\ locked = [c \in Chains |-> [origin \in Origins |-> 0]]
    /\ supply = [c \in Chains |-> [origin \in Origins |-> 0]]
    /\ pegged = [c \in Chains |-> [origin \in Origins |-> NoChain]]
    /\ logs = [c \in Chains |-> <<>>]
    /\ receipts = {}
    /\ usedProofs = [c \in Chains |-> {}]

-----------------------------------------------------------------------------
\* What the hubs do to a chain
RegisterBAS(c, d, bridgeAddress, genuine) ==
    /\ <<c, d, bridgeAddress, genuine>> \in deployment.registrations
    /\ registeredChains[c][d].chainStatus # "Active"
    /\ registeredChains' = [registeredChains EXCEPT ![c][d] =
          [chainStatus |-> "Verifying", bridgeAddress |-> bridgeAddress, genuine |-> genuine]]
    /\ UNCHANGED <<deployment, owner, nonce, money, logs, receipts, usedProofs>>

Register(c, d) ==
    \E bridgeAddress \in Contracts \union {NoBridge}, genuine \in BOOLEAN :
        RegisterBAS(c, d, bridgeAddress, genuine)

UpdateValidatorSet(c, d) ==
    /\ registeredChains[c][d].chainStatus = "Verifying"
    /\ registeredChains' = [registeredChains EXCEPT ![c][d].chainStatus = "Active"]
    /\ UNCHANGED <<deployment, owner, nonce, money, logs, receipts, usedProofs>>

GetBridgeAddress(c, d) == registeredChains[c][d].bridgeAddress

\* otherwise "bad chain"
Registered(c, d) == GetBridgeAddress(c, d) # NoBridge

\* where the bridge of a chain really is
BridgeAddress(d) == <<"bridge", d>>

-----------------------------------------------------------------------------
Emit(c, log) ==
    /\ Len(logs[c]) < deployment.maxLogs /\ Cardinality(receipts) < deployment.maxReceipts
    /\ logs' = [logs EXCEPT ![c] = Append(@, log)]
    /\ UNCHANGED <<hubs, owner, receipts, usedProofs>>

SameNonce(c) == UNCHANGED nonce    \* mutant

\* the nonce makes an event one of its kind
NextNonce(c) == nonce' = [nonce EXCEPT ![c] = @ + 1]

\* mutant: the bridge it is locked in
TokenOfSender(c, d, origin) == PeggedTokenAddress(BridgeAddress(c), origin)

TokenOfReceiver(c, d, origin) == PeggedTokenAddress(GetBridgeAddress(c, d), origin)

DepositLocked(c, d, to, origin, amount) ==
    [contract |-> BridgeAddress(c), kind |-> "Lock", chain |-> d, to |-> to,
     toToken |-> TokenOfReceiver(c, d, origin), amount |-> amount,
     nonce |-> nonce[c], originChain |-> c, origin |-> origin]

Lock(c, origin, amount) ==
    /\ locked' = [locked EXCEPT ![c][origin] = @ + amount]
    /\ UNCHANGED <<supply, pegged>>

DepositNative(c, d, to, amount) ==
    /\ ~ paused[c] /\ Registered(c, d)
    /\ Lock(c, NativeAddress(c), amount)
    /\ Emit(c, DepositLocked(c, d, to, NativeAddress(c), amount))
    /\ NextNonce(c)

\* amounts travel scaled to 18 decimals
DepositErc20(c, d, to, token, amount) ==
    /\ ~ paused[c] /\ Registered(c, d) /\ <<c, token>> \in deployment.erc20s
    /\ Lock(c, token, amount)
    /\ Emit(c, DepositLocked(c, d, to, token, amount * Scale[token]))
    /\ NextNonce(c)

DepositPegged(c, d, to, origin, amount) ==
    /\ ~ paused[c] /\ Registered(c, d)
    /\ pegged[c][origin] # NoChain /\ amount <= supply[c][origin]
    /\ supply' = [supply EXCEPT ![c][origin] = @ - amount]
    /\ Emit(c, [contract |-> BridgeAddress(c), kind |-> "Burn", chain |-> d, to |-> to,
                toToken |-> IF d = pegged[c][origin] THEN origin
                            ELSE PeggedTokenAddress(GetBridgeAddress(c, d), origin),
                amount |-> amount, nonce |-> nonce[c],
                originChain |-> pegged[c][origin], origin |-> origin])
    /\ NextNonce(c)
    /\ UNCHANGED <<locked, pegged>>

\* another contract's event: like the deposit of a token of c, or the burn of one of d
ForeignEvent(c, d, to, kind, origin, amount) ==
    /\ <<c, d>> \in deployment.emitters
    /\ origin \in IF kind = "Lock" THEN Tokens(c) ELSE Tokens(d)
    /\ Emit(c, [contract |-> <<"other", c>>, kind |-> kind, chain |-> d, to |-> to,
                toToken |-> IF kind = "Burn" THEN origin
                            ELSE PeggedTokenAddress(BridgeAddress(d), origin),
                amount |-> amount, nonce |-> nonce[c], originChain |-> c, origin |-> origin])
    /\ UNCHANGED <<nonce, money>>

Mined(c) ==
    /\ logs[c] # <<>>
    /\ receipts' = receipts \union {[chain |-> c, logs |-> logs[c]]}
    /\ logs' = [logs EXCEPT ![c] = <<>>]
    /\ UNCHANGED <<hubs, owner, nonce, money, usedProofs>>

-----------------------------------------------------------------------------
(***************************************************************************)
(* parseTransactionReceipt: the one event that names this chain.  Events   *)
(* of other chains are skipped, two of this one are refused.               *)
(***************************************************************************)
Addressed(c, receipt) == {i \in DOMAIN receipt.logs : receipt.logs[i].chain = c}

Parses(c, receipt) == Cardinality(Addressed(c, receipt)) = 1

PegIn(c, receipt) == receipt.logs[CHOOSE i \in Addressed(c, receipt) : TRUE]

\* the block is one of the chain the metadata names, when that was registered as itself
CheckReceiptProof(c, receipt) ==
    \/ deployment.testContracts
    \/ LET originChain == PegIn(c, receipt).originChain
       IN  /\ registeredChains[c][originChain].chainStatus = "Active"
           /\ registeredChains[c][originChain].genuine => receipt.chain = originChain

AnyContract(c, state) == TRUE    \* mutant

CheckContractAllowed(c, state) ==
    deployment.testContracts \/ GetBridgeAddress(c, state.originChain) = state.contract

Withdrawable(c, receipt) ==
    /\ ~ paused[c]
    /\ Parses(c, receipt)
    /\ CheckReceiptProof(c, receipt)
    /\ CheckContractAllowed(c, PegIn(c, receipt))
    /\ receipt.logs \notin usedProofs[c]

-----------------------------------------------------------------------------
Unlock(c, origin, amount) ==
    /\ amount <= locked[c][origin]
    /\ locked' = [locked EXCEPT ![c][origin] = @ - amount]
    /\ UNCHANGED <<supply, pegged>>

WithdrawNative(c, state) ==
    /\ state.toToken = NativeAddress(c)
    /\ Unlock(c, NativeAddress(c), state.amount)

(***************************************************************************)
(* A token that exists at the address is taken as it is, with the origin   *)
(* it was created with; one that is created must have the origin that the  *)
(* address is computed from.  token is the origin of the one at toToken.   *)
(***************************************************************************)
FactoryPeggedToken(c, toToken, token, origin, chain) ==
    /\ toToken = PeggedTokenAddress(BridgeAddress(c), token)
    /\ \/ pegged[c][token] # NoChain /\ UNCHANGED pegged
       \/ /\ pegged[c][token] = NoChain /\ token = origin
          /\ pegged' = [pegged EXCEPT ![c][token] = chain]

\* ERC20s mint and transfer nothing to the zero address
WithdrawPegged(c, state) ==
    /\ state.toToken # NativeAddress(c) /\ state.to # ZeroAddress
    /\ state.kind = "Lock" \/ state.toToken # state.origin
    /\ \E token \in Origins :
          /\ FactoryPeggedToken(c, state.toToken, token, state.origin, state.originChain)
          /\ supply' = [supply EXCEPT ![c][token] = @ + state.amount]
    /\ UNCHANGED locked

ScaledUp(amount, origin) == amount    \* mutant

ScaledDown(amount, origin) == amount \div Scale[origin]

WithdrawErc20(c, state) ==
    /\ state.toToken # NativeAddress(c) /\ state.to # ZeroAddress
    /\ state.kind = "Burn" /\ state.toToken = state.origin
    /\ Unlock(c, state.origin, ScaledDown(state.amount, state.origin))

Unused(c, receipt) == UNCHANGED usedProofs    \* mutant

MarkUsed(c, receipt) == usedProofs' = [usedProofs EXCEPT ![c] = @ \union {receipt.logs}]

Withdraw(c, receipt) ==
    /\ Withdrawable(c, receipt)
    /\ MarkUsed(c, receipt)
    /\ \/ WithdrawNative(c, PegIn(c, receipt))
       \/ WithdrawPegged(c, PegIn(c, receipt))
       \/ WithdrawErc20(c, PegIn(c, receipt))
    /\ UNCHANGED <<hubs, owner, nonce, logs, receipts>>

-----------------------------------------------------------------------------
\* The owner
Pause(c) ==
    /\ ~ paused[c] /\ pauses < deployment.maxPauses
    /\ paused' = [paused EXCEPT ![c] = TRUE] /\ pauses' = pauses + 1
    /\ UNCHANGED <<hubs, nonce, money, logs, receipts, usedProofs>>

Unpause(c) ==
    /\ paused[c]
    /\ paused' = [paused EXCEPT ![c] = FALSE]
    /\ UNCHANGED <<hubs, pauses, nonce, money, logs, receipts, usedProofs>>

\* factoryPeggedToken, with metadata that need not be those of fromChain
WarmUp(c, fromChain, origin, originChain) ==
    /\ Registered(c, fromChain) /\ pegged[c][origin] = NoChain
    /\ <<origin, originChain>> \in deployment.metadata
    /\ pegged' = [pegged EXCEPT ![c][origin] = originChain]
    /\ UNCHANGED <<hubs, owner, nonce, locked, supply, logs, receipts, usedProofs>>

-----------------------------------------------------------------------------
Deposit(c, d) ==
    \E amount \in Amounts, to \in deployment.receivers :
        \/ DepositNative(c, d, to, amount)
        \/ \E origin \in Origins :
              \/ DepositErc20(c, d, to, origin, amount)
              \/ DepositPegged(c, d, to, origin, amount)
              \/ \E kind \in {"Lock", "Burn"} : ForeignEvent(c, d, to, kind, origin, amount)

Next ==
    \/ \E c, d \in Chains :
          \/ Register(c, d) \/ UpdateValidatorSet(c, d) \/ Deposit(c, d)
          \/ \E origin \in Origins, originChain \in Chains : WarmUp(c, d, origin, originChain)
    \/ \E c \in Chains : Mined(c) \/ Pause(c) \/ Unpause(c)
    \/ \E c \in Chains, receipt \in receipts : Withdraw(c, receipt)

(***************************************************************************)
(* Transactions are mined, relayers register a chain that nobody did and   *)
(* activate what is registered, the owner unpauses, and who is owed a      *)
(* withdrawal keeps claiming it.                                           *)
(***************************************************************************)
Spec ==
    /\ Init /\ [][Next]_vars
    /\ \A c, d \in Chains :
          /\ WF_vars(UpdateValidatorSet(c, d))
          /\ WF_vars(registeredChains[c][d].chainStatus = "NotFound" /\ Register(c, d))
    /\ \A c \in Chains :
          WF_vars(Mined(c)) /\ WF_vars(Unpause(c))
          /\ SF_vars(\E receipt \in receipts : Withdraw(c, receipt))

-----------------------------------------------------------------------------
\* What the bridges still owe: every event of theirs that was not withdrawn
Due(receipt, origin) ==
    {i \in DOMAIN receipt.logs :
        /\ receipt.logs[i].origin = origin
        /\ receipt.logs[i].contract = BridgeAddress(receipt.chain)
        /\ receipt.logs \notin usedProofs[receipt.logs[i].chain]}

Owed(receipt, origin) ==
    SumFunctionOnSet([i \in DOMAIN receipt.logs |-> receipt.logs[i].amount], Due(receipt, origin))

Claimed == receipts \union {[chain |-> c, logs |-> logs[c]] : c \in Chains}

Claims(origin) == SumFunctionOnSet([receipt \in Claimed |-> Owed(receipt, origin)], Claimed)

SumOverChains(balance, origin) == SumFunctionOnSet([c \in Chains |-> balance[c][origin]], Chains)

(***************************************************************************)
(* What anyone may register under d's id, and the first transition fixes,  *)
(* is d itself with its own bridge.                                        *)
(***************************************************************************)
HonestActivation(c, d) ==
    registeredChains[c][d].chainStatus = "Active" =>
        registeredChains[c][d].genuine /\ GetBridgeAddress(c, d) = BridgeAddress(d)

HonestActivations == \A c, d \in Chains : HonestActivation(c, d)

(***************************************************************************)
(* The bridges stay solvent, when every chain was activated honestly: what *)
(* is locked of an origin covers all its pegged tokens, on every chain,    *)
(* and all deposits not yet withdrawn, whatever is paused, claimed twice,  *)
(* emitted by others or registered wrongly before the activation           *)
(* (CrossChainBridge.sol:234-271).                                         *)
(***************************************************************************)
Solvent ==
    HonestActivations =>
        \A origin \in Origins :
            SumOverChains(locked, origin) * Scale[origin]
                >= SumOverChains(supply, origin) + Claims(origin)

FromBridge(log) == \E c \in Chains : log.contract = BridgeAddress(c)

(***************************************************************************)
(* A deposit is paid at most once: no two receipts that a bridge has paid  *)
(* carry an event of the bridges in common, however deposits are batched   *)
(* into transactions (CrossChainBridge.sol:257-260, 145, 173, 212).        *)
(***************************************************************************)
PaidOnce ==
    \A c \in Chains : \A first, second \in usedProofs[c] :
        \A i \in DOMAIN first, j \in DOMAIN second :
            FromBridge(first[i]) /\ first[i] = second[j] => first = second

\* those the bounds allow
Nonces == 0 .. Max({d.maxReceipts * d.maxLogs : d \in Deployments}) - 1

Payable(receipt, i) ==
    /\ receipt.logs[i].kind = "Lock" /\ receipt.logs[i].to # ZeroAddress
    /\ receipt.logs[i].contract = BridgeAddress(receipt.chain)
    /\ Parses(receipt.logs[i].chain, receipt)

(***************************************************************************)
(* A locked deposit whose event is the only one of its transaction for its *)
(* chain is paid out there in the end, whatever else the transaction does  *)
(* and whoever pauses, when nobody registered a wrong bridge for the       *)
(* receiving chain and that chain activated the sending one honestly       *)
(* (CrossChainBridge.sol:234-253).                                         *)
(***************************************************************************)
LockedPaid ==
    \A c \in Chains : \A d \in Chains \ {c}, n \in Nonces :
        LET Locked(receipt, i) ==
                /\ receipt.chain = c /\ receipt.logs[i].chain = d /\ receipt.logs[i].nonce = n
                /\ Payable(receipt, i)
        IN  []((Registered(c, d) => GetBridgeAddress(c, d) = BridgeAddress(d)) /\ HonestActivation(d, c))
            => ((\E receipt \in receipts : \E i \in DOMAIN receipt.logs : Locked(receipt, i))
                ~> (\E receipt \in receipts : \E i \in DOMAIN receipt.logs :
                       Locked(receipt, i) /\ receipt.logs \in usedProofs[d]))
=============================================================================
