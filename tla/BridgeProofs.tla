---------------------------- MODULE BridgeProofs ----------------------------
(***************************************************************************)
(* Proofs about the bridges, for any number of chains, tokens, deposits    *)
(* and deployments: a deposit is paid at most once, and what is locked     *)
(* covers what is minted and owed.                                         *)
(***************************************************************************)
EXTENDS CrossChainBridge, FiniteSums

Bridges == Contracts \union {NoBridge}

Addresses == Origins \union {PeggedTokenAddress(b, origin) : b \in Bridges, origin \in Origins}

Event ==
    [contract : Contracts, kind : {"Lock", "Burn"}, chain : Chains,
     to : {"account", ZeroAddress}, toToken : Addresses,
     amount : Nat, nonce : Nat, originChain : Chains, origin : Origins]

Receipt == [chain : Chains, logs : Seq(Event)]

TypeOK ==
    /\ deployment \in Deployments
    /\ registeredChains \in [Chains -> [Chains ->
          [chainStatus : {"NotFound", "Verifying", "Active"}, bridgeAddress : Bridges,
           genuine : BOOLEAN]]]
    /\ paused \in [Chains -> BOOLEAN] /\ pauses \in Nat
    /\ nonce \in [Chains -> Nat]
    /\ locked \in [Chains -> [Origins -> Nat]]
    /\ supply \in [Chains -> [Origins -> Nat]]
    /\ pegged \in [Chains -> [Origins -> Chains \union {NoChain}]]
    /\ logs \in [Chains -> Seq(Event)]
    /\ receipts \in SUBSET Receipt
    /\ usedProofs \in [Chains -> SUBSET Seq(Event)]

Emitted(c, log) == logs' = [logs EXCEPT ![c] = Append(@, log)]

-----------------------------------------------------------------------------
LEMMA NativeOrigin == \A c \in Chains : NativeAddress(c) \in Origins
BY DEF Origins

LEMMA BridgeContract == \A c \in Chains : BridgeAddress(c) \in Contracts /\ <<"other", c>> \in Contracts
BY DEF BridgeAddress, Contracts

LEMMA ReceiverType ==
    ASSUME TypeOK, NEW to \in deployment.receivers PROVE to \in {"account", ZeroAddress}
<1>1. deployment \in Deployment
  BY BridgeAssumption DEF TypeOK
<1> QED
  BY <1>1 DEF Deployment

LEMMA PeggedType ==
    ASSUME TypeOK, NEW c \in Chains, NEW d \in Chains, NEW origin \in Origins
    PROVE  PeggedTokenAddress(GetBridgeAddress(c, d), origin) \in Addresses
<1>1. GetBridgeAddress(c, d) \in Bridges
  BY DEF GetBridgeAddress, TypeOK
<1> QED
  BY <1>1 DEF Addresses

LEMMA ForeignType ==
    ASSUME TypeOK, NEW c \in Chains, NEW d \in Chains, NEW to \in deployment.receivers,
           NEW kind \in {"Lock", "Burn"}, NEW origin \in Origins, NEW amount \in Nat
    PROVE  [contract |-> <<"other", c>>, kind |-> kind, chain |-> d, to |-> to,
            toToken |-> IF kind = "Burn" THEN origin
                        ELSE PeggedTokenAddress(BridgeAddress(d), origin),
            amount |-> amount, nonce |-> nonce[c], originChain |-> c, origin |-> origin] \in Event
<1>1. nonce[c] \in Nat
  BY DEF TypeOK
<1>2. PeggedTokenAddress(BridgeAddress(d), origin) \in Addresses
  <2>1. BridgeAddress(d) \in Bridges
    BY BridgeContract DEF Bridges
  <2> QED
    BY <2>1 DEF Addresses
<1>3. (IF kind = "Burn" THEN origin ELSE PeggedTokenAddress(BridgeAddress(d), origin)) \in Addresses
  BY <1>2 DEF Addresses
<1>4. to \in {"account", ZeroAddress} /\ <<"other", c>> \in Contracts
  BY ReceiverType, BridgeContract
<1> QED
  BY <1>1, <1>3, <1>4 DEF Event

LEMMA LockedEvent ==
    ASSUME TypeOK, NEW c \in Chains, NEW d \in Chains, NEW to \in deployment.receivers,
           NEW origin \in Origins, NEW amount \in Nat
    PROVE  DepositLocked(c, d, to, origin, amount) \in Event
<1>1. nonce[c] \in Nat
  BY DEF TypeOK
<1>2. to \in {"account", ZeroAddress}
  BY ReceiverType
<1>3. TokenOfReceiver(c, d, origin) \in Addresses
  BY PeggedType DEF TokenOfReceiver
<1> QED
  BY <1>1, <1>2, <1>3, BridgeContract DEF DepositLocked, Event

\* Which event a deposit emits, and what else it changes.
LEMMA DepositEffect ==
    ASSUME TypeOK, NEW c \in Chains, NEW d \in Chains, Deposit(c, d)
    PROVE  /\ UNCHANGED <<hubs, owner, receipts, usedProofs, pegged>>
           /\ locked' \in [Chains -> [Origins -> Nat]] /\ supply' \in [Chains -> [Origins -> Nat]]
           /\ \E log \in Event :
                 /\ Emitted(c, log)
                 /\ \/ /\ log.contract = BridgeAddress(c) /\ log.nonce = nonce[c]
                       /\ nonce' = [nonce EXCEPT ![c] = @ + 1]
                    \/ ~ FromBridge(log) /\ nonce' = nonce
<1> USE DEF Emit, Emitted
<1>1. PICK amount \in Amounts, to \in deployment.receivers :
         \/ DepositNative(c, d, to, amount)
         \/ \E origin \in Origins :
               \/ DepositErc20(c, d, to, origin, amount)
               \/ DepositPegged(c, d, to, origin, amount)
               \/ \E kind \in {"Lock", "Burn"} : ForeignEvent(c, d, to, kind, origin, amount)
  BY DEF Deposit
<1>2. amount \in Nat
  BY BridgeAssumption
<1>3. \A origin \in Origins : locked[c][origin] + amount \in Nat
  BY <1>2 DEF TypeOK
<1>4. \A origin \in Origins : Lock(c, origin, amount) =>
         /\ locked' \in [Chains -> [Origins -> Nat]] /\ UNCHANGED <<supply, pegged>>
  BY <1>3 DEF Lock, TypeOK
<1>5. CASE DepositNative(c, d, to, amount)
  <2>1. DepositLocked(c, d, to, NativeAddress(c), amount) \in Event
    BY <1>2, NativeOrigin, LockedEvent
  <2> QED
    BY <1>4, <1>5, <2>1, NativeOrigin DEF DepositNative, DepositLocked, NextNonce, TypeOK
<1>6. ASSUME NEW origin \in Origins, DepositErc20(c, d, to, origin, amount)
      PROVE  /\ UNCHANGED <<hubs, owner, receipts, usedProofs, pegged>>
             /\ locked' \in [Chains -> [Origins -> Nat]] /\ supply' \in [Chains -> [Origins -> Nat]]
             /\ \E log \in Event :
                   /\ Emitted(c, log) /\ log.contract = BridgeAddress(c) /\ log.nonce = nonce[c]
                   /\ nonce' = [nonce EXCEPT ![c] = @ + 1]
  <2>1. amount * Scale[origin] \in Nat
    BY <1>2, BridgeAssumption
  <2>2. DepositLocked(c, d, to, origin, amount * Scale[origin]) \in Event
    BY <2>1, LockedEvent
  <2> QED
    BY <1>4, <1>6, <2>2 DEF DepositErc20, DepositLocked, NextNonce, TypeOK
<1>7. ASSUME NEW origin \in Origins, DepositPegged(c, d, to, origin, amount)
      PROVE  /\ UNCHANGED <<hubs, owner, receipts, usedProofs, pegged>>
             /\ locked' \in [Chains -> [Origins -> Nat]] /\ supply' \in [Chains -> [Origins -> Nat]]
             /\ \E log \in Event :
                   /\ Emitted(c, log) /\ log.contract = BridgeAddress(c) /\ log.nonce = nonce[c]
                   /\ nonce' = [nonce EXCEPT ![c] = @ + 1]
  <2> DEFINE burnt == [contract |-> BridgeAddress(c), kind |-> "Burn", chain |-> d, to |-> to,
                       toToken |-> IF d = pegged[c][origin] THEN origin
                                   ELSE PeggedTokenAddress(GetBridgeAddress(c, d), origin),
                       amount |-> amount, nonce |-> nonce[c],
                       originChain |-> pegged[c][origin], origin |-> origin]
  <2>1. pegged[c][origin] \in Chains /\ nonce[c] \in Nat
    BY <1>7 DEF DepositPegged, TypeOK
  <2>2. burnt.toToken \in Addresses
    BY PeggedType DEF Addresses
  <2>3. burnt \in Event
    BY <1>2, <2>1, <2>2, ReceiverType, BridgeContract DEF Event
  <2>4. supply[c][origin] - amount \in Nat
    BY <1>2, <1>7 DEF DepositPegged, TypeOK
  <2>5. supply' \in [Chains -> [Origins -> Nat]]
    BY <1>7, <2>4 DEF DepositPegged, TypeOK
  <2>6. Emitted(c, burnt) /\ burnt.contract = BridgeAddress(c) /\ burnt.nonce = nonce[c]
    BY <1>7 DEF DepositPegged
  <2> QED
    BY <1>7, <2>3, <2>5, <2>6 DEF DepositPegged, NextNonce, TypeOK
<1>8. ASSUME NEW origin \in Origins, NEW kind \in {"Lock", "Burn"},
             ForeignEvent(c, d, to, kind, origin, amount)
      PROVE  /\ UNCHANGED <<hubs, owner, receipts, usedProofs, pegged>>
             /\ locked' \in [Chains -> [Origins -> Nat]] /\ supply' \in [Chains -> [Origins -> Nat]]
             /\ \E log \in Event : Emitted(c, log) /\ ~ FromBridge(log) /\ nonce' = nonce
  <2> DEFINE foreign == [contract |-> <<"other", c>>, kind |-> kind, chain |-> d, to |-> to,
                         toToken |-> IF kind = "Burn" THEN origin
                                     ELSE PeggedTokenAddress(BridgeAddress(d), origin),
                         amount |-> amount, nonce |-> nonce[c], originChain |-> c,
                         origin |-> origin]
  <2>1. foreign \in Event
    BY <1>2, ForeignType
  <2>2. foreign \in Event /\ foreign.contract = <<"other", c>>
    BY <2>1
  <2>3. ~ FromBridge(foreign)
    BY <2>2 DEF FromBridge, BridgeAddress
  <2> QED
    BY <1>8, <2>2, <2>3 DEF ForeignEvent, money, TypeOK
<1> QED
  BY <1>1, <1>5, <1>6, <1>7, <1>8

-----------------------------------------------------------------------------
LEMMA PegInEvent ==
    ASSUME TypeOK, NEW c \in Chains, NEW receipt \in receipts, Parses(c, receipt)
    PROVE  PegIn(c, receipt) \in Event
<1>1. Addressed(c, receipt) # {}
  BY FS_EmptySet DEF Parses
<1>2. (CHOOSE i \in Addressed(c, receipt) : TRUE) \in DOMAIN receipt.logs
  BY <1>1 DEF Addressed
<1>3. receipt.logs \in Seq(Event)
  BY DEF TypeOK, Receipt
<1> QED
  BY <1>2, <1>3 DEF PegIn

LEMMA WithdrawEffect ==
    ASSUME TypeOK, NEW c \in Chains, NEW receipt \in receipts, Withdraw(c, receipt)
    PROVE  /\ UNCHANGED <<hubs, owner, nonce, logs, receipts>>
           /\ usedProofs' = [usedProofs EXCEPT ![c] = @ \union {receipt.logs}]
           /\ locked' \in [Chains -> [Origins -> Nat]] /\ supply' \in [Chains -> [Origins -> Nat]]
           /\ pegged' \in [Chains -> [Origins -> Chains \union {NoChain}]]
<1> DEFINE state == PegIn(c, receipt)
<1>1. state \in Event
  BY PegInEvent DEF Withdraw, Withdrawable
<1> HIDE DEF state
<1>2. state.amount \in Nat /\ state.origin \in Origins /\ state.originChain \in Chains
  BY <1>1 DEF Event
<1>3. ASSUME NEW origin \in Origins, NEW amount \in Nat, Unlock(c, origin, amount)
      PROVE  locked' \in [Chains -> [Origins -> Nat]] /\ UNCHANGED <<supply, pegged>>
  <2>1. locked[c][origin] - amount \in Nat
    BY <1>3 DEF Unlock, TypeOK
  <2> QED
    BY <1>3, <2>1 DEF Unlock, TypeOK
<1>4. CASE WithdrawNative(c, state)
  BY <1>2, <1>3, <1>4, NativeOrigin DEF WithdrawNative, Withdraw, MarkUsed, TypeOK
<1>5. CASE WithdrawPegged(c, state)
  <2>1. PICK token \in Origins :
           /\ FactoryPeggedToken(c, state.toToken, token, state.origin, state.originChain)
           /\ supply' = [supply EXCEPT ![c][token] = @ + state.amount]
    BY <1>5 DEF WithdrawPegged
  <2>2. supply[c][token] + state.amount \in Nat
    BY <1>2 DEF TypeOK
  <2>3. pegged' \in [Chains -> [Origins -> Chains \union {NoChain}]]
    <3>1. pegged \in [Chains -> [Origins -> Chains \union {NoChain}]]
      BY DEF TypeOK
    <3>2. pegged' = pegged \/ pegged' = [pegged EXCEPT ![c][token] = state.originChain]
      BY <2>1 DEF FactoryPeggedToken
    <3> QED
      BY <1>2, <3>1, <3>2
  <2>4. supply' \in [Chains -> [Origins -> Nat]] /\ locked' = locked
    BY <1>5, <2>1, <2>2 DEF WithdrawPegged, TypeOK
  <2> QED
    BY <2>3, <2>4 DEF Withdraw, MarkUsed, TypeOK
<1>6. CASE WithdrawErc20(c, state)
  <2>1. ScaledDown(state.amount, state.origin) \in Nat
    BY <1>2, BridgeAssumption DEF ScaledDown
  <2> QED
    BY <1>2, <1>3, <1>6, <2>1 DEF WithdrawErc20, Withdraw, MarkUsed, TypeOK
<1> QED
  BY <1>4, <1>5, <1>6 DEF Withdraw, state

LEMMA MinedEffect ==
    ASSUME TypeOK, NEW c \in Chains, Mined(c)
    PROVE  /\ [chain |-> c, logs |-> logs[c]] \in Receipt
           /\ receipts' = receipts \union {[chain |-> c, logs |-> logs[c]]}
           /\ logs' = [logs EXCEPT ![c] = <<>>]
           /\ UNCHANGED <<hubs, owner, nonce, money, usedProofs>>
BY DEF Mined, TypeOK, Receipt

\* What the other operations do: they touch neither events nor receipts.
Quiet == UNCHANGED <<nonce, logs, receipts, usedProofs>>

LEMMA OthersQuiet ==
    ASSUME TypeOK, NEW c \in Chains, NEW d \in Chains,
           \/ Register(c, d) \/ UpdateValidatorSet(c, d) \/ Pause(c) \/ Unpause(c)
           \/ \E origin \in Origins, originChain \in Chains : WarmUp(c, d, origin, originChain)
    PROVE  Quiet /\ TypeOK'
<1>1. CASE Register(c, d)
  BY <1>1 DEF Register, RegisterBAS, Bridges, Quiet, TypeOK, owner, money
<1>2. CASE UpdateValidatorSet(c, d)
  <2> DEFINE known == registeredChains[c][d]
  <2>1. known \in [chainStatus : {"NotFound", "Verifying", "Active"}, bridgeAddress : Bridges,
                   genuine : BOOLEAN]
    BY DEF TypeOK
  <2>2. [known EXCEPT !.chainStatus = "Active"] \in
            [chainStatus : {"NotFound", "Verifying", "Active"}, bridgeAddress : Bridges,
             genuine : BOOLEAN]
    BY <2>1
  <2>3. registeredChains' =
            [registeredChains EXCEPT ![c][d] = [known EXCEPT !.chainStatus = "Active"]]
    BY <1>2 DEF UpdateValidatorSet
  <2> HIDE DEF known
  <2>4. registeredChains' \in [Chains -> [Chains ->
           [chainStatus : {"NotFound", "Verifying", "Active"}, bridgeAddress : Bridges,
            genuine : BOOLEAN]]]
    BY <2>2, <2>3 DEF TypeOK
  <2> QED
    BY <1>2, <2>4 DEF UpdateValidatorSet, Quiet, TypeOK, owner, money
<1>3. CASE Pause(c)
  BY <1>3 DEF Pause, Quiet, TypeOK, hubs, money
<1>4. CASE Unpause(c)
  BY <1>4 DEF Unpause, Quiet, TypeOK, hubs, money
<1>5. ASSUME NEW origin \in Origins, NEW originChain \in Chains, WarmUp(c, d, origin, originChain)
      PROVE  Quiet /\ TypeOK'
  BY <1>5 DEF WarmUp, Quiet, TypeOK, hubs, owner
<1> QED
  BY <1>1, <1>2, <1>3, <1>4, <1>5

LEMMA StepKeepsTypes == TypeOK /\ [Next]_vars => TypeOK'
<1> SUFFICES ASSUME TypeOK, [Next]_vars PROVE TypeOK'
  OBVIOUS
<1>1. ASSUME NEW c \in Chains, NEW d \in Chains, Deposit(c, d) PROVE TypeOK'
  <2>1. PICK log \in Event :
           /\ Emitted(c, log)
           /\ \/ nonce' = [nonce EXCEPT ![c] = @ + 1]
              \/ nonce' = nonce
    BY <1>1, DepositEffect
  <2>2. logs' \in [Chains -> Seq(Event)]
    <3>1. Append(logs[c], log) \in Seq(Event)
      BY DEF TypeOK
    <3> QED
      BY <2>1, <3>1 DEF Emitted, TypeOK
  <2>3. nonce' \in [Chains -> Nat]
    <3>1. nonce[c] + 1 \in Nat
      BY DEF TypeOK
    <3> QED
      BY <2>1, <3>1 DEF TypeOK
  <2> QED
    BY <1>1, <2>2, <2>3, DepositEffect DEF TypeOK, hubs, owner
<1>2. ASSUME NEW c \in Chains, Mined(c) PROVE TypeOK'
  <2>1. logs' \in [Chains -> Seq(Event)]
    <3>1. logs' = [logs EXCEPT ![c] = <<>>]
      BY <1>2, MinedEffect
    <3>2. <<>> \in Seq(Event)
      OBVIOUS
    <3> QED
      BY <3>1, <3>2 DEF TypeOK
  <2> QED
    BY <1>2, <2>1, MinedEffect DEF TypeOK, hubs, owner, money
<1>3. ASSUME NEW c \in Chains, NEW receipt \in receipts, Withdraw(c, receipt) PROVE TypeOK'
  <2>1. receipt.logs \in Seq(Event)
    BY DEF TypeOK, Receipt
  <2>2. usedProofs' \in [Chains -> SUBSET Seq(Event)]
    <3>1. usedProofs' = [usedProofs EXCEPT ![c] = @ \union {receipt.logs}]
      BY <1>3, WithdrawEffect
    <3> QED
      BY <2>1, <3>1 DEF TypeOK
  <2> QED
    BY <1>3, <2>2, WithdrawEffect DEF TypeOK, hubs, owner
<1>4. CASE UNCHANGED vars
  BY <1>4 DEF vars, hubs, owner, money, TypeOK
<1> QED
  BY <1>1, <1>2, <1>3, <1>4, OthersQuiet DEF Next

LEMMA InitialTypes == Init => TypeOK
BY DEF Init, TypeOK, Bridges

(***************************************************************************)
(* Every reachable state is well-typed: no balance is ever negative.       *)
(***************************************************************************)
THEOREM TypesHold == Spec => []TypeOK
BY InitialTypes, StepKeepsTypes, PTL DEF Spec

-----------------------------------------------------------------------------
(***************************************************************************)
(* The inductive invariant.  An event of a bridge carries a nonce that is  *)
(* spent on the chain it is from, it is in one receipt only and in none    *)
(* while its transaction runs, and only receipts are paid.                 *)
(***************************************************************************)
Spent(c, log, next) ==
    FromBridge(log) => log.contract = BridgeAddress(c) /\ log.nonce < next

SpentInLogs == \A c \in Chains : \A i \in DOMAIN logs[c] : Spent(c, logs[c][i], nonce[c])

SpentInReceipts ==
    \A receipt \in receipts : \A i \in DOMAIN receipt.logs :
        Spent(receipt.chain, receipt.logs[i], nonce[receipt.chain])

InOneReceipt ==
    \A first, second \in receipts : \A i \in DOMAIN first.logs, j \in DOMAIN second.logs :
        FromBridge(first.logs[i]) /\ first.logs[i] = second.logs[j] => first = second

NotYetMined ==
    \A receipt \in receipts, c \in Chains :
        \A i \in DOMAIN receipt.logs, j \in DOMAIN logs[c] :
            FromBridge(receipt.logs[i]) => receipt.logs[i] # logs[c][j]

PaidReceipts ==
    \A c \in Chains : \A paid \in usedProofs[c] : \E receipt \in receipts : paid = receipt.logs

EventsInv == SpentInLogs /\ SpentInReceipts /\ InOneReceipt /\ NotYetMined /\ PaidReceipts

BridgeInv == TypeOK /\ EventsInv

LEMMA BridgeAddressInjective ==
    \A c, d \in Chains : BridgeAddress(c) = BridgeAddress(d) => c = d
BY DEF BridgeAddress

LEMMA DepositKeepsEvents ==
    ASSUME BridgeInv, NEW c \in Chains, NEW d \in Chains, Deposit(c, d) PROVE EventsInv'
<1>1. PICK log \in Event :
         /\ Emitted(c, log)
         /\ \/ /\ log.contract = BridgeAddress(c) /\ log.nonce = nonce[c]
               /\ nonce' = [nonce EXCEPT ![c] = @ + 1]
            \/ ~ FromBridge(log) /\ nonce' = nonce
  BY DepositEffect DEF BridgeInv
<1>2. receipts' = receipts /\ usedProofs' = usedProofs
  BY DepositEffect DEF BridgeInv
<1>3. /\ nonce \in [Chains -> Nat] /\ logs \in [Chains -> Seq(Event)] /\ receipts \subseteq Receipt
      /\ \A receipt \in receipts : receipt.chain \in Chains /\ receipt.logs \in Seq(Event)
  BY DEF BridgeInv, TypeOK, Receipt
<1>4. \A e \in Chains : nonce[e] \in Nat /\ nonce'[e] \in Nat /\ nonce'[e] >= nonce[e]
  <2>1. CASE nonce' = nonce
    BY <1>3, <2>1
  <2>2. CASE nonce' = [nonce EXCEPT ![c] = @ + 1]
    BY <1>3, <2>2
  <2> QED
    BY <1>1, <2>1, <2>2
<1>5. \A e \in Chains : \A event \in Event : Spent(e, event, nonce[e]) => Spent(e, event, nonce'[e])
  BY <1>4 DEF Spent, Event
<1>6. Spent(c, log, nonce'[c])
  <2>1. CASE FromBridge(log)
    <3>1. nonce'[c] = nonce[c] + 1 /\ nonce[c] \in Nat
      BY <1>1, <1>3, <2>1
    <3> QED
      BY <1>1, <2>1, <3>1 DEF Spent
  <2>2. CASE ~ FromBridge(log)
    BY <2>2 DEF Spent
  <2> QED
    BY <2>1, <2>2
<1>7. \A e \in Chains : \A i \in DOMAIN logs'[e] :
         \/ i \in DOMAIN logs[e] /\ logs'[e][i] = logs[e][i]
         \/ e = c /\ logs'[e][i] = log
  BY <1>1, <1>3 DEF Emitted
<1>8. SpentInLogs'
  <2> SUFFICES ASSUME NEW e \in Chains, NEW i \in DOMAIN logs'[e] PROVE Spent(e, logs'[e][i], nonce'[e])
    BY DEF SpentInLogs
  <2>1. CASE i \in DOMAIN logs[e] /\ logs'[e][i] = logs[e][i]
    <3>1. Spent(e, logs[e][i], nonce[e]) /\ logs[e][i] \in Event
      BY <1>3, <2>1 DEF BridgeInv, EventsInv, SpentInLogs
    <3> QED
      BY <1>5, <2>1, <3>1
  <2>2. CASE e = c /\ logs'[e][i] = log
    BY <1>6, <2>2
  <2> QED
    BY <1>7, <2>1, <2>2
<1>9. SpentInReceipts'
  <2> SUFFICES ASSUME NEW receipt \in receipts, NEW i \in DOMAIN receipt.logs
               PROVE  Spent(receipt.chain, receipt.logs[i], nonce'[receipt.chain])
    BY <1>2 DEF SpentInReceipts
  <2>1. Spent(receipt.chain, receipt.logs[i], nonce[receipt.chain])
    BY DEF BridgeInv, EventsInv, SpentInReceipts
  <2> QED
    BY <1>3, <1>5, <2>1
<1>10. NotYetMined'
  <2> SUFFICES ASSUME NEW receipt \in receipts, NEW e \in Chains, NEW i \in DOMAIN receipt.logs,
                      NEW j \in DOMAIN logs'[e], FromBridge(receipt.logs[i])
               PROVE  receipt.logs[i] # logs'[e][j]
    BY <1>2 DEF NotYetMined
  <2>1. CASE j \in DOMAIN logs[e] /\ logs'[e][j] = logs[e][j]
    BY <2>1 DEF BridgeInv, EventsInv, NotYetMined
  <2>2. CASE e = c /\ logs'[e][j] = log
    <3> SUFFICES ASSUME receipt.logs[i] = log PROVE FALSE
      BY <2>2
    <3>1. log.contract = BridgeAddress(receipt.chain) /\ log.nonce < nonce[receipt.chain]
      BY DEF BridgeInv, EventsInv, SpentInReceipts, Spent
    <3>2. log.contract = BridgeAddress(c) /\ log.nonce = nonce[c]
      BY <1>1
    <3>3. receipt.chain = c /\ nonce[c] \in Nat
      BY <1>3, <3>1, <3>2, BridgeAddressInjective
    <3> QED
      BY <3>1, <3>2, <3>3
  <2> QED
    BY <1>7, <2>1, <2>2
<1>11. InOneReceipt' /\ PaidReceipts'
  BY <1>2 DEF BridgeInv, EventsInv, InOneReceipt, PaidReceipts
<1> QED
  BY <1>8, <1>9, <1>10, <1>11 DEF EventsInv

LEMMA MinedKeepsEvents ==
    ASSUME BridgeInv, NEW c \in Chains, Mined(c) PROVE EventsInv'
<1> DEFINE mined == [chain |-> c, logs |-> logs[c]]
<1>1. /\ receipts' = receipts \union {mined}
      /\ logs' = [logs EXCEPT ![c] = <<>>]
      /\ nonce' = nonce /\ usedProofs' = usedProofs
  BY MinedEffect DEF BridgeInv
<1>2. mined.chain = c /\ mined.logs = logs[c]
  OBVIOUS
<1> HIDE DEF mined
<1>3. logs \in [Chains -> Seq(Event)] /\ \A receipt \in receipts : receipt.chain \in Chains
  BY DEF BridgeInv, TypeOK, Receipt
<1>4. \A e \in Chains : \A j \in DOMAIN logs'[e] :
         e # c /\ j \in DOMAIN logs[e] /\ logs'[e][j] = logs[e][j]
  BY <1>1, <1>3
<1>5. SpentInLogs'
  BY <1>1, <1>4 DEF BridgeInv, EventsInv, SpentInLogs, Spent
<1>6. SpentInReceipts'
  BY <1>1, <1>2 DEF BridgeInv, EventsInv, SpentInLogs, SpentInReceipts, Spent
<1>7. InOneReceipt'
  BY <1>1, <1>2 DEF BridgeInv, EventsInv, InOneReceipt, NotYetMined
<1>8. NotYetMined'
  <2> SUFFICES ASSUME NEW receipt \in receipts \union {mined}, NEW e \in Chains,
                      NEW i \in DOMAIN receipt.logs, NEW j \in DOMAIN logs'[e],
                      FromBridge(receipt.logs[i])
               PROVE  receipt.logs[i] # logs[e][j]
    BY <1>1, <1>4 DEF NotYetMined
  <2>1. e # c /\ j \in DOMAIN logs[e]
    BY <1>4
  <2>2. CASE receipt \in receipts
    BY <2>1, <2>2 DEF BridgeInv, EventsInv, NotYetMined
  <2>3. CASE receipt = mined
    <3>1. Spent(c, receipt.logs[i], nonce[c]) /\ Spent(e, logs[e][j], nonce[e])
      BY <1>2, <2>1, <2>3 DEF BridgeInv, EventsInv, SpentInLogs
    <3> QED
      BY <2>1, <3>1, BridgeAddressInjective DEF Spent
  <2> QED
    BY <2>2, <2>3
<1>9. PaidReceipts'
  BY <1>1 DEF BridgeInv, EventsInv, PaidReceipts
<1> QED
  BY <1>5, <1>6, <1>7, <1>8, <1>9 DEF EventsInv

LEMMA WithdrawKeepsEvents ==
    ASSUME BridgeInv, NEW c \in Chains, NEW receipt \in receipts, Withdraw(c, receipt) PROVE EventsInv'
<1>1. /\ nonce' = nonce /\ logs' = logs /\ receipts' = receipts
      /\ usedProofs' = [usedProofs EXCEPT ![c] = @ \union {receipt.logs}]
      /\ usedProofs \in [Chains -> SUBSET Seq(Event)]
  BY WithdrawEffect DEF BridgeInv, TypeOK
<1>2. PaidReceipts'
  BY <1>1 DEF BridgeInv, EventsInv, PaidReceipts
<1> QED
  BY <1>1, <1>2
  DEF BridgeInv, EventsInv, SpentInLogs, SpentInReceipts, Spent, InOneReceipt, NotYetMined

LEMMA QuietKeepsEvents == ASSUME EventsInv, Quiet PROVE EventsInv'
BY DEF Quiet, EventsInv, SpentInLogs, SpentInReceipts, Spent, InOneReceipt, NotYetMined, PaidReceipts

LEMMA StepKeepsEvents == BridgeInv /\ [Next]_vars => EventsInv'
<1> SUFFICES ASSUME BridgeInv, [Next]_vars PROVE EventsInv'
  OBVIOUS
<1>1. CASE UNCHANGED vars
  BY <1>1, QuietKeepsEvents DEF vars, Quiet, BridgeInv
<1>2. ASSUME NEW c \in Chains, NEW d \in Chains,
             \/ Register(c, d) \/ UpdateValidatorSet(c, d) \/ Pause(c) \/ Unpause(c)
             \/ \E origin \in Origins, originChain \in Chains : WarmUp(c, d, origin, originChain)
      PROVE  EventsInv'
  BY <1>2, OthersQuiet, QuietKeepsEvents DEF BridgeInv
<1> QED
  BY <1>1, <1>2, DepositKeepsEvents, MinedKeepsEvents, WithdrawKeepsEvents DEF Next

LEMMA BridgeInvHolds == Spec => []BridgeInv
<1>1. Init => EventsInv
  BY DEF Init, EventsInv, SpentInLogs, SpentInReceipts, InOneReceipt, NotYetMined, PaidReceipts
<1>2. BridgeInv <=> TypeOK /\ EventsInv
  BY DEF BridgeInv
<1>3. BridgeInv /\ [Next]_vars => EventsInv'
  BY StepKeepsEvents
<1> QED
  BY <1>1, <1>2, <1>3, TypesHold, PTL DEF Spec

(***************************************************************************)
(* No deposit is ever paid twice: the receipts a bridge has paid share no  *)
(* event of a bridge (CrossChainBridge.sol:145, 173, 212, 257-260).        *)
(***************************************************************************)
THEOREM DepositsPaidOnce == Spec => []PaidOnce
<1>1. BridgeInv => PaidOnce
  <2> SUFFICES ASSUME BridgeInv, NEW c \in Chains, NEW first \in usedProofs[c],
                      NEW second \in usedProofs[c], NEW i \in DOMAIN first,
                      NEW j \in DOMAIN second, FromBridge(first[i]), first[i] = second[j]
               PROVE  first = second
    BY DEF PaidOnce
  <2>1. PICK r \in receipts : first = r.logs
    BY DEF BridgeInv, EventsInv, PaidReceipts
  <2>2. PICK s \in receipts : second = s.logs
    BY DEF BridgeInv, EventsInv, PaidReceipts
  <2>3. r = s
    BY <2>1, <2>2 DEF BridgeInv, EventsInv, InOneReceipt
  <2> QED
    BY <2>1, <2>2, <2>3
<1> QED
  BY <1>1, BridgeInvHolds, PTL


-----------------------------------------------------------------------------
(***************************************************************************)
(* Solvency.  Backing is what locked tokens leave for claims.  Claims are  *)
(* sums over receipts and over their events; a step changes one term.      *)
(***************************************************************************)
Backing(origin) == SumOverChains(locked, origin) * Scale[origin] - SumOverChains(supply, origin)

\* What an event logged on c claims of an origin
Asked(c, log, origin) ==
    IF log.origin = origin /\ log.contract = BridgeAddress(c) THEN log.amount ELSE 0

\* A bridge's event names its origin or a peg of it for the receiver.
NamesToken(log) ==
    FromBridge(log) => \/ log.toToken = log.origin
                       \/ \E b \in Bridges : log.toToken = PeggedTokenAddress(b, log.origin)

Trusted(log) == NamesToken(log) /\ (deployment.testContracts => FromBridge(log))

TrustedEvents ==
    /\ \A c \in Chains : \A i \in DOMAIN logs[c] : Trusted(logs[c][i])
    /\ \A receipt \in receipts : \A i \in DOMAIN receipt.logs : Trusted(receipt.logs[i])

FiniteReceipts == IsFiniteSet(receipts)

SolventInv == BridgeInv /\ FiniteReceipts /\ TrustedEvents /\ Solvent

\* The tests' contracts trust every receipt: they are deployed without others.
TestsAlone == \A d \in Deployments : d.testContracts => d.emitters = {}

-----------------------------------------------------------------------------
LEMMA BalanceSum ==
    ASSUME NEW balance \in [Chains -> [Origins -> Nat]], NEW origin \in Origins
    PROVE  SumOverChains(balance, origin) \in Nat
<1> DEFINE terms == [c \in Chains |-> balance[c][origin]]
<1>1. \A c \in Chains : terms[c] \in Nat
  OBVIOUS
<1> HIDE DEF terms
<1>2. SumFunctionOnSet(terms, Chains) \in Nat
  BY <1>1, BridgeAssumption, SumNat
<1> QED
  BY <1>2 DEF SumOverChains, terms

\* The balances change at one place.
ChangeAt(c, origin, balance, next) ==
    /\ balance \in [Chains -> [Origins -> Nat]] /\ next \in [Chains -> [Origins -> Nat]]
    /\ \A d \in Chains, p \in Origins : d # c \/ p # origin => next[d][p] = balance[d][p]

LEMMA BalanceChanges ==
    ASSUME NEW c \in Chains, NEW origin \in Origins, NEW balance, NEW next,
           ChangeAt(c, origin, balance, next)
    PROVE  \A other \in Origins :
               SumOverChains(next, other) =
                   SumOverChains(balance, other)
                       + (IF other = origin THEN next[c][origin] - balance[c][origin] ELSE 0)
<1> SUFFICES ASSUME NEW other \in Origins
             PROVE  SumOverChains(next, other) =
                        SumOverChains(balance, other)
                            + (IF other = origin THEN next[c][origin] - balance[c][origin] ELSE 0)
  OBVIOUS
<1> DEFINE f == [d \in Chains |-> balance[d][other]]
           g == [d \in Chains |-> next[d][other]]
<1>1. \A d \in Chains : f[d] \in Nat /\ g[d] \in Nat
  BY DEF ChangeAt
<1>2. \A d \in Chains \ {c} : f[d] = g[d]
  BY DEF ChangeAt
<1>3. g[c] - f[c] = IF other = origin THEN next[c][origin] - balance[c][origin] ELSE 0
  <2>1. g[c] = next[c][other] /\ f[c] = balance[c][other] /\ balance[c][other] \in Nat
    BY DEF ChangeAt
  <2> QED
    BY <2>1 DEF ChangeAt
<1> HIDE DEF f, g
<1>4. SumFunctionOnSet(g, Chains) = SumFunctionOnSet(f, Chains) + (g[c] - f[c])
  BY <1>1, <1>2, BridgeAssumption, SumChanges
<1> QED
  BY <1>3, <1>4 DEF SumOverChains, f, g

LEMMA Distributes == \A a, b, k \in Int : (a + b) * k = a * k + b * k
OBVIOUS

\* What a change of one locked balance or of one supply does to the backing.
LEMMA LockedChanges ==
    ASSUME TypeOK, NEW c \in Chains, NEW origin \in Origins, NEW amount \in Nat,
           locked' = [locked EXCEPT ![c][origin] = amount], supply' = supply,
           NEW other \in Origins
    PROVE  Backing(other)' =
               Backing(other) + (IF other = origin
                                 THEN (amount - locked[c][origin]) * Scale[origin] ELSE 0)
<1>1. locked \in [Chains -> [Origins -> Nat]] /\ supply \in [Chains -> [Origins -> Nat]]
  BY DEF TypeOK
<1>2. SumOverChains(locked', other) =
          SumOverChains(locked, other)
              + (IF other = origin THEN amount - locked[c][origin] ELSE 0)
  <2>1. PICK old, next : old = locked /\ next = locked'
    OBVIOUS
  <2>2. ChangeAt(c, origin, old, next) /\ next[c][origin] = amount
    BY <1>1, <2>1 DEF ChangeAt
  <2>3. SumOverChains(next, other) =
            SumOverChains(old, other)
                + (IF other = origin THEN next[c][origin] - old[c][origin] ELSE 0)
    BY <2>2, BalanceChanges
  <2> QED
    BY <2>1, <2>2, <2>3
<1>3. /\ SumOverChains(locked, other) \in Nat /\ SumOverChains(supply, other) \in Nat
      /\ Scale[other] \in Nat /\ locked[c][origin] \in Nat
  BY <1>1, BalanceSum, BridgeAssumption
<1>4. Backing(other)' = SumOverChains(locked', other) * Scale[other] - SumOverChains(supply, other)
  BY DEF Backing, SumOverChains
<1>5. CASE other = origin
  <2>1. SumOverChains(locked', other) * Scale[other] =
            SumOverChains(locked, other) * Scale[other]
                + (amount - locked[c][origin]) * Scale[other]
    BY <1>2, <1>3, <1>5, Distributes
  <2>2. /\ SumOverChains(locked, other) * Scale[other] \in Int
        /\ (amount - locked[c][origin]) * Scale[other] \in Int
    BY <1>3
  <2> QED
    BY <1>3, <1>4, <1>5, <2>1, <2>2 DEF Backing
<1>6. CASE other # origin
  <2>1. SumOverChains(locked', other) = SumOverChains(locked, other)
    BY <1>2, <1>3, <1>6
  <2>2. SumOverChains(locked, other) * Scale[other] \in Int
    BY <1>3
  <2> QED
    BY <1>3, <1>4, <1>6, <2>1, <2>2 DEF Backing
<1> QED
  BY <1>5, <1>6

LEMMA SupplyChanges ==
    ASSUME TypeOK, NEW c \in Chains, NEW origin \in Origins, NEW amount \in Nat,
           supply' = [supply EXCEPT ![c][origin] = amount], locked' = locked,
           NEW other \in Origins
    PROVE  Backing(other)' =
               Backing(other) - (IF other = origin THEN amount - supply[c][origin] ELSE 0)
<1>1. locked \in [Chains -> [Origins -> Nat]] /\ supply \in [Chains -> [Origins -> Nat]]
  BY DEF TypeOK
<1>2. SumOverChains(supply', other) =
          SumOverChains(supply, other)
              + (IF other = origin THEN amount - supply[c][origin] ELSE 0)
  <2>1. PICK old, next : old = supply /\ next = supply'
    OBVIOUS
  <2>2. ChangeAt(c, origin, old, next) /\ next[c][origin] = amount
    BY <1>1, <2>1 DEF ChangeAt
  <2>3. SumOverChains(next, other) =
            SumOverChains(old, other)
                + (IF other = origin THEN next[c][origin] - old[c][origin] ELSE 0)
    BY <2>2, BalanceChanges
  <2> QED
    BY <2>1, <2>2, <2>3
<1>3. /\ SumOverChains(locked, other) \in Nat /\ SumOverChains(supply, other) \in Nat
      /\ Scale[other] \in Nat /\ supply[c][origin] \in Nat
  BY <1>1, BalanceSum, BridgeAssumption
<1>4. Backing(other)' = SumOverChains(locked, other) * Scale[other] - SumOverChains(supply', other)
  BY DEF Backing, SumOverChains
<1>5. SumOverChains(locked, other) * Scale[other] \in Int
  BY <1>3
<1> QED
  BY <1>2, <1>3, <1>4, <1>5 DEF Backing

LEMMA BackingType ==
    ASSUME TypeOK, NEW origin \in Origins PROVE Backing(origin) \in Int
<1>1. SumOverChains(locked, origin) \in Nat /\ SumOverChains(supply, origin) \in Nat /\ Scale[origin] \in Nat
  BY BalanceSum, BridgeAssumption DEF TypeOK
<1>2. SumOverChains(locked, origin) * Scale[origin] \in Int
  BY <1>1
<1> QED
  BY <1>1, <1>2 DEF Backing

-----------------------------------------------------------------------------
LEMMA LockedTrusted ==
    ASSUME TypeOK, NEW c \in Chains, NEW d \in Chains, NEW to, NEW origin \in Origins, NEW amount \in Nat
    PROVE  /\ Trusted(DepositLocked(c, d, to, origin, amount))
           /\ \A other : Asked(c, DepositLocked(c, d, to, origin, amount), other) =
                             IF other = origin THEN amount ELSE 0
<1> DEFINE log == DepositLocked(c, d, to, origin, amount)
<1>1. /\ log.contract = BridgeAddress(c) /\ log.origin = origin /\ log.amount = amount
      /\ log.toToken = PeggedTokenAddress(GetBridgeAddress(c, d), origin)
  BY DEF DepositLocked, TokenOfReceiver
<1>2. GetBridgeAddress(c, d) \in Bridges
  BY DEF GetBridgeAddress, TypeOK
<1> HIDE DEF log
<1> QED
  BY <1>1, <1>2 DEF Trusted, NamesToken, FromBridge, Asked, log

LEMMA BackingUnchanged ==
    ASSUME locked' = locked, supply' = supply
    PROVE  \A origin \in Origins : Backing(origin)' = Backing(origin)
BY DEF Backing, SumOverChains

\* A deposit backs what its event claims.
LEMMA DepositBacks ==
    ASSUME TestsAlone, TypeOK, NEW c \in Chains, NEW d \in Chains, Deposit(c, d)
    PROVE  \E log \in Event :
               /\ Emitted(c, log) /\ Trusted(log)
               /\ \A other \in Origins : Backing(other)' >= Backing(other) + Asked(c, log, other)
<1> DEFINE Backed(log) ==
        \A other \in Origins : Backing(other)' >= Backing(other) + Asked(c, log, other)
<1>1. PICK amount \in Amounts, to \in deployment.receivers :
         \/ DepositNative(c, d, to, amount)
         \/ \E origin \in Origins :
               \/ DepositErc20(c, d, to, origin, amount)
               \/ DepositPegged(c, d, to, origin, amount)
               \/ \E kind \in {"Lock", "Burn"} : ForeignEvent(c, d, to, kind, origin, amount)
  BY DEF Deposit
<1>2. amount \in Nat
  BY BridgeAssumption
<1>3. ASSUME NEW origin \in Origins, Lock(c, origin, amount),
             Emit(c, DepositLocked(c, d, to, origin, amount * Scale[origin]))
      PROVE  \E log \in Event : Emitted(c, log) /\ Trusted(log) /\ Backed(log)
  <2> DEFINE log == DepositLocked(c, d, to, origin, amount * Scale[origin])
  <2>1. amount * Scale[origin] \in Nat
    BY <1>2, BridgeAssumption
  <2>2. log \in Event /\ Trusted(log)
    BY <2>1, LockedEvent, LockedTrusted
  <2>3. \A other \in Origins : Asked(c, log, other) = IF other = origin THEN amount * Scale[origin] ELSE 0
    BY <2>1, LockedTrusted
  <2>4. Emitted(c, log)
    BY <1>3 DEF Emit, Emitted
  <2> HIDE DEF log
  <2>5. locked[c][origin] \in Nat
    BY DEF TypeOK
  <2>6. PICK sum \in Nat : sum = locked[c][origin] + amount
    BY <1>2, <2>5
  <2>7. locked' = [locked EXCEPT ![c][origin] = sum] /\ supply' = supply
    BY <1>3, <2>6 DEF Lock
  <2>8. sum - locked[c][origin] = amount
    BY <1>2, <2>5, <2>6
  <2>9. \A other \in Origins :
           Backing(other)' = Backing(other) + (IF other = origin THEN amount * Scale[origin] ELSE 0)
    BY <2>7, <2>8, LockedChanges
  <2>10. Backed(log)
    <3> SUFFICES ASSUME NEW other \in Origins
                 PROVE  Backing(other)' >= Backing(other) + Asked(c, log, other)
      OBVIOUS
    <3>1. Backing(other)' = Backing(other) + Asked(c, log, other)
      BY <2>3, <2>9
    <3>2. Backing(other) \in Int /\ Asked(c, log, other) \in Int
      BY <2>1, <2>3, BackingType
    <3> QED
      BY <3>1, <3>2
  <2> QED
    BY <2>2, <2>4, <2>10
<1>4. CASE DepositNative(c, d, to, amount)
  <2>1. NativeAddress(c) \in Origins /\ amount * Scale[NativeAddress(c)] = amount
    BY <1>2, NativeOrigin, BridgeAssumption
  <2>2. /\ Lock(c, NativeAddress(c), amount)
        /\ Emit(c, DepositLocked(c, d, to, NativeAddress(c), amount * Scale[NativeAddress(c)]))
    BY <1>4, <2>1 DEF DepositNative
  <2> QED
    BY <1>3, <2>1, <2>2
<1>5. ASSUME NEW origin \in Origins, DepositErc20(c, d, to, origin, amount)
      PROVE  \E log \in Event : Emitted(c, log) /\ Trusted(log) /\ Backed(log)
  <2>1. Lock(c, origin, amount) /\ Emit(c, DepositLocked(c, d, to, origin, amount * Scale[origin]))
    BY <1>5 DEF DepositErc20
  <2> HIDE DEF Backed
  <2> QED
    BY <1>3, <2>1
<1>6. ASSUME NEW origin \in Origins, DepositPegged(c, d, to, origin, amount)
      PROVE  \E log \in Event : Emitted(c, log) /\ Trusted(log) /\ Backed(log)
  <2> DEFINE log == [contract |-> BridgeAddress(c), kind |-> "Burn", chain |-> d, to |-> to,
                     toToken |-> IF d = pegged[c][origin] THEN origin
                                 ELSE PeggedTokenAddress(GetBridgeAddress(c, d), origin),
                     amount |-> amount, nonce |-> nonce[c],
                     originChain |-> pegged[c][origin], origin |-> origin]
  <2>1. pegged[c][origin] \in Chains /\ nonce[c] \in Nat /\ supply[c][origin] \in Nat
    BY <1>6 DEF DepositPegged, TypeOK
  <2>2. log.toToken \in Addresses /\ GetBridgeAddress(c, d) \in Bridges
    BY PeggedType DEF Addresses, GetBridgeAddress, TypeOK
  <2>3. log \in Event
    BY <1>2, <2>1, <2>2, ReceiverType, BridgeContract DEF Event
  <2>4. /\ log.contract = BridgeAddress(c) /\ log.origin = origin /\ log.amount = amount
        /\ log.toToken = origin \/ log.toToken = PeggedTokenAddress(GetBridgeAddress(c, d), origin)
    OBVIOUS
  <2>5. Emitted(c, log)
    BY <1>6 DEF DepositPegged, Emit, Emitted
  <2> HIDE DEF log
  <2>6. Trusted(log)
    BY <2>2, <2>4 DEF Trusted, NamesToken, FromBridge
  <2>7. PICK rest \in Nat : rest = supply[c][origin] - amount
    BY <1>2, <1>6, <2>1 DEF DepositPegged
  <2>8. supply' = [supply EXCEPT ![c][origin] = rest] /\ locked' = locked
    BY <1>6, <2>7 DEF DepositPegged
  <2>9. rest - supply[c][origin] = - amount
    BY <1>2, <2>1, <2>7
  <2>10. \A other \in Origins :
            Backing(other)' = Backing(other) - (IF other = origin THEN - amount ELSE 0)
    <3>1. \A other \in Origins :
             Backing(other)' =
                 Backing(other) - (IF other = origin THEN rest - supply[c][origin] ELSE 0)
      BY <2>8, SupplyChanges
    <3> QED
      BY <2>9, <3>1
  <2>11. Backed(log)
    <3> SUFFICES ASSUME NEW other \in Origins
                 PROVE  Backing(other)' >= Backing(other) + Asked(c, log, other)
      OBVIOUS
    <3>1. Asked(c, log, other) = IF other = origin THEN amount ELSE 0
      BY <2>4 DEF Asked
    <3>2. Backing(other) \in Int
      BY BackingType
    <3> QED
      BY <1>2, <2>10, <3>1, <3>2
  <2> QED
    BY <2>3, <2>5, <2>6, <2>11
<1>7. ASSUME NEW origin \in Origins, NEW kind \in {"Lock", "Burn"},
             ForeignEvent(c, d, to, kind, origin, amount)
      PROVE  \E log \in Event : Emitted(c, log) /\ Trusted(log) /\ Backed(log)
  <2> DEFINE log == [contract |-> <<"other", c>>, kind |-> kind, chain |-> d, to |-> to,
                     toToken |-> IF kind = "Burn" THEN origin
                                 ELSE PeggedTokenAddress(BridgeAddress(d), origin),
                     amount |-> amount, nonce |-> nonce[c], originChain |-> c,
                     origin |-> origin]
  <2>1. log \in Event
    BY <1>2, ForeignType
  <2>2. log \in Event /\ log.contract = <<"other", c>>
    BY <2>1
  <2>3. Emitted(c, log) /\ locked' = locked /\ supply' = supply
    BY <1>7 DEF ForeignEvent, Emit, Emitted, money
  <2> HIDE DEF log
  <2>4. ~ FromBridge(log)
    BY <2>2 DEF FromBridge, BridgeAddress
  <2>5. ~ deployment.testContracts
    BY <1>7 DEF ForeignEvent, TestsAlone, TypeOK
  <2>6. Trusted(log)
    BY <2>4, <2>5 DEF Trusted, NamesToken
  <2>7. Backed(log)
    <3> SUFFICES ASSUME NEW other \in Origins
                 PROVE  Backing(other)' >= Backing(other) + Asked(c, log, other)
      OBVIOUS
    <3>1. Asked(c, log, other) = 0
      BY <2>4 DEF Asked, FromBridge
    <3>2. Backing(other)' = Backing(other) /\ Backing(other) \in Int
      BY <2>3, BackingType, BackingUnchanged
    <3> QED
      BY <3>1, <3>2
  <2> QED
    BY <2>2, <2>3, <2>6, <2>7
<1> QED
  BY <1>1, <1>4, <1>5, <1>6, <1>7

-----------------------------------------------------------------------------
AmountsOf(receipt) == [i \in DOMAIN receipt.logs |-> receipt.logs[i].amount]

LEMMA DueFinite ==
    ASSUME NEW receipt \in Receipt, NEW origin
    PROVE  /\ Due(receipt, origin) \subseteq DOMAIN receipt.logs
           /\ IsFiniteSet(Due(receipt, origin))
           /\ \A i \in DOMAIN receipt.logs : AmountsOf(receipt)[i] \in Nat
           /\ Owed(receipt, origin) = SumFunctionOnSet(AmountsOf(receipt), Due(receipt, origin))
<1>1. receipt.logs \in Seq(Event)
  BY DEF Receipt
<1>2. DOMAIN receipt.logs = 1 .. Len(receipt.logs) /\ Len(receipt.logs) \in Nat
  BY <1>1
<1>3. IsFiniteSet(DOMAIN receipt.logs)
  BY <1>2, FS_Interval
<1>4. Due(receipt, origin) \subseteq DOMAIN receipt.logs
  BY DEF Due
<1>5. IsFiniteSet(Due(receipt, origin))
  BY <1>3, <1>4, FS_Subset
<1>6. \A i \in DOMAIN receipt.logs : AmountsOf(receipt)[i] \in Nat
  <2> SUFFICES ASSUME NEW i \in DOMAIN receipt.logs PROVE AmountsOf(receipt)[i] \in Nat
    OBVIOUS
  <2>1. receipt.logs[i] \in Event
    BY <1>1
  <2> QED
    BY <2>1 DEF AmountsOf, Event
<1>7. Owed(receipt, origin) = SumFunctionOnSet(AmountsOf(receipt), Due(receipt, origin))
  BY DEF Owed, AmountsOf
<1> QED
  BY <1>4, <1>5, <1>6, <1>7

LEMMA OwedNat ==
    ASSUME NEW receipt \in Receipt, NEW origin PROVE Owed(receipt, origin) \in Nat
<1>1. \A i \in Due(receipt, origin) : AmountsOf(receipt)[i] \in Nat
  BY DueFinite
<1> QED
  BY <1>1, DueFinite, SumNat

LEMMA NothingOwed ==
    ASSUME NEW receipt \in Receipt, NEW origin, Due(receipt, origin) = {}
    PROVE  Owed(receipt, origin) = 0
<1>1. SumFunctionOnSet(AmountsOf(receipt), {}) = 0
  BY FS_EmptySet, SumUnfolds
<1> QED
  BY <1>1, DueFinite

\* One more event of a running transaction owes at most what it asks for.
LEMMA OwedAppends ==
    ASSUME NEW c \in Chains, NEW old \in Seq(Event), NEW log \in Event,
           NEW p, p = [chain |-> c, logs |-> old],
           NEW q, q = [chain |-> c, logs |-> Append(old, log)],
           \A i \in DOMAIN old : FromBridge(old[i]) => \A d \in Chains : old \notin usedProofs[d],
           NEW origin
    PROVE  Owed(q, origin) <= Owed(p, origin) + Asked(c, log, origin)
<1> DEFINE n == Len(old) + 1
           f == AmountsOf(p)
           g == AmountsOf(q)
           D == Due(p, origin)
           E == Due(q, origin)
<1>1. p \in Receipt /\ q \in Receipt
  BY DEF Receipt
<1>2. /\ p.logs = old /\ p.chain = c /\ q.logs = Append(old, log) /\ q.chain = c
      /\ DOMAIN old = 1 .. Len(old) /\ DOMAIN q.logs = 1 .. n /\ Len(old) \in Nat
      /\ q.logs[n] = log /\ \A i \in DOMAIN old : q.logs[i] = old[i]
  OBVIOUS
<1>3. \A i \in DOMAIN old : f[i] = g[i]
  BY <1>2 DEF AmountsOf
<1>4. g[n] = log.amount /\ log.amount \in Nat
  BY <1>2 DEF AmountsOf, Event
<1>5. E \intersect DOMAIN old \subseteq D
  <2> SUFFICES ASSUME NEW i \in E, i \in DOMAIN old PROVE i \in D
    OBVIOUS
  <2>1. old[i].origin = origin /\ old[i].contract = BridgeAddress(c)
    BY <1>2 DEF Due
  <2>2. FromBridge(old[i]) /\ old[i].chain \in Chains
    <3>1. old[i] \in Event
      OBVIOUS
    <3> QED
      BY <2>1, <3>1 DEF FromBridge, Event
  <2> QED
    BY <1>2, <2>1, <2>2 DEF Due
<1>6. n \in E => Asked(c, log, origin) = log.amount
  BY <1>2 DEF Due, Asked
<1>7. E \subseteq 1 .. n /\ D \subseteq DOMAIN old
  BY <1>2 DEF Due
<1>8. E \subseteq D \union {n}
  <2> SUFFICES ASSUME NEW i \in E, i # n PROVE i \in D
    OBVIOUS
  <2>1. i \in 1 .. n
    BY <1>7
  <2>2. i \in DOMAIN old
    BY <1>2, <2>1
  <2> QED
    BY <1>5, <2>2
<1>9. Owed(p, origin) = SumFunctionOnSet(f, D) /\ Owed(q, origin) = SumFunctionOnSet(g, E)
  BY <1>1, DueFinite
<1>10. IsFiniteSet(D) /\ IsFiniteSet(E)
  BY <1>1, DueFinite
<1>11. /\ \A i \in D : f[i] \in Nat /\ g[i] = f[i]
       /\ \A i \in D \union {n} : g[i] \in Nat
       /\ \A i \in E : g[i] \in Nat
  BY <1>1, <1>3, <1>4, <1>7, <1>8, DueFinite DEF D, E
<1>12. SumFunctionOnSet(f, D) \in Nat /\ SumFunctionOnSet(g, E) \in Nat /\ SumFunctionOnSet(g, D) \in Nat
  BY <1>10, <1>11, SumNat
<1>13. Asked(c, log, origin) \in Nat
  BY <1>4 DEF Asked
<1> HIDE DEF n, f, g, D, E
<1>14. SumFunctionOnSet(g, D) <= SumFunctionOnSet(f, D)
  BY <1>10, <1>11, SumMonotone
<1>15. CASE n \in E
  <2>1. IsFiniteSet(D \union {n})
    BY <1>10, FS_AddElement
  <2>2. SumFunctionOnSet(g, E) <= SumFunctionOnSet(g, D \union {n})
    BY <1>8, <1>11, <2>1, SumMonotone
  <2>3. SumFunctionOnSet(g, D \union {n}) <= g[n] + SumFunctionOnSet(g, D)
    BY <1>10, <1>11, SumAdds
  <2>4. SumFunctionOnSet(g, D \union {n}) \in Nat
    BY <1>11, <2>1, SumNat
  <2>5. g[n] = Asked(c, log, origin)
    BY <1>4, <1>6, <1>15
  <2> QED
    BY <1>9, <1>12, <1>13, <1>14, <2>2, <2>3, <2>4, <2>5
<1>16. CASE n \notin E
  <2>1. E \subseteq D
    BY <1>8, <1>16
  <2>2. SumFunctionOnSet(g, E) <= SumFunctionOnSet(g, D)
    BY <1>10, <1>11, <2>1, SumMonotone
  <2> QED
    BY <1>9, <1>12, <1>13, <1>14, <2>2
<1> QED
  BY <1>15, <1>16

LEMMA ClaimedFinite ==
    ASSUME TypeOK, IsFiniteSet(receipts)
    PROVE  Claimed \subseteq Receipt /\ IsFiniteSet(Claimed)
<1> DEFINE record == [c \in Chains |-> [chain |-> c, logs |-> logs[c]]]
           Pending == {[chain |-> c, logs |-> logs[c]] : c \in Chains}
<1>1. record \in Surjection(Chains, Pending)
  BY DEF Surjection
<1>2. IsFiniteSet(Pending)
  BY <1>1, BridgeAssumption, FS_Surjection
<1>3. IsFiniteSet(receipts \union Pending)
  BY <1>2, FS_Union
<1>4. Pending \subseteq Receipt
  BY DEF TypeOK, Receipt
<1> QED
  BY <1>3, <1>4 DEF Claimed, TypeOK

\* The claims on the records of a set
ClaimsOn(S, origin) == SumFunctionOnSet([receipt \in S |-> Owed(receipt, origin)], S)

LEMMA ClaimsNat ==
    ASSUME NEW S, S \subseteq Receipt, IsFiniteSet(S), NEW origin PROVE ClaimsOn(S, origin) \in Nat
<1> DEFINE f == [receipt \in S |-> Owed(receipt, origin)]
<1>1. \A receipt \in S : f[receipt] \in Nat
  BY OwedNat
<1> HIDE DEF f
<1>2. SumFunctionOnSet(f, S) \in Nat
  BY <1>1, SumNat
<1> QED
  BY <1>2 DEF ClaimsOn, f

\* Fewer records, or with one more, or one taken apart
LEMMA ClaimsMonotone ==
    ASSUME NEW S, NEW T, T \subseteq Receipt, IsFiniteSet(T), S \subseteq T, NEW origin
    PROVE  ClaimsOn(S, origin) <= ClaimsOn(T, origin)
<1> DEFINE f == [receipt \in S |-> Owed(receipt, origin)]
           g == [receipt \in T |-> Owed(receipt, origin)]
<1>1. /\ \A receipt \in S : f[receipt] \in Nat /\ f[receipt] <= g[receipt]
      /\ \A receipt \in T : g[receipt] \in Nat
  BY OwedNat
<1> HIDE DEF f, g
<1>2. SumFunctionOnSet(f, S) <= SumFunctionOnSet(g, T)
  BY <1>1, SumMonotone
<1> QED
  BY <1>2 DEF ClaimsOn, f, g

LEMMA ClaimsSplit ==
    ASSUME NEW S, S \subseteq Receipt, IsFiniteSet(S), NEW p \in S, NEW origin
    PROVE  ClaimsOn(S, origin) = Owed(p, origin) + ClaimsOn(S \ {p}, origin)
<1> DEFINE f == [receipt \in S |-> Owed(receipt, origin)]
           rest == S \ {p}
           g == [receipt \in rest |-> Owed(receipt, origin)]
<1>1. /\ \A receipt \in S : f[receipt] \in Nat
      /\ \A receipt \in rest : /\ f[receipt] \in Nat /\ g[receipt] \in Nat
                               /\ f[receipt] <= g[receipt] /\ g[receipt] <= f[receipt]
  BY OwedNat
<1>2. f[p] = Owed(p, origin) /\ rest \subseteq S
  OBVIOUS
<1>3. IsFiniteSet(rest)
  BY FS_Subset
<1> HIDE DEF f, g
<1>4. SumFunctionOnSet(f, S) = f[p] + SumFunctionOnSet(f, rest)
  BY <1>1, SumSplits
<1> HIDE DEF rest
<1>5. SumFunctionOnSet(f, rest) <= SumFunctionOnSet(g, rest)
  BY <1>1, <1>3, SumMonotone
<1>6. SumFunctionOnSet(g, rest) <= SumFunctionOnSet(f, rest)
  BY <1>1, <1>3, SumMonotone
<1>7. SumFunctionOnSet(f, rest) \in Nat /\ SumFunctionOnSet(g, rest) \in Nat
  BY <1>1, <1>3, SumNat
<1>8. SumFunctionOnSet(f, rest) = SumFunctionOnSet(g, rest)
  BY <1>5, <1>6, <1>7
<1>9. ClaimsOn(S, origin) = SumFunctionOnSet(f, S) /\ ClaimsOn(rest, origin) = SumFunctionOnSet(g, rest)
  BY DEF ClaimsOn, f, g
<1> QED
  BY <1>2, <1>4, <1>8, <1>9 DEF rest

LEMMA ClaimsAdd ==
    ASSUME NEW S, S \subseteq Receipt, IsFiniteSet(S), NEW q \in Receipt, NEW origin
    PROVE  /\ ClaimsOn(S \union {q}, origin) <= Owed(q, origin) + ClaimsOn(S, origin)
           /\ IsFiniteSet(S \union {q})
<1>1. IsFiniteSet(S \union {q}) /\ S \union {q} \subseteq Receipt
  BY FS_AddElement
<1> DEFINE rest == (S \union {q}) \ {q}
<1>2. ClaimsOn(S \union {q}, origin) = Owed(q, origin) + ClaimsOn(rest, origin)
  BY <1>1, ClaimsSplit
<1>3. rest \subseteq S
  OBVIOUS
<1> HIDE DEF rest
<1>4. ClaimsOn(rest, origin) <= ClaimsOn(S, origin)
  BY <1>3, ClaimsMonotone
<1>5. IsFiniteSet(rest) /\ rest \subseteq Receipt
  BY <1>3, FS_Subset
<1>6. ClaimsOn(rest, origin) \in Nat /\ ClaimsOn(S, origin) \in Nat /\ Owed(q, origin) \in Nat
  BY <1>5, ClaimsNat, OwedNat
<1> QED
  BY <1>1, <1>2, <1>4, <1>6

LEMMA ClaimsAre == \A origin : Claims(origin) = ClaimsOn(Claimed, origin)
BY DEF Claims, ClaimsOn

-----------------------------------------------------------------------------
\* While no receipt is paid, what a record owes stays.
LEMMA ClaimsFrozen ==
    ASSUME usedProofs' = usedProofs, NEW S, NEW origin
    PROVE  ClaimsOn(S, origin)' = ClaimsOn(S, origin)
BY DEF ClaimsOn, Owed, Due

LEMMA PendingUnpaid ==
    ASSUME BridgeInv, NEW c \in Chains, NEW i \in DOMAIN logs[c], FromBridge(logs[c][i])
    PROVE  /\ [chain |-> c, logs |-> logs[c]] \notin receipts
           /\ \A d \in Chains : logs[c] \notin usedProofs[d]
<1>1. \A receipt \in receipts : receipt.logs # logs[c]
  BY DEF BridgeInv, EventsInv, NotYetMined
<1> QED
  BY <1>1 DEF BridgeInv, EventsInv, PaidReceipts

\* A deposit adds to the claims what its event asks for.
LEMMA ClaimsAfterDeposit ==
    ASSUME BridgeInv, IsFiniteSet(receipts), NEW c \in Chains, NEW log \in Event, Emitted(c, log),
           receipts' = receipts, usedProofs' = usedProofs, NEW origin
    PROVE  Claims(origin)' <= Claims(origin) + Asked(c, log, origin)
<1>1. PICK old : old = logs[c]
  OBVIOUS
<1>2. logs \in [Chains -> Seq(Event)] /\ old \in Seq(Event) /\ logs'[c] = Append(old, log)
  BY <1>1 DEF BridgeInv, TypeOK, Emitted
<1>3. PICK p, q : p = [chain |-> c, logs |-> old] /\ q = [chain |-> c, logs |-> Append(old, log)]
  OBVIOUS
<1>4. PICK S, T : S = Claimed /\ T = Claimed'
  OBVIOUS
<1>5. S \subseteq Receipt /\ IsFiniteSet(S)
  BY <1>4, ClaimedFinite DEF BridgeInv
<1>6. p \in S /\ q \in Receipt
  BY <1>1, <1>2, <1>3, <1>4 DEF Claimed, Receipt
<1>7. T \subseteq S \union {q} /\ (p \in T => p \in receipts)
  <2>1. \A d \in Chains \ {c} : logs'[d] = logs[d]
    BY <1>2 DEF Emitted
  <2>2. \A r \in T : r \in receipts \/ \E d \in Chains : r = [chain |-> d, logs |-> logs'[d]]
    BY <1>4 DEF Claimed
  <2>3. ASSUME NEW d \in Chains, NEW r \in T, r = [chain |-> d, logs |-> logs'[d]]
        PROVE  (r = q \/ r \in S) /\ (r = p => r \in receipts)
    <3>1. CASE d = c
      <4>1. r = q
        BY <1>2, <1>3, <2>3, <3>1
      <4>2. Len(Append(old, log)) # Len(old)
        BY <1>2
      <4> QED
        BY <1>3, <4>1, <4>2
    <3>2. CASE d # c
      <4>1. r = [chain |-> d, logs |-> logs[d]] /\ r.chain = d
        BY <2>1, <2>3, <3>2
      <4> QED
        BY <1>3, <1>4, <3>2, <4>1 DEF Claimed
    <3> QED
      BY <3>1, <3>2
  <2>4. receipts \subseteq S
    BY <1>4 DEF Claimed
  <2> QED
    BY <2>2, <2>3, <2>4
<1>8. Owed(q, origin) <= Owed(p, origin) + Asked(c, log, origin)
  <2>1. \A i \in DOMAIN old : FromBridge(old[i]) => \A d \in Chains : old \notin usedProofs[d]
    BY <1>1, PendingUnpaid
  <2> QED
    BY <1>2, <1>3, <2>1, OwedAppends
<1>9. Claims(origin) = ClaimsOn(S, origin)
  BY <1>4, ClaimsAre
<1>10. Claims(origin)' = ClaimsOn(T, origin)
  <2>1. Claims(origin)' = ClaimsOn(T, origin)'
    BY <1>4 DEF Claims, ClaimsOn
  <2> QED
    BY <2>1, ClaimsFrozen
<1>11. /\ Owed(p, origin) \in Nat /\ Owed(q, origin) \in Nat /\ Asked(c, log, origin) \in Nat
       /\ ClaimsOn(S, origin) = Owed(p, origin) + ClaimsOn(S \ {p}, origin)
       /\ ClaimsOn(S \ {p}, origin) \in Nat /\ IsFiniteSet(S \ {p})
  <2>1. IsFiniteSet(S \ {p}) /\ S \ {p} \subseteq Receipt
    BY <1>5, FS_Subset
  <2>2. Asked(c, log, origin) \in Nat
    BY DEF Asked, Event
  <2> QED
    BY <1>5, <1>6, <2>1, <2>2, OwedNat, ClaimsNat, ClaimsSplit
<1>12. CASE p \in T
  <2>1. p \in receipts
    BY <1>7, <1>12
  <2>2. Due(p, origin) = {}
    <3> SUFFICES ASSUME NEW i \in Due(p, origin) PROVE FALSE
      OBVIOUS
    <3>1. i \in DOMAIN logs[c] /\ FromBridge(logs[c][i])
      BY <1>1, <1>3 DEF Due, FromBridge
    <3> QED
      BY <1>1, <1>3, <2>1, <3>1, PendingUnpaid
  <2>3. Owed(p, origin) = 0
    BY <1>5, <1>6, <2>2, NothingOwed
  <2>4. ClaimsOn(S \union {q}, origin) <= Owed(q, origin) + ClaimsOn(S, origin) /\ IsFiniteSet(S \union {q})
    BY <1>5, <1>6, ClaimsAdd
  <2>5. ClaimsOn(T, origin) <= ClaimsOn(S \union {q}, origin)
    BY <1>5, <1>6, <1>7, <2>4, ClaimsMonotone
  <2>6. ClaimsOn(T, origin) \in Nat /\ ClaimsOn(S \union {q}, origin) \in Nat
    BY <1>5, <1>6, <1>7, <2>4, ClaimsNat, FS_Subset
  <2> QED
    BY <1>8, <1>9, <1>10, <1>11, <2>3, <2>4, <2>5, <2>6
<1>13. CASE p \notin T
  <2> DEFINE rest == S \ {p}
  <2>1. rest \subseteq Receipt /\ IsFiniteSet(rest) /\ T \subseteq rest \union {q}
    BY <1>5, <1>7, <1>11, <1>13
  <2> HIDE DEF rest
  <2>2. ClaimsOn(rest \union {q}, origin) <= Owed(q, origin) + ClaimsOn(rest, origin) /\ IsFiniteSet(rest \union {q})
    BY <1>6, <2>1, ClaimsAdd
  <2>3. ClaimsOn(T, origin) <= ClaimsOn(rest \union {q}, origin)
    BY <1>6, <2>1, <2>2, ClaimsMonotone
  <2>4. ClaimsOn(T, origin) \in Nat /\ ClaimsOn(rest \union {q}, origin) \in Nat
    BY <1>6, <2>1, <2>2, ClaimsNat, FS_Subset
  <2>5. ClaimsOn(S, origin) = Owed(p, origin) + ClaimsOn(rest, origin) /\ ClaimsOn(rest, origin) \in Nat
    BY <1>11 DEF rest
  <2> QED
    BY <1>8, <1>9, <1>10, <1>11, <2>2, <2>3, <2>4, <2>5
<1> QED
  BY <1>12, <1>13

\* Mining turns a claim of the running transaction into one of a receipt.
LEMMA ClaimsAfterMined ==
    ASSUME BridgeInv, IsFiniteSet(receipts), NEW c \in Chains, Mined(c), NEW origin
    PROVE  Claims(origin)' <= Claims(origin)
<1>1. PICK p, q : p = [chain |-> c, logs |-> logs[c]] /\ q = [chain |-> c, logs |-> <<>>]
  OBVIOUS
<1>2. /\ receipts' = receipts \union {p} /\ logs' = [logs EXCEPT ![c] = <<>>]
      /\ usedProofs' = usedProofs /\ logs \in [Chains -> Seq(Event)]
  BY <1>1, MinedEffect DEF BridgeInv, TypeOK
<1>3. PICK S, T : S = Claimed /\ T = Claimed'
  OBVIOUS
<1>4. S \subseteq Receipt /\ IsFiniteSet(S) /\ q \in Receipt
  BY <1>1, <1>3, ClaimedFinite DEF BridgeInv, Receipt
<1>5. T \subseteq S \union {q}
  <2>1. p \in S /\ receipts \subseteq S
    BY <1>1, <1>3 DEF Claimed
  <2>2. ASSUME NEW d \in Chains PROVE [chain |-> d, logs |-> logs'[d]] \in S \union {q}
    <3>1. CASE d = c
      BY <1>1, <1>2, <3>1
    <3>2. CASE d # c
      BY <1>2, <1>3, <3>2 DEF Claimed
    <3> QED
      BY <3>1, <3>2
  <2> QED
    BY <1>2, <1>3, <2>1, <2>2 DEF Claimed
<1>6. Owed(q, origin) = 0
  <2>1. Due(q, origin) = {}
    BY <1>1 DEF Due
  <2> QED
    BY <1>4, <2>1, NothingOwed
<1>7. ClaimsOn(S \union {q}, origin) <= Owed(q, origin) + ClaimsOn(S, origin) /\ IsFiniteSet(S \union {q})
  BY <1>4, ClaimsAdd
<1>8. ClaimsOn(T, origin) <= ClaimsOn(S \union {q}, origin)
  BY <1>4, <1>5, <1>7, ClaimsMonotone
<1>9. /\ ClaimsOn(S, origin) \in Nat /\ ClaimsOn(T, origin) \in Nat
      /\ ClaimsOn(S \union {q}, origin) \in Nat
  BY <1>4, <1>5, <1>7, ClaimsNat, FS_Subset
<1>10. Claims(origin) = ClaimsOn(S, origin)
  BY <1>3, ClaimsAre
<1>11. Claims(origin)' = ClaimsOn(T, origin)
  <2>1. Claims(origin)' = ClaimsOn(T, origin)'
    BY <1>3 DEF Claims, ClaimsOn
  <2> QED
    BY <1>2, <2>1, ClaimsFrozen
<1> QED
  BY <1>6, <1>7, <1>8, <1>9, <1>10, <1>11

\* The event a withdrawal pays is one of the bridge the receipt is from.
LEMMA PaidEvent ==
    ASSUME BridgeInv, TrustedEvents, HonestActivations,
           NEW c \in Chains, NEW receipt \in receipts, Withdraw(c, receipt)
    PROVE  \E i \in DOMAIN receipt.logs :
               /\ PegIn(c, receipt) = receipt.logs[i] /\ receipt.logs[i] \in Event
               /\ receipt.logs[i].chain = c /\ receipt.logs \notin usedProofs[c]
               /\ receipt.logs[i].contract = BridgeAddress(receipt.chain)
               /\ receipt.chain \in Chains /\ Trusted(receipt.logs[i])
<1>1. PICK i : i = CHOOSE j \in Addressed(c, receipt) : TRUE
  OBVIOUS
<1>2. /\ Parses(c, receipt) /\ CheckReceiptProof(c, receipt)
      /\ CheckContractAllowed(c, PegIn(c, receipt)) /\ receipt.logs \notin usedProofs[c]
  BY DEF Withdraw, Withdrawable
<1>3. i \in Addressed(c, receipt)
  BY <1>1, <1>2, FS_EmptySet DEF Parses
<1>4. i \in DOMAIN receipt.logs /\ receipt.logs[i].chain = c /\ PegIn(c, receipt) = receipt.logs[i]
  BY <1>1, <1>3 DEF Addressed, PegIn
<1>5. receipt.chain \in Chains /\ receipt.logs \in Seq(Event) /\ receipt.logs[i] \in Event
  BY <1>4 DEF BridgeInv, TypeOK, Receipt
<1>6. Trusted(receipt.logs[i])
  BY <1>4 DEF TrustedEvents
<1>7. receipt.logs[i].contract = BridgeAddress(receipt.chain)
  <2>1. CASE deployment.testContracts
    <3>1. FromBridge(receipt.logs[i])
      BY <1>6, <2>1 DEF Trusted
    <3> QED
      BY <1>4, <3>1 DEF BridgeInv, EventsInv, SpentInReceipts, Spent
  <2>2. CASE ~ deployment.testContracts
    <3>1. receipt.logs[i].originChain \in Chains
      BY <1>5 DEF Event
    <3>2. HonestActivation(c, receipt.logs[i].originChain)
      BY <3>1 DEF HonestActivations
    <3> QED
      BY <1>2, <1>4, <2>2, <3>2 DEF CheckReceiptProof, CheckContractAllowed, HonestActivation
  <2> QED
    BY <2>1, <2>2
<1> QED
  BY <1>2, <1>4, <1>5, <1>6, <1>7

\* A payment takes no claim away but the one it pays.
LEMMA PaymentOwes ==
    ASSUME TypeOK, NEW c \in Chains, NEW receipt \in Receipt,
           usedProofs' = [usedProofs EXCEPT ![c] = @ \union {receipt.logs}],
           NEW r \in Receipt, NEW origin
    PROVE  /\ Owed(r, origin)' \in Nat /\ Owed(r, origin)' <= Owed(r, origin)
           /\ \A i \in DOMAIN receipt.logs :
                 r = receipt /\ i \in Due(receipt, origin) /\ receipt.logs[i].chain = c
                     => Owed(r, origin)' + receipt.logs[i].amount <= Owed(r, origin)
<1> DEFINE D == Due(r, origin)
           f == AmountsOf(r)
<1>1. PICK E : E = Due(r, origin)'
  OBVIOUS
<1>2. /\ D \subseteq DOMAIN r.logs /\ IsFiniteSet(D) /\ \A i \in DOMAIN r.logs : f[i] \in Nat
      /\ Owed(r, origin) = SumFunctionOnSet(f, D)
  BY DueFinite
<1>3. Owed(r, origin)' = SumFunctionOnSet(f, E)
  BY <1>1 DEF Owed, AmountsOf
<1>4. E \subseteq D
  <2> SUFFICES ASSUME NEW i \in E PROVE i \in D
    OBVIOUS
  <2>1. i \in DOMAIN r.logs /\ r.logs \notin usedProofs'[r.logs[i].chain]
    BY <1>1 DEF Due
  <2>2. r.logs[i].chain \in Chains
    <3>1. r.logs[i] \in Event
      BY <2>1 DEF Receipt
    <3> QED
      BY <3>1 DEF Event
  <2>3. r.logs \notin usedProofs[r.logs[i].chain]
    BY <2>1, <2>2 DEF TypeOK
  <2> QED
    BY <1>1, <2>3 DEF Due
<1>5. IsFiniteSet(E)
  BY <1>2, <1>4, FS_Subset
<1>6. ASSUME NEW i \in DOMAIN receipt.logs, r = receipt, i \in Due(receipt, origin),
             receipt.logs[i].chain = c
      PROVE  SumFunctionOnSet(f, E) + receipt.logs[i].amount <= SumFunctionOnSet(f, D)
  <2>1. i \in D /\ f[i] = receipt.logs[i].amount
    BY <1>6 DEF AmountsOf
  <2>2. i \notin E
    BY <1>1, <1>6 DEF Due, TypeOK
  <2> HIDE DEF D, f
  <2> DEFINE rest == D \ {i}
  <2>3. E \subseteq rest /\ IsFiniteSet(rest) /\ rest \subseteq DOMAIN r.logs
    BY <1>2, <1>4, <2>2, FS_Subset
  <2>4. SumFunctionOnSet(f, D) = f[i] + SumFunctionOnSet(f, rest)
    BY <1>2, <2>1, SumSplits
  <2> HIDE DEF rest
  <2>5. \A j \in rest : f[j] \in Nat
    BY <1>2, <2>3
  <2>6. SumFunctionOnSet(f, E) <= SumFunctionOnSet(f, rest)
    BY <2>3, <2>5, SumMonotone
  <2>7. SumFunctionOnSet(f, E) \in Nat /\ SumFunctionOnSet(f, rest) \in Nat /\ f[i] \in Nat
    BY <1>2, <1>5, <2>1, <2>3, <2>5, SumNat
  <2> QED
    BY <2>1, <2>4, <2>6, <2>7
<1> HIDE DEF D, f
<1>7. SumFunctionOnSet(f, E) <= SumFunctionOnSet(f, D) /\ SumFunctionOnSet(f, E) \in Nat
  BY <1>2, <1>4, <1>5, SumMonotone, SumNat
<1> QED
  BY <1>2, <1>3, <1>6, <1>7

\* A withdrawal takes what it pays off the claims.
LEMMA ClaimsAfterWithdraw ==
    ASSUME BridgeInv, IsFiniteSet(receipts), TrustedEvents, HonestActivations,
           NEW c \in Chains, NEW receipt \in receipts, Withdraw(c, receipt), NEW origin
    PROVE  Claims(origin)' + (IF origin = PegIn(c, receipt).origin THEN PegIn(c, receipt).amount
                              ELSE 0) <= Claims(origin)
<1>1. PICK i \in DOMAIN receipt.logs :
         /\ PegIn(c, receipt) = receipt.logs[i] /\ receipt.logs[i] \in Event
         /\ receipt.logs[i].chain = c /\ receipt.logs \notin usedProofs[c]
         /\ receipt.logs[i].contract = BridgeAddress(receipt.chain)
  BY PaidEvent
<1>2. PICK paid : paid = IF origin = PegIn(c, receipt).origin THEN PegIn(c, receipt).amount ELSE 0
  OBVIOUS
<1>3. /\ usedProofs' = [usedProofs EXCEPT ![c] = @ \union {receipt.logs}]
      /\ logs' = logs /\ receipts' = receipts /\ TypeOK
  BY WithdrawEffect DEF BridgeInv
<1>4. PICK S : S = Claimed
  OBVIOUS
<1>5. S \subseteq Receipt /\ IsFiniteSet(S) /\ receipt \in S
  BY <1>3, <1>4, ClaimedFinite DEF Claimed
<1>6. PICK f, g : f = [r \in S |-> Owed(r, origin)] /\ g = [r \in S |-> Owed(r, origin)']
  OBVIOUS
<1>7. \A r \in S : g[r] \in Nat /\ f[r] \in Nat /\ g[r] <= f[r]
  BY <1>3, <1>5, <1>6, PaymentOwes, OwedNat
<1>8. paid \in Nat /\ g[receipt] + paid <= f[receipt]
  <2>1. CASE origin = receipt.logs[i].origin
    <3>1. i \in Due(receipt, origin) /\ paid = receipt.logs[i].amount
      BY <1>1, <1>2, <2>1 DEF Due
    <3>2. Owed(receipt, origin)' + receipt.logs[i].amount <= Owed(receipt, origin)
      BY <1>1, <1>3, <1>5, <3>1, PaymentOwes
    <3> QED
      BY <1>1, <1>5, <1>6, <3>1, <3>2 DEF Event
  <2>2. CASE origin # receipt.logs[i].origin
    BY <1>1, <1>2, <1>5, <1>7, <2>2
  <2> QED
    BY <2>1, <2>2
<1> DEFINE rest == S \ {receipt}
<1>9. IsFiniteSet(rest) /\ rest \subseteq S
  BY <1>5, FS_Subset
<1>10. /\ SumFunctionOnSet(f, S) = f[receipt] + SumFunctionOnSet(f, rest)
       /\ SumFunctionOnSet(g, S) = g[receipt] + SumFunctionOnSet(g, rest)
  BY <1>5, <1>7, SumSplits
<1> HIDE DEF rest
<1>11. SumFunctionOnSet(g, rest) <= SumFunctionOnSet(f, rest)
  BY <1>7, <1>9, SumMonotone
<1>12. SumFunctionOnSet(g, rest) \in Nat /\ SumFunctionOnSet(f, rest) \in Nat
  BY <1>7, <1>9, SumNat
<1>13. Claims(origin) = SumFunctionOnSet(f, S)
  BY <1>4, <1>6 DEF Claims
<1>14. Claims(origin)' = SumFunctionOnSet(g, S)
  BY <1>3, <1>4, <1>6 DEF Claims, Claimed
<1>15. SumFunctionOnSet(g, S) + paid <= SumFunctionOnSet(f, S)
  BY <1>5, <1>7, <1>8, <1>10, <1>11, <1>12
<1> QED
  BY <1>2, <1>13, <1>14, <1>15

-----------------------------------------------------------------------------
LEMMA ScaledDownBelow ==
    ASSUME NEW amount \in Nat, NEW origin \in Origins
    PROVE  /\ ScaledDown(amount, origin) \in Nat
           /\ ScaledDown(amount, origin) * Scale[origin] <= amount
<1>1. PICK k \in Nat \ {0} : k = Scale[origin]
  BY BridgeAssumption
<1>2. amount \div k \in Nat /\ (amount \div k) * k <= amount
  BY <1>1
<1> QED
  BY <1>1, <1>2 DEF ScaledDown

LEMMA UnlockBacks ==
    ASSUME TypeOK, NEW c \in Chains, NEW origin \in Origins, NEW amount \in Nat,
           Unlock(c, origin, amount), NEW other \in Origins
    PROVE  Backing(other)' =
               Backing(other) - (IF other = origin THEN amount * Scale[origin] ELSE 0)
<1>1. PICK rest \in Nat : rest = locked[c][origin] - amount
  BY DEF Unlock, TypeOK
<1>2. locked' = [locked EXCEPT ![c][origin] = rest] /\ supply' = supply
  BY <1>1 DEF Unlock
<1>3. Backing(other)' =
          Backing(other) + (IF other = origin
                            THEN (rest - locked[c][origin]) * Scale[origin] ELSE 0)
  BY <1>2, LockedChanges
<1>4. locked[c][origin] \in Nat /\ Scale[origin] \in Nat /\ Backing(other) \in Int
  BY BridgeAssumption, BackingType DEF TypeOK
<1>5. rest - locked[c][origin] = 0 - amount
  BY <1>1, <1>4
<1>6. (0 - amount) * Scale[origin] = 0 - amount * Scale[origin] /\ amount * Scale[origin] \in Nat
  BY <1>4
<1> QED
  BY <1>3, <1>4, <1>5, <1>6

\* A withdrawal takes no more off the backing than off the claims.
LEMMA WithdrawBacks ==
    ASSUME BridgeInv, TrustedEvents, HonestActivations,
           NEW c \in Chains, NEW receipt \in receipts, Withdraw(c, receipt), NEW other \in Origins
    PROVE  Backing(other)' + (IF other = PegIn(c, receipt).origin THEN PegIn(c, receipt).amount
                              ELSE 0) >= Backing(other)
<1>1. PICK state : state = PegIn(c, receipt)
  OBVIOUS
<1>2. state \in Event /\ Trusted(state) /\ FromBridge(state)
  BY <1>1, PaidEvent DEF FromBridge
<1>3. state.amount \in Nat /\ state.origin \in Origins /\ Backing(other) \in Int /\ TypeOK
  BY <1>2, BackingType DEF Event, BridgeInv
<1>4. CASE WithdrawNative(c, state)
  <2>1. state.toToken = NativeAddress(c) /\ Unlock(c, NativeAddress(c), state.amount)
    BY <1>4 DEF WithdrawNative
  <2>2. state.origin = NativeAddress(c)
    BY <1>2, <2>1 DEF Trusted, NamesToken, NativeAddress, PeggedTokenAddress
  <2>3. state.amount * Scale[state.origin] = state.amount
    BY <1>3, <2>2, BridgeAssumption
  <2>4. Backing(other)' =
            Backing(other) - (IF other = state.origin THEN state.amount * Scale[state.origin] ELSE 0)
    BY <1>3, <2>1, <2>2, UnlockBacks
  <2> QED
    BY <1>1, <1>3, <2>3, <2>4
<1>5. CASE WithdrawPegged(c, state)
  <2>1. PICK token \in Origins :
           /\ state.toToken = PeggedTokenAddress(BridgeAddress(c), token)
           /\ supply' = [supply EXCEPT ![c][token] = @ + state.amount]
    BY <1>5 DEF WithdrawPegged, FactoryPeggedToken
  <2>2. token = state.origin
    <3>1. state.toToken # state.origin
      BY <1>3, <2>1, BridgeContract, BridgeAssumption
    <3> QED
      BY <1>2, <2>1, <3>1 DEF Trusted, NamesToken, PeggedTokenAddress
  <2>3. supply[c][state.origin] \in Nat
    BY <1>3 DEF TypeOK
  <2>4. PICK sum \in Nat : sum = supply[c][state.origin] + state.amount
    BY <1>3, <2>3
  <2>5. supply' = [supply EXCEPT ![c][state.origin] = sum] /\ locked' = locked
    BY <1>5, <2>1, <2>2, <2>4 DEF WithdrawPegged
  <2>6. Backing(other)' =
            Backing(other) - (IF other = state.origin THEN sum - supply[c][state.origin] ELSE 0)
    BY <1>3, <2>5, SupplyChanges
  <2>7. sum - supply[c][state.origin] = state.amount
    BY <1>3, <2>3, <2>4
  <2> QED
    BY <1>1, <1>3, <2>6, <2>7
<1>6. CASE WithdrawErc20(c, state)
  <2>1. PICK amount : amount = ScaledDown(state.amount, state.origin)
    OBVIOUS
  <2>2. amount \in Nat /\ amount * Scale[state.origin] <= state.amount
    BY <1>3, <2>1, ScaledDownBelow
  <2>3. Unlock(c, state.origin, amount)
    BY <1>6, <2>1 DEF WithdrawErc20
  <2>4. Backing(other)' =
            Backing(other) - (IF other = state.origin THEN amount * Scale[state.origin] ELSE 0)
    BY <1>3, <2>2, <2>3, UnlockBacks
  <2>5. amount * Scale[state.origin] \in Nat
    BY <1>3, <2>2, BridgeAssumption
  <2> QED
    BY <1>1, <1>3, <2>2, <2>4, <2>5
<1> QED
  BY <1>1, <1>4, <1>5, <1>6 DEF Withdraw

-----------------------------------------------------------------------------
Covered == \A origin \in Origins : Backing(origin) >= Claims(origin)

FiniteType == TypeOK /\ FiniteReceipts

LEMMA SolventMeans == FiniteType => (Solvent <=> (HonestActivations => Covered))
<1> SUFFICES ASSUME FiniteType PROVE Solvent <=> (HonestActivations => Covered)
  OBVIOUS
<1>1. ASSUME NEW origin \in Origins
      PROVE  Backing(origin) >= Claims(origin) <=>
                 SumOverChains(locked, origin) * Scale[origin]
                     >= SumOverChains(supply, origin) + Claims(origin)
  <2>1. Claims(origin) \in Nat
    BY ClaimedFinite, ClaimsAre, ClaimsNat DEF FiniteType, FiniteReceipts
  <2>2. /\ SumOverChains(locked, origin) \in Nat /\ SumOverChains(supply, origin) \in Nat
        /\ Scale[origin] \in Nat
    BY BalanceSum, BridgeAssumption DEF FiniteType, FiniteReceipts, TypeOK
  <2>3. PICK product \in Nat : product = SumOverChains(locked, origin) * Scale[origin]
    BY <2>2
  <2> QED
    BY <2>1, <2>2, <2>3 DEF Backing
<1> QED
  BY <1>1 DEF Solvent, Covered

\* Claims and backings are numbers, before and after a step.
NumbersOK == \A origin \in Origins : Claims(origin) \in Nat /\ Backing(origin) \in Int

LEMMA NumbersNow == FiniteType => NumbersOK
BY ClaimedFinite, ClaimsAre, ClaimsNat, BackingType DEF FiniteType, FiniteReceipts, NumbersOK

LEMMA NumbersNext == FiniteType' => NumbersOK'
BY NumbersNow, PTL

LEMMA DeploymentFixed ==
    ASSUME TypeOK, [Next]_vars PROVE deployment' = deployment
<1>1. ASSUME NEW c \in Chains, NEW d \in Chains,
             \/ Register(c, d) \/ UpdateValidatorSet(c, d) \/ Pause(c) \/ Unpause(c)
             \/ \E origin \in Origins, originChain \in Chains : WarmUp(c, d, origin, originChain)
      PROVE  deployment' = deployment
  BY <1>1 DEF Register, RegisterBAS, UpdateValidatorSet, Pause, Unpause, WarmUp, hubs
<1>2. CASE UNCHANGED vars
  BY <1>2 DEF vars, hubs
<1> QED
  BY <1>1, <1>2, DepositEffect, MinedEffect, WithdrawEffect DEF Next, hubs

LEMMA ReceiptsGrow ==
    ASSUME TypeOK, FiniteReceipts, [Next]_vars PROVE FiniteReceipts'
<1>1. receipts' = receipts \/ \E p : receipts' = receipts \union {p}
  <2>1. CASE UNCHANGED vars
    BY <2>1 DEF vars
  <2> QED
    BY <2>1, DepositEffect, MinedEffect, WithdrawEffect, OthersQuiet DEF Next, Quiet
<1> QED
  BY <1>1, FS_AddElement DEF FiniteReceipts

\* An active chain is never registered again.
LEMMA HonestBefore ==
    ASSUME TypeOK, [Next]_vars, HonestActivations' PROVE HonestActivations
<1> DEFINE Kept == \A c, d \in Chains : registeredChains[c][d].chainStatus = "Active"
                       => registeredChains'[c][d] = registeredChains[c][d]
<1>1. ASSUME registeredChains' = registeredChains PROVE Kept
  BY <1>1
<1>2. ASSUME NEW c \in Chains, NEW d \in Chains, Register(c, d) PROVE Kept
  <2>1. PICK bridgeAddress, genuine : RegisterBAS(c, d, bridgeAddress, genuine)
    BY <1>2 DEF Register
  <2> QED
    BY <2>1 DEF RegisterBAS, TypeOK
<1>3. ASSUME NEW c \in Chains, NEW d \in Chains, UpdateValidatorSet(c, d) PROVE Kept
  BY <1>3 DEF UpdateValidatorSet, TypeOK
<1>4. ASSUME NEW c \in Chains, NEW d \in Chains,
             \/ Pause(c) \/ Unpause(c)
             \/ \E origin \in Origins, originChain \in Chains : WarmUp(c, d, origin, originChain)
      PROVE  Kept
  BY <1>1, <1>4 DEF Pause, Unpause, WarmUp, hubs
<1>5. ASSUME UNCHANGED vars PROVE Kept
  BY <1>1, <1>5 DEF vars, hubs
<1>6. ASSUME NEW c \in Chains, NEW d \in Chains, Deposit(c, d) PROVE Kept
  BY <1>1, <1>6, DepositEffect DEF hubs
<1>7. ASSUME NEW c \in Chains, Mined(c) PROVE Kept
  BY <1>1, <1>7, MinedEffect DEF hubs
<1>8. ASSUME NEW c \in Chains, NEW receipt \in receipts, Withdraw(c, receipt) PROVE Kept
  BY <1>1, <1>8, WithdrawEffect DEF hubs
<1>9. Kept
  <2> HIDE DEF Kept
  <2> QED
    BY <1>2, <1>3, <1>4, <1>5, <1>6, <1>7, <1>8 DEF Next
<1> QED
  BY <1>9 DEF HonestActivations, HonestActivation, GetBridgeAddress

LEMMA StepKeepsTrusted ==
    ASSUME TestsAlone, BridgeInv, TrustedEvents, [Next]_vars PROVE TrustedEvents'
<1>0. TypeOK /\ deployment' = deployment
  BY DeploymentFixed DEF BridgeInv
<1>2. ASSUME NEW event PROVE Trusted(event)' <=> Trusted(event)
  BY <1>0 DEF Trusted, NamesToken, FromBridge
<1>3. ASSUME logs' = logs, receipts' = receipts PROVE TrustedEvents'
  BY <1>2, <1>3 DEF TrustedEvents
<1>4. ASSUME NEW c \in Chains, NEW d \in Chains, Deposit(c, d) PROVE TrustedEvents'
  <2>1. receipts' = receipts
    BY <1>0, <1>4, DepositEffect
  <2>2. PICK log \in Event : Emitted(c, log) /\ Trusted(log)
    BY <1>0, <1>4, DepositBacks
  <2>4. \A e \in Chains : \A i \in DOMAIN logs'[e] :
           \/ i \in DOMAIN logs[e] /\ logs'[e][i] = logs[e][i]
           \/ logs'[e][i] = log
    BY <1>0, <2>2 DEF TypeOK, Emitted
  <2> QED
    BY <1>2, <2>1, <2>2, <2>4 DEF TrustedEvents
<1>5. ASSUME NEW c \in Chains, Mined(c) PROVE TrustedEvents'
  <2>1. PICK p : p = [chain |-> c, logs |-> logs[c]]
    OBVIOUS
  <2>2. receipts' = receipts \union {p} /\ logs' = [logs EXCEPT ![c] = <<>>]
    BY <1>0, <1>5, <2>1, MinedEffect
  <2>4. \A e \in Chains : \A i \in DOMAIN logs'[e] : i \in DOMAIN logs[e] /\ logs'[e][i] = logs[e][i]
    BY <1>0, <2>2 DEF TypeOK
  <2> QED
    BY <1>2, <2>1, <2>2, <2>4 DEF TrustedEvents
<1>6. ASSUME NEW c \in Chains, NEW receipt \in receipts, Withdraw(c, receipt) PROVE TrustedEvents'
  BY <1>0, <1>3, <1>6, WithdrawEffect
<1>7. ASSUME NEW c \in Chains, NEW d \in Chains,
             \/ Register(c, d) \/ UpdateValidatorSet(c, d) \/ Pause(c) \/ Unpause(c)
             \/ \E origin \in Origins, originChain \in Chains : WarmUp(c, d, origin, originChain)
      PROVE  TrustedEvents'
  BY <1>0, <1>3, <1>7, OthersQuiet DEF Quiet
<1>8. CASE UNCHANGED vars
  BY <1>3, <1>8 DEF vars
<1> QED
  BY <1>4, <1>5, <1>6, <1>7, <1>8 DEF Next

LEMMA StepKeepsCovered ==
    ASSUME TestsAlone, SolventInv, FiniteType', [Next]_vars, HonestActivations'
    PROVE  Covered'
<1>0. /\ BridgeInv /\ IsFiniteSet(receipts) /\ TrustedEvents /\ FiniteType /\ TypeOK
      /\ HonestActivations /\ Covered
  <2>1. BridgeInv /\ FiniteReceipts /\ TrustedEvents /\ Solvent /\ TypeOK
    BY DEF SolventInv, BridgeInv
  <2>2. FiniteType /\ IsFiniteSet(receipts)
    BY <2>1 DEF FiniteType, FiniteReceipts
  <2> QED
    BY <2>1, <2>2, HonestBefore, SolventMeans
<1>1. /\ \A origin \in Origins : Claims(origin) \in Nat /\ Backing(origin) \in Int
      /\ \A origin \in Origins : Claims(origin)' \in Nat /\ Backing(origin)' \in Int
  BY <1>0, NumbersNow, NumbersNext DEF NumbersOK
<1>3. ASSUME Quiet, locked' = locked, supply' = supply
      PROVE  Covered'
  <2>1. \A origin \in Origins : Claims(origin)' = Claims(origin)
    BY <1>3 DEF Quiet, Claims, Claimed, Owed, Due
  <2> QED
    BY <1>0, <1>3, <2>1, BackingUnchanged DEF Covered, Quiet
<1>4. ASSUME NEW c \in Chains, NEW d \in Chains, Deposit(c, d)
      PROVE  Covered'
  <2>1. receipts' = receipts /\ usedProofs' = usedProofs
    BY <1>0, <1>4, DepositEffect
  <2>2. PICK log \in Event :
           /\ Emitted(c, log)
           /\ \A origin \in Origins : Backing(origin)' >= Backing(origin) + Asked(c, log, origin)
    BY <1>0, <1>4, DepositBacks
  <2> SUFFICES ASSUME NEW origin \in Origins PROVE Backing(origin)' >= Claims(origin)'
    BY DEF Covered
  <2>3. Claims(origin)' <= Claims(origin) + Asked(c, log, origin)
    BY <1>0, <2>1, <2>2, ClaimsAfterDeposit
  <2>4. Asked(c, log, origin) \in Nat /\ Backing(origin) >= Claims(origin)
    BY <1>0 DEF Asked, Event, Covered
  <2> QED
    BY <1>1, <2>2, <2>3, <2>4
<1>5. ASSUME NEW c \in Chains, Mined(c)
      PROVE  Covered'
  <2> SUFFICES ASSUME NEW origin \in Origins PROVE Backing(origin)' >= Claims(origin)'
    BY DEF Covered
  <2>1. Claims(origin)' <= Claims(origin)
    BY <1>0, <1>5, ClaimsAfterMined
  <2>2. locked' = locked /\ supply' = supply
    BY <1>0, <1>5, MinedEffect DEF money
  <2>3. Backing(origin)' = Backing(origin) /\ Backing(origin) >= Claims(origin)
    BY <1>0, <2>2, BackingUnchanged DEF Covered
  <2> QED
    BY <1>1, <2>1, <2>3
<1>6. ASSUME NEW c \in Chains, NEW receipt \in receipts, Withdraw(c, receipt)
      PROVE  Covered'
  <2> SUFFICES ASSUME NEW origin \in Origins PROVE Backing(origin)' >= Claims(origin)'
    BY DEF Covered
  <2>1. PICK paid : paid = IF origin = PegIn(c, receipt).origin THEN PegIn(c, receipt).amount ELSE 0
    OBVIOUS
  <2>2. PegIn(c, receipt) \in Event
    BY <1>0, <1>6, PaidEvent
  <2>3. paid \in Nat
    BY <2>1, <2>2 DEF Event
  <2>4. Claims(origin)' + paid <= Claims(origin) /\ Backing(origin)' + paid >= Backing(origin)
    BY <1>0, <1>6, <2>1, ClaimsAfterWithdraw, WithdrawBacks
  <2>5. Backing(origin) >= Claims(origin)
    BY <1>0 DEF Covered
  <2> QED
    BY <1>1, <2>3, <2>4, <2>5
<1>7. ASSUME NEW c \in Chains, NEW d \in Chains,
             \/ Register(c, d) \/ UpdateValidatorSet(c, d) \/ Pause(c) \/ Unpause(c)
             \/ \E origin \in Origins, originChain \in Chains : WarmUp(c, d, origin, originChain)
      PROVE  Covered'
  <2>1. Quiet
    BY <1>0, <1>7, OthersQuiet
  <2>2. locked' = locked /\ supply' = supply
    BY <1>7 DEF Register, RegisterBAS, UpdateValidatorSet, Pause, Unpause, WarmUp, money
  <2> QED
    BY <1>3, <2>1, <2>2
<1>8. CASE UNCHANGED vars
  BY <1>3, <1>8 DEF vars, money, Quiet
<1> QED
  BY <1>4, <1>5, <1>6, <1>7, <1>8 DEF Next

(***************************************************************************)
(* The bridges stay solvent (CrossChainBridge.sol:234-271), as long as     *)
(* every chain that got active was registered as itself, with its own      *)
(* bridge, on any number of chains: whatever is deposited, scaled,         *)
(* batched, paused, claimed twice or registered wrongly before, what is    *)
(* locked covers all pegged tokens and all claims.  Where the tests'       *)
(* contracts trust every receipt, no other contract emits.                 *)
(***************************************************************************)
THEOREM AlwaysSolvent == ASSUME TestsAlone PROVE Spec => []Solvent
<1>1. Init => Covered /\ TrustedEvents /\ FiniteReceipts
  <2> SUFFICES ASSUME Init PROVE Covered /\ TrustedEvents /\ FiniteReceipts
    OBVIOUS
  <2>1. receipts = {} /\ logs = [c \in Chains |-> <<>>] /\ IsFiniteSet(receipts)
    BY FS_EmptySet DEF Init
  <2>2. TrustedEvents
    BY <2>1 DEF TrustedEvents
  <2>3. ASSUME NEW origin \in Origins PROVE Backing(origin) >= Claims(origin)
    <3>1. SumFunctionOnSet([c \in Chains |-> 0], Chains) = 0
      <4> DEFINE zero == [c \in Chains |-> 0]
      <4>1. \A c \in Chains : zero[c] = 0
        OBVIOUS
      <4> HIDE DEF zero
      <4>2. SumFunctionOnSet(zero, Chains) = 0
        BY <4>1, BridgeAssumption, SumOfZeros
      <4> QED
        BY <4>2 DEF zero
    <3>2. /\ [c \in Chains |-> locked[c][origin]] = [c \in Chains |-> 0]
          /\ [c \in Chains |-> supply[c][origin]] = [c \in Chains |-> 0]
      BY DEF Init
    <3>3. SumOverChains(locked, origin) = 0 /\ SumOverChains(supply, origin) = 0
      BY <3>1, <3>2 DEF SumOverChains
    <3>4. Claims(origin) = 0
      <4>1. PICK S, f : S = Claimed /\ f = [receipt \in S |-> Owed(receipt, origin)]
        OBVIOUS
      <4>2. S \subseteq Receipt /\ IsFiniteSet(S)
        BY <2>1, <4>1, InitialTypes, ClaimedFinite
      <4>3. \A receipt \in S : f[receipt] = 0
        <5> SUFFICES ASSUME NEW receipt \in S PROVE f[receipt] = 0
          OBVIOUS
        <5>1. Due(receipt, origin) = {}
          BY <2>1, <4>1 DEF Claimed, Due
        <5> QED
          BY <4>1, <4>2, <5>1, NothingOwed
      <4> QED
        BY <4>1, <4>2, <4>3, SumOfZeros DEF Claims
    <3>5. Scale[origin] \in Nat
      BY BridgeAssumption
    <3> QED
      BY <3>3, <3>4, <3>5 DEF Backing
  <2> QED
    BY <2>1, <2>2, <2>3 DEF Covered, FiniteReceipts
<1>2. SolventInv <=> BridgeInv /\ FiniteReceipts /\ TrustedEvents /\ Solvent
  BY DEF SolventInv
<1>3. FiniteType <=> TypeOK /\ FiniteReceipts
  BY DEF FiniteType
<1>4. BridgeInv => TypeOK
  BY DEF BridgeInv
<1>5. TypeOK /\ FiniteReceipts /\ [Next]_vars => FiniteReceipts'
  BY ReceiptsGrow
<1>6. SolventInv /\ FiniteType' /\ [Next]_vars => (HonestActivations' => Covered')
  BY StepKeepsCovered
<1>7. BridgeInv /\ TrustedEvents /\ [Next]_vars => TrustedEvents'
  BY StepKeepsTrusted
<1> QED
  BY <1>1, <1>2, <1>3, <1>4, <1>5, <1>6, <1>7, BridgeInvHolds, SolventMeans, PTL DEF Spec
=============================================================================
