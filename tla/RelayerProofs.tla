--------------------------- MODULE RelayerProofs ---------------------------
(***************************************************************************)
(* Theorems about the relayers of a direction, for any number of them, any *)
(* epoch length, confirmations, gas and faults.                            *)
(***************************************************************************)
EXTENDS Relayer, TLAPS

LEMMA Unwrapped ==
    ASSUME NEW w \in Nat, NEW x \in 0 .. w - 1 PROVE x % w = x
  OBVIOUS

LEMMA Wrapped ==
    ASSUME NEW w \in Nat \ {0}, NEW x \in Int PROVE x % w \in Nat
  OBVIOUS

LEMMA Division ==
    ASSUME NEW n \in Nat, NEW d \in Nat \ {0}
    PROVE  n \div d \in Nat /\ (n \div d) * d <= n
  OBVIOUS

LEMMA TimesMonotone ==
    ASSUME NEW a \in Nat, NEW b \in Nat, NEW d \in Nat, a <= b
    PROVE  a * d <= b * d
  OBVIOUS

LEMMA TailElements ==
    ASSUME NEW S, NEW s \in Seq(S), s # <<>>, NEW i \in DOMAIN Tail(s)
    PROVE  i + 1 \in DOMAIN s /\ Tail(s)[i] = s[i + 1]
<1>1. DOMAIN s = 1 .. Len(s) /\ Len(s) \in Nat /\ DOMAIN Tail(s) = 1 .. Len(s) - 1
  OBVIOUS
<1>2. i \in 1 .. Len(s) - 1
  BY <1>1
<1> QED
  BY <1>1, <1>2

LEMMA OnlyElement ==
    ASSUME NEW S, NEW s \in Seq(S), Len(s) = 1
    PROVE  Head(s) = s[1] /\ 1 \in DOMAIN s /\ s[1] \in S
  OBVIOUS

LEMMA LongTail ==
    ASSUME NEW S, NEW s \in Seq(S), s # <<>>, Len(s) # 1
    PROVE  Tail(s) # <<>> /\ Tail(s)[Len(Tail(s))] = s[Len(s)]
<1> DEFINE n == Len(s)
<1>1. n \in Nat /\ n # 0 /\ n # 1
  OBVIOUS
<1>2. Tail(s) \in Seq(S) /\ Len(Tail(s)) = n - 1 /\ DOMAIN Tail(s) = 1 .. n - 1
  OBVIOUS
<1>3. n - 1 \in Nat /\ n - 1 # 0 /\ n - 1 \in 1 .. n - 1
  <2> HIDE DEF n
  <2> QED
    BY <1>1
<1>4. Tail(s) # <<>>
  BY <1>2, <1>3
<1>5. Tail(s)[n - 1] = s[n]
  <2>1. n - 1 \in DOMAIN Tail(s)
    BY <1>2, <1>3
  <2>2. Tail(s)[n - 1] = s[n - 1 + 1]
    BY <2>1, TailElements
  <2>3. n - 1 + 1 = n
    BY <1>1
  <2> QED
    BY <2>2, <2>3
<1> QED
  BY <1>2, <1>4, <1>5

LEMMA BelowProduct ==
    ASSUME NEW n \in Nat, NEW d \in Nat \ {0}, NEW c \in Nat, NEW h \in Nat, NEW m \in Nat,
           n * d + c <= h, h <= m
    PROVE  n <= m
<1>1. n * d \in Nat /\ n <= n * d
  OBVIOUS
<1> DEFINE p == n * d
<1>2. p \in Nat /\ n <= p /\ p + c <= h
  BY <1>1
<1> HIDE DEF p
<1> QED
  BY <1>2

LEMMA QuotientAtLeast ==
    ASSUME NEW n \in Nat, NEW d \in Nat \ {0}, NEW k \in Nat, k * d <= n
    PROVE  k <= n \div d
  OBVIOUS

-----------------------------------------------------------------------------
LEMMA BatchSizeType == BatchSize \in Nat
<1> DEFINE byGas == IF GasLimit < TxGasReserve THEN 0
                    ELSE (GasLimit - TxGasReserve) \div TransitionGas
<1>1. byGas \in Nat
  BY RelayerAssumption, Division
<1>2. BatchSize = IF byGas < InputsPerTx THEN byGas ELSE InputsPerTx
  BY DEF BatchSize
<1> HIDE DEF byGas
<1> QED
  BY <1>1, <1>2, RelayerAssumption

LEMMA EpochTypes ==
    ASSUME TypeOK, NEW r \in Relayers
    PROVE  /\ NextEpoch(r) \in Nat /\ NextEpoch(r) >= 1
           /\ LastEpoch(r) \in Nat
           /\ WaitForBlock(r) \in Nat
<1>1. latest[r] \in Nat /\ known[r] \in Nat
  BY DEF TypeOK
<1>2. known[r] \div EpochLength \in Nat
  BY <1>1, RelayerAssumption, Division
<1>3. BatchEnd(r) \in Nat
  BY <1>1, <1>2, BatchSizeType DEF BatchEnd
<1>4. NextEpoch(r) \in Nat /\ NextEpoch(r) >= 1
  BY <1>1 DEF NextEpoch
<1>5. WaitForBlock(r) \in Nat
  BY <1>4, RelayerAssumption DEF WaitForBlock
<1> QED
  BY <1>3, <1>4, <1>5 DEF LastEpoch

\* What a mined transaction does to the hub's epoch
LEMMA MinedEpoch ==
    ASSUME TypeOK, NEW r \in Relayers, Mine(r)
    PROVE  recorded' \in Nat /\ recorded <= recorded'
<1>1. pending[r] \in Seq(Transaction) /\ pending[r] # <<>> /\ recorded \in Nat
  BY DEF TypeOK, Mine
<1>2. Head(pending[r]) \in Transaction
  BY <1>1
<1>3. Head(pending[r]).first \in Nat /\ Head(pending[r]).last \in Nat
  BY <1>2 DEF Transaction
<1> QED
  BY <1>1, <1>3 DEF Mine, Executes, Accepts

LEMMA StrikeType ==
    ASSUME TypeOK, NEW fault, Strike(fault) PROVE faultsLeft' \in 0 .. MaxFaults
  BY RelayerAssumption DEF TypeOK, Strike

LEMMA DieType ==
    ASSUME TypeOK, NEW r \in Relayers, Die(r), faultsLeft' \in 0 .. MaxFaults PROVE TypeOK'
  BY RelayerAssumption DEF TypeOK, Die, Go, chains, Places, None

LEMMA SendType ==
    ASSUME TypeOK, NEW r \in Relayers, NEW tx \in Transaction, NEW place \in Places,
           Send(r, tx, place), faultsLeft' \in 0 .. MaxFaults
    PROVE  TypeOK'
<1>1. pending' \in [Relayers -> Seq(Transaction)]
  BY DEF TypeOK, Send
<1> QED
  BY <1>1 DEF TypeOK, Send, Go

LEMMA StepType ==
    ASSUME TypeOK, [Next]_vars PROVE TypeOK'
<1> USE DEF chains, process, Go, At, Places
<1>1. CASE Grow
  BY <1>1, RelayerAssumption DEF Grow, TypeOK
<1>2. ASSUME NEW r \in Relayers, Start(r) PROVE TypeOK'
  BY <1>2 DEF Start, TypeOK
<1>3. ASSUME NEW r \in Relayers, LatestBlockFetcher(r) PROVE TypeOK'
  <2>1. PICK n \in Reported :
           /\ seen' = [seen EXCEPT ![r] = n]
           /\ offer' = [offer EXCEPT ![r] = ConfirmedBlock(n)]
    BY <1>3 DEF LatestBlockFetcher
  <2>2. n \in Nat
    BY RelayerAssumption DEF Reported, TypeOK
  <2>3. ConfirmedBlock(n) \in Nat
    BY <2>2, RelayerAssumption, Wrapped DEF ConfirmedBlock
  <2> QED
    BY <1>3, <2>1, <2>2, <2>3 DEF LatestBlockFetcher, TypeOK
<1>4. ASSUME NEW r \in Relayers, EpochWorker(r) PROVE TypeOK'
  <2>1. offer[r] \in Nat
    BY <1>4 DEF EpochWorker, TypeOK
  <2> QED
    BY <1>4, <2>1 DEF EpochWorker, TypeOK
<1>5. ASSUME NEW r \in Relayers, CheckpointTransition(r) PROVE TypeOK'
  <2>1. [first |-> NextEpoch(r), last |-> NextEpoch(r), gas |-> "estimated"] \in Transaction
    BY EpochTypes DEF Transaction
  <2> QED
    BY <1>5, <2>1, SendType DEF CheckpointTransition, TypeOK
<1>6. ASSUME NEW r \in Relayers, CheckpointTransitionFails(r) PROVE TypeOK'
  BY <1>6 DEF CheckpointTransitionFails, TypeOK
<1>7. ASSUME NEW r \in Relayers, CreateEpochTransition(r) PROVE TypeOK'
  <2>1. [first |-> NextEpoch(r), last |-> LastEpoch(r),
         gas |-> IF Batching THEN "estimated" ELSE "fixed"] \in Transaction
    BY EpochTypes DEF Transaction
  <2> QED
    BY <1>7, <2>1, SendType DEF CreateEpochTransition, TypeOK
<1>8. ASSUME NEW r \in Relayers, CreateEpochTransitionFails(r) PROVE TypeOK'
  <2>1. faultsLeft' \in 0 .. MaxFaults
    BY <1>8, StrikeType DEF CreateEpochTransitionFails, TypeOK
  <2> QED
    BY <1>8, <2>1 DEF CreateEpochTransitionFails, TypeOK
<1>9. ASSUME NEW r \in Relayers, Wake(r) PROVE TypeOK'
  BY <1>9 DEF Wake, TypeOK
<1>10. ASSUME NEW r \in Relayers, TxMined(r) PROVE TypeOK'
  BY <1>10 DEF TxMined, StopWaiting, TypeOK
<1>11. ASSUME NEW r \in Relayers, TxNotMinedInTime(r) PROVE TypeOK'
  <2>1. faultsLeft' \in 0 .. MaxFaults
    BY <1>11, StrikeType DEF TxNotMinedInTime, TypeOK
  <2> QED
    BY <1>11, <2>1 DEF TxNotMinedInTime, StopWaiting, TypeOK
<1>12. ASSUME NEW r \in Relayers, EpochProcessed(r) PROVE TypeOK'
  BY <1>12 DEF EpochProcessed, LatestOfHub, TypeOK
<1>13. ASSUME NEW r \in Relayers, DividesByZero(r) \/ Crash(r) PROVE TypeOK'
  BY <1>13, StrikeType, DieType DEF DividesByZero, Crash
<1>14. ASSUME NEW r \in Relayers, Mine(r) PROVE TypeOK'
  <2>1. recorded' \in Nat /\ recorded <= recorded'
    BY <1>14, MinedEpoch
  <2>2. pending' \in [Relayers -> Seq(Transaction)]
    BY <1>14 DEF Mine, TypeOK
  <2>3. latest' \in [Relayers -> 0 .. recorded']
    BY <1>14, <2>1 DEF Mine, TypeOK
  <2> QED
    BY <1>14, <2>1, <2>2, <2>3 DEF Mine, TypeOK
<1>15. ASSUME NEW r \in Relayers, Drop(r) PROVE TypeOK'
  <2>1. pending' \in [Relayers -> Seq(Transaction)]
    BY <1>15 DEF Drop, TypeOK
  <2> QED
    BY <1>15, <2>1, StrikeType DEF Drop, TypeOK
<1>16. CASE UNCHANGED vars
  BY <1>16 DEF vars, TypeOK
<1> QED
  BY <1>1, <1>2, <1>3, <1>4, <1>5, <1>6, <1>7, <1>8, <1>9, <1>10, <1>11, <1>12,
     <1>13, <1>14, <1>15, <1>16 DEF Next, Work, Fetch

(***************************************************************************)
(* The types hold, and no worker is ahead of the hub's epoch               *)
(* (service.go:208).                                                       *)
(***************************************************************************)
THEOREM TypesHold == Spec => []TypeOK
<1>1. Init => TypeOK
  BY RelayerAssumption DEF Init, TypeOK, Places, None
<1> QED
  BY <1>1, StepType, PTL DEF Spec

-----------------------------------------------------------------------------
(***************************************************************************)
(* The worker makes a transition only of an epoch whose first block it was *)
(* told of, and a process that is down does nothing.                       *)
(***************************************************************************)
Deciding == {"checkpoint", "checkpoint_sent", "confirm"}

Reached(q) ==
    /\ pc[q] \in Deciding => WaitForBlock(q) <= known[q]
    /\ ~ up[q] => pc[q] = "idle"

ReachedInv == TypeOK /\ \A q \in Relayers : Reached(q)

LEMMA StepReached ==
    ASSUME ReachedInv, [Next]_vars PROVE ReachedInv'
<1> USE DEF chains, process, Go, At, Deciding, Reached, WaitForBlock, NextEpoch
<1>1. TypeOK /\ TypeOK' /\ \A q \in Relayers : Reached(q)
  BY StepType DEF ReachedInv
<1>2. ASSUME NEW q \in Relayers PROVE Reached(q)'
  <2>0. up \in [Relayers -> BOOLEAN] /\ pc \in [Relayers -> Places]
    BY <1>1 DEF TypeOK
  <2>1. CASE Grow
    BY <1>1, <2>1 DEF Grow
  <2>2. ASSUME NEW r \in Relayers, Start(r) PROVE Reached(q)'
    BY <1>1, <1>2, <2>0, <2>2 DEF Start, TypeOK
  <2>3. ASSUME NEW r \in Relayers, LatestBlockFetcher(r) PROVE Reached(q)'
    BY <1>1, <1>2, <2>3 DEF LatestBlockFetcher
  <2>4. ASSUME NEW r \in Relayers, EpochWorker(r) PROVE Reached(q)'
    <3>1. offer[r] \in Nat /\ latest[r] \in Nat
      BY <1>1, <2>4 DEF EpochWorker, TypeOK
    <3>2. (latest[r] + 1) * EpochLength \in Nat
      BY <3>1, RelayerAssumption
    <3> QED
      BY <1>1, <1>2, <2>0, <2>4, <3>1, <3>2 DEF EpochWorker, TypeOK
  <2>5. ASSUME NEW r \in Relayers, NEW tx, NEW place \in {"checkpoint_sent", "sent"},
               Send(r, tx, place), up[r], pc[r] \in Deciding
        PROVE  Reached(q)'
    BY <1>1, <1>2, <2>0, <2>5 DEF Send
  <2>6. ASSUME NEW r \in Relayers, CheckpointTransition(r) \/ CreateEpochTransition(r)
        PROVE  Reached(q)'
    BY <2>5, <2>6 DEF CheckpointTransition, CreateEpochTransition
  <2>7. ASSUME NEW r \in Relayers,
               CheckpointTransitionFails(r) \/ CreateEpochTransitionFails(r) \/ Wake(r)
        PROVE  Reached(q)'
    BY <1>1, <1>2, <2>0, <2>7
       DEF CheckpointTransitionFails, CreateEpochTransitionFails, Wake
  <2>8. ASSUME NEW r \in Relayers, TxMined(r) \/ TxNotMinedInTime(r) PROVE Reached(q)'
    BY <1>1, <1>2, <2>0, <2>8 DEF TxMined, TxNotMinedInTime, StopWaiting, Waiting
  <2>9. ASSUME NEW r \in Relayers, EpochProcessed(r) PROVE Reached(q)'
    BY <1>1, <1>2, <2>0, <2>9 DEF EpochProcessed, TypeOK
  <2>10. ASSUME NEW r \in Relayers, Die(r) PROVE Reached(q)'
    BY <1>1, <1>2, <2>0, <2>10 DEF Die, TypeOK
  <2>11. ASSUME NEW r \in Relayers, Mine(r) \/ Drop(r) PROVE Reached(q)'
    BY <1>1, <1>2, <2>11 DEF Mine, Drop
  <2>12. CASE UNCHANGED vars
    BY <1>1, <1>2, <2>12 DEF vars
  <2> QED
    BY <2>1, <2>2, <2>3, <2>4, <2>6, <2>7, <2>8, <2>9, <2>10, <2>11, <2>12
       DEF Next, Work, Fetch, Crash, DividesByZero
<1> QED
  BY <1>1, <1>2 DEF ReachedInv

LEMMA AlwaysReached == Spec => []ReachedInv
<1>1. Init => ReachedInv
  BY RelayerAssumption DEF Init, ReachedInv, Reached, Deciding, TypeOK, Places, None
<1> QED
  BY <1>1, StepReached, PTL DEF Spec

\* The last epoch of a batch: reached by the confirmed block, unless the batch is empty
LEMMA LastEpochReached ==
    ASSUME ReachedInv, NEW r \in Relayers, At(r, "confirm")
    PROVE  /\ LastEpoch(r) * EpochLength <= known[r]
           /\ (Batching => BatchSize >= 1) => NextEpoch(r) <= LastEpoch(r)
<1>1. latest[r] \in Nat /\ known[r] \in Nat /\ NextEpoch(r) * EpochLength <= known[r]
  BY DEF ReachedInv, Reached, Deciding, At, TypeOK, WaitForBlock
<1>2. NextEpoch(r) = latest[r] + 1
  BY DEF NextEpoch
<1>3. /\ known[r] \div EpochLength \in Nat
      /\ (known[r] \div EpochLength) * EpochLength <= known[r]
  BY <1>1, RelayerAssumption, Division
<1>4. latest[r] + 1 <= known[r] \div EpochLength
  BY <1>1, <1>2, RelayerAssumption, QuotientAtLeast
<1>5. CASE Batching
  <2>1. /\ BatchEnd(r) \in Nat /\ BatchEnd(r) <= known[r] \div EpochLength
        /\ BatchSize >= 1 => latest[r] + 1 <= BatchEnd(r)
    BY <1>1, <1>3, <1>4, BatchSizeType DEF BatchEnd
  <2>2. BatchEnd(r) * EpochLength <= (known[r] \div EpochLength) * EpochLength
    BY <1>3, <2>1, RelayerAssumption, TimesMonotone
  <2>3. BatchEnd(r) * EpochLength <= known[r]
    BY <1>1, <1>3, <2>1, <2>2, RelayerAssumption
  <2> QED
    BY <1>2, <1>5, <2>1, <2>3 DEF LastEpoch
<1>6. CASE ~ Batching
  BY <1>1, <1>2, <1>6 DEF LastEpoch
<1> QED
  BY <1>5, <1>6

-----------------------------------------------------------------------------
(***************************************************************************)
(* On a chain at least as long as its confirmations the subtraction does   *)
(* not wrap: everything a worker is told of, sends or has recorded is      *)
(* confirmed.                                                              *)
(***************************************************************************)
LongEnough == Confirmations <= FirstHead

Told(q) ==
    /\ offer[q] # None => offer[q] + Confirmations <= head
    /\ known[q] + Confirmations <= head

Sent(q) ==
    \A i \in DOMAIN pending[q] :
        /\ pending[q][i].first >= 1
        /\ pending[q][i].last * EpochLength + Confirmations <= head

ConfirmInv ==
    /\ ReachedInv
    /\ recorded * EpochLength + Confirmations <= head
    /\ \A q \in Relayers : Told(q) /\ Sent(q)

LEMMA HeadGrows ==
    ASSUME TypeOK, [Next]_vars PROVE head \in Nat /\ head' \in Nat /\ head <= head'
<1>1. head \in Nat
  BY RelayerAssumption DEF TypeOK
<1>2. head' \in Nat
  BY RelayerAssumption, StepType DEF TypeOK
<1>3. CASE Grow
  BY <1>1, <1>3 DEF Grow
<1>4. CASE head' = head
  BY <1>1, <1>4
<1> QED
  BY <1>1, <1>2, <1>3, <1>4
     DEF Next, vars, chains, Work, Fetch, Start, LatestBlockFetcher, EpochWorker, CheckpointTransition,
         CheckpointTransitionFails, CreateEpochTransition, CreateEpochTransitionFails, Send, Wake,
         TxMined, TxNotMinedInTime, StopWaiting, EpochProcessed, DividesByZero, Die, Crash, Mine, Drop

\* A transaction is sent about a reached, and so confirmed, epoch
LEMMA SentConfirmed ==
    ASSUME ConfirmInv, [Next]_vars, NEW r \in Relayers,
           NEW tx \in Transaction, NEW place, Send(r, tx, place),
           tx.first >= 1, tx.last * EpochLength <= known[r],
           NEW q \in Relayers
    PROVE  Sent(q)'
<1>1. /\ TypeOK /\ known[r] \in Nat /\ Confirmations \in Nat /\ EpochLength \in Nat
      /\ known[r] + Confirmations <= head /\ Sent(q)
  BY RelayerAssumption DEF ConfirmInv, ReachedInv, TypeOK, Told
<1>2. head' = head /\ tx.last \in Nat /\ tx.last * EpochLength \in Nat /\ head \in Nat
  BY <1>1, HeadGrows DEF Send, Transaction
<1>3. tx.last * EpochLength + Confirmations <= head
  BY <1>1, <1>2
<1>4. pending' = [pending EXCEPT ![r] = Append(@, tx)] /\ pending \in [Relayers -> Seq(Transaction)]
  BY <1>1 DEF Send, TypeOK
<1>5. CASE q = r
  <2>1. /\ pending'[q] = Append(pending[q], tx) /\ pending[q] \in Seq(Transaction)
    BY <1>4, <1>5
  <2>2. ASSUME NEW i \in DOMAIN pending'[q]
        PROVE  (i \in DOMAIN pending[q] /\ pending'[q][i] = pending[q][i]) \/ pending'[q][i] = tx
    BY <2>1, <2>2
  <2> QED
    BY <1>1, <1>2, <1>3, <2>2 DEF Sent
<1>6. CASE q # r
  BY <1>1, <1>2, <1>4, <1>6 DEF Sent
<1> QED
  BY <1>5, <1>6

\* What is mined is confirmed
LEMMA MinedConfirmed ==
    ASSUME ConfirmInv, NEW r \in Relayers, Mine(r)
    PROVE  recorded' * EpochLength + Confirmations <= head
<1>1. pending[r] \in Seq(Transaction) /\ pending[r] # <<>>
  BY DEF ConfirmInv, ReachedInv, TypeOK, Mine
<1>2. 1 \in DOMAIN pending[r] /\ Head(pending[r]) = pending[r][1]
  BY <1>1
<1> QED
  BY <1>2 DEF ConfirmInv, Sent, Mine

LEMMA StepConfirmed ==
    ASSUME ConfirmInv, [Next]_vars, LongEnough PROVE ConfirmInv'
<1> USE DEF chains, process, Go, At
<1>1. /\ TypeOK /\ ReachedInv' /\ TypeOK'
      /\ recorded * EpochLength + Confirmations <= head
      /\ \A q \in Relayers : Told(q) /\ Sent(q)
  BY StepReached DEF ConfirmInv, ReachedInv
<1>2. head \in Nat /\ head' \in Nat /\ head <= head' /\ Confirmations \in Nat /\ EpochLength \in Nat
  BY <1>1, HeadGrows, RelayerAssumption
<1>3. recorded' * EpochLength + Confirmations <= head'
  <2>1. recorded \in Nat /\ recorded * EpochLength \in Nat
    BY <1>1, <1>2 DEF TypeOK
  <2>2. ASSUME NEW r \in Relayers, Mine(r) PROVE recorded' * EpochLength + Confirmations <= head'
    BY <2>2, MinedConfirmed DEF Mine
  <2>3. CASE recorded' = recorded
    BY <1>1, <1>2, <2>1, <2>3
  <2>4. recorded' = recorded \/ \E r \in Relayers : Mine(r)
    BY DEF Next, vars, Work, Fetch, Grow, Start, LatestBlockFetcher, EpochWorker, CheckpointTransition,
           CheckpointTransitionFails, CreateEpochTransition, CreateEpochTransitionFails, Send, Wake,
           TxMined, TxNotMinedInTime, StopWaiting, EpochProcessed, DividesByZero, Die, Crash, Drop
  <2> QED
    BY <2>2, <2>3, <2>4
<1>4. ASSUME NEW q \in Relayers PROVE Told(q)'
  <2>0. /\ offer \in [Relayers -> Nat \union {None}] /\ known \in [Relayers -> Nat]
        /\ offer' \in [Relayers -> Nat \union {None}] /\ known' \in [Relayers -> Nat]
        /\ offer[q] # None => offer[q] + Confirmations <= head
        /\ known[q] + Confirmations <= head
    BY <1>1, <1>4 DEF TypeOK, Told
  <2>1. CASE offer'[q] \in {offer[q], None} /\ known'[q] = known[q]
    BY <1>2, <2>0, <2>1 DEF Told
  <2>2. ASSUME NEW r \in Relayers, LatestBlockFetcher(r) PROVE Told(q)'
    <3>1. PICK n \in Reported : offer' = [offer EXCEPT ![r] = ConfirmedBlock(n)]
      BY <2>2 DEF LatestBlockFetcher
    <3>2. n \in Nat /\ n <= head /\ Confirmations <= n
      BY <1>1, <1>2, RelayerAssumption DEF Reported, LongEnough, TypeOK
    <3>3. n - Confirmations \in 0 .. Word - 1 /\ Word \in Nat
      BY <1>1, <1>2, <3>2, RelayerAssumption DEF TypeOK
    <3>4. ConfirmedBlock(n) = n - Confirmations
      BY <3>3, Unwrapped DEF ConfirmedBlock
    <3>5. offer'[q] = offer[q] \/ offer'[q] = n - Confirmations
      BY <2>0, <3>1, <3>4
    <3>6. known' = known
      BY <2>2 DEF LatestBlockFetcher
    <3> QED
      BY <1>2, <2>0, <3>2, <3>5, <3>6 DEF Told
  <2>3. ASSUME NEW r \in Relayers, EpochWorker(r) PROVE Told(q)'
    <3>1. /\ offer'[q] \in {offer[q], None}
          /\ known'[q] = known[q] \/ (known'[q] = offer[q] /\ offer[q] # None)
      BY <2>0, <2>3 DEF EpochWorker
    <3> QED
      BY <1>2, <2>0, <3>1 DEF Told
  <2>4. ASSUME NEW r \in Relayers, Die(r) PROVE Told(q)'
    <3>1. /\ offer'[q] \in {offer[q], None} /\ known'[q] \in {known[q], 0}
      BY <2>0, <2>4 DEF Die
    <3>2. 0 + Confirmations <= head
      BY <1>1, <1>2, RelayerAssumption DEF LongEnough, TypeOK
    <3> QED
      BY <1>2, <2>0, <3>1, <3>2 DEF Told
  <2>5. \/ offer' = offer /\ known' = known
        \/ \E r \in Relayers : LatestBlockFetcher(r) \/ EpochWorker(r) \/ Die(r)
    BY DEF Next, vars, Work, Fetch, Grow, Start, CheckpointTransition,
           CheckpointTransitionFails, CreateEpochTransition, CreateEpochTransitionFails, Send, Wake,
           TxMined, TxNotMinedInTime, StopWaiting, EpochProcessed, DividesByZero, Crash, Mine, Drop
  <2> QED
    BY <2>1, <2>2, <2>3, <2>4, <2>5
<1>5. ASSUME NEW q \in Relayers PROVE Sent(q)'
  <2>1. ASSUME pending'[q] = pending[q] PROVE Sent(q)'
    <3>1. pending[q] \in Seq(Transaction)
      BY <1>1 DEF TypeOK
    <3>2. ASSUME NEW i \in DOMAIN pending[q]
          PROVE  /\ pending[q][i].first >= 1
                 /\ pending[q][i].last * EpochLength + Confirmations <= head'
      <4>1. pending[q][i] \in Transaction
        BY <3>1, <3>2
      <4>2. pending[q][i].last \in Nat
        BY <4>1 DEF Transaction
      <4>3. pending[q][i].last * EpochLength \in Nat
        BY <1>2, <4>2
      <4> QED
        BY <1>1, <1>2, <3>2, <4>3 DEF Sent
    <3> QED
      BY <2>1, <3>2 DEF Sent
  <2>2. ASSUME NEW r \in Relayers, CheckpointTransition(r) PROVE Sent(q)'
    <3>1. [first |-> NextEpoch(r), last |-> NextEpoch(r), gas |-> "estimated"] \in Transaction
      BY <1>1, EpochTypes DEF Transaction
    <3>2. NextEpoch(r) >= 1 /\ NextEpoch(r) * EpochLength <= known[r]
      BY <1>1, <2>2, EpochTypes
         DEF ConfirmInv, ReachedInv, Reached, Deciding, WaitForBlock, CheckpointTransition
    <3> QED
      BY <2>2, <3>1, <3>2, SentConfirmed DEF CheckpointTransition
  <2>3. ASSUME NEW r \in Relayers, CreateEpochTransition(r) PROVE Sent(q)'
    <3>1. [first |-> NextEpoch(r), last |-> LastEpoch(r),
           gas |-> IF Batching THEN "estimated" ELSE "fixed"] \in Transaction
      BY <1>1, EpochTypes DEF Transaction
    <3>2. NextEpoch(r) >= 1 /\ LastEpoch(r) * EpochLength <= known[r]
      BY <1>1, <2>3, EpochTypes, LastEpochReached DEF ConfirmInv, CreateEpochTransition
    <3> QED
      BY <2>3, <3>1, <3>2, SentConfirmed DEF CreateEpochTransition
  <2>4. ASSUME NEW r \in Relayers, Mine(r) PROVE Sent(q)'
    <3>1. pending[r] \in Seq(Transaction) /\ pending[r] # <<>> /\ head' = head
          /\ pending' = [pending EXCEPT ![r] = Tail(@)]
      BY <1>1, <2>4 DEF TypeOK, Mine
    <3>2. CASE q = r
      <4>1. pending'[q] = Tail(pending[q])
        BY <1>1, <3>1, <3>2 DEF TypeOK
      <4>2. \A i \in DOMAIN pending'[q] :
                i + 1 \in DOMAIN pending[q] /\ pending'[q][i] = pending[q][i + 1]
        BY <3>1, <3>2, <4>1, TailElements
      <4> QED
        BY <1>1, <3>1, <4>2 DEF Sent
    <3> QED
      BY <1>1, <2>1, <3>1, <3>2 DEF TypeOK
  <2>5. ASSUME NEW r \in Relayers, Drop(r) PROVE Sent(q)'
    <3>1. pending'[q] = pending[q] \/ pending'[q] = <<>>
      BY <1>1, <2>5 DEF Drop, TypeOK
    <3>2. CASE pending'[q] = <<>>
      BY <3>2 DEF Sent
    <3> QED
      BY <2>1, <3>1, <3>2
  <2>6. \/ pending' = pending
        \/ \E r \in Relayers : CheckpointTransition(r) \/ CreateEpochTransition(r) \/ Mine(r) \/ Drop(r)
    BY DEF Next, vars, Work, Fetch, Grow, Start, LatestBlockFetcher, EpochWorker,
           CheckpointTransitionFails, CreateEpochTransitionFails, Wake,
           TxMined, TxNotMinedInTime, StopWaiting, EpochProcessed, DividesByZero, Die, Crash
  <2> QED
    BY <2>1, <2>2, <2>3, <2>4, <2>5, <2>6
<1> QED
  BY <1>1, <1>3, <1>4, <1>5 DEF ConfirmInv

LEMMA AlwaysConfirmed == ASSUME LongEnough PROVE Spec => []ConfirmInv
<1>1. Init => ConfirmInv
  <2> SUFFICES ASSUME Init PROVE ConfirmInv
    OBVIOUS
  <2>1. ReachedInv
    BY RelayerAssumption DEF Init, ReachedInv, Reached, Deciding, TypeOK, Places, None
  <2>2. Confirmations \in Nat /\ EpochLength \in Nat /\ FirstHead \in Nat /\ Confirmations <= FirstHead
    BY RelayerAssumption DEF LongEnough
  <2>3. recorded * EpochLength + Confirmations <= head
    BY <2>2 DEF Init
  <2> QED
    BY <2>1, <2>2, <2>3 DEF Init, ConfirmInv, Told, Sent, None
<1> QED
  BY <1>1, StepConfirmed, PTL DEF Spec

(***************************************************************************)
(* On a source chain that is at least its confirmations long, no pending   *)
(* transaction is about an epoch whose first block lacks confirmations     *)
(* (service.go:114, 299-303).                                              *)
(***************************************************************************)
THEOREM ConfirmedOnly == ASSUME LongEnough PROVE Spec => []OnlyConfirmed
<1>1. ConfirmInv => OnlyConfirmed
  BY DEF ConfirmInv, Sent, OnlyConfirmed
<1> QED
  BY <1>1, AlwaysConfirmed, PTL

LEMMA StepRefines ==
    ASSUME ConfirmInv, [Next]_vars PROVE [Feed!Next]_(Feed!vars)
<1> USE DEF chains, process
<1>0. TypeOK
  BY DEF ConfirmInv, ReachedInv
<1>1. /\ TypeOK /\ head \in Nat /\ head <= MaxHead
      /\ Confirmations \in Nat /\ EpochLength \in Nat
  BY <1>0, RelayerAssumption DEF TypeOK
<1>2. CASE Grow
  BY <1>2 DEF Grow, Feed!Next, Feed!Grow
<1>3. ASSUME NEW r \in Relayers, Mine(r) PROVE [Feed!Next]_(Feed!vars)
  <2>1. recorded \in Nat /\ recorded' \in Nat /\ recorded <= recorded' /\ head' = head
    BY <1>1, <1>3, MinedEpoch DEF Mine, TypeOK
  <2>2. recorded' * EpochLength + Confirmations <= head
    BY <1>3, MinedConfirmed
  <2>3. recorded' <= MaxHead
    BY <1>1, <2>1, <2>2, RelayerAssumption, BelowProduct
  <2>4. CASE recorded' = recorded
    BY <2>1, <2>4 DEF Feed!vars
  <2>5. CASE recorded' # recorded
    <3>1. recorded' \in recorded + 1 .. MaxHead
      BY <2>1, <2>3, <2>5, RelayerAssumption
    <3> QED
      BY <2>1, <2>2, <3>1 DEF Feed!Next, Feed!Record, Feed!Confirmed
  <2> QED
    BY <2>4, <2>5
<1>4. CASE head' = head /\ recorded' = recorded
  BY <1>4 DEF Feed!vars
<1>5. Grow \/ (\E r \in Relayers : Mine(r)) \/ (head' = head /\ recorded' = recorded)
  BY DEF Next, vars, Work, Fetch, Start, LatestBlockFetcher, EpochWorker, CheckpointTransition,
         CheckpointTransitionFails, CreateEpochTransition, CreateEpochTransitionFails, Send, Wake,
         TxMined, TxNotMinedInTime, StopWaiting, EpochProcessed, DividesByZero, Die, Crash, Drop
<1> QED
  BY <1>2, <1>3, <1>4, <1>5

(***************************************************************************)
(* Safety part of the refinement: whatever crashes, is lost, late or sent  *)
(* twice, the hub's epoch changes as EpochFeed says, upwards and to        *)
(* confirmed epochs only (service.go:163-225).                             *)
(***************************************************************************)
THEOREM FeedRefined ==
    ASSUME LongEnough PROVE Spec => Feed!Init /\ [][Feed!Next]_(Feed!vars)
<1>1. Init => Feed!Init
  BY DEF Init, Feed!Init
<1>2. ConfirmInv /\ [Next]_vars => [Feed!Next]_(Feed!vars)
  BY StepRefines
<1> QED
  BY <1>1, <1>2, AlwaysConfirmed, PTL DEF Spec

-----------------------------------------------------------------------------
(***************************************************************************)
(* A transaction that has the gas it takes either records its epochs or    *)
(* finds the first of them recorded already.                               *)
(***************************************************************************)
GasSuffices == TransitionGas <= FixedGas /\ (Batching => BatchSize >= 1)

Ordered(q) == \A i \in DOMAIN pending[q] : pending[q][i].first <= pending[q][i].last

Redundant(q) ==
    /\ awaited[q] # "none" => pc[q] \in {"checkpoint_sent", "sent"}
    /\ awaited[q] = "pending" =>
          pending[q] # <<>> /\ pending[q][Len(pending[q])].first = NextEpoch(q)
    /\ awaited[q] = "mined" \/ pc[q] = "done" => recorded >= NextEpoch(q)

SuccessInv == ReachedInv /\ \A q \in Relayers : Ordered(q) /\ Redundant(q)

LEMMA RecordedGrows ==
    ASSUME TypeOK, [Next]_vars
    PROVE  recorded \in Nat /\ recorded' \in Nat /\ recorded <= recorded'
<1>1. recorded \in Nat
  BY DEF TypeOK
<1>2. CASE recorded' = recorded
  BY <1>1, <1>2
<1>3. recorded' = recorded \/ \E r \in Relayers : Mine(r)
  BY DEF Next, vars, chains, Work, Fetch, Grow, Start, LatestBlockFetcher, EpochWorker,
         CheckpointTransition, CheckpointTransitionFails, CreateEpochTransition,
         CreateEpochTransitionFails, Send, Wake, TxMined, TxNotMinedInTime, StopWaiting,
         EpochProcessed, DividesByZero, Die, Crash, Drop
<1> QED
  BY <1>1, <1>2, <1>3, MinedEpoch

LEMMA StepOrdered ==
    ASSUME SuccessInv, [Next]_vars, GasSuffices, NEW q \in Relayers PROVE Ordered(q)'
<1> USE DEF chains, process
<1>1. TypeOK /\ Ordered(q) /\ pending \in [Relayers -> Seq(Transaction)]
  BY DEF SuccessInv, ReachedInv, TypeOK
<1>2. CASE pending'[q] = pending[q] \/ pending'[q] = <<>>
  BY <1>1, <1>2 DEF Ordered
<1>3. ASSUME NEW r \in Relayers, NEW tx, NEW place, Send(r, tx, place),
             tx \in Transaction, tx.first <= tx.last
      PROVE  Ordered(q)'
  <2>1. CASE q = r
    <3>1. pending'[q] = Append(pending[q], tx) /\ pending[q] \in Seq(Transaction)
      BY <1>1, <1>3, <2>1 DEF Send
    <3>2. ASSUME NEW i \in DOMAIN pending'[q]
          PROVE  (i \in DOMAIN pending[q] /\ pending'[q][i] = pending[q][i]) \/ pending'[q][i] = tx
      BY <3>1, <3>2
    <3> QED
      BY <1>1, <1>3, <3>2 DEF Ordered
  <2>2. CASE q # r
    BY <1>1, <1>2, <1>3, <2>2 DEF Send
  <2> QED
    BY <2>1, <2>2
<1>4. ASSUME NEW r \in Relayers, CheckpointTransition(r) PROVE Ordered(q)'
  <2> DEFINE tx == [first |-> NextEpoch(r), last |-> NextEpoch(r), gas |-> "estimated"]
  <2>1. tx \in Transaction /\ tx.first <= tx.last
    BY <1>1, EpochTypes DEF Transaction
  <2> QED
    BY <1>3, <1>4, <2>1 DEF CheckpointTransition
<1>5. ASSUME NEW r \in Relayers, CreateEpochTransition(r) PROVE Ordered(q)'
  <2> DEFINE tx == [first |-> NextEpoch(r), last |-> LastEpoch(r),
                    gas |-> IF Batching THEN "estimated" ELSE "fixed"]
  <2>1. NextEpoch(r) <= LastEpoch(r)
    BY <1>5, LastEpochReached DEF CreateEpochTransition, SuccessInv, GasSuffices
  <2>2. tx \in Transaction /\ tx.first <= tx.last
    BY <1>1, <2>1, EpochTypes DEF Transaction
  <2> QED
    BY <1>3, <1>5, <2>2 DEF CreateEpochTransition
<1>6. ASSUME NEW r \in Relayers, Mine(r) PROVE Ordered(q)'
  <2>1. pending[r] \in Seq(Transaction) /\ pending[r] # <<>>
        /\ pending' = [pending EXCEPT ![r] = Tail(@)]
    BY <1>1, <1>6 DEF Mine
  <2>2. CASE q = r
    <3>1. pending'[q] = Tail(pending[q])
      BY <1>1, <2>1, <2>2
    <3>2. \A i \in DOMAIN pending'[q] :
              i + 1 \in DOMAIN pending[q] /\ pending'[q][i] = pending[q][i + 1]
      BY <2>1, <2>2, <3>1, TailElements
    <3> QED
      BY <1>1, <3>2 DEF Ordered
  <2> QED
    BY <1>1, <1>2, <2>1, <2>2
<1>7. \/ pending' = pending
      \/ \E r \in Relayers : CheckpointTransition(r) \/ CreateEpochTransition(r) \/ Mine(r) \/ Drop(r)
  BY DEF Next, vars, Work, Fetch, Grow, Start, LatestBlockFetcher, EpochWorker,
         CheckpointTransitionFails, CreateEpochTransitionFails, Wake,
         TxMined, TxNotMinedInTime, StopWaiting, EpochProcessed, DividesByZero, Die, Crash
<1>8. ASSUME NEW r \in Relayers, Drop(r) PROVE pending'[q] = pending[q] \/ pending'[q] = <<>>
  BY <1>1, <1>8 DEF Drop
<1> QED
  BY <1>2, <1>4, <1>5, <1>6, <1>7, <1>8

\* The transaction a worker waits for, once it is mined
LEMMA MinedRedundant ==
    ASSUME SuccessInv, GasSuffices, NEW q \in Relayers, Mine(q),
           awaited[q] = "pending", Len(pending[q]) = 1
    PROVE  recorded' >= NextEpoch(q)
<1>1. /\ pending[q] \in Seq(Transaction) /\ recorded \in Nat /\ latest[q] \in 0 .. recorded
      /\ Ordered(q) /\ Redundant(q)
  BY DEF SuccessInv, ReachedInv, TypeOK
<1>2. Head(pending[q]) = pending[q][1] /\ 1 \in DOMAIN pending[q] /\ pending[q][1] \in Transaction
  BY <1>1, OnlyElement
<1>3. /\ Head(pending[q]).first = NextEpoch(q)
      /\ Head(pending[q]).first <= Head(pending[q]).last
      /\ Head(pending[q]).first \in Nat /\ Head(pending[q]).last \in Nat
  BY <1>1, <1>2 DEF Ordered, Redundant, Transaction
<1>4. CASE Executes(Head(pending[q]))
  BY <1>1, <1>3, <1>4 DEF Mine
<1>5. CASE ~ Executes(Head(pending[q]))
  <2>1. recorded' = recorded /\ ~ Accepts(Head(pending[q]).first)
    BY <1>3, <1>5 DEF Mine, Executes, GasSuffices
  <2> QED
    BY <1>1, <1>3, <2>1 DEF Accepts, NextEpoch
<1> QED
  BY <1>4, <1>5

LEMMA StepRedundant ==
    ASSUME SuccessInv, [Next]_vars, GasSuffices, NEW q \in Relayers PROVE Redundant(q)'
<1> USE DEF chains, process, Go, At, NextEpoch
<1>1. /\ TypeOK /\ TypeOK' /\ Redundant(q) /\ Reached(q)
      /\ recorded \in Nat /\ recorded' \in Nat /\ recorded <= recorded'
      /\ latest[q] \in Nat
      /\ pending \in [Relayers -> Seq(Transaction)]
      /\ awaited \in [Relayers -> {"none", "pending", "mined", "lost"}]
      /\ up \in [Relayers -> BOOLEAN] /\ pc \in [Relayers -> Places]
      /\ latest \in [Relayers -> 0 .. recorded]
  <2>1. TypeOK /\ Redundant(q) /\ Reached(q)
    BY DEF SuccessInv, ReachedInv
  <2>2. TypeOK' /\ recorded \in Nat /\ recorded' \in Nat /\ recorded <= recorded'
    BY <2>1, StepType, RecordedGrows
  <2>3. latest[q] \in Nat
    BY <2>1 DEF TypeOK
  <2>4. /\ pending \in [Relayers -> Seq(Transaction)]
        /\ awaited \in [Relayers -> {"none", "pending", "mined", "lost"}]
        /\ up \in [Relayers -> BOOLEAN] /\ pc \in [Relayers -> Places]
        /\ latest \in [Relayers -> 0 .. recorded]
    BY <2>1 DEF TypeOK
  <2> QED
    BY <2>1, <2>2, <2>3, <2>4
<1>2. CASE /\ awaited'[q] = awaited[q] /\ pc'[q] = pc[q]
           /\ pending'[q] = pending[q] /\ latest'[q] = latest[q]
  BY <1>1, <1>2 DEF Redundant
<1>3. CASE awaited'[q] = "none" /\ pc'[q] # "done"
  BY <1>3 DEF Redundant
<1>4. ASSUME NEW r \in Relayers,
             Start(r) \/ EpochWorker(r) \/ CheckpointTransitionFails(r)
                \/ CreateEpochTransitionFails(r) \/ Wake(r) \/ EpochProcessed(r)
      PROVE  Redundant(q)'
  <2>1. r # q => /\ awaited'[q] = awaited[q] /\ pc'[q] = pc[q]
                 /\ pending'[q] = pending[q] /\ latest'[q] = latest[q]
    BY <1>1, <1>4 DEF Start, EpochWorker, CheckpointTransitionFails,
                      CreateEpochTransitionFails, Wake, EpochProcessed
  <2>2. CASE r = q
    <3>1. pc[q] \notin {"checkpoint_sent", "sent"}
      BY <1>1, <1>4, <2>2 DEF Start, EpochWorker, CheckpointTransitionFails,
                      CreateEpochTransitionFails, Wake, EpochProcessed, Reached
    <3>2. awaited[q] = "none" /\ awaited' = awaited
      BY <1>1, <1>4, <3>1 DEF Redundant, Start, EpochWorker, CheckpointTransitionFails,
                      CreateEpochTransitionFails, Wake, EpochProcessed
    <3>3. pc'[q] # "done"
      BY <1>1, <1>4, <2>2 DEF Start, EpochWorker, CheckpointTransitionFails,
                      CreateEpochTransitionFails, Wake, EpochProcessed, Reached
    <3> QED
      BY <1>3, <3>2, <3>3
  <2> QED
    BY <1>2, <2>1, <2>2
<1>5. ASSUME NEW r \in Relayers, NEW tx, NEW place \in {"checkpoint_sent", "sent"},
             Send(r, tx, place), tx.first = NextEpoch(r), tx \in Transaction
      PROVE  Redundant(q)'
  <2>1. CASE r = q
    <3>1. /\ pending'[q] = Append(pending[q], tx) /\ pending[q] \in Seq(Transaction)
          /\ awaited'[q] = "pending" /\ pc'[q] = place /\ latest'[q] = latest[q]
      BY <1>1, <1>5, <2>1 DEF Send
    <3>2. pending'[q] # <<>> /\ pending'[q][Len(pending'[q])] = tx
      BY <1>5, <3>1
    <3> QED
      BY <1>5, <2>1, <3>1, <3>2 DEF Redundant
  <2> QED
    BY <1>1, <1>2, <1>5, <2>1 DEF Send
<1>6. ASSUME NEW r \in Relayers, CheckpointTransition(r) \/ CreateEpochTransition(r)
      PROVE  Redundant(q)'
  <2>1. [first |-> NextEpoch(r), last |-> NextEpoch(r), gas |-> "estimated"] \in Transaction
    BY <1>1, EpochTypes DEF Transaction
  <2>2. [first |-> NextEpoch(r), last |-> LastEpoch(r),
         gas |-> IF Batching THEN "estimated" ELSE "fixed"] \in Transaction
    BY <1>1, EpochTypes DEF Transaction
  <2> QED
    BY <1>5, <1>6, <2>1, <2>2 DEF CheckpointTransition, CreateEpochTransition
<1>7. ASSUME NEW r \in Relayers, TxMined(r) \/ TxNotMinedInTime(r) PROVE Redundant(q)'
  BY <1>1, <1>2, <1>7 DEF TxMined, TxNotMinedInTime, StopWaiting, Redundant
<1>8. ASSUME NEW r \in Relayers, Die(r) PROVE Redundant(q)'
  BY <1>1, <1>2, <1>3, <1>8 DEF Die
<1>9. ASSUME NEW r \in Relayers, Mine(r) PROVE Redundant(q)'
  <2>0. /\ pending' = [pending EXCEPT ![r] = Tail(@)] /\ pc' = pc /\ latest' = latest
        /\ awaited' = [awaited EXCEPT ![r] =
                          IF @ = "pending" /\ Len(pending[r]) = 1 THEN "mined" ELSE @]
        /\ pending[r] # <<>>
    BY <1>9 DEF Mine
  <2>1. CASE r = q /\ awaited[q] = "pending" /\ Len(pending[q]) = 1
    <3>1. recorded' >= NextEpoch(q)
      BY <1>9, <2>1, MinedRedundant
    <3>2. awaited'[q] = "mined"
      BY <1>1, <2>0, <2>1
    <3> QED
      BY <1>1, <2>0, <2>1, <3>1, <3>2 DEF Redundant
  <2>2. CASE r = q /\ awaited[q] = "pending" /\ Len(pending[q]) # 1
    <3>1. pending'[q] = Tail(pending[q]) /\ pending[q] \in Seq(Transaction) /\ pending[q] # <<>>
      BY <1>1, <2>0, <2>2
    <3>3. pending'[q] # <<>> /\ pending'[q][Len(pending'[q])] = pending[q][Len(pending[q])]
      BY <2>2, <3>1, LongTail
    <3>4. awaited'[q] = "pending"
      BY <1>1, <2>0, <2>2
    <3> QED
      BY <1>1, <2>0, <2>2, <3>3, <3>4 DEF Redundant
  <2>3. CASE r = q /\ awaited[q] # "pending"
    <3>1. awaited'[q] = awaited[q]
      BY <1>1, <2>0, <2>3
    <3> QED
      BY <1>1, <2>0, <2>3, <3>1 DEF Redundant
  <2>4. CASE r # q
    BY <1>1, <1>2, <2>0, <2>4
  <2> QED
    BY <2>1, <2>2, <2>3, <2>4
<1>10. ASSUME NEW r \in Relayers, Drop(r) PROVE Redundant(q)'
  <2>1. CASE r = q
    <3>1. awaited'[q] # "pending" /\ (awaited'[q] = awaited[q] \/ (awaited[q] = "pending" /\ awaited'[q] = "lost"))
      BY <1>1, <1>10, <2>1 DEF Drop
    <3> QED
      BY <1>1, <1>10, <2>1, <3>1 DEF Drop, Redundant
  <2> QED
    BY <1>1, <1>2, <1>10, <2>1 DEF Drop
<1>11. CASE UNCHANGED <<pending, awaited, pc, latest>>
  BY <1>2, <1>11
<1>12. \/ UNCHANGED <<pending, awaited, pc, latest>>
       \/ \E r \in Relayers :
             \/ Start(r) \/ EpochWorker(r) \/ CheckpointTransitionFails(r)
             \/ CreateEpochTransitionFails(r) \/ Wake(r) \/ EpochProcessed(r)
             \/ CheckpointTransition(r) \/ CreateEpochTransition(r)
             \/ TxMined(r) \/ TxNotMinedInTime(r) \/ Die(r) \/ Mine(r) \/ Drop(r)
  BY DEF Next, vars, Work, Fetch, Grow, LatestBlockFetcher, Crash, DividesByZero
<1> QED
  BY <1>4, <1>6, <1>7, <1>8, <1>9, <1>10, <1>11, <1>12

(***************************************************************************)
(* With gas enough for a transition, a worker that saw its transaction     *)
(* mined finds the epoch in the hub, though it never looks at the          *)
(* receipt's status (common.go:45-48): a transaction that reverts comes    *)
(* after another that recorded the same epoch.                             *)
(***************************************************************************)
THEOREM MinedMeansRecorded == ASSUME GasSuffices PROVE Spec => []SuccessIsRecorded
<1>1. Init => SuccessInv
  BY RelayerAssumption
     DEF Init, SuccessInv, ReachedInv, Reached, Deciding, TypeOK, Places, None, Ordered, Redundant
<1>2. SuccessInv /\ [Next]_vars => SuccessInv'
  BY StepReached, StepOrdered, StepRedundant DEF SuccessInv
<1>3. SuccessInv => SuccessIsRecorded
  BY DEF SuccessInv, Redundant, SuccessIsRecorded, At
<1> QED
  BY <1>1, <1>2, <1>3, PTL DEF Spec
=============================================================================
