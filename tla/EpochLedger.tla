----------------------------- MODULE EpochLedger -----------------------------
(***************************************************************************)
(* What the relay hub promises, without bitmaps, indexes or signatures: a  *)
(* ledger that, for every chain, holds the validator set of each epoch.    *)
(* One transaction touches one epoch of one chain.  A set is taken on      *)
(* trust when the chain is anchored; afterwards the set of epoch e enters  *)
(* only with a header of epoch e that two thirds of the set of epoch e - 1 *)
(* approved, by sealing it or a descendant or by signing its checkpoint.   *)
(* Epochs follow one another, except that the first transition may name    *)
(* any epoch, that epoch 0 may be recorded again at any time, and that a   *)
(* header of the next epoch lets the caller pass over that epoch: then the *)
(* set of the epoch after it enters with two thirds of whatever is         *)
(* recorded for the one passed over, which is nobody's approval when       *)
(* nothing is.                                                             *)
(***************************************************************************)
EXTENDS Integers, Sequences, FiniteSets

CONSTANTS Chains, Accounts, Epochs, Headers, Lengths,
          Approvers,    \* Approvers[h]: the accounts that approved header h
          Stakers       \* they vouch for the chains that are home chains

VARIABLES phase, home, period, sets, latest

vars == <<phase, home, period, sets, latest>>

Init ==
    /\ phase = [c \in Chains |-> "Unknown"]
    /\ home = [c \in Chains |-> TRUE]
    /\ period = [c \in Chains |-> 0]
    /\ sets = [c \in Chains |-> [e \in Epochs |-> {}]]
    /\ latest = [c \in Chains |-> 0]

ListedIn(h, n) == IF h.number % n = 0 THEN {h.validators[i] : i \in DOMAIN h.validators} ELSE {}

Record(c, e, members) ==
    /\ (latest[c] > 0 /\ e > 0) => e = latest[c] + 1
    /\ sets' = [sets EXCEPT ![c][e] = members]
    /\ latest' = [latest EXCEPT ![c] = e]

Anchor(c) ==
    \E h \in Headers, n \in Lengths \ {0}, isHome \in BOOLEAN :
        /\ phase[c] # "Certified"
        /\ Record(c, h.number \div n, ListedIn(h, n))
        /\ phase' = [phase EXCEPT ![c] = "Trusted"]
        /\ home' = [home EXCEPT ![c] = isHome]
        /\ period' = [period EXCEPT ![c] = n]

TwoThirds(approvers, members) ==
    Cardinality(approvers \intersect members) >= (Cardinality(members) * 2) \div 3

Approved(c, h) ==
    LET e == h.number \div period[c]
    IN  /\ e > 0
        /\ \/ TwoThirds(Approvers[h], sets[c][e - 1])
           \/ home[c] /\ (Stakers = {} \/ Approvers[h] \intersect Stakers # {})

Advance(c) ==
    \E h \in Headers :
        /\ phase[c] # "Unknown"
        /\ h.chain = c
        /\ Approved(c, h)
        /\ Record(c, h.number \div period[c], ListedIn(h, period[c]))
        /\ phase' = [phase EXCEPT ![c] = "Certified"]
        /\ UNCHANGED <<home, period>>

PassOver(c) ==
    \E g, h \in Headers :
        /\ phase[c] # "Unknown"
        /\ g.chain = c /\ g.number % period[c] = 0 /\ g.number \div period[c] = latest[c] + 1
        /\ h.chain = c /\ h.number % period[c] = 0 /\ h.number \div period[c] = latest[c] + 2
        /\ TwoThirds(Approvers[h], sets[c][latest[c] + 1])
        /\ sets' = [sets EXCEPT ![c][latest[c] + 2] = ListedIn(h, period[c])]
        /\ latest' = [latest EXCEPT ![c] = latest[c] + 2]
        /\ phase' = [phase EXCEPT ![c] = "Certified"]
        /\ UNCHANGED <<home, period>>

Restart(c) ==
    /\ phase[c] # "Unknown"
    /\ \E members \in {{}} \union {ListedIn(h, period[c]) : h \in {g \in Headers : g.number < period[c]}} :
          Record(c, 0, members)
    /\ phase' = [phase EXCEPT ![c] = "Certified"]
    /\ UNCHANGED <<home, period>>

Next == \E c \in Chains : Anchor(c) \/ Advance(c) \/ PassOver(c) \/ Restart(c)

Spec == Init /\ [][Next]_vars
=============================================================================
