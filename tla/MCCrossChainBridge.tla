------------------------- MODULE MCCrossChainBridge -------------------------
(***************************************************************************)
(* Instances of CrossChainBridge for TLC.  Token is an ERC20 whose amounts *)
(* double on their way to the 18 decimals they travel in.                  *)
(***************************************************************************)
EXTENDS BridgeClaims, TLC

OwnSymbols == [c \in Chains |-> c]

Token == <<"erc20", "x">>

Scales ==
    [origin \in {Token} \union {NativeAddress(c) : c \in Chains} |->
        IF origin = Token THEN 2 ELSE 1]

\* d registered on c, as itself or with a contract that is not its bridge
Own(c, d) == <<c, d, <<"bridge", d>>, TRUE>>

Wrong(c, d) == {<<c, d, <<"other", d>>, TRUE>>, <<c, d, <<"bridge", d>>, FALSE>>}

BothWays == {Own("a", "b"), Own("b", "a")}

(***************************************************************************)
(* The real contracts with several deposits per transaction, once with     *)
(* another contract that emits the same events and once with pauses; with  *)
(* tokens warmed up for the right and the wrong origin chain and deposits  *)
(* to nobody; with registrations of anything before the first transition;  *)
(* and the tests' contracts, the only ones under which burned tokens are   *)
(* unlocked, with an ERC20, with deposits for two chains in one            *)
(* transaction and with pegged tokens that travel on to a third chain.     *)
(***************************************************************************)
Imitated ==
    [testContracts |-> FALSE, erc20s |-> {}, registrations |-> BothWays,
     emitters |-> {<<"a", "b">>}, receivers |-> {"account"}, metadata |-> {},
     maxReceipts |-> 2, maxLogs |-> 2, maxPauses |-> 0]

Paused == [Imitated EXCEPT !.emitters = {}, !.maxPauses = 1]

Warmed ==
    [Paused EXCEPT !.metadata = {<<NativeAddress("a"), "a">>, <<NativeAddress("a"), "b">>},
                   !.receivers = {"account", ZeroAddress}, !.maxLogs = 1, !.maxPauses = 0]

Contested ==
    [Imitated EXCEPT !.registrations = BothWays \union Wrong("b", "a")
                         \union {<<"a", "b", <<"other", "b">>, TRUE>>},
                     !.maxLogs = 1]

Tested ==
    [Imitated EXCEPT !.testContracts = TRUE, !.erc20s = {<<"a", Token>>}, !.emitters = {},
                     !.maxReceipts = 3, !.maxLogs = 1]

Fork ==
    [Tested EXCEPT !.erc20s = {}, !.registrations = {Own("a", "b"), Own("a", "c")},
                   !.maxReceipts = 2, !.maxLogs = 2]

Onward == [Fork EXCEPT !.registrations = {Own("a", "b"), Own("b", "c")}, !.maxLogs = 1]

RealAndTested == {Imitated, Paused, Warmed, Contested, Tested, Fork, Onward}
RealAlone == {[Imitated EXCEPT !.emitters = {}, !.maxLogs = 1]}
=============================================================================
