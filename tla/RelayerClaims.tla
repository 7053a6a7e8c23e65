--------------------------- MODULE RelayerClaims ---------------------------
(***************************************************************************)
(* What a comment of relayer/service.go says and the code does not do.     *)
(***************************************************************************)
EXTENDS Relayer

(***************************************************************************)
(* service.go:125: "create stream from root to child".  With a gas limit   *)
(* the stream stops for good once an epoch was recorded by a transaction   *)
(* the worker did not wait for to the end: its own late one, or another    *)
(* relayer's.  The estimate then reverts, the error path sleeps and leaves *)
(* latestTransitionedEpoch as it was, and the same epoch is tried again.   *)
(***************************************************************************)
EveryEpochStreamed ==
    \A e \in 1 .. MaxHead : head >= e * EpochLength + Confirmations ~> recorded >= e
=============================================================================
