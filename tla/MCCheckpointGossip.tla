------------------------ MODULE MCCheckpointGossip ------------------------
(***************************************************************************)
(* Instances of CheckpointGossip for TLC.                                  *)
(***************************************************************************)
EXTENDS CheckpointGossip, TLC

\* two validators before epoch 1, three before epoch 2
GrowingSet == [d \in Directions |-> [e \in Epochs |-> e]]

\* the streams of the peer on the other branch are not opened again
TwoAndOne == [p \in Peers |-> IF p \in Forked THEN 1 ELSE 2]
=============================================================================
