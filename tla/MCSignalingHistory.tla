------------------------- MODULE MCSignalingHistory -------------------------
(* Instances of the signaling server with its history for TLC. *)
EXTENDS SignalingHistory

\* An alias that looks like the first generated zookeeper id.
LookalikeAlias == {<<"zookeeper", 1>>}
=============================================================================
