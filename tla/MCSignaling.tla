---------------------------- MODULE MCSignaling ----------------------------
(* Instances of the signaling server for TLC. *)
EXTENDS SignalingViews, TLC

ConnSymmetry == Permutations(Conn)

\* An alias of the operator's choice, and one that looks like the first
\* generated zookeeper id.
OneAlias == {<<"alias", 1>>}
LookalikeAlias == {<<"zookeeper", 1>>}
=============================================================================
