--------------------------- MODULE MCNegotiation ----------------------------
(* Instance of page, server and agent for TLC. *)
EXTENDS Negotiation
=============================================================================
