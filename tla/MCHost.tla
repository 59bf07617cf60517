------------------------------- MODULE MCHost -------------------------------
(* Small instances of HostRuntime for TLC: a delay that doubles from 1 and *)
(* is capped at 3, and one or two terminate messages.                      *)
EXTENDS HostRuntime
=============================================================================
