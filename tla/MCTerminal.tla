----------------------------- MODULE MCTerminal -----------------------------
(* Instance of the two emulators for TLC. *)
EXTENDS PtyScreens
=============================================================================
