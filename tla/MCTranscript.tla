---------------------------- MODULE MCTranscript ----------------------------
(* Small instances of Transcript for TLC.                                  *)
EXTENDS Transcript

MCCursors == 0..3 \cup {U64Max}
=============================================================================
