----------------------------- MODULE MCReports -----------------------------
(* Small instances of ReportStream for TLC.                                *)
EXTENDS ReportStream, TLC

ChannelSymmetry == Permutations(Channels)
=============================================================================
