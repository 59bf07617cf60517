------------------------------ MODULE MCProcess ------------------------------
(* Instances of ChildProcess for TLC.                                      *)
EXTENDS ChildStdin

(* A stream of four bytes is one more than a pipe, a chunk and a channel   *)
(* of one byte hold.                                                       *)
Printed(out, err) == [s \in Streams |-> IF s = "stdout" THEN out ELSE err]
MCOutput == [p \in Policies |->
    CASE p = "helper" -> {Printed(4, 0), Printed(1, 1)}
      [] p = "patient" -> {Printed(4, 1)}
      [] p \in {"calls", "writes"} -> {Printed(0, 0)}
      [] OTHER -> {Printed(1, 1)}]

MCWriteBytes == [w \in Writes |-> IF w = "one" THEN 2 ELSE 1]
=============================================================================
