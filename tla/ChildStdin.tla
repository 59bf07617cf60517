----------------------------- MODULE ChildStdin -----------------------------
(***************************************************************************)
(* Writing to the standard input of a child (mitb-host/src/lib.rs,         *)
(* stream_bridge.rs), beside everything else that ChildProcess does: each  *)
(* write_stdin pipes a stream of the policy into a channel that all of     *)
(* them share, and one task writes from the channel into the pipe.         *)
(*                                                                         *)
(* A byte is named by the stream it comes from and its place there.        *)
(***************************************************************************)
EXTENDS ChildProcess, Sequences

CONSTANTS Writes,       \* the streams a policy may write
          WriteBytes,   \* bound: bytes of each stream
          StdinChannel, \* capacity of the channel to the writer task (8 * 1024)
          StdinBuffer   \* size of the writer task's buffer (4096)

ASSUME StdinAssumption ==
    WriteBytes \in [Writes -> Nat] /\ StdinChannel \in Nat \ {0} /\ StdinBuffer \in Nat \ {0}

VARIABLES
    consumer,   \* of each stream: "none", "piped", "dropped"
    taken,      \* history: how many bytes it has read from the stream
    pending,    \* those it could not pass on yet
    in_channel, \* what is in the channel
    writer,     \* the writer task: "recv", "write", "ended"
    in_buffer,  \* what it has received and not yet written
    in_pipe,    \* what is in the pipe
    input       \* history: what the child has read

input_vars == <<consumer, taken, pending, in_channel, writer, in_buffer, in_pipe, input>>
svars == <<vars, input_vars>>

SInit ==
    /\ Init
    /\ consumer = [w \in Writes |-> "none"] /\ taken = [w \in Writes |-> 0]
    /\ pending = [w \in Writes |-> <<>>]
    /\ in_channel = <<>> /\ writer = "recv" /\ in_buffer = <<>>
    /\ in_pipe = <<>> /\ input = <<>>

FirstOf(s, n) == SubSeq(s, 1, n)
Beyond(s, n) == SubSeq(s, n + 1, Len(s))
AtMost(a, b) == IF a < b THEN a ELSE b

write_stdin(w) ==
    /\ run = "own" /\ policy = "writes" /\ handle /\ consumer[w] = "none"
    /\ consumer' = [consumer EXCEPT ![w] = "piped"]
    /\ UNCHANGED <<vars, taken, pending, in_channel, writer, in_buffer, in_pipe, input>>

(* Mutant: an item that did not fit goes to the end of those that wait.    *)
RotatedPending(items, room) ==
    LET rest == Beyond(items, room)
    IN  IF rest = <<>> THEN rest ELSE Append(Tail(rest), Head(rest))

(* What try_send leaves to wait: the items that did not fit, in order.     *)
LeftPending(items, room) == Beyond(items, room)

(* poll_consume: what waits goes first, then, if all of it fitted, what    *)
(* the policy offers now.  An item that does not fit makes it wait and     *)
(* ask to be polled again.  A closed channel ends the stream, with what    *)
(* was in hand.                                                            *)
poll_consume(w) ==
    LET room == StdinChannel - Len(in_channel)
        waits == Len(pending[w]) > room
    IN  \E n \in 0..(WriteBytes[w] - taken[w]) :
            LET fresh == [i \in 1..(IF waits THEN 0 ELSE n) |-> <<w, taken[w] + i>>]
                items == pending[w] \o fresh
                fits == AtMost(room, Len(items))
            IN  /\ consumer[w] = "piped" /\ items # <<>>
                /\ taken' = [taken EXCEPT ![w] = @ + Len(fresh)]
                /\ IF writer = "ended" THEN
                       /\ consumer' = [consumer EXCEPT ![w] = "dropped"]
                       /\ pending' = [pending EXCEPT ![w] = <<>>]
                       /\ UNCHANGED in_channel
                   ELSE
                       /\ in_channel' = in_channel \o FirstOf(items, fits)
                       /\ pending' = [pending EXCEPT ![w] = LeftPending(items, fits)]
                       /\ UNCHANGED consumer
                /\ UNCHANGED <<vars, writer, in_buffer, in_pipe, input>>

(* The policy closes its end; the stream is over when nothing waits.       *)
StreamEnds(w) ==
    /\ consumer[w] = "piped" /\ pending[w] = <<>>
    /\ consumer' = [consumer EXCEPT ![w] = "dropped"]
    /\ UNCHANGED <<vars, taken, pending, in_channel, writer, in_buffer, in_pipe, input>>

(* spawn_stdin_writer: one item, and whatever more there is, up to a       *)
(* buffer full.                                                            *)
WriterReceives ==
    LET n == AtMost(Len(in_channel), StdinBuffer) IN
    /\ child # "none" /\ writer = "recv" /\ n > 0
    /\ in_buffer' = FirstOf(in_channel, n)
    /\ in_channel' = Beyond(in_channel, n)
    /\ writer' = "write"
    /\ UNCHANGED <<vars, consumer, taken, pending, in_pipe, input>>

(* write_all: a full pipe makes it wait, one nobody reads ends the task.   *)
WriterWrites ==
    /\ writer = "write"
    /\ IF Writer
         THEN /\ Len(in_pipe) < PipeBytes
              /\ in_pipe' = Append(in_pipe, Head(in_buffer))
              /\ in_buffer' = Tail(in_buffer)
              /\ writer' = IF Len(in_buffer) = 1 THEN "recv" ELSE "write"
              /\ UNCHANGED in_channel
         ELSE /\ writer' = "ended"
              /\ in_buffer' = <<>> /\ in_channel' = <<>>
              /\ UNCHANGED in_pipe
    /\ UNCHANGED <<vars, consumer, taken, pending, input>>

(* The resource and every stream have dropped their senders: the child's   *)
(* standard input is closed.                                               *)
WriterEnds ==
    /\ child # "none" /\ writer = "recv" /\ in_channel = <<>>
    /\ ~handle /\ \A w \in Writes : consumer[w] # "piped"
    /\ writer' = "ended"
    /\ UNCHANGED <<vars, consumer, taken, pending, in_channel, in_buffer, in_pipe, input>>

(* The store goes, and with it the consumers and what they had in hand     *)
(* (which pending keeps, for the books).                                   *)
StreamsDropped ==
    /\ consumer' = [w \in Writes |-> IF consumer[w] = "piped" THEN "dropped" ELSE consumer[w]]
    /\ UNCHANGED <<taken, pending, in_channel, writer, in_buffer, in_pipe, input>>

ChildReads ==
    /\ Writer /\ in_pipe # <<>>
    /\ input' = Append(input, Head(in_pipe))
    /\ in_pipe' = Tail(in_pipe)
    /\ UNCHANGED <<vars, consumer, taken, pending, in_channel, writer, in_buffer>>

SNext ==
    \/ Next /\ (run' = "gone" => run = "gone") /\ UNCHANGED input_vars
    \/ StoreDropped /\ StreamsDropped
    \/ \E w \in Writes : write_stdin(w) \/ poll_consume(w) \/ StreamEnds(w)
    \/ WriterReceives \/ WriterWrites \/ WriterEnds \/ ChildReads

SSpec == SInit /\ [][SNext]_svars /\ Fairness

(***************************************************************************)
(* Properties.                                                             *)
(***************************************************************************)
\* The bytes of w in s are a beginning of the stream, in its order.
InOrder(w, s) ==
    /\ \A i, j \in DOMAIN s :
           s[i][1] = w /\ s[j][1] = w => (i < j <=> s[i][2] < s[j][2])
    /\ \A j \in DOMAIN s : s[j][1] = w =>
           \A k \in 1..s[j][2] : \E i \in DOMAIN s : s[i] = <<w, k>>

\* They are its first n bytes.
Complete(w, s, n) ==
    /\ InOrder(w, s)
    /\ \A i \in DOMAIN s : s[i][1] = w => s[i][2] \in 1..n
    /\ \A k \in 1..n : \E i \in DOMAIN s : s[i] = <<w, k>>

(* What a policy writes is neither lost, doubled nor reordered on its way  *)
(* through full buffers, also when several of its streams share them: the  *)
(* child has read a beginning of each stream, and while there is a writer  *)
(* every byte taken from a stream is still under way (poll_consume,        *)
(* spawn_stdin_writer).                                                    *)
InputInOrder ==
    \A w \in Writes :
        /\ InOrder(w, input \o in_pipe)
        /\ writer # "ended" =>
             Complete(w, input \o in_pipe \o in_buffer \o in_channel \o pending[w], taken[w])
=============================================================================
