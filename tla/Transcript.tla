----------------------------- MODULE Transcript -----------------------------
(***************************************************************************)
(* The PTY transcript of the policy host (mitb-host/src/pty_io.rs,         *)
(* transcript.rs and the `terminal` interface in lib.rs): one reader       *)
(* thread appends what the child prints to a buffer that is trimmed from   *)
(* the front, while the policy reads it by cursor.  The mutex around the   *)
(* buffer makes each append and each read one step; between the steps of   *)
(* the reader thread the policy may read at any time.                      *)
(***************************************************************************)
EXTENDS Integers, Sequences

CONSTANTS Byte,           \* the values of a byte
          MaxBytes,       \* HostOptions::max_transcript_bytes
          ChunkBytes,     \* size of the reader's chunk array (4096)
          MaxOutput,      \* bound: bytes the child prints in a behaviour
          U64Max,         \* largest value of a cursor
          Cursors,        \* the cursors a policy makes up itself
          Limits          \* the max_bytes arguments a policy passes

(* The CLI rejects a zero buffer; a child does not print 2^64 bytes.       *)
ASSUME TranscriptAssumption ==
    /\ MaxBytes \in Nat \ {0}
    /\ ChunkBytes \in Nat \ {0}
    /\ U64Max \in Nat
    /\ MaxOutput \in 0..U64Max
    /\ Cursors \subseteq 0..U64Max
    /\ Limits \subseteq Nat

VARIABLES
    transcript,   \* the TranscriptBuffer
    reader,       \* what the reader thread does next
    chunk,        \* the bytes it read and has not yet appended
    shown,        \* the bytes sent to the viewer as TerminalOutput events
    cursor,       \* the cursor the policy got with its last reply
    reply,        \* the last reply: its bytes, and the position they end at
    output,       \* history: every byte the reader has read
    base,         \* history: where the policy began to follow the transcript
    taken         \* history: the positions it has been given since

vars == <<transcript, reader, chunk, shown, cursor, reply, output, base, taken>>

SatAdd(a, b) == IF a + b > U64Max THEN U64Max ELSE a + b
SatSub(a, b) == IF a < b THEN 0 ELSE a - b
Least(a, b) == IF a < b THEN a ELSE b
Greatest(a, b) == IF a < b THEN b ELSE a

Buffer == [start : Nat, bytes : Seq(Byte)]

(***************************************************************************)
(* The operations on the buffer.                                           *)
(***************************************************************************)
(* Mutant: the bytes are dropped and the start is left where it was.       *)
TrimKeepingStart(t) ==
    LET overflow == SatSub(Len(t.bytes), MaxBytes) IN
    [t EXCEPT !.bytes = SubSeq(t.bytes, overflow + 1, Len(t.bytes))]

trim_transcript(t) ==
    LET overflow == SatSub(Len(t.bytes), MaxBytes) IN
    [start |-> SatAdd(t.start, overflow),
     bytes |-> SubSeq(t.bytes, overflow + 1, Len(t.bytes))]

Appended(t, bytes) ==
    trim_transcript([start |-> t.start, bytes |-> t.bytes \o bytes])

transcript_head(t) == SatAdd(t.start, Len(t.bytes))

transcript_snapshot_bytes(t, max_bytes) ==
    LET keep == Least(Len(t.bytes), max_bytes)
        start_index == SatSub(Len(t.bytes), keep)
    IN SubSeq(t.bytes, start_index + 1, Len(t.bytes))

(* The position a read begins at: the cursor, clamped to what is retained. *)
ReadStart(t, at) == Least(Greatest(at, t.start), transcript_head(t))

(* Mutant: the cursor is returned as if every byte available were read.    *)
BytesSinceToHead(t, at, max_bytes) ==
    LET offset == SatSub(ReadStart(t, at), t.start)
        keep == Least(SatSub(Len(t.bytes), offset), max_bytes)
    IN [next |-> transcript_head(t),
        bytes |-> SubSeq(t.bytes, offset + 1, offset + keep)]

(* Mutant: a reply that cannot be filled up to its limit is left empty.    *)
BytesSinceWhole(t, at, max_bytes) ==
    LET start == ReadStart(t, at)
        offset == SatSub(start, t.start)
        keep == IF SatSub(Len(t.bytes), offset) < max_bytes THEN 0 ELSE max_bytes
    IN [next |-> SatAdd(start, keep), bytes |-> SubSeq(t.bytes, offset + 1, offset + keep)]

transcript_bytes_since(t, at, max_bytes) ==
    LET start == ReadStart(t, at)
        offset == SatSub(start, t.start)
        keep == Least(SatSub(Len(t.bytes), offset), max_bytes)
        bytes == SubSeq(t.bytes, offset + 1, offset + keep)
    IN [next |-> SatAdd(start, Len(bytes)), bytes |-> bytes]

(***************************************************************************)
(* The system starts with an empty buffer and a policy at cursor zero.     *)
(***************************************************************************)
Init ==
    /\ transcript = [start |-> 0, bytes |-> << >>]
    /\ reader = "read"
    /\ chunk = << >>
    /\ shown = << >>
    /\ cursor = 0
    /\ reply = [next |-> 0, bytes |-> << >>]
    /\ output = << >>
    /\ base = 0
    /\ taken = {}

PolicySide == <<cursor, reply, base, taken>>

(***************************************************************************)
(* The reader thread: read a chunk, answer the terminal queries in it,     *)
(* hand it to the viewer, append it.                                       *)
(***************************************************************************)
ReadChunk(bytes) ==
    /\ reader = "read"
    /\ Len(output) + Len(bytes) <= MaxOutput
    /\ chunk' = bytes
    /\ output' = output \o bytes
    /\ reader' = "respond"
    /\ UNCHANGED <<transcript, shown, PolicySide>>

(* Ok(0), or an error that is not Interrupted.                             *)
EndOfOutput ==
    /\ reader = "read"
    /\ reader' = "ended"
    /\ UNCHANGED <<transcript, chunk, shown, output, PolicySide>>

(* The answers to the chunk's queries are written, and the chunk is sent.  *)
Respond ==
    /\ reader = "respond"
    /\ reader' = "append"
    /\ shown' = shown \o chunk
    /\ UNCHANGED <<transcript, chunk, output, PolicySide>>

(* An answer cannot be written: the thread returns with the chunk in hand. *)
RespondFails ==
    /\ reader = "respond"
    /\ reader' = "ended"
    /\ UNCHANGED <<transcript, chunk, shown, output, PolicySide>>

AppendChunk ==
    /\ reader = "append"
    /\ transcript' = Appended(transcript, chunk)
    /\ chunk' = << >>
    /\ reader' = "read"
    /\ UNCHANGED <<shown, output, PolicySide>>

(***************************************************************************)
(* The policy.  The positions of the bytes in a reply are the ones the     *)
(* policy can infer: they end at the cursor that came with them.           *)
(***************************************************************************)
ReplyStart(r) == r.next - Len(r.bytes)
Positions(r) == (ReplyStart(r) + 1)..r.next

head ==
    /\ cursor' = transcript_head(transcript)
    /\ base' = cursor'
    /\ taken' = {}
    /\ UNCHANGED <<transcript, reader, chunk, shown, output, reply>>

snapshot(max_bytes) ==
    /\ reply' = [next  |-> transcript_head(transcript),
                 bytes |-> transcript_snapshot_bytes(transcript, max_bytes)]
    /\ UNCHANGED <<transcript, reader, chunk, shown, output, cursor, base, taken>>

read_since(at, max_bytes) ==
    /\ reply' = transcript_bytes_since(transcript, at, max_bytes)
    /\ cursor' = reply'.next
    /\ IF at = cursor
         THEN /\ base' = base
              /\ taken' = taken \cup Positions(reply')
         ELSE /\ base' = ReplyStart(reply')
              /\ taken' = Positions(reply')
    /\ UNCHANGED <<transcript, reader, chunk, shown, output>>

Chunks == UNION {[1..n -> Byte] : n \in 1..ChunkBytes}

Next ==
    \/ \E bytes \in Chunks : ReadChunk(bytes)
    \/ EndOfOutput
    \/ Respond
    \/ RespondFails
    \/ AppendChunk
    \/ head
    \/ \E max_bytes \in Limits : snapshot(max_bytes)
    \/ \E at \in Cursors \cup {cursor}, max_bytes \in Limits :
           read_since(at, max_bytes)

Spec == Init /\ [][Next]_vars

(* A policy that goes on reading from its cursor, with room in the reply,  *)
(* and in the end stops going back, and a reader thread that finishes the  *)
(* chunk it has.                                                           *)
Follow == \E max_bytes \in Limits \ {0} : read_since(cursor, max_bytes)

FairSpec ==
    /\ Spec
    /\ WF_vars(Follow)
    /\ WF_vars(AppendChunk)
    /\ <>[][cursor' >= cursor]_vars

-----------------------------------------------------------------------------
(***************************************************************************)
(* Properties.                                                             *)
(***************************************************************************)
TypeOK ==
    /\ transcript \in Buffer
    /\ reader \in {"read", "respond", "append", "ended"}
    /\ chunk \in Seq(Byte)
    /\ shown \in Seq(Byte)
    /\ output \in Seq(Byte)
    /\ cursor \in Nat
    /\ base \in Nat
    /\ reply \in [next : Nat, bytes : Seq(Byte)]
    /\ taken \subseteq Nat

(* The buffer is the newest part of what the child printed, whatever the   *)
(* chunks were and however often they were trimmed: byte i of it is byte   *)
(* start + i of the output, it ends where the chunk in hand begins, and it *)
(* is short of max_transcript_bytes only while nothing was dropped         *)
(* (read_pty_output and trim_transcript, pty_io.rs).                       *)
Window ==
    /\ Len(transcript.bytes) <= MaxBytes
    /\ transcript.start > 0 => Len(transcript.bytes) = MaxBytes
    /\ transcript.start + Len(transcript.bytes) + Len(chunk) = Len(output)
    /\ \A i \in 1..Len(transcript.bytes) :
           transcript.bytes[i] = output[transcript.start + i]

(* The bytes of a reply are the child's bytes at the positions its cursor  *)
(* implies: a policy that adds up lengths and cursors is never off by one, *)
(* with any cursor and limit and with trimming between two reads           *)
(* (transcript_bytes_since, transcript_snapshot_bytes).                    *)
ReplyFaithful ==
    /\ reply.next <= Len(output)
    /\ Len(reply.bytes) <= reply.next
    /\ \A i \in 1..Len(reply.bytes) :
           reply.bytes[i] = output[ReplyStart(reply) + i]

(* A policy that passes each cursor back misses a byte only when the byte  *)
(* was trimmed away (wit/world.wit: "If retained transcript no longer      *)
(* includes `cursor`, the next cursor may advance beyond `cursor`").       *)
NothingSkipped ==
    \A p \in (base + 1)..cursor : p \in taken \/ p <= transcript.start

(* Refinement: to a policy the buffer is an endless log of which only the  *)
(* newest bytes can be asked for.  Chunks, trimming, the start that moves  *)
(* with it and saturating arithmetic are invisible, whatever cursors and   *)
(* limits it passes (transcript.rs, trim_transcript).                      *)
Log == INSTANCE TerminalLog
       WITH log <- SubSeq(output, 1, transcript.start + Len(transcript.bytes))

IsALog == Log!LogSpec

(* A following policy catches up with everything the viewer was shown,     *)
(* however small its replies and however often the buffer was trimmed.     *)
CatchesUp ==
    \A n \in 1..MaxOutput : Len(shown) >= n ~> cursor >= n
=============================================================================
