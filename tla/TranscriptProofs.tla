-------------------------- MODULE TranscriptProofs --------------------------
(***************************************************************************)
(* Proofs about Transcript, for every buffer size, chunk size, byte set,   *)
(* set of cursors and set of limits.                                       *)
(***************************************************************************)
EXTENDS Transcript, SequenceTheorems, TLAPS

-----------------------------------------------------------------------------
(* What the operations on the buffer compute.                              *)

(* A slice of a sequence that stays within it (the ranges drain(..n) and   *)
(* bytes[a..b] of the code, which would panic otherwise).                  *)
LEMMA Slice ==
    ASSUME NEW s \in Seq(Byte), NEW m \in Nat \ {0}, NEW n \in Nat,
           n <= Len(s), m <= n + 1
    PROVE  /\ SubSeq(s, m, n) \in Seq(Byte)
           /\ Len(SubSeq(s, m, n)) = n - m + 1
           /\ \A i \in 1..(n - m + 1) : SubSeq(s, m, n)[i] = s[m + i - 1]
<1>1. \A i \in m..n : s[i] \in Byte
  BY ElementOfSeq
<1>2. QED
  BY <1>1, SubSeqProperties

(* Within their range the saturating operators are plain arithmetic, and   *)
(* min and max are one of their arguments.                                 *)
LEMMA SatSubFact ==
    ASSUME NEW a \in Nat, NEW b \in Nat
    PROVE  /\ SatSub(a, b) \in Nat
           /\ b <= a => SatSub(a, b) = a - b
           /\ a <= b => SatSub(a, b) = 0
BY DEF SatSub

LEMMA SatAddFact ==
    ASSUME NEW a \in Nat, NEW b \in Nat, a + b <= U64Max
    PROVE  SatAdd(a, b) = a + b
BY TranscriptAssumption DEF SatAdd

LEMMA MinMaxFact ==
    ASSUME NEW a \in Nat, NEW b \in Nat
    PROVE  /\ Least(a, b) \in Nat /\ Greatest(a, b) \in Nat
           /\ a <= b => Least(a, b) = a /\ Greatest(a, b) = b
           /\ b <= a => Least(a, b) = b /\ Greatest(a, b) = a
BY DEF Least, Greatest

(* Trimming keeps the newest MaxBytes bytes and moves the start by what it *)
(* dropped (trim_transcript).                                              *)
LEMMA TrimSpec ==
    ASSUME NEW t \in Buffer, t.start + Len(t.bytes) <= U64Max,
           NEW r, r = trim_transcript(t)
    PROVE  /\ r \in Buffer
           /\ Len(r.bytes) = Least(Len(t.bytes), MaxBytes)
           /\ r.start + Len(r.bytes) = t.start + Len(t.bytes)
           /\ \A i \in 1..Len(r.bytes) :
                  r.bytes[i] = t.bytes[i + (r.start - t.start)]
<1>1. PICK n \in Nat, s \in Nat, b \in Seq(Byte) :
          n = Len(t.bytes) /\ s = t.start /\ b = t.bytes
  BY LenProperties DEF Buffer
<1>2. PICK overflow \in Nat : overflow = SatSub(n, MaxBytes)
  BY SatSubFact, TranscriptAssumption
<1>3. overflow <= n /\ n - overflow = Least(n, MaxBytes)
  <2>1. CASE n <= MaxBytes
    <3>1. overflow = 0 /\ Least(n, MaxBytes) = n
      BY <1>2, <2>1, SatSubFact, MinMaxFact, TranscriptAssumption
    <3> QED BY <3>1
  <2>2. CASE MaxBytes <= n
    <3>1. overflow = n - MaxBytes /\ Least(n, MaxBytes) = MaxBytes
      BY <1>2, <2>2, SatSubFact, MinMaxFact, TranscriptAssumption
    <3> QED BY <2>2, <3>1, TranscriptAssumption
  <2> QED BY <2>1, <2>2, TranscriptAssumption
<1>4. s + overflow <= U64Max
  BY <1>1, <1>3, TranscriptAssumption
<1>5. r = [start |-> s + overflow, bytes |-> SubSeq(b, overflow + 1, n)]
  BY <1>1, <1>2, <1>4, SatAddFact DEF trim_transcript
<1>6. /\ SubSeq(b, overflow + 1, n) \in Seq(Byte)
      /\ Len(SubSeq(b, overflow + 1, n)) = n - (overflow + 1) + 1
      /\ \A i \in 1..(n - (overflow + 1) + 1) :
             SubSeq(b, overflow + 1, n)[i] = b[(overflow + 1) + i - 1]
  <2>1. overflow + 1 \in Nat \ {0} /\ overflow + 1 <= n + 1 /\ n <= Len(b)
    BY <1>1, <1>3
  <2> QED
    BY <2>1, Slice
<1>7. PICK c \in Seq(Byte) :
          /\ r = [start |-> s + overflow, bytes |-> c]
          /\ Len(c) = n - overflow
          /\ \A i \in 1..(n - overflow) : c[i] = b[i + overflow]
  <2>1. n - (overflow + 1) + 1 = n - overflow
    OBVIOUS
  <2>2. \A i \in 1..(n - overflow) : (overflow + 1) + i - 1 = i + overflow
    OBVIOUS
  <2> QED
    BY <1>5, <1>6, <2>1, <2>2
<1>8. r.start = s + overflow /\ r.bytes = c
  BY <1>7
<1>9. r \in Buffer
  BY <1>7 DEF Buffer
<1>10. (s + overflow) - s = overflow
  OBVIOUS
<1>11. (s + overflow) + (n - overflow) = s + n
  OBVIOUS
<1> QED
  BY <1>1, <1>3, <1>7, <1>8, <1>9, <1>10, <1>11

(* What a reply r to a read of t at the cursor `at` is.                    *)
CutOf(t, at, r) ==
    /\ r \in [next : Nat, bytes : Seq(Byte)]
    /\ Len(r.bytes) <= r.next
    /\ t.start <= ReplyStart(r)
    /\ r.next <= t.start + Len(t.bytes)
    /\ at <= t.start + Len(t.bytes) => ReplyStart(r) >= at
    /\ at >= t.start => ReplyStart(r) <= at
    /\ at < t.start => ReplyStart(r) = t.start
    /\ at > t.start + Len(t.bytes) => ReplyStart(r) = t.start + Len(t.bytes)
    /\ \A i \in 1..Len(r.bytes) :
           r.bytes[i] = t.bytes[i + (ReplyStart(r) - t.start)]

(* It has as many bytes as were asked for and are there.                   *)
FullCut(t, max_bytes, r) ==
    r.next = Least(ReplyStart(r) + max_bytes, t.start + Len(t.bytes))

(* A read returns the bytes from where it begins up to the cursor it       *)
(* returns, and begins at the cursor unless that was trimmed away or lies  *)
(* beyond the head (transcript_bytes_since).                               *)
LEMMA ReadSpec ==
    ASSUME NEW t \in Buffer, t.start + Len(t.bytes) <= U64Max,
           NEW at \in Nat, NEW max_bytes \in Nat,
           NEW r, r = transcript_bytes_since(t, at, max_bytes)
    PROVE  CutOf(t, at, r) /\ FullCut(t, max_bytes, r)
<1>1. PICK n \in Nat, s \in Nat, b \in Seq(Byte) :
          n = Len(t.bytes) /\ s = t.start /\ b = t.bytes
  BY LenProperties DEF Buffer
<1>2. transcript_head(t) = s + n
  BY <1>1, SatAddFact DEF transcript_head
<1>3. PICK start \in Nat :
          /\ start = ReadStart(t, at)
          /\ s <= start /\ start <= s + n
          /\ at <= s + n => start >= at
          /\ at >= s => start <= at
          /\ at < s => start = s
          /\ at > s + n => start = s + n
  <2>1. Greatest(at, s) \in Nat
    BY MinMaxFact
  <2>2. ReadStart(t, at) = Least(Greatest(at, s), s + n)
    BY <1>1, <1>2 DEF ReadStart
  <2>3. PICK hi \in Nat : hi = s + n
    OBVIOUS
  <2>4. CASE at <= s
    BY <2>2, <2>3, <2>4, MinMaxFact
  <2>5. CASE s < at /\ at <= hi
    BY <2>2, <2>3, <2>5, MinMaxFact
  <2>6. CASE s < at /\ hi < at
    BY <2>2, <2>3, <2>6, MinMaxFact
  <2> QED
    BY <2>3, <2>4, <2>5, <2>6
<1>4. PICK offset \in Nat : offset = SatSub(start, t.start) /\ start = s + offset
  <2>1. SatSub(start, s) = start - s
    BY <1>3, SatSubFact
  <2> QED
    BY <1>1, <1>3, <2>1
<1>5. offset <= n
  BY <1>3, <1>4
<1>6. PICK left \in Nat : left = SatSub(n, offset) /\ left = n - offset
  BY <1>5, SatSubFact
<1>7. PICK keep \in Nat : keep = Least(left, max_bytes) /\ offset + keep <= n
  <2>1. Least(left, max_bytes) \in Nat /\ Least(left, max_bytes) <= left
    BY DEF Least
  <2>2. PICK k \in Nat : k = Least(left, max_bytes) /\ k <= left
    BY <2>1
  <2>3. offset + k <= n
    BY <1>5, <1>6, <2>2
  <2> QED
    BY <2>2, <2>3
<1>8. PICK c : c = SubSeq(b, offset + 1, offset + keep)
  OBVIOUS
<1>9. r = [next |-> SatAdd(start, Len(c)), bytes |-> c]
  BY <1>1, <1>3, <1>4, <1>6, <1>7, <1>8 DEF transcript_bytes_since
<1>10. /\ c \in Seq(Byte)
       /\ Len(c) = keep
       /\ \A i \in 1..keep : c[i] = b[i + offset]
  <2>1. /\ offset + 1 \in Nat \ {0} /\ offset + keep \in Nat
        /\ offset + keep <= Len(b) /\ offset + 1 <= (offset + keep) + 1
    BY <1>1, <1>7
  <2>2. /\ c \in Seq(Byte)
        /\ Len(c) = (offset + keep) - (offset + 1) + 1
        /\ \A i \in 1..((offset + keep) - (offset + 1) + 1) :
               c[i] = b[(offset + 1) + i - 1]
    BY <1>8, <2>1, Slice
  <2>3. (offset + keep) - (offset + 1) + 1 = keep
    OBVIOUS
  <2>4. \A i \in 1..keep : (offset + 1) + i - 1 = i + offset
    OBVIOUS
  <2> QED
    BY <2>2, <2>3, <2>4
<1>11. SatAdd(start, keep) = start + keep
  <2>1. start + keep <= s + n
    BY <1>4, <1>7
  <2> QED
    BY <1>1, <2>1, SatAddFact, TranscriptAssumption
<1>12. r.next = start + keep /\ r.bytes = c
       /\ r \in [next : Nat, bytes : Seq(Byte)]
  BY <1>9, <1>10, <1>11
<1>13. ReplyStart(r) = start /\ start - s = offset
  BY <1>4, <1>10, <1>12 DEF ReplyStart
<1>14. start + keep <= s + n
  BY <1>4, <1>7
<1>15. \A i \in 1..Len(r.bytes) :
           r.bytes[i] = t.bytes[i + (ReplyStart(r) - t.start)]
  BY <1>1, <1>10, <1>12, <1>13
<1>16. keep <= start + keep
  OBVIOUS
<1>17. start + keep = Least(start + max_bytes, s + n)
  <2>1. n = offset + left
    BY <1>6
  <2>2. s + n = start + left
    <3>1. start = s + offset
      BY <1>4
    <3> QED
      BY <2>1, <3>1
  <2>3. PICK x \in Nat, y \in Nat : x = start + max_bytes /\ y = start + left
    OBVIOUS
  <2>4. CASE left <= max_bytes
    <3>1. keep = left /\ y <= x
      BY <1>7, <2>3, <2>4, MinMaxFact
    <3>2. Least(x, y) = y
      BY <3>1, MinMaxFact
    <3> QED
      BY <2>2, <2>3, <3>1, <3>2
  <2>5. CASE max_bytes < left
    <3>1. keep = max_bytes /\ x <= y
      BY <1>7, <2>3, <2>5, MinMaxFact
    <3>2. Least(x, y) = x
      BY <3>1, MinMaxFact
    <3> QED
      BY <2>2, <2>3, <3>1, <3>2
  <2> QED
    BY <2>4, <2>5
<1>18. FullCut(t, max_bytes, r)
  BY <1>1, <1>12, <1>13, <1>17 DEF FullCut
<1> QED
  BY <1>1, <1>3, <1>10, <1>12, <1>13, <1>14, <1>15, <1>16, <1>18 DEF CutOf

(* A snapshot is the end of the buffer (transcript_snapshot_bytes).        *)
LEMMA SnapshotSpec ==
    ASSUME NEW t \in Buffer, NEW max_bytes \in Nat,
           NEW b, b = transcript_snapshot_bytes(t, max_bytes)
    PROVE  /\ b \in Seq(Byte)
           /\ Len(b) <= Len(t.bytes)
           /\ Len(b) = Least(Len(t.bytes), max_bytes)
           /\ \A i \in 1..Len(b) : b[i] = t.bytes[i + (Len(t.bytes) - Len(b))]
<1>1. PICK n \in Nat, w \in Seq(Byte) : n = Len(t.bytes) /\ w = t.bytes
  BY LenProperties DEF Buffer
<1>2. PICK keep \in Nat : keep = Least(n, max_bytes) /\ keep <= n
  BY DEF Least
<1>3. PICK from \in Nat : from = SatSub(n, keep) /\ from = n - keep
  BY <1>2, SatSubFact
<1>4. b = SubSeq(w, from + 1, n)
  BY <1>1, <1>2, <1>3 DEF transcript_snapshot_bytes
<1>5. from + 1 \in Nat \ {0} /\ from + 1 <= n + 1 /\ n <= Len(w)
  BY <1>1, <1>2, <1>3
<1>6. /\ b \in Seq(Byte)
      /\ Len(b) = n - (from + 1) + 1
      /\ \A i \in 1..(n - (from + 1) + 1) : b[i] = w[(from + 1) + i - 1]
  BY <1>4, <1>5, Slice
<1>7. n - (from + 1) + 1 = keep
  BY <1>3
<1>8. \A i \in 1..keep : (from + 1) + i - 1 = i + (n - keep)
  BY <1>3
<1> QED
  BY <1>1, <1>2, <1>6, <1>7, <1>8

-----------------------------------------------------------------------------
(* The inductive invariant.  Window is inductive only together with the    *)
(* fact that a chunk is in hand exactly between a read and its append;     *)
(* the policy's cursor never passes the head, which only grows.            *)

Bounds ==
    /\ Len(output) <= MaxOutput
    /\ reader = "read" => chunk = << >>
    /\ \A i \in 1..Len(chunk) :
           chunk[i] = output[transcript.start + Len(transcript.bytes) + i]
    /\ base <= cursor
    /\ cursor <= transcript.start + Len(transcript.bytes)

Shown ==
    /\ reader = "append" => Len(shown) = Len(output)
    /\ reader # "append" =>
          Len(shown) = transcript.start + Len(transcript.bytes)
    /\ \A i \in 1..Len(shown) : shown[i] = output[i]

IInv ==
    /\ TypeOK
    /\ Bounds
    /\ Window
    /\ Shown
    /\ ReplyFaithful
    /\ NothingSkipped

LEMMA IInvInit == Init => IInv
<1> SUFFICES ASSUME Init PROVE IInv
  OBVIOUS
<1>1. << >> \in Seq(Byte) /\ Len(<< >>) = 0
  BY EmptySeq
<1>2. TypeOK
  BY <1>1 DEF Init, TypeOK, Buffer
<1>3. Bounds /\ Window /\ Shown /\ ReplyFaithful /\ NothingSkipped
  BY <1>1, TranscriptAssumption
     DEF Init, Bounds, Window, Shown, ReplyFaithful, NothingSkipped, ReplyStart
<1> QED
  BY <1>2, <1>3 DEF IInv

(* The numbers behind the buffer: what IInv says of them.                  *)
LEMMA Lengths ==
    ASSUME IInv
    PROVE  /\ transcript.start \in Nat /\ transcript.bytes \in Seq(Byte)
           /\ Len(transcript.bytes) \in Nat /\ Len(chunk) \in Nat
           /\ Len(output) \in Nat /\ Len(shown) \in Nat
           /\ Len(reply.bytes) \in Nat /\ reply.next \in Nat
           /\ reply.bytes \in Seq(Byte)
           /\ transcript.start + Len(transcript.bytes) <= Len(output)
           /\ transcript.start + Len(transcript.bytes) <= U64Max
           /\ transcript_head(transcript)
                 = transcript.start + Len(transcript.bytes)
<1>1. /\ transcript.start \in Nat /\ transcript.bytes \in Seq(Byte)
      /\ reply.next \in Nat /\ reply.bytes \in Seq(Byte)
  BY DEF IInv, TypeOK, Buffer
<1>2. /\ Len(transcript.bytes) \in Nat /\ Len(chunk) \in Nat
      /\ Len(output) \in Nat /\ Len(shown) \in Nat /\ Len(reply.bytes) \in Nat
  BY <1>1, LenProperties DEF IInv, TypeOK
<1>3. transcript.start + Len(transcript.bytes) + Len(chunk) = Len(output)
  BY DEF IInv, Window
<1>4. Len(output) <= MaxOutput
  BY DEF IInv, Bounds
<1>5. /\ transcript.start + Len(transcript.bytes) <= Len(output)
      /\ transcript.start + Len(transcript.bytes) <= U64Max
  BY <1>1, <1>2, <1>3, <1>4, TranscriptAssumption
<1>6. transcript_head(transcript) = transcript.start + Len(transcript.bytes)
  BY <1>1, <1>2, <1>5, SatAddFact DEF transcript_head
<1> QED
  BY <1>1, <1>2, <1>5, <1>6

(* One lemma per action.                                                   *)
LEMMA ReadChunkStep ==
    ASSUME IInv, NEW b \in Chunks, ReadChunk(b) PROVE IInv'
<1> USE Lengths
<1>1. b \in Seq(Byte)
  <2>1. PICK n \in 1..ChunkBytes : b \in [1..n -> Byte]
    BY DEF Chunks
  <2>2. n \in Nat
    BY TranscriptAssumption
  <2> QED
    BY <2>1, <2>2, SeqDef
<1>2. /\ reader = "read" /\ reader' = "respond" /\ chunk' = b
      /\ output' = output \o b /\ Len(output) + Len(b) <= MaxOutput
      /\ UNCHANGED <<transcript, shown, cursor, reply, base, taken>>
  BY DEF ReadChunk, PolicySide
<1>3. chunk = << >> /\ Len(chunk) = 0
  BY <1>2, EmptySeq DEF IInv, Bounds
<1>4. output \in Seq(Byte) /\ Len(b) \in Nat
  BY <1>1, LenProperties DEF IInv, TypeOK
<1>5. /\ output' \in Seq(Byte)
      /\ Len(output') = Len(output) + Len(b)
      /\ \A i \in 1..Len(output) : output'[i] = output[i]
      /\ \A i \in 1..Len(b) : output'[Len(output) + i] = b[i]
  <2>1. /\ output \o b \in Seq(Byte)
        /\ Len(output \o b) = Len(output) + Len(b)
        /\ \A i \in 1..(Len(output) + Len(b)) :
               (output \o b)[i] = IF i <= Len(output) THEN output[i]
                                                      ELSE b[i - Len(output)]
    BY <1>1, <1>4, ConcatProperties
  <2> QED
    BY <1>2, <1>4, <2>1
<1>6. Len(output) = transcript.start + Len(transcript.bytes)
  BY <1>3 DEF IInv, Window
<1>7. TypeOK'
  BY <1>1, <1>2, <1>5 DEF IInv, TypeOK
<1>8. Bounds'
  BY <1>2, <1>4, <1>5, <1>6 DEF IInv, Bounds
<1>9. Window'
  <2>1. \A i \in 1..Len(transcript.bytes) :
            transcript.start + i \in 1..Len(output)
    BY <1>6
  <2>2. \A i \in 1..Len(transcript.bytes) :
            transcript.bytes[i] = output'[transcript.start + i]
    BY <1>5, <2>1 DEF IInv, Window
  <2> QED
    BY <1>2, <1>5, <1>6, <2>2 DEF IInv, Window
<1>10. Shown'
  BY <1>2, <1>5, <1>6 DEF IInv, Shown
<1>11. ReplyFaithful'
  <2>1. reply.next <= Len(output) /\ Len(reply.bytes) <= reply.next
    BY DEF IInv, ReplyFaithful
  <2>2. \A i \in 1..Len(reply.bytes) : ReplyStart(reply) + i \in 1..Len(output)
    BY <2>1 DEF ReplyStart
  <2>3. \A i \in 1..Len(reply.bytes) :
            reply.bytes[i] = output'[ReplyStart(reply) + i]
    BY <1>5, <2>2 DEF IInv, ReplyFaithful
  <2>4. ReplyStart(reply)' = ReplyStart(reply)
    BY <1>2 DEF ReplyStart
  <2>5. reply.next <= Len(output')
    BY <1>4, <1>5, <2>1
  <2> QED
    BY <1>2, <2>1, <2>3, <2>4, <2>5 DEF ReplyFaithful
<1>12. NothingSkipped'
  BY <1>2 DEF IInv, NothingSkipped
<1> QED
  BY <1>7, <1>8, <1>9, <1>10, <1>11, <1>12 DEF IInv

LEMMA EndStep == ASSUME IInv, EndOfOutput \/ RespondFails PROVE IInv'
<1>1. /\ reader \in {"read", "respond"} /\ reader' = "ended"
      /\ UNCHANGED <<transcript, chunk, shown, output, cursor, reply, base, taken>>
  BY DEF EndOfOutput, RespondFails, PolicySide
<1>2. TypeOK' /\ Bounds' /\ Window' /\ Shown'
  BY <1>1 DEF IInv, TypeOK, Bounds, Window, Shown
<1>3. ReplyFaithful' /\ NothingSkipped'
  BY <1>1 DEF IInv, ReplyFaithful, ReplyStart, NothingSkipped
<1> QED
  BY <1>2, <1>3 DEF IInv

LEMMA RespondStep == ASSUME IInv, Respond PROVE IInv'
<1> USE Lengths
<1>1. /\ reader = "respond" /\ reader' = "append" /\ shown' = shown \o chunk
      /\ UNCHANGED <<transcript, chunk, output, cursor, reply, base, taken>>
  BY DEF Respond, PolicySide
<1>2. shown \in Seq(Byte) /\ chunk \in Seq(Byte)
  BY DEF IInv, TypeOK
<1>3. /\ shown' \in Seq(Byte)
      /\ Len(shown') = Len(shown) + Len(chunk)
      /\ \A i \in 1..(Len(shown) + Len(chunk)) :
             shown'[i] = IF i <= Len(shown) THEN shown[i]
                                            ELSE chunk[i - Len(shown)]
  BY <1>1, <1>2, ConcatProperties
<1>4. /\ Len(shown) = transcript.start + Len(transcript.bytes)
      /\ \A i \in 1..Len(shown) : shown[i] = output[i]
  BY <1>1 DEF IInv, Shown
<1>5. Len(shown) + Len(chunk) = Len(output)
  BY <1>4 DEF IInv, Window
<1>6. \A i \in 1..Len(shown') : shown'[i] = output[i]
  <2> SUFFICES ASSUME NEW i \in 1..(Len(shown) + Len(chunk))
               PROVE  shown'[i] = output[i]
    BY <1>3
  <2>1. CASE i <= Len(shown)
    BY <1>3, <1>4, <2>1
  <2>2. CASE ~(i <= Len(shown))
    <3>0. i - Len(shown) \in 1..Len(chunk) /\ i = Len(shown) + (i - Len(shown))
      BY <2>2
    <3>1. PICK j \in 1..Len(chunk) : j = i - Len(shown) /\ i = Len(shown) + j
      BY <3>0
    <3>2. chunk[j] = output[transcript.start + Len(transcript.bytes) + j]
      BY DEF IInv, Bounds
    <3> QED
      BY <1>3, <1>4, <2>2, <3>1, <3>2
  <2> QED
    BY <2>1, <2>2
<1>7. TypeOK' /\ Bounds' /\ Window'
  BY <1>1, <1>3 DEF IInv, TypeOK, Bounds, Window
<1>8. Shown'
  BY <1>1, <1>3, <1>5, <1>6 DEF Shown
<1>9. ReplyFaithful' /\ NothingSkipped'
  BY <1>1 DEF IInv, ReplyFaithful, ReplyStart, NothingSkipped
<1> QED
  BY <1>7, <1>8, <1>9 DEF IInv

LEMMA AppendStep == ASSUME IInv, AppendChunk PROVE IInv'
<1>1. /\ reader = "append" /\ reader' = "read" /\ chunk' = << >>
      /\ transcript' = Appended(transcript, chunk)
      /\ UNCHANGED <<shown, output, cursor, reply, base, taken>>
  BY DEF AppendChunk, PolicySide
<1>2. PICK s \in Nat, n \in Nat, k \in Nat, b \in Seq(Byte) :
          /\ s = transcript.start /\ b = transcript.bytes
          /\ n = Len(b) /\ k = Len(chunk)
          /\ transcript = [start |-> s, bytes |-> b]
  BY Lengths DEF IInv, TypeOK, Buffer
<1>3. chunk \in Seq(Byte) /\ s + n + k = Len(output) /\ s + n + k <= U64Max
  <2>1. chunk \in Seq(Byte) /\ s + n + k = Len(output)
    BY <1>2 DEF IInv, TypeOK, Window
  <2>2. Len(output) <= MaxOutput
    BY DEF IInv, Bounds
  <2> QED
    BY <2>1, <2>2, TranscriptAssumption
<1>4. /\ b \o chunk \in Seq(Byte)
      /\ Len(b \o chunk) = n + k
      /\ \A i \in 1..(n + k) :
             (b \o chunk)[i] = IF i <= n THEN b[i] ELSE chunk[i - n]
  BY <1>2, <1>3, ConcatProperties
<1>5. \A i \in 1..(n + k) : (b \o chunk)[i] = output[s + i]
  <2> SUFFICES ASSUME NEW i \in 1..(n + k)
               PROVE  (b \o chunk)[i] = output[s + i]
    OBVIOUS
  <2>1. CASE i <= n
    <3>1. b[i] = output[s + i]
      BY <1>2, <2>1 DEF IInv, Window
    <3> QED BY <1>4, <2>1, <3>1
  <2>2. CASE ~(i <= n)
    <3>1. PICK j \in 1..k : j = i - n /\ s + n + j = s + i
      BY <2>2
    <3>2. chunk[j] = output[s + n + j]
      BY <1>2 DEF IInv, Bounds
    <3> QED BY <1>4, <2>2, <3>1, <3>2
  <2> QED
    BY <2>1, <2>2
<1>6. PICK t \in Buffer : t = [start |-> s, bytes |-> b \o chunk]
  BY <1>4 DEF Buffer
<1>7. t.start = s /\ Len(t.bytes) = n + k /\ transcript' = trim_transcript(t)
  <2>1. t.start = s /\ t.bytes = b \o chunk
    BY <1>6
  <2>2. Appended(transcript, chunk) = trim_transcript(t)
    BY <1>2, <1>6 DEF Appended
  <2> QED
    BY <1>1, <1>4, <2>1, <2>2
<1>8. PICK r \in Buffer :
          /\ r = transcript'
          /\ Len(r.bytes) = Least(n + k, MaxBytes)
          /\ r.start + Len(r.bytes) = s + (n + k)
          /\ \A i \in 1..Len(r.bytes) :
                 r.bytes[i] = t.bytes[i + (r.start - s)]
  <2>1. t.start + Len(t.bytes) <= U64Max
    BY <1>3, <1>7
  <2>2. PICK r : r = trim_transcript(t)
    OBVIOUS
  <2> QED
    BY <1>7, <2>1, <2>2, TrimSpec
<1>9. PICK m \in Nat, s2 \in Nat :
          /\ m = Len(r.bytes) /\ s2 = r.start /\ s2 + m = s + n + k
          /\ m <= n + k /\ m <= MaxBytes /\ m \in {n + k, MaxBytes}
  <2>1. r.start \in Nat /\ Len(r.bytes) \in Nat
    BY LenProperties DEF Buffer
  <2>2. /\ Least(n + k, MaxBytes) <= n + k /\ Least(n + k, MaxBytes) <= MaxBytes
        /\ Least(n + k, MaxBytes) \in {n + k, MaxBytes}
    BY TranscriptAssumption DEF Least
  <2>3. s + (n + k) = s + n + k
    OBVIOUS
  <2>4. /\ Len(r.bytes) <= n + k /\ Len(r.bytes) <= MaxBytes
        /\ Len(r.bytes) \in {n + k, MaxBytes}
        /\ r.start + Len(r.bytes) = s + n + k
    BY <1>8, <2>2, <2>3
  <2> QED
    BY <2>1, <2>4
<1>10. s <= s2
  BY <1>9
<1>11. \A i \in 1..m : r.bytes[i] = output[s2 + i]
  <2> SUFFICES ASSUME NEW i \in 1..m PROVE r.bytes[i] = output[s2 + i]
    OBVIOUS
  <2>0. i + (s2 - s) \in 1..(n + k) /\ s + (i + (s2 - s)) = s2 + i
    <3>1. s2 + m = s + n + k /\ i \in Nat /\ 1 <= i /\ i <= m
      BY <1>9
    <3> QED
      BY <1>10, <3>1
  <2>1. PICK j \in 1..(n + k) : j = i + (s2 - s) /\ s + j = s2 + i
    BY <2>0
  <2>2. r.bytes[i] = (b \o chunk)[j]
    BY <1>6, <1>8, <1>9, <2>1
  <2> QED
    BY <1>5, <2>1, <2>2
<1>12. s2 > 0 => m = MaxBytes
  <2>1. s > 0 => n = MaxBytes
    BY <1>2 DEF IInv, Window
  <2> QED
    BY <1>9, <2>1, TranscriptAssumption
<1>13. << >> \in Seq(Byte) /\ Len(<< >>) = 0
  BY EmptySeq
<1>14. TypeOK'
  BY <1>1, <1>8, <1>13 DEF IInv, TypeOK
<1>15. Window'
  BY <1>1, <1>3, <1>8, <1>9, <1>11, <1>12, <1>13 DEF Window
<1>16. Bounds'
  <2>1. cursor <= s + n
    BY <1>2 DEF IInv, Bounds
  <2>2. cursor <= s2 + m
    BY <1>9, <2>1 DEF IInv, TypeOK
  <2> QED
    BY <1>1, <1>8, <1>9, <1>13, <2>2 DEF IInv, Bounds
<1>17. Shown'
  <2>1. Len(shown) = s2 + m
    BY <1>1, <1>3, <1>9 DEF IInv, Shown
  <2> QED
    BY <1>1, <1>8, <1>9, <2>1 DEF IInv, Shown
<1>18. ReplyFaithful'
  BY <1>1 DEF IInv, ReplyFaithful, ReplyStart
<1>19. NothingSkipped'
  <2> SUFFICES ASSUME NEW p \in (base + 1)..cursor
               PROVE  p \in taken \/ p <= s2
    BY <1>1, <1>8, <1>9 DEF NothingSkipped
  <2>1. p \in taken \/ p <= s
    BY <1>2 DEF IInv, NothingSkipped
  <2>2. p \in Int
    BY DEF IInv, TypeOK
  <2> QED
    BY <1>10, <2>1, <2>2
<1> QED
  BY <1>14, <1>15, <1>16, <1>17, <1>18, <1>19 DEF IInv

LEMMA HeadStep == ASSUME IInv, head PROVE IInv'
<1> USE Lengths
<1>1. /\ cursor' = transcript.start + Len(transcript.bytes)
      /\ base' = cursor' /\ taken' = {}
      /\ UNCHANGED <<transcript, reader, chunk, shown, output, reply>>
  BY DEF head
<1>2. TypeOK'
  BY <1>1 DEF IInv, TypeOK
<1>3. Bounds' /\ Window' /\ Shown'
  BY <1>1 DEF IInv, Bounds, Window, Shown
<1>4. ReplyFaithful' /\ NothingSkipped'
  BY <1>1 DEF IInv, ReplyFaithful, ReplyStart, NothingSkipped
<1> QED
  BY <1>2, <1>3, <1>4 DEF IInv

(* A reply cut out of the buffer is faithful, wherever in the buffer it    *)
(* was cut.                                                                *)
LEMMA CutFaithful ==
    ASSUME IInv, NEW r \in [next : Nat, bytes : Seq(Byte)],
           r = reply', UNCHANGED output,
           transcript.start <= ReplyStart(r),
           r.next <= transcript.start + Len(transcript.bytes),
           \A i \in 1..Len(r.bytes) :
               r.bytes[i] = transcript.bytes[i + (ReplyStart(r) - transcript.start)]
    PROVE  ReplyFaithful'
<1>1. PICK s \in Nat, n \in Nat, a \in Nat, k \in Nat :
          /\ s = transcript.start /\ n = Len(transcript.bytes)
          /\ a = r.next /\ k = Len(r.bytes)
  BY Lengths, LenProperties
<1>2. s <= a - k /\ a <= s + n /\ s + n <= Len(output) /\ Len(output) \in Nat
  BY <1>1, Lengths DEF ReplyStart
<1>3. \A i \in 1..k : r.bytes[i] = output[(a - k) + i]
  <2> SUFFICES ASSUME NEW i \in 1..k PROVE r.bytes[i] = output[(a - k) + i]
    OBVIOUS
  <2>1. i + ((a - k) - s) \in 1..n /\ s + (i + ((a - k) - s)) = (a - k) + i
    BY <1>2
  <2>2. PICK j \in 1..n : j = i + ((a - k) - s) /\ s + j = (a - k) + i
    BY <2>1
  <2>3. transcript.bytes[j] = output[s + j]
    BY <1>1 DEF IInv, Window
  <2> QED
    BY <1>1, <2>2, <2>3 DEF ReplyStart
<1>4. a <= Len(output) /\ k <= a
  BY <1>2
<1> QED
  BY <1>1, <1>3, <1>4 DEF ReplyFaithful, ReplyStart

LEMMA SnapshotStep ==
    ASSUME IInv, NEW max_bytes \in Limits, snapshot(max_bytes) PROVE IInv'
<1>1. PICK b : b = transcript_snapshot_bytes(transcript, max_bytes)
  OBVIOUS
<1>2. /\ reply' = [next |-> transcript.start + Len(transcript.bytes), bytes |-> b]
      /\ UNCHANGED <<transcript, reader, chunk, shown, output, cursor, base, taken>>
  BY <1>1, Lengths DEF snapshot
<1>3. /\ b \in Seq(Byte)
      /\ Len(b) <= Len(transcript.bytes)
      /\ \A i \in 1..Len(b) :
             b[i] = transcript.bytes[i + (Len(transcript.bytes) - Len(b))]
  <2>1. transcript \in Buffer /\ max_bytes \in Nat
    BY TranscriptAssumption DEF IInv, TypeOK
  <2> QED
    BY <1>1, <2>1, SnapshotSpec
<1>4. PICK r \in [next : Nat, bytes : Seq(Byte)] :
          /\ r = reply' /\ r.next = transcript.start + Len(transcript.bytes)
          /\ r.bytes = b
  <2>1. PICK h \in Nat : h = transcript.start + Len(transcript.bytes)
    BY Lengths
  <2>2. PICK r : r = [next |-> h, bytes |-> b]
    OBVIOUS
  <2>3. r \in [next : Nat, bytes : Seq(Byte)] /\ r.next = h /\ r.bytes = b
    BY <1>3, <2>2
  <2> QED
    BY <1>2, <2>1, <2>2, <2>3
<1>5. /\ transcript.start <= ReplyStart(r)
      /\ ReplyStart(r) - transcript.start = Len(transcript.bytes) - Len(b)
  <2>1. Len(b) \in Nat
    BY <1>3, LenProperties
  <2> QED
    BY <1>3, <1>4, <2>1, Lengths DEF ReplyStart
<1>6. ReplyFaithful'
  <2>1. r.next <= transcript.start + Len(transcript.bytes)
    BY <1>4, Lengths
  <2>2. \A i \in 1..Len(r.bytes) :
            r.bytes[i] = transcript.bytes[i + (ReplyStart(r) - transcript.start)]
    BY <1>3, <1>4, <1>5
  <2> QED
    BY <1>2, <1>4, <1>5, <2>1, <2>2, CutFaithful
<1>7. TypeOK' /\ Bounds' /\ Window' /\ Shown' /\ NothingSkipped'
  BY <1>2, <1>4 DEF IInv, TypeOK, Bounds, Window, Shown, NothingSkipped
<1> QED
  BY <1>6, <1>7 DEF IInv

LEMMA ReadSinceStep ==
    ASSUME IInv, NEW at \in Cursors \cup {cursor}, NEW max_bytes \in Limits,
           read_since(at, max_bytes)
    PROVE  /\ IInv'
           /\ at = cursor => ReplyStart(reply') >= cursor /\ cursor' >= cursor
<1>1. transcript \in Buffer /\ at \in Nat /\ max_bytes \in Nat
  BY TranscriptAssumption DEF IInv, TypeOK
<1>2. PICK r : r = transcript_bytes_since(transcript, at, max_bytes)
  OBVIOUS
<1>3. PICK s \in Nat, n \in Nat : s = transcript.start /\ n = Len(transcript.bytes)
  BY Lengths
<1>4. /\ r \in [next : Nat, bytes : Seq(Byte)]
      /\ Len(r.bytes) <= r.next
      /\ s <= ReplyStart(r)
      /\ r.next <= s + n
      /\ at <= s + n => ReplyStart(r) >= at
      /\ at >= s => ReplyStart(r) <= at
      /\ at < s => ReplyStart(r) = s
      /\ \A i \in 1..Len(r.bytes) :
             r.bytes[i] = transcript.bytes[i + (ReplyStart(r) - s)]
  <2>1. transcript.start + Len(transcript.bytes) <= U64Max
    BY Lengths
  <2>2. CutOf(transcript, at, r)
    BY <1>1, <1>2, <2>1, ReadSpec
  <2> QED
    BY <1>3, <2>2 DEF CutOf
<1>5. PICK a \in Nat, k \in Nat, q \in Nat :
          /\ a = r.next /\ k = Len(r.bytes) /\ q = ReplyStart(r) /\ a = q + k
  <2>1. r.next \in Nat /\ Len(r.bytes) \in Nat
    BY <1>4, LenProperties
  <2>2. ReplyStart(r) = r.next - Len(r.bytes)
    BY DEF ReplyStart
  <2> QED
    BY <1>4, <2>1, <2>2
<1>6. Positions(r) = (q + 1)..a
  BY <1>5 DEF Positions
<1>7. /\ reply' = r /\ cursor' = a
      /\ at = cursor => base' = base /\ taken' = taken \cup (q + 1)..a
      /\ at # cursor => base' = q /\ taken' = (q + 1)..a
      /\ UNCHANGED <<transcript, reader, chunk, shown, output>>
  BY <1>2, <1>5, <1>6 DEF read_since
<1>8. cursor \in Nat /\ base \in Nat /\ base <= cursor /\ cursor <= s + n
  BY <1>3 DEF IInv, TypeOK, Bounds
<1>9. at = cursor => q >= cursor /\ a >= cursor
  BY <1>4, <1>5, <1>8
<1>10. TypeOK'
  <2>1. base' \in Nat /\ taken' \subseteq Nat
    <3>0. (q + 1)..a \subseteq Nat /\ taken \subseteq Nat
      BY DEF IInv, TypeOK
    <3>1. CASE at = cursor
      BY <1>7, <1>8, <3>0, <3>1
    <3>2. CASE at # cursor
      BY <1>7, <3>0, <3>2
    <3> QED BY <3>1, <3>2
  <2> QED
    BY <1>4, <1>7, <2>1 DEF IInv, TypeOK
<1>11. Bounds'
  <2>1. base' <= a
    BY <1>5, <1>7, <1>8, <1>9
  <2> QED
    BY <1>3, <1>4, <1>5, <1>7, <2>1 DEF IInv, Bounds
<1>12. Window' /\ Shown'
  BY <1>7 DEF IInv, Window, Shown
<1>13. ReplyFaithful'
  BY <1>3, <1>4, <1>7, CutFaithful
<1>14. NothingSkipped'
  <2> SUFFICES ASSUME NEW p \in (base' + 1)..a PROVE p \in taken' \/ p <= s
    BY <1>3, <1>7 DEF NothingSkipped
  <2>1. CASE at # cursor
    BY <1>7, <2>1
  <2>2. CASE at = cursor
    <3>1. p \in Int /\ base + 1 <= p /\ p <= a
      BY <1>7, <1>8, <2>2
    <3>2. CASE p <= cursor
      <4>1. p \in taken \/ p <= transcript.start
        BY <1>8, <3>1, <3>2 DEF IInv, NothingSkipped
      <4> QED BY <1>3, <1>7, <2>2, <4>1
    <3>3. CASE p > q
      BY <1>7, <2>2, <3>1, <3>3
    <3>4. CASE cursor < p /\ p <= q
      \* The read began beyond the cursor: the cursor had been trimmed away.
      <4>1. q = s
        BY <1>3, <1>4, <1>5, <1>8, <2>2, <3>1, <3>4
      <4> QED BY <3>4, <4>1
    <3> QED
      BY <1>8, <3>1, <3>2, <3>3, <3>4
  <2> QED
    BY <2>1, <2>2
<1>15. IInv'
  BY <1>10, <1>11, <1>12, <1>13, <1>14 DEF IInv
<1>16. at = cursor => ReplyStart(reply') >= cursor /\ cursor' >= cursor
  BY <1>5, <1>7, <1>9
<1> QED
  BY <1>15, <1>16

LEMMA IInvNext == IInv /\ [Next]_vars => IInv'
<1> SUFFICES ASSUME IInv, [Next]_vars PROVE IInv'
  OBVIOUS
<1>1. CASE \E b \in Chunks : ReadChunk(b)
  BY <1>1, ReadChunkStep
<1>2. CASE EndOfOutput \/ RespondFails
  BY <1>2, EndStep
<1>3. CASE Respond
  BY <1>3, RespondStep
<1>4. CASE AppendChunk
  BY <1>4, AppendStep
<1>5. CASE head
  BY <1>5, HeadStep
<1>6. CASE \E max_bytes \in Limits : snapshot(max_bytes)
  BY <1>6, SnapshotStep
<1>7. CASE \E at \in Cursors \cup {cursor}, max_bytes \in Limits :
               read_since(at, max_bytes)
  BY <1>7, ReadSinceStep
<1>8. CASE UNCHANGED vars
  <2>1. UNCHANGED <<transcript, reader, chunk, shown, output>>
        /\ UNCHANGED <<cursor, reply, base, taken>>
    BY <1>8 DEF vars
  <2>2. TypeOK' /\ Bounds' /\ Window' /\ Shown'
    BY <2>1 DEF IInv, TypeOK, Bounds, Window, Shown
  <2>3. ReplyFaithful' /\ NothingSkipped'
    BY <2>1 DEF IInv, ReplyFaithful, ReplyStart, NothingSkipped
  <2> QED
    BY <2>2, <2>3 DEF IInv
<1> QED
  BY <1>1, <1>2, <1>3, <1>4, <1>5, <1>6, <1>7, <1>8 DEF Next

-----------------------------------------------------------------------------
(* The inductive invariant holds in every reachable state.                 *)
THEOREM Invariance == Spec => []IInv
BY IInvInit, IInvNext, PTL DEF Spec

(* The types of the buffer, the chunk and the replies.                     *)
THEOREM TranscriptTyped == Spec => []TypeOK
<1>1. IInv => TypeOK
  BY DEF IInv
<1> QED
  BY <1>1, Invariance, PTL

(* For every buffer size and every way the output is cut into chunks, the  *)
(* buffer is the newest part of the output at the positions start says     *)
(* (read_pty_output, trim_transcript).                                     *)
THEOREM WindowKept == Spec => []Window
<1>1. IInv => Window
  BY DEF IInv
<1> QED
  BY <1>1, Invariance, PTL

(* Every reply holds the bytes at the positions its cursor implies         *)
(* (transcript_bytes_since, transcript_snapshot_bytes).                    *)
THEOREM RepliesFaithful == Spec => []ReplyFaithful
<1>1. IInv => ReplyFaithful
  BY DEF IInv
<1> QED
  BY <1>1, Invariance, PTL

(* The viewer has been sent, in order, whatever the policy can read, and   *)
(* at most the chunk in hand besides (read_pty_output sends the event      *)
(* before it appends).                                                     *)
THEOREM ViewerNotBehind == Spec => []Shown
BY Invariance, PTL DEF IInv

(* A policy that passes its cursor back misses only what was trimmed away  *)
(* (transcript_bytes_since).                                               *)
THEOREM NoneSkipped == Spec => []NothingSkipped
<1>1. IInv => NothingSkipped
  BY DEF IInv
<1> QED
  BY <1>1, Invariance, PTL

-----------------------------------------------------------------------------
(* The buffer implements the log: every step is one of TerminalLog or      *)
(* leaves what a policy can see unchanged.                                 *)

HeadPlace == transcript.start + Len(transcript.bytes)

(* A beginning of the output.                                              *)
LEMMA Beginning ==
    ASSUME NEW o \in Seq(Byte), NEW h \in Nat, h <= Len(o)
    PROVE  /\ SubSeq(o, 1, h) \in Seq(Byte)
           /\ Len(SubSeq(o, 1, h)) = h
           /\ \A i \in 1..h : SubSeq(o, 1, h)[i] = o[i]
<1>1. /\ SubSeq(o, 1, h) \in Seq(Byte)
      /\ Len(SubSeq(o, 1, h)) = h - 1 + 1
      /\ \A i \in 1..(h - 1 + 1) : SubSeq(o, 1, h)[i] = o[1 + i - 1]
  BY Slice
<1>2. h - 1 + 1 = h /\ \A i \in 1..h : 1 + i - 1 = i
  OBVIOUS
<1> QED
  BY <1>1, <1>2

(* The log that the variables stand for, and its oldest place.             *)
LEMMA LogFacts ==
    ASSUME IInv
    PROVE  /\ HeadPlace \in Nat
           /\ SubSeq(output, 1, HeadPlace) \in Seq(Byte)
           /\ Len(SubSeq(output, 1, HeadPlace)) = HeadPlace
           /\ \A i \in 1..HeadPlace : SubSeq(output, 1, HeadPlace)[i] = output[i]
           /\ Log!OldestPlace = transcript.start
<1>1. /\ HeadPlace \in Nat /\ HeadPlace <= Len(output) /\ output \in Seq(Byte)
  BY Lengths DEF HeadPlace, IInv, TypeOK
<1>2. /\ SubSeq(output, 1, HeadPlace) \in Seq(Byte)
      /\ Len(SubSeq(output, 1, HeadPlace)) = HeadPlace
      /\ \A i \in 1..HeadPlace : SubSeq(output, 1, HeadPlace)[i] = output[i]
  BY <1>1, Beginning
<1>3. Log!OldestPlace = IF HeadPlace > MaxBytes THEN HeadPlace - MaxBytes ELSE 0
  BY <1>2 DEF Log!OldestPlace, HeadPlace
<1>4. /\ transcript.start \in Nat /\ Len(transcript.bytes) \in Nat
      /\ Len(transcript.bytes) <= MaxBytes
      /\ transcript.start > 0 => Len(transcript.bytes) = MaxBytes
  BY Lengths DEF IInv, Window
<1>5. Log!OldestPlace = transcript.start
  BY <1>3, <1>4, TranscriptAssumption DEF HeadPlace
<1> QED
  BY <1>1, <1>2, <1>5

(* A reply with the child's bytes between two places is that piece of the  *)
(* log.                                                                    *)
LEMMA PieceOfLog ==
    ASSUME IInv, NEW r \in [next : Nat, bytes : Seq(Byte)],
           NEW from \in Nat, from <= r.next, r.next <= HeadPlace,
           Len(r.bytes) = r.next - from,
           \A i \in 1..Len(r.bytes) : r.bytes[i] = output[from + i]
    PROVE  r = Log!Piece(from, r.next)
<1>1. PICK L \in Seq(Byte), to \in Nat :
          /\ L = SubSeq(output, 1, HeadPlace) /\ to = r.next
          /\ Len(L) = HeadPlace /\ \A i \in 1..HeadPlace : L[i] = output[i]
  BY LogFacts
<1>2. PICK c : c = SubSeq(L, from + 1, to)
  OBVIOUS
<1>3. HeadPlace \in Nat /\ from <= to /\ to <= HeadPlace
  BY <1>1, LogFacts
<1>4. /\ c \in Seq(Byte)
      /\ Len(c) = to - (from + 1) + 1
      /\ \A i \in 1..(to - (from + 1) + 1) : c[i] = L[(from + 1) + i - 1]
  BY <1>1, <1>2, <1>3, Slice
<1>5. PICK k \in Nat : k = to - from /\ to - (from + 1) + 1 = k
  BY <1>3
<1>6. \A i \in 1..k : (from + 1) + i - 1 = from + i /\ from + i \in 1..HeadPlace
  BY <1>3, <1>5
<1>7. Len(c) = k /\ \A i \in 1..k : c[i] = output[from + i]
  BY <1>1, <1>4, <1>5, <1>6
<1>8. r.bytes \in Seq(Byte) /\ Len(r.bytes) = k
  BY <1>1, <1>5
<1>9. r.bytes = c
  <2>1. PICK b \in Seq(Byte) : b = r.bytes
    BY <1>8
  <2>2. c \in Seq(Byte) /\ Len(b) = Len(c)
    BY <1>4, <1>7, <1>8, <2>1
  <2>3. \A i \in 1..Len(b) : b[i] = c[i]
    BY <1>7, <1>8, <2>1
  <2>4. b = c
    BY <2>2, <2>3, SeqEqual
  <2> QED
    BY <2>1, <2>4
<1>10. Log!Piece(from, to) = [next |-> to, bytes |-> c]
  BY <1>1, <1>2 DEF Log!Piece, HeadPlace
<1> QED
  BY <1>1, <1>9, <1>10

(* Reading a chunk only adds to the output beyond the head.                *)
LEMMA ReadChunkUnseen ==
    ASSUME IInv, NEW b \in Chunks, ReadChunk(b) PROVE UNCHANGED Log!lvars
<1>1. IInv'
  BY ReadChunkStep
<1>2. output' = output \o b /\ UNCHANGED <<transcript, cursor, reply>>
  BY DEF ReadChunk, PolicySide
<1>3. HeadPlace' = HeadPlace
  BY <1>2 DEF HeadPlace
<1>4. PICK L \in Seq(Byte), M \in Seq(Byte), h \in Nat :
          /\ L = SubSeq(output, 1, HeadPlace) /\ M = SubSeq(output', 1, HeadPlace)
          /\ h = HeadPlace /\ Len(L) = h /\ Len(M) = h
          /\ \A i \in 1..h : L[i] = output[i] /\ M[i] = output'[i]
  <2>1. HeadPlace \in Nat /\ output \in Seq(Byte) /\ output' \in Seq(Byte)
    BY <1>1, LogFacts DEF IInv, TypeOK
  <2>2. HeadPlace <= Len(output) /\ HeadPlace <= Len(output')
    <3>1. Len(b) \in Nat /\ Len(output) \in Nat /\ Len(output') = Len(output) + Len(b)
      <4>1. b \in Seq(Byte)
        BY <1>1 DEF ReadChunk, IInv, TypeOK
      <4> QED
        BY <1>2, <2>1, <4>1, ConcatProperties, LenProperties
    <3>2. HeadPlace <= Len(output)
      BY Lengths DEF HeadPlace
    <3> QED
      BY <2>1, <3>1, <3>2
  <2>3. /\ SubSeq(output, 1, HeadPlace) \in Seq(Byte)
        /\ Len(SubSeq(output, 1, HeadPlace)) = HeadPlace
        /\ \A i \in 1..HeadPlace : SubSeq(output, 1, HeadPlace)[i] = output[i]
    BY <2>1, <2>2, Beginning
  <2>4. /\ SubSeq(output', 1, HeadPlace) \in Seq(Byte)
        /\ Len(SubSeq(output', 1, HeadPlace)) = HeadPlace
        /\ \A i \in 1..HeadPlace : SubSeq(output', 1, HeadPlace)[i] = output'[i]
    BY <2>1, <2>2, Beginning
  <2> QED
    BY <2>1, <2>3, <2>4, Zenon
<1>5. \A i \in 1..h : output'[i] = output[i]
  <2>1. output \in Seq(Byte) /\ h <= Len(output)
    BY <1>4, Lengths DEF HeadPlace, IInv, TypeOK
  <2>2. b \in Seq(Byte)
    BY <1>1, <1>2 DEF ReadChunk, IInv, TypeOK
  <2> QED
    BY <1>2, <1>4, <2>1, <2>2, ConcatProperties
<1>6. L = M
  BY <1>4, <1>5, SeqEqual
<1> QED
  BY <1>2, <1>3, <1>4, <1>6 DEF Log!lvars, HeadPlace

(* Appending a chunk is the child printing it.                             *)
LEMMA AppendGrows ==
    ASSUME IInv, AppendChunk PROVE Log!Grow \/ UNCHANGED Log!lvars
<1>1. IInv'
  BY AppendStep
<1>2. chunk' = << >> /\ UNCHANGED <<output, cursor, reply>>
  BY DEF AppendChunk, PolicySide
<1>3. PICK h \in Nat, g \in Nat, k \in Nat :
          h = HeadPlace /\ g = HeadPlace' /\ k = Len(chunk) /\ g = h + k
  <2>1. /\ HeadPlace \in Nat /\ HeadPlace' \in Nat /\ Len(chunk) \in Nat
    <3>1. transcript'.start \in Nat /\ Len(transcript'.bytes) \in Nat
      BY <1>1, LenProperties DEF IInv, TypeOK, Buffer
    <3> QED
      BY <3>1, LogFacts, Lengths DEF HeadPlace
  <2>2. HeadPlace + Len(chunk) = Len(output) /\ HeadPlace' + Len(chunk') = Len(output')
    BY <1>1 DEF HeadPlace, IInv, Window
  <2>3. Len(chunk') = 0 /\ Len(output') = Len(output)
    BY <1>2, EmptySeq
  <2> QED
    BY <2>1, <2>2, <2>3
<1>4. /\ Len(SubSeq(output, 1, h)) = h /\ Len(SubSeq(output, 1, g)) = g
      /\ \A i \in 1..h : SubSeq(output, 1, h)[i] = output[i]
      /\ \A i \in 1..g : SubSeq(output, 1, g)[i] = output[i]
  <2>1. output \in Seq(Byte) /\ Len(output) \in Nat /\ h + k = Len(output)
    BY <1>3, LenProperties DEF HeadPlace, IInv, TypeOK, Window
  <2> QED
    BY <1>3, <2>1, Beginning
<1>5. CASE k = 0
  BY <1>2, <1>3, <1>5 DEF Log!lvars, HeadPlace
<1>6. CASE k # 0
  <2>1. g > h /\ \A i \in 1..h : i \in 1..g
    BY <1>3, <1>6
  <2>2. \A i \in 1..h : SubSeq(output, 1, g)[i] = SubSeq(output, 1, h)[i]
    BY <1>4, <2>1
  <2> QED
    BY <1>2, <1>3, <1>4, <2>1, <2>2 DEF Log!Grow, HeadPlace
<1> QED
  BY <1>5, <1>6

LEMMA HeadIsHead == ASSUME IInv, head PROVE Log!Head_
<1>1. cursor' = HeadPlace /\ UNCHANGED <<transcript, output, reply>>
  BY Lengths DEF head, HeadPlace
<1> QED
  BY <1>1, LogFacts DEF Log!Head_, HeadPlace

LEMMA SnapshotIsSnapshot ==
    ASSUME IInv, NEW max_bytes \in Limits, snapshot(max_bytes)
    PROVE  Log!Snapshot(max_bytes)
<1>1. PICK b : b = transcript_snapshot_bytes(transcript, max_bytes)
  OBVIOUS
<1>2. PICK s \in Nat, n \in Nat, h \in Nat :
          /\ s = transcript.start /\ n = Len(transcript.bytes) /\ h = HeadPlace
          /\ h = s + n
  BY Lengths DEF HeadPlace
<1>3. /\ b \in Seq(Byte) /\ max_bytes \in Nat
      /\ Len(b) = Least(n, max_bytes) /\ Len(b) <= n
      /\ \A i \in 1..Len(b) : b[i] = transcript.bytes[i + (n - Len(b))]
  <2>1. transcript \in Buffer /\ max_bytes \in Nat
    BY TranscriptAssumption DEF IInv, TypeOK
  <2> QED
    BY <1>1, <1>2, <2>1, SnapshotSpec
<1>4. PICK k \in Nat : k = Len(b) /\ k <= n
  BY <1>3, LenProperties
<1>5. PICK from \in Nat : from = h - k /\ h = from + k /\ from = s + (n - k)
  <2>1. k <= n /\ h = s + n
    BY <1>2, <1>4
  <2>2. h - k \in Nat /\ h = (h - k) + k /\ h - k = s + (n - k)
    BY <2>1
  <2> QED
    BY <2>2
<1>6. \A i \in 1..k : b[i] = output[from + i]
  <2> SUFFICES ASSUME NEW i \in 1..k PROVE b[i] = output[from + i]
    OBVIOUS
  <2>1. PICK j \in Nat : j = i + (n - k) /\ j >= 1 /\ j <= n
    <3>1. i + (n - k) \in Nat /\ i + (n - k) >= 1 /\ i + (n - k) <= n
      BY <1>4
    <3> QED
      BY <3>1
  <2>2. s + j = from + i /\ j \in 1..n
    BY <1>5, <2>1
  <2>3. transcript.bytes[j] = output[s + j]
    BY <1>2, <2>2 DEF IInv, Window
  <2>4. b[i] = transcript.bytes[j]
    BY <1>3, <1>4, <2>1
  <2> QED
    BY <2>2, <2>3, <2>4
<1>7. PICK r : r = [next |-> h, bytes |-> b]
  OBVIOUS
<1>8. r \in [next : Nat, bytes : Seq(Byte)] /\ r.next = h /\ r.bytes = b
  BY <1>3, <1>7
<1>9. r = Log!Piece(from, h)
  <2>1. from <= r.next /\ r.next <= HeadPlace /\ Len(r.bytes) = r.next - from
    <3>1. from <= h /\ k = h - from
      BY <1>5
    <3> QED
      BY <1>2, <1>4, <1>8, <3>1
  <2>2. \A i \in 1..Len(r.bytes) : r.bytes[i] = output[from + i]
    BY <1>4, <1>6, <1>8
  <2> QED
    BY <1>8, <2>1, <2>2, PieceOfLog
<1>10. reply' = r /\ UNCHANGED <<transcript, output, cursor>>
  BY <1>1, <1>2, <1>7, Lengths DEF snapshot, HeadPlace
<1>11. from = h - Log!Smaller(max_bytes, h - s)
  <2>1. h - s = n
    BY <1>2
  <2>2. k = Log!Smaller(max_bytes, n)
    BY <1>3, <1>4 DEF Least, Log!Smaller
  <2> QED
    BY <1>5, <2>1, <2>2
<1>12. Len(SubSeq(output, 1, HeadPlace)) = h /\ Log!OldestPlace = s
  BY <1>2, LogFacts
<1> QED
  BY <1>9, <1>10, <1>11, <1>12 DEF Log!Snapshot, HeadPlace

LEMMA ReadIsRead ==
    ASSUME IInv, NEW at \in Cursors \cup {cursor}, NEW max_bytes \in Limits,
           read_since(at, max_bytes)
    PROVE  Log!ReadSince(at, max_bytes)
<1>1. transcript \in Buffer /\ at \in Nat /\ max_bytes \in Nat
  BY TranscriptAssumption DEF IInv, TypeOK
<1>2. PICK r : r = transcript_bytes_since(transcript, at, max_bytes)
  OBVIOUS
<1>3. PICK s \in Nat, n \in Nat, h \in Nat :
          /\ s = transcript.start /\ n = Len(transcript.bytes) /\ h = HeadPlace
          /\ h = s + n
  BY Lengths DEF HeadPlace
<1>4. CutOf(transcript, at, r) /\ FullCut(transcript, max_bytes, r)
  BY <1>1, <1>2, Lengths, ReadSpec
<1>5. PICK a \in Nat, k \in Nat, q \in Nat :
          /\ a = r.next /\ k = Len(r.bytes) /\ q = ReplyStart(r) /\ a = q + k
  <2>1. r.next \in Nat /\ Len(r.bytes) \in Nat /\ Len(r.bytes) <= r.next
    BY <1>4, LenProperties DEF CutOf
  <2> QED
    BY <2>1 DEF ReplyStart
<1>6. /\ r \in [next : Nat, bytes : Seq(Byte)]
      /\ s <= q /\ a <= h
      /\ at <= h => q >= at
      /\ at >= s => q <= at
      /\ at < s => q = s
      /\ at > h => q = h
      /\ \A i \in 1..k : r.bytes[i] = transcript.bytes[i + (q - s)]
  BY <1>3, <1>4, <1>5 DEF CutOf, HeadPlace
<1>7. a = Least(q + max_bytes, h)
  BY <1>3, <1>4, <1>5 DEF FullCut, HeadPlace
<1>8. \A i \in 1..k : r.bytes[i] = output[q + i]
  <2> SUFFICES ASSUME NEW i \in 1..k PROVE r.bytes[i] = output[q + i]
    OBVIOUS
  <2>1. PICK j \in Nat : j = i + (q - s) /\ j >= 1 /\ j <= n
    <3>1. h = s + n /\ a = q + k /\ s <= q /\ a <= h
      BY <1>3, <1>5, <1>6
    <3>2. i \in Nat /\ 1 <= i /\ i <= k
      OBVIOUS
    <3>3. i + (q - s) \in Nat /\ i + (q - s) >= 1
      BY <3>1, <3>2
    <3>4. i + (q - s) <= n
      BY <3>1, <3>2
    <3> QED
      BY <3>3, <3>4
  <2>2. s + j = q + i /\ j \in 1..n
    BY <2>1
  <2>3. transcript.bytes[j] = output[s + j]
    BY <1>3, <2>2 DEF IInv, Window
  <2>4. r.bytes[i] = transcript.bytes[j]
    BY <1>6, <2>1
  <2> QED
    BY <2>2, <2>3, <2>4
<1>9. r = Log!Piece(q, a)
  <2>1. q <= r.next /\ r.next <= HeadPlace /\ Len(r.bytes) = r.next - q
    BY <1>3, <1>5, <1>6
  <2>2. \A i \in 1..Len(r.bytes) : r.bytes[i] = output[q + i]
    BY <1>5, <1>8
  <2> QED
    BY <1>5, <1>6, <2>1, <2>2, PieceOfLog
<1>10. reply' = r /\ cursor' = a /\ UNCHANGED <<transcript, output>>
  BY <1>2, <1>5 DEF read_since
<1>11. Len(SubSeq(output, 1, HeadPlace)) = h /\ Log!OldestPlace = s
  BY <1>3, LogFacts
<1>12. q = Log!Nearest(at)
  <2>1. Log!Nearest(at) = IF at < s THEN s ELSE Log!Smaller(at, h)
    BY <1>3, <1>11 DEF Log!Nearest, HeadPlace
  <2>2. q <= h
    BY <1>5, <1>6
  <2>3. CASE at > h
    \* A place beyond the end: nothing is there, and the read stays at the end.
    <3>1. q = h
      BY <1>6, <2>3
    <3> QED
      BY <1>1, <1>3, <2>1, <2>3, <3>1 DEF Log!Smaller
  <2>4. CASE at <= h
    BY <1>1, <1>6, <2>1, <2>4 DEF Log!Smaller
  <2> QED
    BY <1>1, <2>3, <2>4
<1>13. a = Log!Smaller(q + max_bytes, h)
  BY <1>7 DEF Least, Log!Smaller
<1> QED
  BY <1>9, <1>10, <1>11, <1>12, <1>13 DEF Log!ReadSince, HeadPlace

LEMMA StepIsALogStep == IInv /\ [Next]_vars => [Log!LogNext]_(Log!lvars)
<1> SUFFICES ASSUME IInv, [Next]_vars PROVE Log!LogNext \/ UNCHANGED Log!lvars
  OBVIOUS
<1>1. CASE \E b \in Chunks : ReadChunk(b)
  BY <1>1, ReadChunkUnseen
<1>2. CASE EndOfOutput \/ RespondFails \/ Respond \/ UNCHANGED vars
  <2>1. UNCHANGED <<transcript, output, cursor, reply>>
    BY <1>2 DEF EndOfOutput, RespondFails, Respond, PolicySide, vars
  <2> QED
    BY <2>1 DEF Log!lvars
<1>3. CASE AppendChunk
  BY <1>3, AppendGrows DEF Log!LogNext
<1>4. CASE head
  BY <1>4, HeadIsHead DEF Log!LogNext
<1>5. CASE \E max_bytes \in Limits : snapshot(max_bytes)
  BY <1>5, SnapshotIsSnapshot DEF Log!LogNext
<1>6. CASE \E at \in Cursors \cup {cursor}, max_bytes \in Limits :
               read_since(at, max_bytes)
  BY <1>6, ReadIsRead DEF Log!LogNext
<1> QED
  BY <1>1, <1>2, <1>3, <1>4, <1>5, <1>6 DEF Next

LEMMA InitIsALogInit == Init => Log!LogInit
<1> SUFFICES ASSUME Init PROVE Log!LogInit
  OBVIOUS
<1>1. << >> \in Seq(Byte) /\ Len(<< >>) = 0
  BY EmptySeq
<1>2. /\ transcript.start = 0 /\ transcript.bytes = << >> /\ output = << >>
      /\ cursor = 0 /\ reply = [next |-> 0, bytes |-> << >>]
  BY DEF Init
<1>3. transcript.start + Len(transcript.bytes) = 0
  BY <1>1, <1>2
<1>4. PICK e \in Seq(Byte) : e = << >> /\ Len(e) = 0
  BY <1>1
<1>5. SubSeq(e, 1, 0) = << >>
  <2>1. SubSeq(e, 1, 0) \in Seq(Byte) /\ Len(SubSeq(e, 1, 0)) = 0
    BY <1>4, Beginning
  <2> QED
    BY <2>1, EmptySeq
<1>6. SubSeq(output, 1, transcript.start + Len(transcript.bytes)) = << >>
  BY <1>2, <1>3, <1>4, <1>5
<1>7. SubSeq(<< >>, 0 + 1, 0) = << >>
  BY <1>4, <1>5
<1> QED
  BY <1>2, <1>6, <1>7 DEF Log!LogInit, Log!Piece

(* To a policy the buffer is an endless log of which the newest bytes can  *)
(* be asked for: for every buffer size, chunking, cursor and limit         *)
(* (transcript.rs, trim_transcript and read_pty_output).                   *)
THEOREM BufferIsALog == Spec => IsALog
BY InitIsALogInit, StepIsALogStep, Invariance, PTL DEF Spec, IsALog, Log!LogSpec
=============================================================================
