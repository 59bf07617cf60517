------------------------- MODULE ChildProcessProofs -------------------------
(***************************************************************************)
(* Safety of ChildProcess and of ChildStdin, for any buffer sizes and any  *)
(* amount of output and input.                                             *)
(***************************************************************************)
EXTENDS ChildStdin, SequenceTheorems, TLAPS

(* No byte is made up or lost on the way: what was printed is collected,   *)
(* in the channel, in the reader's buffer or in the pipe.                  *)
Books ==
    \A s \in Streams : printed[s] = got[s] + channel[s] + chunk[s] + pipe[s]

(* What the state of a reader task says about its buffers.                 *)
Ends ==
    \A s \in Streams :
        /\ reader[s] = "read" => chunk[s] = 0
        /\ reader[s] = "send" => chunk[s] > 0
        /\ reader[s] = "ended" /\ rx[s] # "dropped" =>
               pipe[s] = 0 /\ chunk[s] = 0 /\ ~Writer
        /\ finished[s] => channel[s] = 0 /\ reader[s] \in {"ended", "failed"}

(* What the state of the child says about the rest.                        *)
Lives ==
    /\ child \in {"none", "running"} => status = "none"
    /\ Exited => status \in Codes
    /\ status \in {"success", "failure"} => \A s \in Streams : todo[s] = 0
    /\ child = "none" =>
           /\ ~heir /\ ~handle /\ run \in {"spawn", "failed"}
           /\ \A s \in Streams : reader[s] = "read"
           /\ \A c \in Calls : pc[c] = "idle"
    /\ \A c \in Calls : pc[c] = "store" => child = "reaped"

(* What run_process_with_timeout has done by the time it gets somewhere.   *)
Helper ==
    /\ run \in {"wait", "kill", "join", "completed"} =>
           \A s \in Streams : rx[s] = "policy"
    /\ run \in {"kill", "join", "completed"} => pc["first"] = "idle"
    /\ run = "completed" =>
           /\ answer["first"] = "success"
           /\ \A s \in Streams : finished[s] /\ reader[s] = "ended"

IInv == TypeOK /\ TrueStatus /\ Books /\ Ends /\ Lives /\ Helper

LEMMA IInvInit == Init => IInv
<1> USE ProcessAssumption
<1> SUFFICES ASSUME Init PROVE IInv
  OBVIOUS
<1>1. TypeOK
  <2>1. todo \in [Streams -> Nat]
    BY DEF Init
  <2>2. /\ pc \in [Calls -> {"idle", "check", "poll", "store", "arm", "sleep"}]
        /\ kind \in [Calls -> WaitCalls \cup {"kill"}]
        /\ answer \in [Calls -> Codes \cup {"none", "ok"}]
        /\ woken \in [Calls -> BOOLEAN]
    BY DEF Init, WaitCalls, Codes
  <2>3. /\ pipe \in [Streams -> 0..PipeBytes] /\ chunk \in [Streams -> 0..ChunkBytes]
        /\ channel \in [Streams -> 0..ChannelBytes]
    BY DEF Init
  <2>. QED
    BY <2>1, <2>2, <2>3 DEF Init, TypeOK, Codes
<1>2. TrueStatus /\ Lives /\ Helper
  BY DEF Init, TrueStatus, Lives, Helper, Exited, Codes, Calls
<1>3. Books /\ Ends
  BY DEF Init, Books, Ends
<1>. QED
  BY <1>1, <1>2, <1>3 DEF IInv

(* The child and its descendants.                                          *)
LEMMA SystemStep ==
    ASSUME IInv,
           \/ \E s \in Streams : ChildPrints(s)
           \/ Fork \/ ChildKilled \/ HeirExits
           \/ \E code \in Codes \ {"signal"} : ChildExits(code)
    PROVE  IInv'
<1> USE ProcessAssumption DEF system, calls, output
<1>1. ASSUME NEW s \in Streams, ChildPrints(s) PROVE IInv'
  <2>1. TypeOK'
    BY <1>1 DEF ChildPrints, Writer, IInv, TypeOK
  <2>2. TrueStatus' /\ Lives'
    BY <1>1 DEF ChildPrints, Writer, IInv, TypeOK, TrueStatus, Lives, Exited, Codes
  <2>3. Books' /\ Ends'
    <3>1. Books'
      BY <1>1 DEF ChildPrints, Writer, IInv, TypeOK, Books
    <3>2. Ends'
      BY <1>1 DEF ChildPrints, Writer, IInv, TypeOK, Ends
    <3>. QED
      BY <3>1, <3>2
  <2>4. Helper'
    BY <1>1 DEF ChildPrints, Writer, IInv, TypeOK, Helper, Ends
  <2>. QED
    BY <2>1, <2>2, <2>3, <2>4 DEF IInv
<1>2. CASE Fork
  <2>1. TypeOK'
    BY <1>2 DEF Fork, IInv, TypeOK
  <2>2. TrueStatus' /\ Lives'
    BY <1>2 DEF Fork, IInv, TypeOK, TrueStatus, Lives, Exited, Codes
  <2>3. Books' /\ Ends'
    BY <1>2 DEF Fork, IInv, TypeOK, Books, Ends, Lives, Writer
  <2>4. Helper'
    BY <1>2 DEF Fork, IInv, TypeOK, Helper, Ends
  <2>. QED
    BY <2>1, <2>2, <2>3, <2>4 DEF IInv
<1>3. CASE ChildKilled
  <2>1. TypeOK'
    BY <1>3 DEF ChildKilled, IInv, TypeOK, Codes
  <2>2. TrueStatus' /\ Lives'
    BY <1>3 DEF ChildKilled, IInv, TypeOK, TrueStatus, Lives, Exited, Codes
  <2>3. Books' /\ Ends'
    BY <1>3 DEF ChildKilled, IInv, TypeOK, Books, Ends, Lives, Writer
  <2>4. Helper'
    BY <1>3 DEF ChildKilled, IInv, TypeOK, Helper, Ends
  <2>. QED
    BY <2>1, <2>2, <2>3, <2>4 DEF IInv
<1>4. CASE HeirExits
  <2>1. TypeOK'
    BY <1>4 DEF HeirExits, IInv, TypeOK
  <2>2. TrueStatus' /\ Lives'
    BY <1>4 DEF HeirExits, IInv, TypeOK, TrueStatus, Lives, Exited, Codes
  <2>3. Books' /\ Ends'
    BY <1>4 DEF HeirExits, IInv, TypeOK, Books, Ends, Lives, Writer
  <2>4. Helper'
    BY <1>4 DEF HeirExits, IInv, TypeOK, Helper, Ends
  <2>. QED
    BY <2>1, <2>2, <2>3, <2>4 DEF IInv
<1>5. ASSUME NEW code \in Codes \ {"signal"}, ChildExits(code) PROVE IInv'
  <2>1. TypeOK'
    BY <1>5 DEF ChildExits, IInv, TypeOK
  <2>2. TrueStatus' /\ Lives'
    BY <1>5 DEF ChildExits, IInv, TypeOK, TrueStatus, Lives, Exited, Codes
  <2>3. Books' /\ Ends'
    BY <1>5 DEF ChildExits, IInv, TypeOK, Books, Ends, Lives, Writer
  <2>4. Helper'
    BY <1>5 DEF ChildExits, IInv, TypeOK, Helper, Ends
  <2>. QED
    BY <2>1, <2>2, <2>3, <2>4 DEF IInv
<1>. QED
  BY <1>1, <1>2, <1>3, <1>4, <1>5

(* The calls on the child.                                                 *)
LEMMA CallsStep ==
    ASSUME IInv,
           \/ \E c \in Calls : CallStep(c) \/ Timeout(c)
    PROVE  IInv'
<1> USE ProcessAssumption DEF system, calls, output
<1>1. ASSUME NEW c \in Calls, CheckExit(c) PROVE IInv'
  <2>1. TypeOK'
    BY <1>1 DEF CheckExit, Return, Goto, IInv, TypeOK
  <2>2. TrueStatus' /\ Lives'
    BY <1>1 DEF CheckExit, Return, Goto, IInv, TypeOK, TrueStatus, Lives, Exited, Codes
  <2>3. Books' /\ Ends'
    BY <1>1 DEF CheckExit, Return, Goto, IInv, TypeOK, Books, Ends, Lives, Writer
  <2>4. Helper'
    BY <1>1 DEF CheckExit, Return, Goto, IInv, TypeOK, Helper, Ends, Calls
  <2>. QED
    BY <2>1, <2>2, <2>3, <2>4 DEF IInv
<1>2. ASSUME NEW c \in Calls, PollChild(c) PROVE IInv'
  <2>1. TypeOK'
    BY <1>2 DEF PollChild, Reap, Goto, Exited, IInv, TypeOK
  <2>2. TrueStatus' /\ Lives'
    BY <1>2 DEF PollChild, Reap, Goto, Exited, IInv, TypeOK, TrueStatus, Lives, Exited, Codes
  <2>3. Books' /\ Ends'
    BY <1>2 DEF PollChild, Reap, Goto, Exited, IInv, TypeOK, Books, Ends, Lives, Writer
  <2>4. Helper'
    BY <1>2 DEF PollChild, Reap, Goto, Exited, IInv, TypeOK, Helper, Ends
  <2>. QED
    BY <2>1, <2>2, <2>3, <2>4 DEF IInv
<1>3. ASSUME NEW c \in Calls, StoreExit(c) PROVE IInv'
  <2>1. TypeOK'
    <3>1. woken' \in [Calls -> BOOLEAN]
      BY <1>3 DEF StoreExit, IInv, TypeOK
    <3>2. /\ exit' \in Codes \cup {"none"}
          /\ pc' \in [Calls -> {"idle", "check", "poll", "store", "arm", "sleep"}]
          /\ answer' \in [Calls -> Codes \cup {"none", "ok"}]
      BY <1>3 DEF StoreExit, Return, Goto, IInv, TypeOK
    <3>. QED
      BY <1>3, <3>1, <3>2 DEF StoreExit, IInv, TypeOK
  <2>2. TrueStatus' /\ Lives'
    BY <1>3 DEF StoreExit, Return, Goto, IInv, TypeOK, TrueStatus, Lives, Exited, Codes
  <2>3. Books' /\ Ends'
    BY <1>3 DEF StoreExit, Return, Goto, IInv, TypeOK, Books, Ends, Lives, Writer
  <2>4. Helper'
    BY <1>3 DEF StoreExit, Return, Goto, IInv, TypeOK, Helper, Ends, Calls
  <2>. QED
    BY <2>1, <2>2, <2>3, <2>4 DEF IInv
<1>4. ASSUME NEW c \in Calls, Listen(c) PROVE IInv'
  <2>1. TypeOK'
    BY <1>4 DEF Listen, Goto, IInv, TypeOK
  <2>2. TrueStatus' /\ Lives'
    BY <1>4 DEF Listen, Goto, IInv, TypeOK, TrueStatus, Lives, Exited, Codes
  <2>3. Books' /\ Ends'
    BY <1>4 DEF Listen, Goto, IInv, TypeOK, Books, Ends, Lives, Writer
  <2>4. Helper'
    BY <1>4 DEF Listen, Goto, IInv, TypeOK, Helper, Ends
  <2>. QED
    BY <2>1, <2>2, <2>3, <2>4 DEF IInv
<1>5. ASSUME NEW c \in Calls, Wake(c) PROVE IInv'
  <2>1. TypeOK'
    BY <1>5 DEF Wake, Goto, IInv, TypeOK
  <2>2. TrueStatus' /\ Lives'
    BY <1>5 DEF Wake, Goto, IInv, TypeOK, TrueStatus, Lives, Exited, Codes
  <2>3. Books' /\ Ends'
    BY <1>5 DEF Wake, Goto, IInv, TypeOK, Books, Ends, Lives, Writer
  <2>4. Helper'
    BY <1>5 DEF Wake, Goto, IInv, TypeOK, Helper, Ends
  <2>. QED
    BY <2>1, <2>2, <2>3, <2>4 DEF IInv
<1>6. ASSUME NEW c \in Calls, KillChild(c) PROVE IInv'
  <2>1. TypeOK'
    BY <1>6 DEF KillChild, Return, Goto, Reap, Exited, IInv, TypeOK
  <2>2. TrueStatus' /\ Lives'
    BY <1>6 DEF KillChild, Return, Goto, Reap, Exited, IInv, TypeOK, TrueStatus, Lives, Exited, Codes
  <2>3. Books' /\ Ends'
    BY <1>6 DEF KillChild, Return, Goto, Reap, Exited, IInv, TypeOK, Books, Ends, Lives, Writer
  <2>4. Helper'
    BY <1>6 DEF KillChild, Return, Goto, Reap, Exited, IInv, TypeOK, Helper, Ends
  <2>. QED
    BY <2>1, <2>2, <2>3, <2>4 DEF IInv
<1>7. ASSUME NEW c \in Calls, Timeout(c) PROVE IInv'
  <2>1. TypeOK'
    BY <1>7 DEF Timeout, Return, Goto, IInv, TypeOK
  <2>2. TrueStatus' /\ Lives'
    BY <1>7 DEF Timeout, Return, Goto, IInv, TypeOK, TrueStatus, Lives, Exited, Codes
  <2>3. Books' /\ Ends'
    BY <1>7 DEF Timeout, Return, Goto, IInv, TypeOK, Books, Ends, Lives, Writer
  <2>4. Helper'
    BY <1>7 DEF Timeout, Return, Goto, IInv, TypeOK, Helper, Ends
  <2>. QED
    BY <2>1, <2>2, <2>3, <2>4 DEF IInv
<1>. QED
  BY <1>1, <1>2, <1>3, <1>4, <1>5, <1>6, <1>7 DEF CallStep

(* The reader tasks and the policy's end of the streams.                   *)
LEMMA OutputStep ==
    ASSUME IInv,
           \/ \E s \in Streams : ReaderStep(s) \/ ReadFails(s) \/ Collect(s)
    PROVE  IInv'
<1> USE ProcessAssumption DEF system, calls, output
<1>1. ASSUME NEW s \in Streams, ReadPipe(s) PROVE IInv'
  <2>1. TypeOK'
    BY <1>1 DEF ReadPipe, IInv, TypeOK
  <2>2. TrueStatus' /\ Lives'
    BY <1>1 DEF ReadPipe, IInv, TypeOK, TrueStatus, Lives, Exited, Codes
  <2>3. Books' /\ Ends'
    BY <1>1 DEF ReadPipe, IInv, TypeOK, Books, Ends, Lives, Writer
  <2>4. Helper'
    BY <1>1 DEF ReadPipe, IInv, TypeOK, Helper, Ends
  <2>. QED
    BY <2>1, <2>2, <2>3, <2>4 DEF IInv
<1>2. ASSUME NEW s \in Streams, ReadEnd(s) PROVE IInv'
  <2>1. TypeOK'
    BY <1>2 DEF ReadEnd, Writer, IInv, TypeOK
  <2>2. TrueStatus' /\ Lives'
    BY <1>2 DEF ReadEnd, Writer, IInv, TypeOK, TrueStatus, Lives, Exited, Codes
  <2>3. Books' /\ Ends'
    BY <1>2 DEF ReadEnd, Writer, IInv, TypeOK, Books, Ends, Lives, Writer
  <2>4. Helper'
    BY <1>2 DEF ReadEnd, Writer, IInv, TypeOK, Helper, Ends
  <2>. QED
    BY <2>1, <2>2, <2>3, <2>4 DEF IInv
<1>3. ASSUME NEW s \in Streams, ReadFails(s) PROVE IInv'
  <2>1. TypeOK'
    BY <1>3 DEF ReadFails, IInv, TypeOK
  <2>2. TrueStatus' /\ Lives'
    BY <1>3 DEF ReadFails, IInv, TypeOK, TrueStatus, Lives, Exited, Codes
  <2>3. Books' /\ Ends'
    BY <1>3 DEF ReadFails, IInv, TypeOK, Books, Ends, Lives, Writer
  <2>4. Helper'
    BY <1>3 DEF ReadFails, IInv, TypeOK, Helper, Ends
  <2>. QED
    BY <2>1, <2>2, <2>3, <2>4 DEF IInv
<1>4. ASSUME NEW s \in Streams, SendByte(s) PROVE IInv'
  <2>1. TypeOK'
    BY <1>4 DEF SendByte, IInv, TypeOK, Ends
  <2>2. TrueStatus' /\ Lives'
    BY <1>4 DEF SendByte, IInv, TypeOK, TrueStatus, Lives, Exited, Codes
  <2>3. Books' /\ Ends'
    <3>1. /\ printed \in [Streams -> Nat] /\ got \in [Streams -> Nat]
          /\ pipe \in [Streams -> Nat] /\ chunk \in [Streams -> Nat]
          /\ channel \in [Streams -> Nat]
      BY DEF IInv, TypeOK
    <3>2. /\ channel' = [channel EXCEPT ![s] = channel[s] + 1]
          /\ chunk' = [chunk EXCEPT ![s] = chunk[s] - 1]
          /\ UNCHANGED <<printed, got, pipe>>
      BY <1>4 DEF SendByte
    <3>3. Books'
      BY <3>1, <3>2 DEF IInv, Books
    <3>4. reader' = [reader EXCEPT ![s] = IF chunk[s] = 1 THEN "read" ELSE "send"]
          /\ UNCHANGED <<child, heir, rx, finished>> /\ reader[s] = "send"
      BY <1>4 DEF SendByte
    <3>5. reader \in [Streams -> {"read", "send", "ended", "failed"}]
      BY DEF IInv, TypeOK
    <3>6. Ends'
      BY <3>1, <3>2, <3>4, <3>5 DEF IInv, Ends, Writer
    <3>. QED
      BY <3>3, <3>6
  <2>4. Helper'
    BY <1>4 DEF SendByte, IInv, TypeOK, Helper, Ends
  <2>. QED
    BY <2>1, <2>2, <2>3, <2>4 DEF IInv
<1>5. ASSUME NEW s \in Streams, SendFails(s) PROVE IInv'
  <2>1. TypeOK'
    BY <1>5 DEF SendFails, IInv, TypeOK
  <2>2. TrueStatus' /\ Lives'
    BY <1>5 DEF SendFails, IInv, TypeOK, TrueStatus, Lives, Exited, Codes
  <2>3. Books' /\ Ends'
    BY <1>5 DEF SendFails, IInv, TypeOK, Books, Ends, Lives, Writer
  <2>4. Helper'
    BY <1>5 DEF SendFails, IInv, TypeOK, Helper, Ends
  <2>. QED
    BY <2>1, <2>2, <2>3, <2>4 DEF IInv
<1>6. ASSUME NEW s \in Streams, Collect(s) PROVE IInv'
  <2>1. TypeOK'
    <3>1. channel' \in [Streams -> 0..ChannelBytes] /\ got' \in [Streams -> Nat]
      BY <1>6 DEF Collect, IInv, TypeOK
    <3>2. finished' \in [Streams -> BOOLEAN]
      <4>1. finished \in [Streams -> BOOLEAN]
        BY DEF IInv, TypeOK
      <4>2. finished' = finished \/ finished' = [finished EXCEPT ![s] = TRUE]
        BY <1>6, Zenon DEF Collect
      <4>. QED
        BY <4>1, <4>2
    <3>. QED
      BY <1>6, <3>1, <3>2 DEF Collect, IInv, TypeOK
  <2>2. TrueStatus' /\ Lives'
    BY <1>6 DEF Collect, IInv, TypeOK, TrueStatus, Lives, Exited, Codes
  <2>3. Books' /\ Ends'
    <3>1. /\ printed \in [Streams -> Nat] /\ got \in [Streams -> Nat]
          /\ pipe \in [Streams -> Nat] /\ chunk \in [Streams -> Nat]
          /\ channel \in [Streams -> Nat]
      BY DEF IInv, TypeOK
    <3>2. UNCHANGED <<printed, pipe, chunk>>
      BY <1>6 DEF Collect
    <3>3. \/ UNCHANGED <<channel, got>>
          \/ \E n \in 1..ChannelBytes :
                 /\ channel' = [channel EXCEPT ![s] = channel[s] - n]
                 /\ got' = [got EXCEPT ![s] = got[s] + n]
      BY <1>6, Zenon DEF Collect
    <3>4. ASSUME UNCHANGED <<channel, got>> PROVE Books'
      BY <3>2, <3>4 DEF IInv, Books
    <3>5. ASSUME NEW n \in 1..ChannelBytes,
                 channel' = [channel EXCEPT ![s] = channel[s] - n],
                 got' = [got EXCEPT ![s] = got[s] + n]
          PROVE  Books'
      BY <3>1, <3>2, <3>5 DEF IInv, Books
    <3>6. Books'
      BY <3>3, <3>4, <3>5
    <3>7. Ends'
      BY <1>6 DEF Collect, IInv, TypeOK, Ends, Writer
    <3>. QED
      BY <3>6, <3>7
  <2>4. Helper'
    BY <1>6 DEF Collect, IInv, TypeOK, Helper, Ends
  <2>. QED
    BY <2>1, <2>2, <2>3, <2>4 DEF IInv
<1>. QED
  BY <1>1, <1>2, <1>3, <1>4, <1>5, <1>6 DEF ReaderStep

(* The policy.                                                             *)
LEMMA PolicyStep ==
    ASSUME IInv,
           \/ Spawn \/ SpawnFails \/ DropChild \/ StoreDropped \/ HelperStep
           \/ \E c \in {"first", "second"}, k \in {"wait", "wait_timeout", "kill"} : PolicyCalls(c, k)
           \/ \E s \in Streams : TakeStream(s) \/ DropStream(s)
    PROVE  IInv'
<1> USE ProcessAssumption DEF system, calls, output
<1>1. CASE Spawn
  <2>1. TypeOK'
    BY <1>1 DEF Spawn, Start, Goto, IInv, TypeOK, Calls, WaitCalls
  <2>2. TrueStatus' /\ Lives'
    BY <1>1 DEF Spawn, Start, Goto, IInv, TypeOK, TrueStatus, Lives, Exited, Codes
  <2>3. Books' /\ Ends'
    BY <1>1 DEF Spawn, Start, Goto, IInv, TypeOK, Books, Ends, Lives, Writer
  <2>4. Helper'
    BY <1>1 DEF Spawn, Start, Goto, IInv, TypeOK, Helper, Ends
  <2>. QED
    BY <2>1, <2>2, <2>3, <2>4 DEF IInv
<1>2. CASE SpawnFails
  <2>1. TypeOK'
    BY <1>2 DEF SpawnFails, IInv, TypeOK
  <2>2. TrueStatus' /\ Lives'
    BY <1>2 DEF SpawnFails, IInv, TypeOK, TrueStatus, Lives, Exited, Codes
  <2>3. Books' /\ Ends'
    BY <1>2 DEF SpawnFails, IInv, TypeOK, Books, Ends, Lives, Writer
  <2>4. Helper'
    BY <1>2 DEF SpawnFails, IInv, TypeOK, Helper, Ends
  <2>. QED
    BY <2>1, <2>2, <2>3, <2>4 DEF IInv
<1>3. CASE DropChild
  <2>1. TypeOK'
    BY <1>3 DEF DropChild, Release, Start, Goto, IInv, TypeOK
  <2>2. TrueStatus' /\ Lives'
    BY <1>3 DEF DropChild, Release, Start, Goto, IInv, TypeOK, TrueStatus, Lives, Exited, Codes
  <2>3. Books' /\ Ends'
    BY <1>3 DEF DropChild, Release, Start, Goto, IInv, TypeOK, Books, Ends, Lives, Writer
  <2>4. Helper'
    BY <1>3 DEF DropChild, Release, Start, Goto, IInv, TypeOK, Helper, Ends
  <2>. QED
    BY <2>1, <2>2, <2>3, <2>4 DEF IInv
<1>4. CASE WaitAnswered
  <2>1. TypeOK'
    BY <1>4 DEF WaitAnswered, Start, Goto, IInv, TypeOK
  <2>2. TrueStatus' /\ Lives'
    <3>1. child # "none"
      BY <1>4 DEF WaitAnswered, IInv, Lives
    <3>2. \A c \in Calls : /\ answer'[c] \in {answer[c], "none"}
                          /\ pc'[c] \in {pc[c], "check"}
      BY <1>4 DEF WaitAnswered, Start, Goto, IInv, TypeOK, Calls
    <3>3. TrueStatus'
      BY <1>4, <3>2 DEF WaitAnswered, IInv, TrueStatus, Codes
    <3>4. Lives'
      BY <1>4, <3>1, <3>2 DEF WaitAnswered, IInv, Lives, Exited
    <3>. QED
      BY <3>3, <3>4
  <2>3. Books' /\ Ends'
    BY <1>4 DEF WaitAnswered, Start, Goto, IInv, TypeOK, Books, Ends, Lives, Writer
  <2>4. Helper'
    BY <1>4 DEF WaitAnswered, Start, Goto, IInv, TypeOK, Helper, Ends, Calls
  <2>. QED
    BY <2>1, <2>2, <2>3, <2>4 DEF IInv
<1>5. CASE KillAnswered
  <2>1. TypeOK'
    BY <1>5 DEF KillAnswered, IInv, TypeOK
  <2>2. TrueStatus' /\ Lives'
    BY <1>5 DEF KillAnswered, IInv, TypeOK, TrueStatus, Lives, Exited, Codes
  <2>3. Books' /\ Ends'
    BY <1>5 DEF KillAnswered, IInv, TypeOK, Books, Ends, Lives, Writer
  <2>4. Helper'
    BY <1>5 DEF KillAnswered, IInv, TypeOK, Helper, Ends
  <2>. QED
    BY <2>1, <2>2, <2>3, <2>4 DEF IInv
<1>6. CASE Joined
  <2>1. TypeOK'
    BY <1>6 DEF Joined, Release, Start, Goto, IInv, TypeOK
  <2>2. TrueStatus' /\ Lives'
    <3>1. child # "none"
      BY <1>6 DEF Joined, IInv, Lives
    <3>2. \A c \in Calls : /\ answer'[c] \in {answer[c], "none"}
                          /\ pc'[c] \in {pc[c], "check"}
      BY <1>6 DEF Joined, Release, Start, Goto, IInv, TypeOK, Calls
    <3>3. TrueStatus'
      BY <1>6, <3>2 DEF Joined, IInv, TrueStatus, Codes
    <3>4. Lives'
      BY <1>6, <3>1, <3>2 DEF Joined, IInv, Lives, Exited
    <3>. QED
      BY <3>3, <3>4
  <2>3. Books' /\ Ends'
    BY <1>6 DEF Joined, Release, Start, Goto, IInv, TypeOK, Books, Ends, Lives, Writer
  <2>4. Helper'
    BY <1>6 DEF Joined, Release, Start, Goto, IInv, TypeOK, Helper, Ends
  <2>. QED
    BY <2>1, <2>2, <2>3, <2>4 DEF IInv
<1>7. ASSUME NEW c \in {"first", "second"}, NEW k \in {"wait", "wait_timeout", "kill"}, PolicyCalls(c, k) PROVE IInv'
  <2>1. TypeOK'
    BY <1>7 DEF PolicyCalls, Start, Goto, IInv, TypeOK, Calls, WaitCalls
  <2>2. TrueStatus' /\ Lives'
    BY <1>7 DEF PolicyCalls, Start, Goto, IInv, TypeOK, TrueStatus, Lives, Exited, Codes
  <2>3. Books' /\ Ends'
    BY <1>7 DEF PolicyCalls, Start, Goto, IInv, TypeOK, Books, Ends, Lives, Writer
  <2>4. Helper'
    BY <1>7 DEF PolicyCalls, Start, Goto, IInv, TypeOK, Helper, Ends
  <2>. QED
    BY <2>1, <2>2, <2>3, <2>4 DEF IInv
<1>8. ASSUME NEW s \in Streams, TakeStream(s) PROVE IInv'
  <2>1. TypeOK'
    BY <1>8 DEF TakeStream, IInv, TypeOK
  <2>2. TrueStatus' /\ Lives'
    BY <1>8 DEF TakeStream, IInv, TypeOK, TrueStatus, Lives, Exited, Codes
  <2>3. Books' /\ Ends'
    BY <1>8 DEF TakeStream, IInv, TypeOK, Books, Ends, Lives, Writer
  <2>4. Helper'
    BY <1>8 DEF TakeStream, IInv, TypeOK, Helper, Ends
  <2>. QED
    BY <2>1, <2>2, <2>3, <2>4 DEF IInv
<1>9. ASSUME NEW s \in Streams, DropStream(s) PROVE IInv'
  <2>1. TypeOK'
    BY <1>9 DEF DropStream, IInv, TypeOK
  <2>2. TrueStatus' /\ Lives'
    BY <1>9 DEF DropStream, IInv, TypeOK, TrueStatus, Lives, Exited, Codes
  <2>3. Books' /\ Ends'
    BY <1>9 DEF DropStream, IInv, TypeOK, Books, Ends, Lives, Writer
  <2>4. Helper'
    BY <1>9 DEF DropStream, IInv, TypeOK, Helper, Ends
  <2>. QED
    BY <2>1, <2>2, <2>3, <2>4 DEF IInv
<1>10. CASE StoreDropped
  <2>1. TypeOK'
    BY <1>10 DEF StoreDropped, LastControlDropped, IInv, TypeOK
  <2>2. TrueStatus' /\ Lives'
    BY <1>10 DEF StoreDropped, IInv, TypeOK, TrueStatus, Lives, Exited, Codes
  <2>3. Books' /\ Ends'
    BY <1>10 DEF StoreDropped, IInv, TypeOK, Books, Ends, Lives, Writer
  <2>4. Helper'
    BY <1>10 DEF StoreDropped, Helper
  <2>. QED
    BY <2>1, <2>2, <2>3, <2>4 DEF IInv
<1>. QED
  BY <1>1, <1>2, <1>3, <1>4, <1>5, <1>6, <1>7, <1>8, <1>9, <1>10 DEF HelperStep

LEMMA IInvStutter == IInv /\ UNCHANGED vars => IInv'
BY DEF IInv, TypeOK, TrueStatus, Books, Ends, Lives, Helper, Writer, Exited,
       vars, system, calls, output

LEMMA Invariance == Spec => []IInv
<1>1. IInv /\ [Next]_vars => IInv'
  BY IInvStutter, SystemStep, CallsStep, OutputStep, PolicyStep DEF Next
<1>. QED
  BY <1>1, IInvInit, PTL DEF Spec

(* Every buffer stays within its capacity, whatever the sizes.             *)
THEOREM ProcessTyped == Spec => []TypeOK
BY Invariance, PTL DEF IInv

(* Every status returned by any call is the one the child exited with.     *)
THEOREM StatusTrue == Spec => []TrueStatus
BY Invariance, PTL DEF IInv

(* A run reported as completed has collected all the child has printed.    *)
THEOREM CollectedAll == Spec => []AllCollected
<1>1. IInv => AllCollected
  <2> SUFFICES ASSUME IInv, run = "completed" PROVE AllCollected
    BY DEF AllCollected
  <2>1. status = "success" /\ \A s \in Streams : todo[s] = 0
    BY DEF IInv, TrueStatus, Helper, Lives, Codes, Calls
  <2>2. \A s \in Streams : got[s] = printed[s]
    BY DEF IInv, TypeOK, Helper, Books, Ends
  <2>. QED
    BY <2>1, <2>2 DEF AllCollected
<1>. QED
  BY <1>1, Invariance, PTL

(* SIGKILL is only ever sent to a child that is running.                   *)
THEOREM KillsOnlyOwn == Spec => KillsOwnChild
<1>1. IInv /\ [Next]_vars => (signalled' # signalled => child = "running")
  <2> SUFFICES ASSUME IInv, Next, signalled' # signalled PROVE child = "running"
    BY DEF vars, system
  <2>1. (\E c \in Calls : KillChild(c)) \/ StoreDropped
    BY DEF Next, CallStep, ReaderStep, HelperStep, system, calls, output,
           ChildPrints, Fork, ChildKilled, HeirExits, ChildExits, CheckExit, PollChild,
           StoreExit, Listen, Wake, Timeout, ReadPipe, ReadEnd, ReadFails, SendByte,
           SendFails, Collect, Spawn, SpawnFails, PolicyCalls, TakeStream, DropStream,
           DropChild, WaitAnswered, KillAnswered, Joined
  <2>2. ASSUME NEW c \in Calls, KillChild(c) PROVE child = "running"
    <3>1. child # "none"
      BY <2>2 DEF KillChild, IInv, Lives
    <3>. QED
      BY <2>2, <3>1 DEF KillChild, Exited, IInv, TypeOK
  <2>3. ASSUME StoreDropped PROVE child = "running"
    BY <2>3 DEF StoreDropped, LastControlDropped, IInv, TypeOK
  <2>. QED
    BY <2>1, <2>2, <2>3
<1>. QED
  BY <1>1, Invariance, PTL DEF KillsOwnChild, Spec

(***************************************************************************)
(* The input of the child.                                                 *)
(***************************************************************************)
(* A byte: its stream, and its place there.                               *)
Bytes == Writes \X Nat

LEMMA ByteFacts ==
    ASSUME NEW s \in Seq(Bytes), NEW i \in DOMAIN s
    PROVE  s[i] \in Bytes /\ s[i][2] \in Nat /\ s[i] = <<s[i][1], s[i][2]>>
BY DEF Bytes

LEMMA SplitSeq ==
    ASSUME NEW S, NEW s \in Seq(S), NEW n \in 0..Len(s)
    PROVE  /\ FirstOf(s, n) \in Seq(S) /\ Beyond(s, n) \in Seq(S)
           /\ Len(FirstOf(s, n)) = n /\ Len(Beyond(s, n)) = Len(s) - n
           /\ \A i \in 1..n : FirstOf(s, n)[i] = s[i]
           /\ \A i \in 1..(Len(s) - n) : Beyond(s, n)[i] = s[n + i]
           /\ FirstOf(s, n) \o Beyond(s, n) = s
<1>1. \A i \in 1..Len(s) : s[i] \in S
  OBVIOUS
<1>2. /\ FirstOf(s, n) \in Seq(S) /\ Len(FirstOf(s, n)) = n
      /\ \A i \in 1..n : FirstOf(s, n)[i] = s[i]
  <2>1. \A i \in 1..n : s[i] \in S
    BY <1>1
  <2>. QED
    BY <2>1, SubSeqProperties DEF FirstOf
<1>3. /\ Beyond(s, n) \in Seq(S) /\ Len(Beyond(s, n)) = Len(s) - n
      /\ \A i \in 1..(Len(s) - n) : Beyond(s, n)[i] = s[n + i]
  <2>1. \A i \in (n + 1)..Len(s) : s[i] \in S
    BY <1>1
  <2>2. /\ Beyond(s, n) \in Seq(S)
        /\ Len(Beyond(s, n)) = IF n + 1 <= Len(s) THEN Len(s) - (n + 1) + 1 ELSE 0
        /\ \A i \in 1..(Len(s) - (n + 1) + 1) : Beyond(s, n)[i] = s[(n + 1) + i - 1]
    BY <2>1, SubSeqProperties DEF Beyond
  <2>. QED
    BY <2>2
<1>4. FirstOf(s, n) \o Beyond(s, n) = s
  <2> DEFINE t == FirstOf(s, n) \o Beyond(s, n)
  <2>1. t \in Seq(S) /\ Len(t) = Len(s)
    <3>1. t \in Seq(S) /\ Len(t) = Len(FirstOf(s, n)) + Len(Beyond(s, n))
      BY <1>2, <1>3, ConcatProperties
    <3>2. n + (Len(s) - n) = Len(s)
      OBVIOUS
    <3>. QED
      BY <1>2, <1>3, <3>1, <3>2
  <2>2. \A i \in 1..Len(t) : t[i] = s[i]
    <3>1. \A i \in 1..(Len(FirstOf(s, n)) + Len(Beyond(s, n))) :
              t[i] = IF i <= Len(FirstOf(s, n)) THEN FirstOf(s, n)[i]
                     ELSE Beyond(s, n)[i - Len(FirstOf(s, n))]
      BY <1>2, <1>3, ConcatProperties
    <3>2. \A i \in 1..Len(s) : t[i] = IF i <= n THEN s[i] ELSE Beyond(s, n)[i - n]
      BY <1>2, <1>3, <3>1
    <3>3. \A i \in 1..Len(s) : i > n => i - n \in 1..(Len(s) - n) /\ n + (i - n) = i
      OBVIOUS
    <3>4. \A i \in 1..Len(s) : i > n => Beyond(s, n)[i - n] = s[i]
      BY <1>3, <3>3
    <3>. QED
      BY <2>1, <3>2, <3>4
  <2>. QED
    BY <2>1, <2>2, SeqEqual
<1>. QED
  BY <1>2, <1>3, <1>4

(* What was read from a beginning of what was in order is in order.        *)
LEMMA PrefixInOrder ==
    ASSUME NEW w, NEW s \in Seq(Bytes), NEW t \in Seq(Bytes), InOrder(w, s \o t)
    PROVE  InOrder(w, s)
<1> DEFINE u == s \o t
<1>1. /\ u \in Seq(Bytes) /\ DOMAIN u = 1..Len(u) /\ DOMAIN s = 1..Len(s)
      /\ Len(u) = Len(s) + Len(t) /\ \A i \in DOMAIN s : i \in DOMAIN u /\ u[i] = s[i]
  OBVIOUS
<1>2. \A i, j \in DOMAIN s :
          s[i][1] = w /\ s[j][1] = w => (i < j <=> s[i][2] < s[j][2])
  BY <1>1 DEF InOrder
<1>3. ASSUME NEW j \in DOMAIN s, s[j][1] = w, NEW k \in 1..s[j][2]
      PROVE  \E i \in DOMAIN s : s[i] = <<w, k>>
  <2>1. s[j][2] \in Nat /\ s[j] = <<w, s[j][2]>>
    BY <1>3, ByteFacts
  <2>2. PICK i \in DOMAIN u : u[i] = <<w, k>>
    BY <1>1, <1>3 DEF InOrder
  <2>3. CASE k = s[j][2]
    BY <2>1, <2>3
  <2>4. CASE k < s[j][2]
    <3>1. u[i][1] = w /\ u[i][2] = k /\ u[j][1] = w /\ u[j][2] = s[j][2]
      BY <1>1, <1>3, <2>2
    <3>2. i < j
      BY <1>1, <2>4, <3>1 DEF InOrder
    <3>. QED
      BY <1>1, <2>2, <3>2
  <2>. QED
    BY <2>1, <2>3, <2>4
<1>. QED
  BY <1>2, <1>3 DEF InOrder

(* A stream goes on where it was.                                          *)
LEMMA CompleteExtends ==
    ASSUME NEW w \in Writes, NEW s \in Seq(Bytes), NEW n \in Nat, NEW m \in Nat,
           NEW f \in Seq(Bytes), Len(f) = m, \A i \in 1..m : f[i] = <<w, n + i>>,
           Complete(w, s, n)
    PROVE  Complete(w, s \o f, n + m)
<1> DEFINE u == s \o f
<1>1. /\ u \in Seq(Bytes) /\ Len(u) = Len(s) + m /\ DOMAIN u = 1..(Len(s) + m)
      /\ DOMAIN s = 1..Len(s) /\ Len(s) \in Nat
      /\ \A i \in DOMAIN s : i \in DOMAIN u /\ u[i] = s[i]
      /\ \A i \in DOMAIN u : i \notin DOMAIN s => i - Len(s) \in 1..m /\ u[i] = <<w, n + (i - Len(s))>>
  <2>0. Len(s) \in Nat /\ DOMAIN s = 1..Len(s)
    OBVIOUS
  <2>1. u \in Seq(Bytes) /\ Len(u) = Len(s) + m
    BY ConcatProperties
  <2>2. DOMAIN u = 1..(Len(s) + m)
    BY <2>0, <2>1
  <2>3. \A i \in DOMAIN s : i \in DOMAIN u /\ u[i] = s[i]
    BY <2>0, <2>1, <2>2, ConcatProperties
  <2>4. \A i \in DOMAIN u : i \notin DOMAIN s => i - Len(s) \in 1..m
    BY <2>0, <2>1, <2>2
  <2>5. \A i \in DOMAIN u : i \notin DOMAIN s => u[i] = f[i - Len(s)]
    BY <2>0, <2>1, <2>2, ConcatProperties
  <2>. QED
    BY <2>0, <2>1, <2>2, <2>3, <2>4, <2>5
<1> HIDE DEF u
<1>2. \A i \in DOMAIN u : i \notin DOMAIN s =>
          u[i][1] = w /\ u[i][2] = n + (i - Len(s)) /\ u[i][2] \in (n + 1)..(n + m)
  BY <1>1
<1>3. \A i \in DOMAIN s : u[i][1] = w => u[i][2] \in 1..n
  BY <1>1 DEF Complete
<1>4. \A i, j \in DOMAIN u :
          u[i][1] = w /\ u[j][1] = w => (i < j <=> u[i][2] < u[j][2])
  <2> SUFFICES ASSUME NEW i \in DOMAIN u, NEW j \in DOMAIN u, u[i][1] = w, u[j][1] = w
               PROVE  i < j <=> u[i][2] < u[j][2]
    OBVIOUS
  <2>1. CASE i \in DOMAIN s /\ j \in DOMAIN s
    BY <1>1, <2>1 DEF Complete, InOrder
  <2>2. CASE i \in DOMAIN s /\ j \notin DOMAIN s
    BY <1>1, <1>2, <1>3, <2>2
  <2>3. CASE i \notin DOMAIN s /\ j \in DOMAIN s
    BY <1>1, <1>2, <1>3, <2>3
  <2>4. CASE i \notin DOMAIN s /\ j \notin DOMAIN s
    <3>1. u[i][2] = n + (i - Len(s)) /\ u[j][2] = n + (j - Len(s))
      BY <1>2, <2>4
    <3>. QED
      BY <1>1, <3>1
  <2>. QED
    BY <2>1, <2>2, <2>3, <2>4
<1>5. ASSUME NEW k \in 1..(n + m) PROVE \E i \in DOMAIN u : u[i] = <<w, k>>
  <2>1. CASE k <= n
    <3>1. PICK i \in DOMAIN s : s[i] = <<w, k>>
      BY <2>1 DEF Complete
    <3>. QED
      BY <1>1, <3>1
  <2>2. CASE k > n
    <3>1. Len(s) + (k - n) \in DOMAIN u /\ Len(s) + (k - n) \notin DOMAIN s
      BY <1>1, <2>2
    <3>2. u[Len(s) + (k - n)] = <<w, n + ((Len(s) + (k - n)) - Len(s))>>
      BY <1>1, <3>1
    <3>3. n + ((Len(s) + (k - n)) - Len(s)) = k
      BY <1>1
    <3>. QED
      BY <3>1, <3>2, <3>3
  <2>. QED
    BY <2>1, <2>2
<1>6. \A i \in DOMAIN u : u[i][1] = w => u[i][2] \in 1..(n + m)
  BY <1>1, <1>2, <1>3
<1>7. \A j \in DOMAIN u : u[j][1] = w =>
          \A k \in 1..u[j][2] : \E i \in DOMAIN u : u[i] = <<w, k>>
  BY <1>5, <1>6
<1>8. Complete(w, u, n + m)
  BY <1>4, <1>5, <1>6, <1>7 DEF Complete, InOrder
<1>. QED
  BY <1>8 DEF u

(* Bytes of other streams may come in between.                             *)
LEMMA CompleteAmidOthers ==
    ASSUME NEW w \in Writes, NEW s \in Seq(Bytes), NEW p \in Seq(Bytes), NEW n \in Nat,
           NEW f \in Seq(Bytes), \A i \in 1..Len(f) : f[i][1] # w,
           Complete(w, s \o p, n)
    PROVE  Complete(w, (s \o f) \o p, n)
<1> DEFINE q == s \o p
           r == (s \o f) \o p
           At(i) == IF i <= Len(s) THEN i ELSE i + Len(f)
<1>1. /\ q \in Seq(Bytes) /\ Len(q) = Len(s) + Len(p) /\ DOMAIN q = 1..Len(q)
      /\ r \in Seq(Bytes) /\ Len(r) = Len(s) + Len(f) + Len(p) /\ DOMAIN r = 1..Len(r)
      /\ Len(s) \in Nat /\ Len(f) \in Nat /\ Len(p) \in Nat
  OBVIOUS
<1>2. \A i \in DOMAIN q : At(i) \in DOMAIN r /\ r[At(i)] = q[i]
  <2> SUFFICES ASSUME NEW i \in DOMAIN q PROVE At(i) \in DOMAIN r /\ r[At(i)] = q[i]
    OBVIOUS
  <2>1. CASE i <= Len(s)
    BY <1>1, <2>1
  <2>2. CASE i > Len(s)
    BY <1>1, <2>2
  <2>. QED
    BY <1>1, <2>1, <2>2
<1>3. \A j \in DOMAIN r : r[j][1] = w => \E i \in DOMAIN q : j = At(i)
  <2> SUFFICES ASSUME NEW j \in DOMAIN r, r[j][1] = w PROVE \E i \in DOMAIN q : j = At(i)
    OBVIOUS
  <2>1. CASE j <= Len(s)
    BY <1>1, <2>1
  <2>2. CASE j > Len(s) /\ j <= Len(s) + Len(f)
    <3>1. r[j] = f[j - Len(s)] /\ j - Len(s) \in 1..Len(f)
      BY <1>1, <2>2
    <3>. QED
      BY <3>1
  <2>3. CASE j > Len(s) + Len(f)
    <3>1. j - Len(f) \in DOMAIN q /\ At(j - Len(f)) = j
      <4>1. j \in Nat /\ j <= Len(s) + Len(f) + Len(p)
        BY <1>1
      <4>2. j - Len(f) \in 1..(Len(s) + Len(p)) /\ j - Len(f) > Len(s)
        BY <1>1, <2>3, <4>1
      <4>3. (j - Len(f)) + Len(f) = j
        BY <1>1, <4>1
      <4>. QED
        BY <1>1, <4>2, <4>3
    <3>. QED
      BY <3>1
  <2>. QED
    BY <1>1, <2>1, <2>2, <2>3
<1>4. \A i, j \in DOMAIN q : At(i) < At(j) <=> i < j
  <2>1. DOMAIN q \subseteq Nat
    BY <1>1
  <2>. QED
    BY <1>1, <2>1
<1> HIDE DEF q, r, At
<1>5. Complete(w, q, n)
  BY DEF q
<1>6. \A i, j \in DOMAIN r :
          r[i][1] = w /\ r[j][1] = w => (i < j <=> r[i][2] < r[j][2])
  <2> SUFFICES ASSUME NEW i \in DOMAIN r, NEW j \in DOMAIN r, r[i][1] = w, r[j][1] = w
               PROVE  i < j <=> r[i][2] < r[j][2]
    OBVIOUS
  <2>1. PICK a \in DOMAIN q : i = At(a)
    BY <1>3
  <2>2. PICK b \in DOMAIN q : j = At(b)
    BY <1>3
  <2>3. q[a] = r[i] /\ q[b] = r[j] /\ (i < j <=> a < b)
    BY <1>2, <1>4, <2>1, <2>2
  <2>. QED
    BY <1>5, <2>3 DEF Complete, InOrder
<1>7. \A i \in DOMAIN r : r[i][1] = w => r[i][2] \in 1..n
  BY <1>2, <1>3, <1>5 DEF Complete
<1>8. \A k \in 1..n : \E i \in DOMAIN r : r[i] = <<w, k>>
  BY <1>2, <1>5 DEF Complete
<1>9. \A j \in DOMAIN r : r[j][1] = w =>
          \A k \in 1..r[j][2] : \E i \in DOMAIN r : r[i] = <<w, k>>
  BY <1>7, <1>8
<1>10. Complete(w, r, n)
  BY <1>6, <1>7, <1>8, <1>9 DEF Complete, InOrder
<1>. QED
  BY <1>10 DEF r

(* No buffer on the way to the child exceeds its capacity.                *)
StdinTypeOK ==
    /\ consumer \in [Writes -> {"none", "piped", "dropped"}]
    /\ taken \in [Writes -> Nat] /\ pending \in [Writes -> Seq(Bytes)]
    /\ in_channel \in Seq(Bytes) /\ Len(in_channel) <= StdinChannel
    /\ in_buffer \in Seq(Bytes)
    /\ in_pipe \in Seq(Bytes) /\ input \in Seq(Bytes)
    /\ writer \in {"recv", "write", "ended"}

(* What waits for the channel is of the stream that waits, and the writer  *)
(* task has something in hand exactly while it writes.                     *)
StdinBuffers ==
    /\ \A w \in Writes : \A i \in DOMAIN pending[w] : pending[w][i][1] = w
    /\ writer = "write" <=> in_buffer # <<>>

StdinInv == StdinTypeOK /\ StdinBuffers /\ InputInOrder

(* All there is of stream w and of the others, in the order of the way.    *)
Way(w) == input \o in_pipe \o in_buffer \o in_channel \o pending[w]

LEMMA StdinInit == SInit => StdinInv
<1> SUFFICES ASSUME SInit PROVE StdinInv
  OBVIOUS
<1>1. <<>> \in Seq(Bytes) /\ DOMAIN <<>> = {} /\ <<>> \o <<>> = <<>>
  BY ConcatEmptySeq
<1>2. StdinTypeOK /\ StdinBuffers
  BY <1>1, StdinAssumption DEF SInit, StdinTypeOK, StdinBuffers
<1>3. \A w \in Writes : InOrder(w, <<>>) /\ Complete(w, <<>>, 0)
  BY <1>1 DEF InOrder, Complete
<1>4. InputInOrder
  BY <1>1, <1>3 DEF SInit, InputInOrder
<1>. QED
  BY <1>2, <1>4 DEF StdinInv

LEMMA Assoc ==
    ASSUME NEW s \in Seq(Bytes), NEW t \in Seq(Bytes), NEW u \in Seq(Bytes)
    PROVE  (s \o t) \o u = s \o (t \o u)
BY ConcatAssociative

LEMMA WayPrefix ==
    ASSUME NEW w, NEW n, NEW a \in Seq(Bytes), NEW b \in Seq(Bytes), NEW c \in Seq(Bytes),
           NEW d \in Seq(Bytes), NEW e \in Seq(Bytes), Complete(w, a \o b \o c \o d \o e, n)
    PROVE  InOrder(w, a \o b)
<1>1. PICK x \in Seq(Bytes) : x = a \o b
  BY ConcatProperties
<1>2. PICK y \in Seq(Bytes) : y = x \o c
  BY ConcatProperties
<1>3. PICK z \in Seq(Bytes) : z = y \o d
  BY ConcatProperties
<1>4. InOrder(w, z \o e)
  BY <1>1, <1>2, <1>3 DEF Complete
<1>5. InOrder(w, z)
  BY <1>4, PrefixInOrder
<1>6. InOrder(w, y)
  BY <1>3, <1>5, PrefixInOrder
<1>7. InOrder(w, x)
  BY <1>2, <1>6, PrefixInOrder
<1>. QED
  BY <1>1, <1>7

(* A step that moves bytes along, or ends the writer task.                 *)
LEMMA WayKept ==
    ASSUME StdinInv, StdinTypeOK',
           writer' = "ended" => input' \o in_pipe' = input \o in_pipe,
           writer' # "ended" => writer # "ended" /\ taken' = taken,
           writer' # "ended" => \A w \in Writes : Way(w)' = Way(w)
    PROVE  InputInOrder'
<1> SUFFICES ASSUME NEW w \in Writes
             PROVE  /\ InOrder(w, input' \o in_pipe')
                    /\ writer' # "ended" => Complete(w, Way(w)', taken'[w])
  BY DEF InputInOrder, Way
<1>1. CASE writer' = "ended"
  BY <1>1 DEF StdinInv, InputInOrder
<1>2. CASE writer' # "ended"
  <2>1. Complete(w, Way(w)', taken'[w])
    BY <1>2 DEF StdinInv, InputInOrder, Way
  <2>2. /\ input' \in Seq(Bytes) /\ in_pipe' \in Seq(Bytes) /\ in_buffer' \in Seq(Bytes)
        /\ in_channel' \in Seq(Bytes) /\ pending'[w] \in Seq(Bytes)
    BY DEF StdinTypeOK
  <2>3. Complete(w, input' \o in_pipe' \o in_buffer' \o in_channel' \o pending'[w], taken'[w])
    BY <2>1 DEF Way
  <2>4. InOrder(w, input' \o in_pipe')
    BY <2>2, <2>3, WayPrefix
  <2>. QED
    BY <2>1, <2>4
<1>. QED
  BY <1>1, <1>2

LEMMA MovesAlong ==
    ASSUME NEW a \in Seq(Bytes), NEW b \in Seq(Bytes), b # <<>>
    PROVE  /\ Append(a, Head(b)) \in Seq(Bytes) /\ Tail(b) \in Seq(Bytes)
           /\ Append(a, Head(b)) \o Tail(b) = a \o b
<1> DEFINE s == Append(a, Head(b)) \o Tail(b)
           t == a \o b
<1>1. /\ Head(b) \in Bytes /\ Head(b) = b[1] /\ Tail(b) \in Seq(Bytes) /\ Len(b) \in Nat \ {0}
      /\ Len(Tail(b)) = Len(b) - 1 /\ \A i \in 1..(Len(b) - 1) : Tail(b)[i] = b[i + 1]
  BY HeadTailProperties
<1>2. /\ Append(a, Head(b)) \in Seq(Bytes) /\ Len(Append(a, Head(b))) = Len(a) + 1
      /\ \A i \in 1..Len(a) : Append(a, Head(b))[i] = a[i]
      /\ Append(a, Head(b))[Len(a) + 1] = b[1]
  BY <1>1
<1>3. s \in Seq(Bytes) /\ t \in Seq(Bytes) /\ Len(s) = Len(t) /\ Len(t) = Len(a) + Len(b)
  <2>1. Len(s) = Len(Append(a, Head(b))) + Len(Tail(b)) /\ s \in Seq(Bytes)
    BY <1>1, <1>2, ConcatProperties
  <2>2. Len(t) = Len(a) + Len(b) /\ t \in Seq(Bytes) /\ Len(a) \in Nat
    BY ConcatProperties
  <2>. QED
    BY <1>1, <1>2, <2>1, <2>2
<1>4. ASSUME NEW i \in 1..Len(s) PROVE s[i] = t[i]
  <2>1. i \in 1..(Len(a) + Len(b)) /\ Len(a) \in Nat
    BY <1>3
  <2>2. t[i] = IF i <= Len(a) THEN a[i] ELSE b[i - Len(a)]
    BY <2>1, ConcatProperties
  <2>3. s[i] = IF i <= Len(a) + 1 THEN Append(a, Head(b))[i] ELSE Tail(b)[i - (Len(a) + 1)]
    BY <1>1, <1>2, <2>1, ConcatProperties
  <2>4. CASE i <= Len(a)
    BY <1>2, <2>1, <2>2, <2>3, <2>4
  <2>5. CASE i = Len(a) + 1
    BY <1>2, <2>1, <2>2, <2>3, <2>5
  <2>6. CASE i > Len(a) + 1
    <3>1. i - (Len(a) + 1) \in 1..(Len(b) - 1) /\ (i - (Len(a) + 1)) + 1 = i - Len(a)
      BY <1>1, <2>1, <2>6
    <3>. QED
      BY <1>1, <2>1, <2>2, <2>3, <2>6, <3>1
  <2>. QED
    BY <2>1, <2>4, <2>5, <2>6
<1>5. s = t
  BY <1>3, <1>4, SeqEqual
<1>. QED
  BY <1>1, <1>2, <1>5

(* poll_consume on a channel that is open: what is under way is longer by  *)
(* what was read, and other streams see foreign bytes come in between.     *)
LEMMA StdinConsume ==
    ASSUME StdinInv, NEW w \in Writes, poll_consume(w)
    PROVE  StdinInv'
<1> DEFINE room == StdinChannel - Len(in_channel)
           waits == Len(pending[w]) > room
<1>1. PICK n \in 0..(WriteBytes[w] - taken[w]) :
          LET fresh == [i \in 1..(IF waits THEN 0 ELSE n) |-> <<w, taken[w] + i>>]
              items == pending[w] \o fresh
              fits == AtMost(room, Len(items))
          IN  /\ taken' = [taken EXCEPT ![w] = @ + Len(fresh)]
              /\ IF writer = "ended" THEN
                     /\ consumer' = [consumer EXCEPT ![w] = "dropped"]
                     /\ pending' = [pending EXCEPT ![w] = <<>>]
                     /\ UNCHANGED in_channel
                 ELSE
                     /\ in_channel' = in_channel \o FirstOf(items, fits)
                     /\ pending' = [pending EXCEPT ![w] = LeftPending(items, fits)]
                     /\ UNCHANGED consumer
              /\ UNCHANGED <<vars, writer, in_buffer, in_pipe, input>>
  BY DEF poll_consume
<1>2. n \in Nat /\ WriteBytes[w] \in Nat /\ taken[w] \in Nat /\ pending[w] \in Seq(Bytes)
  BY StdinAssumption DEF StdinInv, StdinTypeOK
<1>3. PICK m \in Nat : m = IF waits THEN 0 ELSE n
  BY <1>2
<1>4. PICK fresh : fresh = [i \in 1..m |-> <<w, taken[w] + i>>]
  OBVIOUS
<1>5. fresh \in Seq(Bytes) /\ Len(fresh) = m /\ \A i \in 1..m : fresh[i] = <<w, taken[w] + i>>
  <2>1. \A i \in 1..m : <<w, taken[w] + i>> \in Bytes
    BY <1>2 DEF Bytes
  <2>. QED
    BY <1>4, <2>1
<1>6. PICK items \in Seq(Bytes) : items = pending[w] \o fresh
  BY <1>2, <1>5, ConcatProperties
<1>7. \A i \in 1..Len(items) : items[i][1] = w
  BY <1>2, <1>5, <1>6 DEF StdinInv, StdinBuffers
<1>8. PICK fits : fits = AtMost(room, Len(items))
  OBVIOUS
<1>9. fits \in 0..Len(items) /\ fits <= room /\ room \in Nat
  BY <1>8, StdinAssumption DEF AtMost, StdinInv, StdinTypeOK
<1>10. /\ taken' = [taken EXCEPT ![w] = @ + m]
       /\ writer' = writer /\ in_buffer' = in_buffer /\ in_pipe' = in_pipe /\ input' = input
       /\ writer = "ended" => /\ consumer' = [consumer EXCEPT ![w] = "dropped"]
                              /\ pending' = [pending EXCEPT ![w] = <<>>]
                              /\ in_channel' = in_channel
       /\ writer # "ended" => /\ in_channel' = in_channel \o FirstOf(items, fits)
                              /\ pending' = [pending EXCEPT ![w] = Beyond(items, fits)]
                              /\ consumer' = consumer
  BY <1>1, <1>3, <1>4, <1>5, <1>6, <1>8 DEF LeftPending
<1> HIDE DEF room, waits
<1>11. taken' \in [Writes -> Nat] /\ taken'[w] = taken[w] + m
  BY <1>2, <1>10 DEF StdinInv, StdinTypeOK
<1>12. CASE writer = "ended"
  <2>1. pending'[w] = <<>> /\ \A v \in Writes \ {w} : pending'[v] = pending[v]
    BY <1>10, <1>12 DEF StdinInv, StdinTypeOK
  <2>2. StdinTypeOK'
    <3>1. pending' \in [Writes -> Seq(Bytes)] /\ consumer' \in [Writes -> {"none", "piped", "dropped"}]
      <4>1. <<>> \in Seq(Bytes)
        BY EmptySeq
      <4>2. pending' = [pending EXCEPT ![w] = <<>>] /\ consumer' = [consumer EXCEPT ![w] = "dropped"]
        BY <1>10, <1>12
      <4>3. pending \in [Writes -> Seq(Bytes)]
        BY DEF StdinInv, StdinTypeOK
      <4>4. consumer \in [Writes -> {"none", "piped", "dropped"}]
        BY DEF StdinInv, StdinTypeOK
      <4>. QED
        BY <4>1, <4>2, <4>3, <4>4
    <3>. QED
      BY <1>10, <1>11, <1>12, <3>1 DEF StdinInv, StdinTypeOK
  <2>3. StdinBuffers'
    BY <1>10, <2>1 DEF StdinInv, StdinBuffers
  <2>4. InputInOrder'
    BY <1>10, <1>12 DEF StdinInv, InputInOrder
  <2>. QED
    BY <2>2, <2>3, <2>4 DEF StdinInv
<1>13. CASE writer # "ended"
  <2>1. PICK sent \in Seq(Bytes) : sent = FirstOf(items, fits)
    BY <1>9, SplitSeq
  <2>2. PICK rest \in Seq(Bytes) : rest = Beyond(items, fits)
    BY <1>9, SplitSeq
  <2>3. /\ sent \o rest = items /\ Len(sent) = fits /\ Len(rest) = Len(items) - fits
        /\ \A i \in 1..fits : sent[i] = items[i]
        /\ \A i \in 1..(Len(items) - fits) : rest[i] = items[fits + i]
    BY <1>9, <2>1, <2>2, SplitSeq
  <2>4. /\ \A i \in 1..Len(sent) : sent[i][1] = w
        /\ \A i \in 1..Len(rest) : rest[i][1] = w
    <3>1. \A i \in 1..(Len(items) - fits) : fits + i \in 1..Len(items)
      BY <1>9
    <3>2. \A i \in 1..fits : i \in 1..Len(items)
      BY <1>9
    <3>3. \A i \in 1..fits : sent[i][1] = w
      BY <1>7, <2>3, <3>2
    <3>4. \A i \in 1..(Len(items) - fits) : rest[i][1] = w
      BY <1>7, <2>3, <3>1
    <3>. QED
      BY <2>3, <3>3, <3>4
  <2>5. in_channel' = in_channel \o sent /\ pending' = [pending EXCEPT ![w] = rest]
    BY <1>10, <1>13, <2>1, <2>2
  <2>6. in_channel' \in Seq(Bytes) /\ Len(in_channel') <= StdinChannel
    <3>1. in_channel \in Seq(Bytes) /\ Len(in_channel) \in Nat
      BY DEF StdinInv, StdinTypeOK
    <3>2. in_channel' \in Seq(Bytes) /\ Len(in_channel') = Len(in_channel) + fits
      BY <2>3, <2>5, <3>1, ConcatProperties
    <3>. QED
      BY <1>9, <3>1, <3>2, StdinAssumption DEF room
  <2>7. pending'[w] = rest /\ \A v \in Writes \ {w} : pending'[v] = pending[v]
    BY <2>5 DEF StdinInv, StdinTypeOK
  <2>8. StdinTypeOK'
    <3>1. pending' \in [Writes -> Seq(Bytes)]
      BY <2>5 DEF StdinInv, StdinTypeOK
    <3>. QED
      BY <1>10, <1>11, <1>13, <2>6, <3>1 DEF StdinInv, StdinTypeOK
  <2>9. StdinBuffers'
    BY <1>10, <2>4, <2>7 DEF StdinInv, StdinBuffers
  <2>10. PICK way \in Seq(Bytes) : way = input \o in_pipe \o in_buffer
    <3>1. input \o in_pipe \in Seq(Bytes)
      BY ConcatProperties DEF StdinInv, StdinTypeOK
    <3>. QED
      BY <3>1, ConcatProperties DEF StdinInv, StdinTypeOK
  <2>11. PICK whole \in Seq(Bytes) : whole = way \o in_channel
    BY ConcatProperties DEF StdinInv, StdinTypeOK
  <2>12. in_channel \in Seq(Bytes) /\ way \o in_channel' = whole \o sent
    <3>1. in_channel \in Seq(Bytes)
      BY DEF StdinInv, StdinTypeOK
    <3>2. (way \o in_channel) \o sent = way \o (in_channel \o sent)
      BY <3>1, Assoc
    <3>. QED
      BY <2>5, <2>11, <3>1, <3>2
  <2>13. ASSUME NEW v \in Writes PROVE Complete(v, whole \o pending[v], taken[v])
    BY <1>13, <2>10, <2>11 DEF StdinInv, InputInOrder
  <2>14. ASSUME NEW v \in Writes PROVE Complete(v, (way \o in_channel') \o pending'[v], taken'[v])
    <3>1. CASE v = w
      <4>1. (whole \o sent) \o rest = whole \o items
        BY <2>3, Assoc
      <4>2. whole \o items = (whole \o pending[w]) \o fresh
        BY <1>2, <1>5, <1>6, Assoc
      <4>3. whole \o pending[w] \in Seq(Bytes)
        BY <1>2, ConcatProperties
      <4>4. Complete(w, (whole \o pending[w]) \o fresh, taken[w] + m)
        BY <1>2, <1>5, <2>13, <4>3, CompleteExtends
      <4>. QED
        BY <1>11, <2>7, <2>12, <3>1, <4>1, <4>2, <4>4
    <3>2. CASE v # w
      <4>1. \A i \in 1..Len(sent) : sent[i][1] # v
        BY <2>4, <3>2
      <4>2. taken'[v] = taken[v] /\ taken[v] \in Nat /\ pending'[v] = pending[v] /\ pending[v] \in Seq(Bytes)
        BY <1>10, <2>7, <3>2 DEF StdinInv, StdinTypeOK
      <4>3. Complete(v, (whole \o sent) \o pending[v], taken[v])
        BY <2>13, <4>1, <4>2, CompleteAmidOthers
      <4>. QED
        BY <2>12, <4>2, <4>3
    <3>. QED
      BY <3>1, <3>2
  <2>15. InputInOrder'
    <3>1. \A v \in Writes : InOrder(v, input' \o in_pipe')
      BY <1>10 DEF StdinInv, InputInOrder
    <3>2. way = input' \o in_pipe' \o in_buffer'
      BY <1>10, <2>10
    <3>. QED
      BY <2>14, <3>1, <3>2 DEF InputInOrder
  <2>. QED
    BY <2>8, <2>9, <2>15 DEF StdinInv
<1>. QED
  BY <1>12, <1>13

LEMMA StdinStep == StdinInv /\ [SNext]_svars => StdinInv'
<1> SUFFICES ASSUME StdinInv, [SNext]_svars PROVE StdinInv'
  OBVIOUS
<1> USE DEF StdinInv
<1>1. CASE UNCHANGED input_vars
  BY <1>1 DEF input_vars, StdinTypeOK, StdinBuffers, InputInOrder
<1>2. ASSUME NEW w \in Writes, write_stdin(w) \/ StreamEnds(w) PROVE StdinInv'
  <2>1. /\ taken' = taken /\ pending' = pending /\ in_channel' = in_channel /\ writer' = writer
        /\ in_buffer' = in_buffer /\ in_pipe' = in_pipe /\ input' = input
    BY <1>2 DEF write_stdin, StreamEnds
  <2>2. consumer' \in [Writes -> {"none", "piped", "dropped"}]
    BY <1>2 DEF write_stdin, StreamEnds, StdinTypeOK
  <2>. QED
    BY <2>1, <2>2 DEF StdinTypeOK, StdinBuffers, InputInOrder
<1>3. ASSUME NEW w \in Writes, poll_consume(w) PROVE StdinInv'
  BY <1>3, StdinConsume
<1>4. ASSUME WriterReceives PROVE StdinInv'
  <2>1. PICK n : n = AtMost(Len(in_channel), StdinBuffer)
    OBVIOUS
  <2>2. /\ n > 0 /\ in_buffer' = FirstOf(in_channel, n) /\ in_channel' = Beyond(in_channel, n)
        /\ writer = "recv" /\ writer' = "write"
        /\ consumer' = consumer /\ taken' = taken /\ pending' = pending
        /\ in_pipe' = in_pipe /\ input' = input
    BY <1>4, <2>1 DEF WriterReceives
  <2>3. n \in 0..Len(in_channel) /\ n # 0 /\ in_channel \in Seq(Bytes) /\ in_buffer = <<>>
    BY <2>1, <2>2, StdinAssumption DEF AtMost, StdinTypeOK, StdinBuffers
  <2>4. /\ in_buffer' \in Seq(Bytes) /\ in_channel' \in Seq(Bytes)
        /\ Len(in_buffer') = n /\ Len(in_channel') = Len(in_channel) - n
        /\ in_buffer' \o in_channel' = in_channel
    BY <2>2, <2>3, SplitSeq
  <2>5. StdinTypeOK'
    BY <2>2, <2>3, <2>4, StdinAssumption DEF StdinTypeOK
  <2>6. StdinBuffers'
    <3>1. in_buffer' # <<>>
      BY <2>3, <2>4
    <3>. QED
      BY <2>2, <3>1 DEF StdinBuffers
  <2>7. ASSUME NEW w \in Writes PROVE Way(w)' = Way(w)
    <3>1. PICK base \in Seq(Bytes) : base = input \o in_pipe
      BY ConcatProperties DEF StdinTypeOK
    <3>2. (base \o in_buffer') \o in_channel' = base \o in_channel
      BY <2>4, Assoc
    <3>3. base \o in_buffer = base
      BY <2>3, ConcatEmptySeq
    <3>. QED
      BY <2>2, <3>1, <3>2, <3>3 DEF Way
  <2>8. InputInOrder'
    BY <2>2, <2>5, <2>7, WayKept
  <2>. QED
    BY <2>5, <2>6, <2>8
<1>5. ASSUME WriterWrites PROVE StdinInv'
  <2>0. writer = "write" /\ in_buffer # <<>> /\ in_buffer \in Seq(Bytes)
    BY <1>5 DEF WriterWrites, StdinBuffers, StdinTypeOK
  <2>1. CASE Writer
    <3>1. /\ in_pipe' = Append(in_pipe, Head(in_buffer)) /\ in_buffer' = Tail(in_buffer)
          /\ writer' = IF Len(in_buffer) = 1 THEN "recv" ELSE "write"
          /\ in_channel' = in_channel /\ consumer' = consumer /\ taken' = taken
          /\ pending' = pending /\ input' = input
      BY <1>5, <2>1 DEF WriterWrites
    <3>2. /\ in_pipe' \in Seq(Bytes) /\ in_buffer' \in Seq(Bytes)
          /\ in_pipe' \o in_buffer' = in_pipe \o in_buffer
      BY <2>0, <3>1, MovesAlong DEF StdinTypeOK
    <3>3. StdinTypeOK'
      BY <3>1, <3>2 DEF StdinTypeOK
    <3>4. StdinBuffers'
      <4>1. writer' = "write" <=> in_buffer' # <<>>
        <5>1. Len(in_buffer') = Len(in_buffer) - 1 /\ Len(in_buffer) \in Nat \ {0}
          BY <2>0, <3>1, HeadTailProperties, EmptySeq
        <5>2. in_buffer' = <<>> <=> Len(in_buffer') = 0
          BY <3>2
        <5>. QED
          BY <3>1, <5>1, <5>2
      <4>. QED
        BY <3>1, <4>1 DEF StdinBuffers
    <3>5. ASSUME NEW w \in Writes PROVE Way(w)' = Way(w)
      <4>1. (input \o in_pipe') \o in_buffer' = input \o (in_pipe' \o in_buffer')
        BY <3>2, Assoc DEF StdinTypeOK
      <4>2. (input \o in_pipe) \o in_buffer = input \o (in_pipe \o in_buffer)
        BY Assoc DEF StdinTypeOK
      <4>. QED
        BY <3>1, <3>2, <4>1, <4>2 DEF Way
    <3>6. InputInOrder'
      BY <2>0, <3>1, <3>3, <3>5, WayKept
    <3>. QED
      BY <3>3, <3>4, <3>6
  <2>2. CASE ~Writer
    <3>1. /\ writer' = "ended" /\ in_buffer' = <<>> /\ in_channel' = <<>>
          /\ in_pipe' = in_pipe /\ consumer' = consumer /\ taken' = taken
          /\ pending' = pending /\ input' = input
      BY <1>5, <2>2 DEF WriterWrites
    <3>2. StdinTypeOK'
      BY <3>1, EmptySeq, StdinAssumption DEF StdinTypeOK
    <3>3. StdinBuffers'
      BY <3>1 DEF StdinBuffers
    <3>4. InputInOrder'
      BY <3>1, <3>2, WayKept
    <3>. QED
      BY <3>2, <3>3, <3>4
  <2>. QED
    BY <2>1, <2>2
<1>6. ASSUME WriterEnds PROVE StdinInv'
  BY <1>6 DEF WriterEnds, StdinTypeOK, StdinBuffers, InputInOrder
<1>7. ASSUME ChildReads PROVE StdinInv'
  <2>1. /\ in_pipe # <<>> /\ input' = Append(input, Head(in_pipe)) /\ in_pipe' = Tail(in_pipe)
        /\ consumer' = consumer /\ taken' = taken /\ pending' = pending
        /\ in_channel' = in_channel /\ writer' = writer /\ in_buffer' = in_buffer
    BY <1>7 DEF ChildReads
  <2>2. /\ input' \in Seq(Bytes) /\ in_pipe' \in Seq(Bytes)
        /\ input' \o in_pipe' = input \o in_pipe
    BY <2>1, MovesAlong DEF StdinTypeOK
  <2>3. StdinTypeOK'
    BY <2>1, <2>2 DEF StdinTypeOK
  <2>4. StdinBuffers'
    BY <2>1 DEF StdinBuffers
  <2>5. InputInOrder'
    BY <2>1, <2>2, <2>3 DEF InputInOrder
  <2>. QED
    BY <2>3, <2>4, <2>5
<1>8. ASSUME StreamsDropped PROVE StdinInv'
  <2>1. consumer' \in [Writes -> {"none", "piped", "dropped"}]
    BY <1>8 DEF StreamsDropped, StdinTypeOK
  <2>. QED
    BY <1>8, <2>1 DEF StreamsDropped, StdinTypeOK, StdinBuffers, InputInOrder
<1>9. CASE SNext
  BY <1>1, <1>2, <1>3, <1>4, <1>5, <1>6, <1>7, <1>8, <1>9 DEF SNext
<1>. QED
  BY <1>1, <1>9 DEF svars, input_vars

(* What a policy writes to its child arrives in order, none of it lost or  *)
(* doubled, for any number of streams, any lengths and any buffer sizes:    *)
(* poll_consume, spawn_stdin_writer.                                       *)
THEOREM StdinInOrder == SSpec => []InputInOrder
<1>1. StdinInv => InputInOrder
  BY DEF StdinInv
<1>. QED
  BY <1>1, StdinInit, StdinStep, PTL DEF SSpec
=============================================================================
