---------------------------- MODULE ChildProcess ----------------------------
(***************************************************************************)
(* The process API of the policy host (mitb-host/src/lib.rs and            *)
(* stream_bridge.rs) and the SDK's run_process_with_timeout, which most    *)
(* policies use it through (mitb-sdk/src/lib.rs): one child process, the   *)
(* calls on it that run concurrently, the tasks that carry its output      *)
(* through bounded buffers, and the policy at the other end.               *)
(*                                                                         *)
(* The output is counted, not looked at.  Writing to the child's standard  *)
(* input is in ChildStdin.  waitpid and kill on a child of our own do not  *)
(* fail.                                                                   *)
(***************************************************************************)
EXTENDS Integers

CONSTANTS Policies,      \* "helper", "patient", "calls", "reads", "both", "writes":
                         \* what it uses; a patient policy is a helper whose time
                         \* limit is longer than its child needs
          Streams,       \* {"stdout", "stderr"}
          Output,        \* what a child may have to print, by policy
          PipeBytes,     \* capacity of the pipe of the operating system
          ChunkBytes,    \* size of the reader task's buffer (4096)
          ChannelBytes   \* capacity of the channel to the policy (8 * 1024)

ASSUME ProcessAssumption ==
    /\ Policies \subseteq {"helper", "patient", "calls", "reads", "both", "writes"}
    /\ Output \in [Policies -> SUBSET [Streams -> Nat]]
    /\ PipeBytes \in Nat \ {0} /\ ChunkBytes \in Nat \ {0} /\ ChannelBytes \in Nat \ {0}

Calls == {"first", "second", "drop"}   \* two of the policy's, and the drop task
Codes == {"success", "failure", "signal"}

VARIABLES
    \* the operating system
    child,      \* "none", "running", "zombie" (exited), "reaped"
    status,     \* how it exited
    signalled,  \* SIGKILL was sent
    heir,       \* a descendant holds the child's ends of the pipes
    todo,       \* what the child still has to print, by stream
    printed,    \* history: what it has printed
    pipe,       \* what is in the pipe
    \* the host
    exit,       \* ChildControl::exit
    pc, kind,   \* the calls: where they are, and which
    answer,     \* what the last call returned
    woken,      \* exit_notify has fired for this call
    handle,     \* the policy holds the resource
    reader,     \* the reader tasks: "read", "send", "ended", "failed"
    chunk,      \* what the task has read and not yet sent
    channel,    \* what is in the channel
    \* the policy
    rx,         \* the receiver: "slot", "policy" or "dropped"
    got,        \* what the policy has collected
    finished,   \* the policy has seen the end of the stream
    policy,     \* the kind of policy
    run         \* where run_process_with_timeout is

system == <<child, status, signalled, heir, todo, printed, pipe>>
calls == <<exit, pc, kind, answer, woken, handle>>
output == <<reader, chunk, channel, rx, got, finished>>
vars == <<system, calls, output, policy, run>>

Init ==
    /\ child = "none" /\ status = "none" /\ signalled = FALSE /\ heir = FALSE
    /\ policy \in Policies /\ run = "spawn"
    /\ todo \in Output[policy] /\ printed = [s \in Streams |-> 0]
    /\ pipe = [s \in Streams |-> 0]
    /\ exit = "none"
    /\ pc = [c \in Calls |-> "idle"] /\ kind = [c \in Calls |-> "kill"]
    /\ answer = [c \in Calls |-> "none"] /\ woken = [c \in Calls |-> FALSE]
    /\ handle = FALSE
    /\ reader = [s \in Streams |-> "read"] /\ chunk = [s \in Streams |-> 0]
    /\ channel = [s \in Streams |-> 0] /\ rx = [s \in Streams |-> "slot"]
    /\ got = [s \in Streams |-> 0] /\ finished = [s \in Streams |-> FALSE]

(***************************************************************************)
(* The child and its descendants.                                          *)
(***************************************************************************)
Writer == child = "running" \/ heir

(* A write to a full pipe waits; one to a pipe nobody reads goes nowhere.  *)
ChildPrints(s) ==
    /\ Writer /\ todo[s] > 0
    /\ todo' = [todo EXCEPT ![s] = @ - 1]
    /\ IF reader[s] \in {"ended", "failed"} THEN UNCHANGED <<printed, pipe>>
       ELSE /\ pipe[s] < PipeBytes
            /\ pipe' = [pipe EXCEPT ![s] = @ + 1]
            /\ printed' = [printed EXCEPT ![s] = @ + 1]
    /\ UNCHANGED <<child, status, signalled, heir, calls, output, policy, run>>

Fork ==
    /\ child = "running" /\ ~heir
    /\ heir' = TRUE
    /\ UNCHANGED <<child, status, signalled, todo, printed, pipe, calls, output, policy, run>>

(* A child exits when it has said what it has to say, if it ever does.     *)
ChildExits(code) ==
    /\ child = "running"
    /\ \A s \in Streams : todo[s] = 0
    /\ child' = "zombie" /\ status' = code
    /\ UNCHANGED <<signalled, heir, todo, printed, pipe, calls, output, policy, run>>

ChildKilled ==
    /\ child = "running" /\ signalled
    /\ child' = "zombie" /\ status' = "signal"
    /\ UNCHANGED <<signalled, heir, todo, printed, pipe, calls, output, policy, run>>

HeirExits ==
    /\ heir
    /\ heir' = FALSE
    /\ UNCHANGED <<child, status, signalled, todo, printed, pipe, calls, output, policy, run>>

(* try_wait: an exit is found once and remembered.                         *)
Exited == child \in {"zombie", "reaped"}
Reap == child' = IF Exited THEN "reaped" ELSE child

(***************************************************************************)
(* wait_for_child, wait_for_child_timeout and kill_child.  The two locks   *)
(* are taken one after the other; each step is what is done under one.     *)
(***************************************************************************)
Goto(c, label) == pc' = [pc EXCEPT ![c] = label]
Return(c, what) == Goto(c, "idle") /\ answer' = [answer EXCEPT ![c] = what]
WaitCalls == {"wait", "wait_timeout"}

Start(c, k) ==
    /\ pc[c] = "idle"
    /\ Goto(c, "check")
    /\ kind' = [kind EXCEPT ![c] = k]
    /\ answer' = [answer EXCEPT ![c] = "none"]

CheckExit(c) ==
    /\ pc[c] = "check"
    /\ IF exit # "none"
         THEN Return(c, IF kind[c] = "kill" THEN "ok" ELSE exit)
         ELSE Goto(c, "poll") /\ UNCHANGED answer
    /\ UNCHANGED <<system, exit, kind, woken, handle, output, policy, run>>

PollChild(c) ==
    /\ pc[c] = "poll" /\ kind[c] \in WaitCalls
    /\ Reap
    /\ Goto(c, IF Exited THEN "store" ELSE "arm")
    /\ UNCHANGED <<status, signalled, heir, todo, printed, pipe>>
    /\ UNCHANGED <<exit, kind, answer, woken, handle, output, policy, run>>

(* store_child_exit: the first result stays, and wakes those that wait.    *)
StoreExit(c) ==
    /\ pc[c] = "store"
    /\ IF exit # "none"
         THEN Return(c, exit) /\ UNCHANGED <<exit, woken>>
         ELSE /\ exit' = status
              /\ woken' = [d \in Calls |-> woken[d] \/ pc[d] = "sleep"]
              /\ Return(c, status)
    /\ UNCHANGED <<system, kind, handle, output, policy, run>>

(* select!: the call begins to listen, and goes on when it is woken or     *)
(* when CHILD_WAIT_POLL has passed.                                        *)
Listen(c) ==
    /\ pc[c] = "arm"
    /\ Goto(c, "sleep")
    /\ UNCHANGED <<system, exit, kind, answer, woken, handle, output, policy, run>>

(* Mutant: there is no CHILD_WAIT_POLL.                                    *)
WakeOnNotify(c) ==
    /\ pc[c] = "sleep" /\ woken[c]
    /\ Goto(c, "check")
    /\ woken' = [woken EXCEPT ![c] = FALSE]
    /\ UNCHANGED <<system, exit, kind, answer, handle, output, policy, run>>

Wake(c) ==
    /\ pc[c] = "sleep"
    /\ Goto(c, "check")
    /\ woken' = [woken EXCEPT ![c] = FALSE]
    /\ UNCHANGED <<system, exit, kind, answer, handle, output, policy, run>>

(* tokio::time::timeout drops the wait wherever it is.                     *)
Timeout(c) ==
    /\ policy # "patient"
    /\ pc[c] \in {"check", "poll", "store", "arm", "sleep"} /\ kind[c] = "wait_timeout"
    /\ Return(c, "none")
    /\ woken' = [woken EXCEPT ![c] = FALSE]
    /\ UNCHANGED <<system, exit, kind, handle, output, policy, run>>

(* Mutant: the kill is taken for the child's end.                          *)
KillAndStore(c) ==
    /\ pc[c] = "poll" /\ kind[c] = "kill"
    /\ signalled' = TRUE
    /\ exit' = "signal"
    /\ Return(c, "ok")
    /\ UNCHANGED <<child, status, heir, todo, printed, pipe>>
    /\ UNCHANGED <<kind, woken, handle, output, policy, run>>

(* kill_child polls and kills under one lock.                              *)
KillChild(c) ==
    /\ pc[c] = "poll" /\ kind[c] = "kill"
    /\ Reap
    /\ signalled' = (signalled \/ ~Exited)
    /\ Return(c, "ok")
    /\ UNCHANGED <<status, heir, todo, printed, pipe>>
    /\ UNCHANGED <<exit, kind, woken, handle, output, policy, run>>

(***************************************************************************)
(* The reader tasks.                                                       *)
(***************************************************************************)
ReadPipe(s) ==
    /\ child # "none" /\ reader[s] = "read"
    /\ \E n \in 1..ChunkBytes :
           /\ n <= pipe[s]
           /\ pipe' = [pipe EXCEPT ![s] = @ - n]
           /\ chunk' = [chunk EXCEPT ![s] = n]
    /\ reader' = [reader EXCEPT ![s] = "send"]
    /\ UNCHANGED <<child, status, signalled, heir, todo, printed, calls>>
    /\ UNCHANGED <<channel, rx, got, finished, policy, run>>

(* The end of the file: every writer has closed its end.                   *)
ReadEnd(s) ==
    /\ child # "none" /\ reader[s] = "read"
    /\ pipe[s] = 0 /\ ~Writer
    /\ reader' = [reader EXCEPT ![s] = "ended"]
    /\ UNCHANGED <<system, calls, chunk, channel, rx, got, finished, policy, run>>

ReadFails(s) ==
    /\ child # "none" /\ reader[s] = "read"
    /\ reader' = [reader EXCEPT ![s] = "failed"]
    /\ UNCHANGED <<system, calls, chunk, channel, rx, got, finished, policy, run>>

(* Mutant: a byte that does not fit is dropped.                            *)
SendOrDrop(s) ==
    /\ reader[s] = "send" /\ rx[s] # "dropped"
    /\ channel' = [channel EXCEPT ![s] = IF @ < ChannelBytes THEN @ + 1 ELSE @]
    /\ chunk' = [chunk EXCEPT ![s] = @ - 1]
    /\ reader' = [reader EXCEPT ![s] = IF chunk[s] = 1 THEN "read" ELSE "send"]
    /\ UNCHANGED <<system, calls, rx, got, finished, policy, run>>

SendByte(s) ==
    /\ reader[s] = "send" /\ rx[s] # "dropped"
    /\ channel[s] < ChannelBytes
    /\ channel' = [channel EXCEPT ![s] = @ + 1]
    /\ chunk' = [chunk EXCEPT ![s] = @ - 1]
    /\ reader' = [reader EXCEPT ![s] = IF chunk[s] = 1 THEN "read" ELSE "send"]
    /\ UNCHANGED <<system, calls, rx, got, finished, policy, run>>

SendFails(s) ==
    /\ reader[s] = "send" /\ rx[s] = "dropped"
    /\ reader' = [reader EXCEPT ![s] = "ended"]
    /\ UNCHANGED <<system, calls, chunk, channel, rx, got, finished, policy, run>>

(* Mutant: run_process_with_timeout collects the output after the wait.    *)
CollectAfterWait(s) ==
    /\ rx[s] = "policy" /\ ~finished[s] /\ run # "wait"
    /\ \/ \E n \in 1..ChannelBytes :
              /\ n <= channel[s]
              /\ channel' = [channel EXCEPT ![s] = @ - n]
              /\ got' = [got EXCEPT ![s] = @ + n]
              /\ UNCHANGED finished
       \/ /\ channel[s] = 0 /\ reader[s] \in {"ended", "failed"}
          /\ finished' = [finished EXCEPT ![s] = TRUE]
          /\ UNCHANGED <<channel, got>>
    /\ UNCHANGED <<system, calls, reader, chunk, rx, policy, run>>

(* MpscStreamProducer hands over what is there, up to what is asked for;   *)
(* a closed channel that is empty is the end of the stream.                *)
Collect(s) ==
    /\ rx[s] = "policy" /\ ~finished[s]
    /\ \/ \E n \in 1..ChannelBytes :
              /\ n <= channel[s]
              /\ channel' = [channel EXCEPT ![s] = @ - n]
              /\ got' = [got EXCEPT ![s] = @ + n]
              /\ UNCHANGED finished
       \/ /\ channel[s] = 0 /\ reader[s] \in {"ended", "failed"}
          /\ finished' = [finished EXCEPT ![s] = TRUE]
          /\ UNCHANGED <<channel, got>>
    /\ UNCHANGED <<system, calls, reader, chunk, rx, policy, run>>

(***************************************************************************)
(* The policy.                                                             *)
(***************************************************************************)
Spawn ==
    /\ child = "none" /\ run = "spawn"
    /\ child' = "running" /\ handle' = TRUE
    /\ IF policy \notin {"helper", "patient"}
         THEN run' = "own" /\ UNCHANGED <<rx, pc, kind, answer>>
       ELSE /\ rx' = [s \in Streams |-> "policy"]
            /\ Start("first", "wait_timeout")
            /\ run' = "wait"
    /\ UNCHANGED <<status, signalled, heir, todo, printed, pipe>>
    /\ UNCHANGED <<exit, woken, reader, chunk, channel, got, finished, policy>>

(* disable_spawn, or a command that cannot be started.                     *)
SpawnFails ==
    /\ child = "none" /\ run = "spawn"
    /\ run' = "failed"
    /\ UNCHANGED <<system, calls, output, policy>>

(* A policy of its own: wait, wait_timeout and kill, two at a time.        *)
PolicyCalls(c, k) ==
    /\ run = "own" /\ policy \in {"calls", "both"} /\ handle
    /\ Start(c, k)
    /\ UNCHANGED <<system, exit, woken, handle, output, policy, run>>

(* read_stdout and read_stderr: a receiver is given away once.             *)
TakeStream(s) ==
    /\ run = "own" /\ policy \in {"reads", "both"} /\ handle /\ rx[s] = "slot"
    /\ rx' = [rx EXCEPT ![s] = "policy"]
    /\ UNCHANGED <<system, calls, reader, chunk, channel, got, finished, policy, run>>

DropStream(s) ==
    /\ run = "own" /\ rx[s] = "policy"
    /\ rx' = [rx EXCEPT ![s] = "dropped"]
    /\ UNCHANGED <<system, calls, reader, chunk, channel, got, finished, policy, run>>

(* HostChild::drop spawns a task that kills the child; the receivers that  *)
(* were not taken go with the resource.  No call borrows it any more.  The *)
(* task holds the last Arc of the control: when it is done the child has   *)
(* been killed or has exited, and kill_on_drop finds nothing left to do.   *)
Release ==
    /\ handle' = FALSE
    /\ pc["first"] = "idle" /\ pc["second"] = "idle"
    /\ Start("drop", "kill")
    /\ rx' = [s \in Streams |-> IF rx[s] = "slot" THEN "dropped" ELSE rx[s]]

DropChild ==
    /\ run = "own" /\ handle
    /\ Release
    /\ UNCHANGED <<system, exit, woken, reader, chunk, channel, got, finished, policy, run>>

(* Mutant: the command is spawned without kill_on_drop.                    *)
LastControlQuietly == UNCHANGED signalled

(* kill_on_drop: the last Arc of the control goes, and the Child with it.  *)
(* One that was reaped is not signalled any more.                          *)
LastControlDropped == signalled' = (signalled \/ child = "running")

(* The session ends, or a trap ends it, and the policy still holds the     *)
(* child: the store goes, with the calls and the streams.                  *)
StoreDropped ==
    /\ handle /\ handle' = FALSE
    /\ run' = "gone"
    /\ LastControlDropped
    /\ pc' = [c \in Calls |-> "idle"] /\ woken' = [c \in Calls |-> FALSE]
    /\ rx' = [s \in Streams |-> "dropped"]
    /\ UNCHANGED <<child, status, heir, todo, printed, pipe, exit, kind, answer>>
    /\ UNCHANGED <<reader, chunk, channel, got, finished, policy>>

(* run_process_with_timeout: a wait that times out is followed by a kill.  *)
WaitAnswered ==
    /\ run = "wait" /\ pc["first"] = "idle"
    /\ IF answer["first"] = "none"
         THEN Start("second", "kill") /\ run' = "kill"
         ELSE run' = "join" /\ UNCHANGED <<pc, kind, answer>>
    /\ UNCHANGED <<system, exit, woken, handle, output, policy>>

KillAnswered ==
    /\ run = "kill" /\ pc["second"] = "idle"
    /\ run' = "join"
    /\ UNCHANGED <<system, calls, output, policy>>

(* join!: both streams are over too.  The child goes out of scope.         *)
Joined ==
    /\ run = "join" /\ \A s \in Streams : finished[s]
    /\ run' = IF answer["first"] = "none" THEN "timed_out"
              ELSE IF answer["first"] = "success" /\ \A s \in Streams : reader[s] # "failed"
                     THEN "completed" ELSE "failed"
    /\ Release
    /\ UNCHANGED <<system, exit, woken, reader, chunk, channel, got, finished, policy>>

CallStep(c) ==
    \/ CheckExit(c) \/ PollChild(c) \/ StoreExit(c) \/ Listen(c) \/ Wake(c)
    \/ KillChild(c)

ReaderStep(s) == ReadPipe(s) \/ ReadEnd(s) \/ SendByte(s) \/ SendFails(s)

HelperStep == WaitAnswered \/ KillAnswered \/ Joined

Next ==
    \/ \E s \in Streams : ChildPrints(s)
    \/ Fork \/ ChildKilled \/ HeirExits
    \/ \E code \in Codes \ {"signal"} : ChildExits(code)
    \/ \E c \in Calls : CallStep(c) \/ Timeout(c)
    \/ \E s \in Streams : ReaderStep(s) \/ ReadFails(s) \/ Collect(s)
    \/ Spawn \/ SpawnFails
    \/ \E c \in {"first", "second"}, k \in {"wait", "wait_timeout", "kill"} : PolicyCalls(c, k)
    \/ \E s \in Streams : TakeStream(s) \/ DropStream(s)
    \/ DropChild \/ StoreDropped
    \/ HelperStep

(* Tasks go on, time passes, a signal kills; run_process_with_timeout      *)
(* reads on.  The child of a patient policy says what it has to say and    *)
(* exits; nothing is assumed of other children, nor of descendants.        *)
Fairness ==
    /\ \A c \in Calls : WF_vars(CallStep(c)) /\ WF_vars(Timeout(c))
    /\ \A s \in Streams : WF_vars(ReaderStep(s)) /\ WF_vars(Collect(s) /\ run # "own")
    /\ WF_vars(ChildKilled)
    /\ WF_vars(HelperStep)
    /\ \A s \in Streams : WF_vars(policy = "patient" /\ ChildPrints(s))
    /\ WF_vars(policy = "patient" /\ \E code \in Codes \ {"signal"} : ChildExits(code))

Spec == Init /\ [][Next]_vars
FairSpec == Spec /\ Fairness

(***************************************************************************)
(* Properties                                                              *)
(***************************************************************************)
(* No buffer exceeds its capacity, and everything is in one of its states. *)
TypeOK ==
    /\ child \in {"none", "running", "zombie", "reaped"}
    /\ status \in Codes \cup {"none"} /\ exit \in Codes \cup {"none"}
    /\ signalled \in BOOLEAN /\ heir \in BOOLEAN /\ handle \in BOOLEAN
    /\ todo \in [Streams -> Nat] /\ printed \in [Streams -> Nat] /\ got \in [Streams -> Nat]
    /\ pipe \in [Streams -> 0..PipeBytes] /\ chunk \in [Streams -> 0..ChunkBytes]
    /\ channel \in [Streams -> 0..ChannelBytes]
    /\ pc \in [Calls -> {"idle", "check", "poll", "store", "arm", "sleep"}]
    /\ kind \in [Calls -> WaitCalls \cup {"kill"}]
    /\ answer \in [Calls -> Codes \cup {"none", "ok"}]
    /\ woken \in [Calls -> BOOLEAN]
    /\ reader \in [Streams -> {"read", "send", "ended", "failed"}]
    /\ rx \in [Streams -> {"slot", "policy", "dropped"}]
    /\ finished \in [Streams -> BOOLEAN]
    /\ policy \in Policies
    /\ run \in {"spawn", "own", "wait", "kill", "join", "completed", "timed_out", "failed", "gone"}

(* Whatever waits, kills and timeouts overlap, every status returned is    *)
(* the one the child exited with: wait_for_child, store_child_exit.        *)
TrueStatus ==
    /\ exit # "none" => exit = status /\ child = "reaped"
    /\ \A c \in Calls : answer[c] \in Codes => answer[c] = status

(* Nobody kills a process whose id may be another's already: kill_child    *)
(* signals only a child that has not been reaped.                          *)
KillsOwnChild == [][signalled' # signalled => child = "running"]_vars

(* A process that is reported as completed has ended by itself, and all    *)
(* it has printed, on both streams, was collected: spawn_output_reader,    *)
(* MpscStreamProducer, run_process_with_timeout.                           *)
AllCollected ==
    run = "completed" =>
      /\ status = "success"
      /\ \A s \in Streams : got[s] = printed[s] /\ todo[s] = 0

(* A wait for a child that has exited returns, also when it is the only    *)
(* call and no other will find the exit and wake it: CHILD_WAIT_POLL.      *)
WaitReturns ==
    \A c \in Calls :
        (kind[c] \in WaitCalls /\ pc[c] # "idle" /\ Exited) ~> (pc[c] = "idle")

(* run_process_with_timeout returns: by its timeout, whatever the child    *)
(* does, and without it if the child exits once it could print what it has *)
(* to print, however much more that is than the buffers hold.  It does not *)
(* return while a descendant holds the pipes (the premise): join!.         *)
RunReturns ==
    []<>~heir => ((run = "wait") ~> (run \in {"completed", "timed_out", "failed", "gone"}))

(* A child the policy has let go of does not live on, whether the policy   *)
(* dropped it or ended with it in its hands: HostChild::drop, kill_on_drop. *)
DroppedDies == (child = "running" /\ ~handle) ~> (child # "running")
=============================================================================
