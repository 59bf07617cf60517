---------------------------- MODULE HostRuntime ----------------------------
(***************************************************************************)
(* The life of one `mitb` process: the policy host's polling loop          *)
(* (mitb-host/src/runtime.rs) with its PTY child and reader thread         *)
(* (lib.rs, pty_io.rs), the reporting agent that runs beside it and        *)
(* reconnects (agent.rs, agent/*.rs), the viewer window (mitb-box) and the *)
(* main thread that joins them (src/main.rs).                              *)
(*                                                                         *)
(* They share one flag, `shutdown`, and two channels.  The host loop and   *)
(* the agent are tasks of one current-thread runtime and interleave at     *)
(* their awaits; the reader, the child, the viewer and the remote          *)
(* zookeeper run on their own.                                             *)
(***************************************************************************)
EXTENDS Integers, Sequences

CONSTANTS InitialDelay,  \* RECONNECT_DELAY_INITIAL, in seconds
          MaxDelay,      \* RECONNECT_DELAY_MAX
          MaxKills       \* bound: terminate messages sent by zookeepers

ASSUME HostAssumption ==
    /\ InitialDelay \in Nat \ {0}
    /\ MaxDelay \in Nat
    /\ InitialDelay <= MaxDelay
    /\ MaxKills \in Nat

VARIABLES
    options,    \* is there an agent, is there a viewer
    shutdown,   \* the AtomicBool that everyone shares
    host,       \* where runtime::run is
    result,     \* what it returned
    child,      \* the PTY child process
    reader,     \* the thread in read_pty_output
    agent,      \* where agent::run is
    delay,      \* its reconnect_delay
    fatal,      \* an AgentRuntimeEvent::Fatal waits in its channel
    channel,    \* the open data channels to zookeepers, by their session
    events,     \* the HostEvents that wait for the viewer
    ui,         \* the viewer window
    kills       \* history: terminate messages delivered

hostVars == <<host, result>>
ptyVars == <<child, reader>>
agentVars == <<agent, delay, fatal, channel>>
uiVars == <<events, ui>>
vars == <<options, shutdown, hostVars, ptyVars, agentVars, uiVars, kills>>

HostStates == {"starting", "tick", "child_exited", "poll", "write",
               "terminate", "join_reader", "join_agent", "returned", "dropped"}
AgentStates == {"none", "start", "run", "connect", "auth", "handling",
                "session", "closing", "backoff", "ended"}

(* A channel belongs to the agent's session on the signaling server, or was *)
(* orphaned when an earlier session ended in an error: nobody closes it.   *)
Channels == {"current", "orphaned"}

Init ==
    /\ options \in [agent : BOOLEAN, viewer : BOOLEAN]
    /\ shutdown = FALSE
    /\ host = "starting"
    /\ result = "none"
    /\ child = "none"
    /\ reader = "none"
    /\ agent = IF options.agent THEN "start" ELSE "none"
    /\ delay = InitialDelay
    /\ fatal = FALSE
    /\ channel = {}
    /\ events = << >>
    /\ ui = IF options.viewer THEN "open" ELSE "none"
    /\ kills = 0

(* tx.send(..) where there is an event_sender.                             *)
Send(event) ==
    events' = IF options.viewer THEN Append(events, event) ELSE events

(***************************************************************************)
(* The host loop.  Its results are Ok and the errors HostError::Agent,     *)
(* HostError::Policy and, as "failed", the others.                         *)
(***************************************************************************)
Errors == {"agent_error", "policy_error", "failed"}

Return(r) == host' = "returned" /\ result' = r

(* instantiate_policy, the session constructor and PtySession::spawn,      *)
(* which may fail once the child runs and before it has a reader.          *)
HostStart ==
    /\ host = "starting"
    /\ \/ /\ host' = "tick"
          /\ child' = "running"
          /\ reader' = "running"
          /\ UNCHANGED result
       \/ /\ Return("failed")
          /\ child' \in {"none", "running"}
          /\ UNCHANGED reader
    /\ UNCHANGED <<options, shutdown, agentVars, uiVars, kills>>

(* A tick with a Fatal event of the agent: return at once, the PTY child   *)
(* left as it is.                                                          *)
TickFatal ==
    /\ host = "tick"
    /\ fatal
    /\ fatal' = FALSE
    /\ shutdown' = TRUE
    /\ Return("agent_error")
    /\ UNCHANGED <<options, ptyVars, agent, delay, channel, uiVars, kills>>

TickShutdown ==
    /\ host = "tick"
    /\ ~fatal
    /\ shutdown
    /\ Send("session_ended")
    /\ host' = "terminate"
    /\ UNCHANGED <<options, shutdown, result, ptyVars, agentVars, ui, kills>>

TickOn ==
    /\ host = "tick"
    /\ ~fatal
    /\ ~shutdown
    /\ host' = "child_exited"
    /\ UNCHANGED <<options, shutdown, result, ptyVars, agentVars, uiVars, kills>>

(* Mutant: the loop is left without telling the agent.                     *)
ChildExitedQuietly ==
    /\ host = "child_exited"
    /\ IF child = "exited"
         THEN host' = "terminate" /\ Send("session_ended")
         ELSE host' = "poll" /\ UNCHANGED events
    /\ UNCHANGED <<options, shutdown, result, ptyVars, agentVars, ui, kills>>

ChildExited ==
    /\ host = "child_exited"
    /\ IF child = "exited"
         THEN /\ host' = "terminate"
              /\ shutdown' = TRUE
              /\ Send("session_ended")
         ELSE /\ host' = "poll"
              /\ UNCHANGED <<shutdown, events>>
    /\ UNCHANGED <<options, result, ptyVars, agentVars, ui, kills>>

(* policy.poll returned Wait or Perturb.                                   *)
PollAction ==
    /\ host = "poll"
    /\ host' \in {"tick", "write"}
    /\ UNCHANGED <<options, shutdown, result, ptyVars, agentVars, uiVars, kills>>

PollError ==
    /\ host = "poll"
    /\ Send("session_ended")
    /\ Return("policy_error")
    /\ UNCHANGED <<options, shutdown, ptyVars, agentVars, ui, kills>>

(* The `?` after a step: the guest trapped, or the PTY could not be asked  *)
(* or written.                                                             *)
HostFails ==
    /\ host \in {"child_exited", "poll", "write"}
    /\ Return("failed")
    /\ UNCHANGED <<options, shutdown, ptyVars, agentVars, uiVars, kills>>

WriteInputs ==
    /\ host = "write"
    /\ host' = "tick"
    /\ UNCHANGED <<options, shutdown, result, ptyVars, agentVars, uiVars, kills>>

(* Mutant: the child is asked to go and not waited for.                    *)
TerminateUnwaited ==
    /\ host = "terminate"
    /\ host' = "join_agent"
    /\ UNCHANGED <<options, shutdown, result, ptyVars, agentVars, uiVars, kills>>

(* PtySession::terminate, first half: kill the child unless it is gone.    *)
Terminate ==
    /\ host = "terminate"
    /\ child' = "exited"
    /\ host' = "join_reader"
    /\ UNCHANGED <<options, shutdown, result, reader, agentVars, uiVars, kills>>

(* The kill or the wait failed: the reader is not joined, and the error is *)
(* returned once the agent has been.                                       *)
TerminateFails ==
    /\ host = "terminate"
    /\ result' = "failed"
    /\ host' = "join_agent"
    /\ UNCHANGED <<options, shutdown, ptyVars, agentVars, uiVars, kills>>

JoinReader ==
    /\ host = "join_reader"
    /\ reader \in {"ok", "err"}
    /\ result' = IF reader = "ok" THEN "ok" ELSE "failed"
    /\ host' = "join_agent"
    /\ UNCHANGED <<options, shutdown, ptyVars, agentVars, uiVars, kills>>

(* Mutant: the run ends without waiting for the agent task.                *)
JoinAgentUnwaited ==
    /\ host = "join_agent"
    /\ Send("disconnected")
    /\ host' = "returned"
    /\ UNCHANGED <<options, shutdown, result, ptyVars, agentVars, ui, kills>>

JoinAgent ==
    /\ host = "join_agent"
    /\ agent \in {"none", "ended"}
    /\ Send("disconnected")
    /\ host' = "returned"
    /\ UNCHANGED <<options, shutdown, result, ptyVars, agentVars, ui, kills>>

(* run_host_blocking drops the runtime: its tasks are cancelled, but the   *)
(* drop waits for the blocking thread that reads the PTY.                  *)
DropRuntime ==
    /\ host = "returned"
    /\ reader # "running"
    /\ host' = "dropped"
    /\ agent' = IF agent = "none" THEN "none" ELSE "ended"
    /\ channel' = {}
    /\ UNCHANGED <<options, shutdown, result, ptyVars, delay, fatal, uiVars, kills>>

(***************************************************************************)
(* The child and the thread that reads from it.  The PTY hangs up when the *)
(* child, its session leader, is gone; a failed answer to a terminal query *)
(* ends the thread before.                                                 *)
(***************************************************************************)
ChildExits ==
    /\ child = "running"
    /\ child' = "exited"
    /\ UNCHANGED <<options, shutdown, hostVars, reader, agentVars, uiVars, kills>>

ReaderEnds ==
    /\ reader = "running"
    /\ \/ child = "exited" /\ reader' = "ok"
       \/ reader' = "err"
    /\ UNCHANGED <<options, shutdown, hostVars, child, agentVars, uiVars, kills>>

(***************************************************************************)
(* The agent task: agent::run around run_signaling_session.                *)
(***************************************************************************)
Running == host \notin {"returned", "dropped"}

AgentFrame ==
    UNCHANGED <<options, shutdown, hostVars, ptyVars, uiVars, kills>>

(* The session returned an error.                                          *)
Fail(retryable) ==
    IF retryable /\ ~shutdown
      THEN agent' = "backoff" /\ UNCHANGED fatal
      ELSE agent' = "ended" /\ fatal' = TRUE

(* signaling_url and build_webrtc_api, once.                               *)
AgentStart ==
    /\ Running
    /\ agent = "start"
    /\ \/ agent' = "run" /\ UNCHANGED fatal
       \/ Fail(FALSE)
    /\ UNCHANGED <<delay, channel>>
    /\ AgentFrame

AgentRun ==
    /\ Running
    /\ agent = "run"
    /\ agent' = IF shutdown THEN "ended" ELSE "connect"
    /\ UNCHANGED <<delay, fatal, channel>>
    /\ AgentFrame

(* connect_async: every failure of it is a WebSocket error.                *)
AgentConnect ==
    /\ Running
    /\ agent = "connect"
    /\ \/ agent' = "auth" /\ UNCHANGED fatal
       \/ Fail(TRUE)
    /\ UNCHANGED <<delay, channel>>
    /\ AgentFrame

(* authenticate_websocket: Connected, a broken socket, or a refusal, which *)
(* a closed socket and an Error message count as.                          *)
AgentAuth ==
    /\ Running
    /\ agent = "auth"
    /\ \/ agent' = "handling" /\ UNCHANGED fatal
       \/ \E retryable \in BOOLEAN : Fail(retryable)
    /\ UNCHANGED <<delay, channel>>
    /\ AgentFrame

(* handle_server_message is done, and the loop checks the flag.            *)
AgentHandled ==
    /\ Running
    /\ agent = "handling"
    /\ agent' = IF shutdown THEN "closing" ELSE "session"
    /\ UNCHANGED <<delay, fatal, channel>>
    /\ AgentFrame

(* Mutant: a tick goes back to the select! without checking the flag.      *)
AgentTickUnchecked ==
    /\ Running
    /\ agent = "session"
    /\ agent' = "session"
    /\ UNCHANGED <<delay, fatal, channel>>
    /\ AgentFrame

(* The select! woke up for a tick, a report or a ping: check the flag.     *)
AgentTick ==
    /\ Running
    /\ agent = "session"
    /\ agent' = IF shutdown THEN "closing" ELSE "session"
    /\ UNCHANGED <<delay, fatal, channel>>
    /\ AgentFrame

(* It woke up for a message of the server.                                 *)
AgentMessage ==
    /\ Running
    /\ agent = "session"
    /\ agent' = "handling"
    /\ UNCHANGED <<delay, fatal, channel>>
    /\ AgentFrame

(* The server closed the socket.                                           *)
AgentClosed ==
    /\ Running
    /\ agent = "session"
    /\ agent' = "closing"
    /\ UNCHANGED <<delay, fatal, channel>>
    /\ AgentFrame

(* The socket broke, or a message could not be decoded or applied: the     *)
(* session returns at once and its peer connections are not closed: they   *)
(* live on, also one whose channel is yet to open.                         *)
AgentLost ==
    /\ Running
    /\ agent \in {"session", "handling"}
    /\ \/ agent = "session" /\ Fail(TRUE)
       \/ Fail(FALSE)
    /\ channel' \in SUBSET {"orphaned"}
    /\ channel # {} => channel' # {}
    /\ UNCHANGED delay
    /\ AgentFrame

(* The session's own peers are closed and it returns Ok.                   *)
AgentClosing ==
    /\ Running
    /\ agent = "closing"
    /\ channel' = channel \ {"current"}
    /\ delay' = InitialDelay
    /\ agent' = IF shutdown THEN "ended" ELSE "backoff"
    /\ UNCHANGED fatal
    /\ AgentFrame

next_reconnect_delay(d) == IF 2 * d < MaxDelay THEN 2 * d ELSE MaxDelay

AgentWakes ==
    /\ Running
    /\ agent = "backoff"
    /\ delay' = next_reconnect_delay(delay)
    /\ agent' = "run"
    /\ UNCHANGED <<fatal, channel>>
    /\ AgentFrame

(***************************************************************************)
(* The remote zookeeper.                                                   *)
(***************************************************************************)
ChannelOpens ==
    /\ Running
    /\ agent \in {"session", "handling"}
    /\ "current" \notin channel
    /\ channel' = channel \cup {"current"}
    /\ UNCHANGED <<agent, delay, fatal>>
    /\ AgentFrame

ChannelDies ==
    /\ Running
    /\ \E c \in channel : channel' = channel \ {c}
    /\ UNCHANGED <<agent, delay, fatal>>
    /\ AgentFrame

(* on_message of the data channel, AgentDataMessage::Terminate.            *)
RemoteTerminate ==
    /\ Running
    /\ channel # {}
    /\ kills < MaxKills
    /\ kills' = kills + 1
    /\ shutdown' = TRUE
    /\ Send("session_ended")
    /\ UNCHANGED <<options, hostVars, ptyVars, agentVars, ui>>

(***************************************************************************)
(* The viewer and the main thread.                                         *)
(***************************************************************************)
(* The window is closed, and main tells the host to stop.                  *)
CloseWindow ==
    /\ ui = "open"
    /\ ui' = "closed"
    /\ shutdown' = TRUE
    /\ UNCHANGED <<options, hostVars, ptyVars, agentVars, events, kills>>

(* SessionEnded or Disconnected: the application exits.                    *)
ViewerEvent ==
    /\ ui = "open"
    /\ events # << >>
    /\ events' = Tail(events)
    /\ ui' = "closed"
    /\ shutdown' = TRUE
    /\ UNCHANGED <<options, hostVars, ptyVars, agentVars, kills>>

(* The host is gone while the viewer was collecting terminal output: the   *)
(* end of the channel counts as Disconnected.  Between two events it only  *)
(* ends the subscription, and the window stays.                            *)
ViewerDisconnected ==
    /\ ui = "open"
    /\ events = << >>
    /\ host = "dropped"
    /\ ui' = "closed"
    /\ shutdown' = TRUE
    /\ UNCHANGED <<options, hostVars, ptyVars, agentVars, events, kills>>

(* Everything the process waits for is over.                               *)
Exited == host = "dropped" /\ ui \in {"none", "closed"}

Done == Exited /\ UNCHANGED vars

HostStep ==
    \/ HostStart \/ TickFatal \/ TickShutdown \/ TickOn \/ ChildExited
    \/ PollAction \/ PollError \/ HostFails \/ WriteInputs
    \/ Terminate \/ TerminateFails \/ JoinReader \/ JoinAgent \/ DropRuntime

AgentStep ==
    \/ AgentStart \/ AgentRun \/ AgentConnect \/ AgentAuth \/ AgentHandled
    \/ AgentTick \/ AgentClosing \/ AgentWakes

Next ==
    \/ HostStep
    \/ AgentStep
    \/ AgentMessage \/ AgentClosed \/ AgentLost
    \/ ChildExits \/ ReaderEnds
    \/ ChannelOpens \/ ChannelDies \/ RemoteTerminate
    \/ CloseWindow \/ ViewerEvent \/ ViewerDisconnected
    \/ Done

Spec == Init /\ [][Next]_vars

(* Both tasks go on while they can: the guest's poll returns, the child    *)
(* takes its input, and a connection attempt or handshake ends one way or  *)
(* the other.  The reader sees the end of the PTY, the child its hangup    *)
(* once the process has let go of the PTY, and the viewer its events.      *)
(* Otherwise neither the child, nor the user, nor the server, nor a        *)
(* zookeeper has to do anything.                                           *)
FairSpec ==
    /\ Spec
    /\ WF_vars(HostStep)
    /\ WF_vars(AgentStep)
    /\ WF_vars(child = "exited" /\ ReaderEnds)
    /\ WF_vars(host = "dropped" /\ ChildExits)
    /\ WF_vars(ViewerEvent)

-----------------------------------------------------------------------------
(***************************************************************************)
(* Properties.                                                             *)
(***************************************************************************)
TypeOK ==
    /\ options \in [agent : BOOLEAN, viewer : BOOLEAN]
    /\ shutdown \in BOOLEAN
    /\ host \in HostStates
    /\ result \in {"none", "ok"} \cup Errors
    /\ child \in {"none", "running", "exited"}
    /\ reader \in {"none", "running", "ok", "err"}
    /\ agent \in AgentStates
    /\ delay \in InitialDelay..MaxDelay
    /\ fatal \in BOOLEAN
    /\ channel \subseteq Channels
    /\ events \in Seq({"session_ended", "disconnected"})
    /\ ui \in {"none", "open", "closed"}
    /\ kills \in 0..MaxKills

(* When runtime::run returns Ok nothing is left behind: the PTY child has  *)
(* been reaped, its reader has finished, the agent task has ended of its   *)
(* own accord and, of the events sent, Disconnected is the last.           *)
CleanEnd ==
    host \in {"returned", "dropped"} /\ result = "ok" =>
        /\ child = "exited"
        /\ reader = "ok"
        /\ agent \in {"none", "ended"}
        /\ events # << >> => events[Len(events)] = "disconnected"

(* The child is killed only on purpose: the host takes a running child     *)
(* away only after somebody asked for a shutdown, and the agent task ends  *)
(* quietly only then (runtime.rs, agent.rs; they share one flag).          *)
StopsOnPurpose ==
    /\ host \in {"terminate", "join_reader", "join_agent"} => shutdown
    /\ agent = "ended" => shutdown \/ fatal \/ host = "dropped"

(* A request to stop, or a fatal error of the agent, stops the host,       *)
(* wherever the loop and the agent are: in a poll, in a handshake, in a    *)
(* backoff or in a session (runtime.rs, agent/signaling.rs).               *)
ShutdownStops == shutdown \/ fatal ~> host \in {"returned", "dropped"}

(* When the child is gone, the window closed or a shutdown requested, the  *)
(* process exits, window and all, unless the host returned an error        *)
(* (main.rs joins the host thread, whose runtime waits for the reader).    *)
ExitsOrFails ==
    (shutdown \/ child = "exited" \/ ui = "closed")
        ~> (Exited \/ result \in Errors)

(* README.md:222: "check the progress or terminate the agent remotely".    *)
(* A terminate message of a zookeeper ends the PTY child, unless the       *)
(* policy or the PTY itself fails meanwhile.                               *)
RemoteKill ==
    kills > 0 ~> (child # "running" \/ result \in {"policy_error", "failed"})
=============================================================================
