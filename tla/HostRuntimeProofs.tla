------------------------- MODULE HostRuntimeProofs -------------------------
(***************************************************************************)
(* Proofs about HostRuntime, for every pair of reconnect delays and every  *)
(* number of terminate messages.                                           *)
(***************************************************************************)
EXTENDS HostRuntime, SequenceTheorems, TLAPS

EventKinds == {"session_ended", "disconnected"}

(* What is known of the end of the run before it has ended: a result is    *)
(* set only by the joins, and what they found stays as it was.             *)
Ending ==
    /\ result = "ok" => host \in {"join_agent", "returned", "dropped"}
    /\ host = "join_reader" => child = "exited"
    /\ host = "join_agent" /\ result = "ok" => child = "exited" /\ reader = "ok"
    /\ ~options.viewer => events = << >>

IInv ==
    /\ TypeOK
    /\ StopsOnPurpose
    /\ Ending
    /\ CleanEnd

LEMMA IInvInit == Init => IInv
<1> SUFFICES ASSUME Init PROVE IInv
  OBVIOUS
<1>1. InitialDelay \in InitialDelay..MaxDelay /\ 0 \in 0..MaxKills
  BY HostAssumption
<1>2. events \in Seq(EventKinds)
  BY EmptySeq DEF Init
<1>3. TypeOK
  BY <1>1, <1>2 DEF Init, TypeOK, HostStates, AgentStates, EventKinds
<1>4. StopsOnPurpose /\ Ending /\ CleanEnd
  BY DEF Init, StopsOnPurpose, Ending, CleanEnd
<1> QED
  BY <1>3, <1>4 DEF IInv

-----------------------------------------------------------------------------
(* Sending and taking an event.                                            *)

(* A sent event is the last one, if there is a viewer to send it to.       *)
LEMMA SendFact ==
    ASSUME events \in Seq(EventKinds), ~options.viewer => events = << >>,
           NEW e \in EventKinds, Send(e), UNCHANGED options
    PROVE  /\ events' \in Seq(EventKinds)
           /\ (~options.viewer => events = << >>)'
           /\ events' # << >> => events'[Len(events')] = e
<1>1. CASE options.viewer
  <2>1. events' = Append(events, e)
    BY <1>1 DEF Send
  <2> QED
    BY <1>1, <2>1, AppendProperties
<1>2. CASE ~options.viewer
  BY <1>2 DEF Send
<1> QED
  BY <1>1, <1>2

(* Taking the first event leaves the last one last.                        *)
LEMMA TailFact ==
    ASSUME events \in Seq(EventKinds), events # << >>, events' = Tail(events)
    PROVE  /\ events' \in Seq(EventKinds)
           /\ events' # << >> => events'[Len(events')] = events[Len(events)]
<1>1. /\ events' \in Seq(EventKinds)
      /\ Len(events') = Len(events) - 1
      /\ \A i \in 1..Len(events') : events'[i] = events[i + 1]
  BY HeadTailProperties
<1>2. Len(events) \in Nat /\ Len(events') \in Nat
  BY <1>1, LenProperties
<1>3. events' # << >> => Len(events') \in 1..Len(events')
  BY <1>1, <1>2, EmptySeq
<1> QED
  BY <1>1, <1>2, <1>3

(* The reconnect delay stays within its bounds (next_reconnect_delay).     *)
LEMMA DelayFact ==
    ASSUME NEW d \in InitialDelay..MaxDelay
    PROVE  next_reconnect_delay(d) \in InitialDelay..MaxDelay
BY HostAssumption DEF next_reconnect_delay

-----------------------------------------------------------------------------
(* One step per action, grouped by who takes it.                           *)

LEMMA HostPreserves == ASSUME IInv, HostStep PROVE IInv'
<1> USE DEF hostVars, ptyVars, agentVars, uiVars, Return
<1>1. TypeOK /\ StopsOnPurpose /\ Ending /\ CleanEnd
  BY DEF IInv
<1>2. events \in Seq(EventKinds) /\ (~options.viewer => events = << >>)
  BY <1>1 DEF TypeOK, EventKinds, Ending
<1>3. CASE HostStart
  <2>1. TypeOK'
    BY <1>1, <1>3 DEF HostStart, TypeOK, HostStates, Errors
  <2>2. StopsOnPurpose' /\ Ending' /\ CleanEnd'
    BY <1>1, <1>3 DEF HostStart, TypeOK, StopsOnPurpose, Ending, CleanEnd
  <2> QED BY <2>1, <2>2 DEF IInv
<1>4. CASE TickFatal
  <2>1. TypeOK'
    BY <1>1, <1>4 DEF TickFatal, TypeOK, HostStates, Errors
  <2>2. StopsOnPurpose' /\ Ending' /\ CleanEnd'
    BY <1>1, <1>4 DEF TickFatal, TypeOK, StopsOnPurpose, Ending, CleanEnd
  <2> QED BY <2>1, <2>2 DEF IInv
<1>5. CASE TickShutdown
  <2>0. /\ events' \in Seq(EventKinds)
        /\ (~options.viewer => events = << >>)'
    BY <1>2, <1>5, SendFact DEF TickShutdown, EventKinds
  <2>1. TypeOK'
    BY <1>1, <1>5, <2>0 DEF TickShutdown, TypeOK, HostStates, EventKinds
  <2>2. StopsOnPurpose' /\ Ending' /\ CleanEnd'
    BY <1>1, <1>5, <2>0 DEF TickShutdown, StopsOnPurpose, Ending, CleanEnd
  <2> QED BY <2>1, <2>2 DEF IInv
<1>6. CASE TickOn
  <2>1. TypeOK'
    BY <1>1, <1>6 DEF TickOn, TypeOK, HostStates
  <2>2. StopsOnPurpose' /\ Ending' /\ CleanEnd'
    BY <1>1, <1>6 DEF TickOn, StopsOnPurpose, Ending, CleanEnd
  <2> QED BY <2>1, <2>2 DEF IInv
<1>7. CASE ChildExited
  <2>0. /\ events' \in Seq(EventKinds)
        /\ (~options.viewer => events = << >>)'
    BY <1>2, <1>7, SendFact DEF ChildExited, EventKinds
  <2>1. TypeOK'
    BY <1>1, <1>7, <2>0 DEF ChildExited, TypeOK, HostStates, EventKinds
  <2>2. StopsOnPurpose' /\ Ending' /\ CleanEnd'
    BY <1>1, <1>7, <2>0 DEF ChildExited, StopsOnPurpose, Ending, CleanEnd
  <2> QED BY <2>1, <2>2 DEF IInv
<1>8. CASE PollAction \/ WriteInputs
  <2>1. TypeOK'
    BY <1>1, <1>8 DEF PollAction, WriteInputs, TypeOK, HostStates
  <2>2. StopsOnPurpose' /\ Ending' /\ CleanEnd'
    BY <1>1, <1>8 DEF PollAction, WriteInputs, StopsOnPurpose, Ending, CleanEnd
  <2> QED BY <2>1, <2>2 DEF IInv
<1>9. CASE PollError
  <2>0. /\ events' \in Seq(EventKinds)
        /\ (~options.viewer => events = << >>)'
    BY <1>2, <1>9, SendFact DEF PollError, EventKinds
  <2>1. TypeOK'
    BY <1>1, <1>9, <2>0 DEF PollError, TypeOK, HostStates, Errors, EventKinds
  <2>2. StopsOnPurpose' /\ Ending' /\ CleanEnd'
    BY <1>1, <1>9, <2>0 DEF PollError, StopsOnPurpose, Ending, CleanEnd
  <2> QED BY <2>1, <2>2 DEF IInv
<1>10. CASE HostFails
  <2>1. TypeOK'
    BY <1>1, <1>10 DEF HostFails, TypeOK, HostStates, Errors
  <2>2. StopsOnPurpose' /\ Ending' /\ CleanEnd'
    BY <1>1, <1>10 DEF HostFails, StopsOnPurpose, Ending, CleanEnd
  <2> QED BY <2>1, <2>2 DEF IInv
<1>11. CASE Terminate \/ TerminateFails
  <2>1. TypeOK'
    BY <1>1, <1>11 DEF Terminate, TerminateFails, TypeOK, HostStates, Errors
  <2>2. StopsOnPurpose' /\ Ending' /\ CleanEnd'
    BY <1>1, <1>11
       DEF Terminate, TerminateFails, StopsOnPurpose, Ending, CleanEnd
  <2> QED BY <2>1, <2>2 DEF IInv
<1>12. CASE JoinReader
  <2>1. TypeOK'
    BY <1>1, <1>12 DEF JoinReader, TypeOK, HostStates, Errors
  <2>2. StopsOnPurpose' /\ Ending' /\ CleanEnd'
    BY <1>1, <1>12 DEF JoinReader, StopsOnPurpose, Ending, CleanEnd
  <2> QED BY <2>1, <2>2 DEF IInv
<1>13. CASE JoinAgent
  <2>0. /\ events' \in Seq(EventKinds)
        /\ (~options.viewer => events = << >>)'
        /\ events' # << >> => events'[Len(events')] = "disconnected"
    BY <1>2, <1>13, SendFact DEF JoinAgent, EventKinds
  <2>1. TypeOK'
    BY <1>1, <1>13, <2>0 DEF JoinAgent, TypeOK, HostStates, EventKinds
  <2>2. StopsOnPurpose' /\ Ending' /\ CleanEnd'
    BY <1>1, <1>13, <2>0 DEF JoinAgent, StopsOnPurpose, Ending, CleanEnd
  <2> QED BY <2>1, <2>2 DEF IInv
<1>14. CASE DropRuntime
  <2>0. /\ agent' \in AgentStates /\ host' \in HostStates /\ channel' = {}
        /\ UNCHANGED <<options, shutdown, result, child, reader, delay, fatal,
                       events, ui, kills>>
    BY <1>14 DEF DropRuntime, HostStates, AgentStates
  <2>1. TypeOK'
    BY <1>1, <2>0 DEF TypeOK
  <2>2. StopsOnPurpose' /\ Ending' /\ CleanEnd'
    BY <1>1, <1>14 DEF DropRuntime, StopsOnPurpose, Ending, CleanEnd
  <2> QED BY <2>1, <2>2 DEF IInv
<1> QED
  BY <1>3, <1>4, <1>5, <1>6, <1>7, <1>8, <1>9, <1>10, <1>11, <1>12, <1>13,
     <1>14 DEF HostStep

(* The agent's steps change neither the host's variables nor the events;   *)
(* they end the task only with a Fatal event or after a shutdown.          *)
LEMMA AgentPreserves ==
    ASSUME IInv, AgentStep \/ AgentMessage \/ AgentClosed \/ AgentLost
    PROVE  IInv'
<1> USE DEF hostVars, ptyVars, agentVars, uiVars
<1>1. TypeOK /\ StopsOnPurpose /\ Ending /\ CleanEnd
  BY DEF IInv
<1>2. /\ Running
      /\ UNCHANGED <<options, shutdown, host, result, child, reader, events, ui,
                     kills>>
      /\ agent' \in AgentStates /\ fatal' \in BOOLEAN /\ channel' \subseteq Channels
      /\ delay' \in InitialDelay..MaxDelay
      /\ fatal => fatal'
      /\ agent # "ended"
      /\ agent' = "ended" => shutdown \/ fatal'
  <2>0. /\ fatal \in BOOLEAN /\ channel \subseteq Channels /\ shutdown \in BOOLEAN
        /\ delay \in InitialDelay..MaxDelay
        /\ InitialDelay \in InitialDelay..MaxDelay
    BY <1>1, HostAssumption DEF TypeOK
  <2>1. CASE AgentStart \/ AgentRun \/ AgentConnect
    BY <2>0, <2>1
       DEF AgentStart, AgentRun, AgentConnect, AgentFrame, Fail, AgentStates
  <2>2. CASE AgentAuth \/ AgentLost
    BY <2>0, <2>2
       DEF AgentAuth, AgentLost, AgentFrame, Fail, AgentStates, Channels
  <2>3. CASE AgentHandled \/ AgentTick \/ AgentMessage \/ AgentClosed
    BY <2>0, <2>3
       DEF AgentHandled, AgentTick, AgentMessage, AgentClosed, AgentFrame,
           AgentStates
  <2>4. CASE AgentClosing
    BY <2>0, <2>4 DEF AgentClosing, AgentFrame, AgentStates, Channels
  <2>5. CASE AgentWakes
    BY <2>0, <2>5, DelayFact DEF AgentWakes, AgentFrame, AgentStates
  <2> QED
    BY <2>1, <2>2, <2>3, <2>4, <2>5 DEF AgentStep
<1>3. TypeOK'
  BY <1>1, <1>2 DEF TypeOK
<1>4. StopsOnPurpose' /\ Ending' /\ CleanEnd'
  BY <1>1, <1>2 DEF StopsOnPurpose, Ending, CleanEnd, Running
<1> QED
  BY <1>3, <1>4 DEF IInv

(* The child, the reader thread, the zookeeper and the viewer.             *)
LEMMA OthersPreserve ==
    ASSUME IInv,
           \/ ChildExits \/ ReaderEnds \/ ChannelOpens \/ ChannelDies
           \/ RemoteTerminate \/ CloseWindow \/ ViewerEvent
           \/ ViewerDisconnected
    PROVE  IInv'
<1> USE DEF hostVars, ptyVars, agentVars, uiVars
<1>1. TypeOK /\ StopsOnPurpose /\ Ending /\ CleanEnd
  BY DEF IInv
<1>2. events \in Seq(EventKinds) /\ (~options.viewer => events = << >>)
  BY <1>1 DEF TypeOK, EventKinds, Ending
<1>3. CASE ChildExits \/ ReaderEnds
  <2>1. TypeOK'
    BY <1>1, <1>3 DEF ChildExits, ReaderEnds, TypeOK
  <2>2. StopsOnPurpose' /\ Ending' /\ CleanEnd'
    BY <1>1, <1>3 DEF ChildExits, ReaderEnds, StopsOnPurpose, Ending, CleanEnd
  <2> QED BY <2>1, <2>2 DEF IInv
<1>4. CASE ChannelOpens \/ ChannelDies
  <2>1. TypeOK'
    BY <1>1, <1>4 DEF ChannelOpens, ChannelDies, AgentFrame, TypeOK, Channels
  <2>2. StopsOnPurpose' /\ Ending' /\ CleanEnd'
    BY <1>1, <1>4
       DEF ChannelOpens, ChannelDies, AgentFrame, StopsOnPurpose, Ending, CleanEnd
  <2> QED BY <2>1, <2>2 DEF IInv
<1>5. CASE RemoteTerminate
  <2>0. /\ events' \in Seq(EventKinds)
        /\ (~options.viewer => events = << >>)'
    BY <1>2, <1>5, SendFact DEF RemoteTerminate, EventKinds
  <2>1. kills' \in 0..MaxKills
    BY <1>1, <1>5, HostAssumption DEF RemoteTerminate, TypeOK
  <2>2. TypeOK'
    BY <1>1, <1>5, <2>0, <2>1 DEF RemoteTerminate, TypeOK, EventKinds
  <2>3. StopsOnPurpose' /\ Ending' /\ CleanEnd'
    BY <1>1, <1>5, <2>0
       DEF RemoteTerminate, Running, StopsOnPurpose, Ending, CleanEnd
  <2> QED BY <2>2, <2>3 DEF IInv
<1>6. CASE CloseWindow \/ ViewerDisconnected
  <2>1. TypeOK'
    BY <1>1, <1>6 DEF CloseWindow, ViewerDisconnected, TypeOK
  <2>2. StopsOnPurpose' /\ Ending' /\ CleanEnd'
    BY <1>1, <1>6 DEF CloseWindow, ViewerDisconnected, StopsOnPurpose, Ending, CleanEnd
  <2> QED BY <2>1, <2>2 DEF IInv
<1>7. CASE ViewerEvent
  <2>0. /\ events # << >> /\ events' = Tail(events)
        /\ UNCHANGED <<options, host, result, child, reader, agent, delay,
                       fatal, channel, kills>>
        /\ shutdown' = TRUE /\ ui' = "closed"
    BY <1>7 DEF ViewerEvent
  <2>1. /\ events' \in Seq(EventKinds)
        /\ events' # << >> => events'[Len(events')] = events[Len(events)]
    BY <1>2, <2>0, TailFact
  <2>2. TypeOK'
    BY <1>1, <2>0, <2>1 DEF TypeOK, EventKinds
  <2>3. StopsOnPurpose' /\ Ending'
    BY <1>1, <1>2, <2>0 DEF StopsOnPurpose, Ending
  <2>4. CleanEnd'
    BY <1>1, <2>0, <2>1 DEF CleanEnd
  <2> QED BY <2>2, <2>3, <2>4 DEF IInv
<1> QED
  BY <1>3, <1>4, <1>5, <1>6, <1>7

LEMMA IInvNext == IInv /\ [Next]_vars => IInv'
<1> SUFFICES ASSUME IInv, [Next]_vars PROVE IInv'
  OBVIOUS
<1>1. CASE HostStep
  BY <1>1, HostPreserves
<1>2. CASE AgentStep \/ AgentMessage \/ AgentClosed \/ AgentLost
  BY <1>2, AgentPreserves
<1>3. CASE \/ ChildExits \/ ReaderEnds \/ ChannelOpens \/ ChannelDies
           \/ RemoteTerminate \/ CloseWindow \/ ViewerEvent
           \/ ViewerDisconnected
  BY <1>3, OthersPreserve
<1>4. CASE Done \/ UNCHANGED vars
  BY <1>4 DEF Done, vars, hostVars, ptyVars, agentVars, uiVars, IInv, TypeOK,
              StopsOnPurpose, Ending, CleanEnd
<1> QED
  BY <1>1, <1>2, <1>3, <1>4 DEF Next

-----------------------------------------------------------------------------
(* The inductive invariant holds in every reachable state.                 *)
THEOREM Invariance == Spec => []IInv
BY IInvInit, IInvNext, PTL DEF Spec

(* In particular the reconnect delay stays between its two constants       *)
(* (next_reconnect_delay).                                                 *)
THEOREM HostTyped == Spec => []TypeOK
<1>1. IInv => TypeOK
  BY DEF IInv
<1> QED
  BY <1>1, Invariance, PTL

(* A run that returns Ok has reaped its child, finished reading, ended its *)
(* agent task and said Disconnected last (runtime.rs:120-128).             *)
THEOREM EndsClean == Spec => []CleanEnd
<1>1. IInv => CleanEnd
  BY DEF IInv
<1> QED
  BY <1>1, Invariance, PTL

(* The host tears a session down, and the agent task ends without an       *)
(* error, only once a shutdown was requested (runtime.rs, agent.rs).       *)
THEOREM EndsOnPurpose == Spec => []StopsOnPurpose
<1>1. IInv => StopsOnPurpose
  BY DEF IInv
<1> QED
  BY <1>1, Invariance, PTL
=============================================================================
