-------------------------- MODULE SignalingServer --------------------------
(***************************************************************************)
(* The connection tasks of mitb-server: the PAKE handshake                 *)
(* (ws_auth::authenticate_socket), then the select loop of                 *)
(* ws_runtime::handle_socket.  A step is what a task does between two      *)
(* points where another task can observe it: a section under the registry's*)
(* mutex together with the purely local code before it, one `try_send`     *)
(* into another task's queue, one poll of the select loop.                 *)
(*                                                                         *)
(* register, unregister and forward_signal return the messages to send,    *)
(* and the task sends them after it released the mutex.  On the            *)
(* multi-threaded runtime (MultiThread) other tasks run in between; on the *)
(* current-thread runtime there is no await in between, so they cannot.    *)
(***************************************************************************)
EXTENDS AppState

CONSTANTS
    MultiThread,   \* main.rs: Builder::new_multi_thread or current_thread
    QueueCapacity, \* WS_OUTBOUND_QUEUE_CAPACITY
    Talkers        \* the connections whose clients send frames after login

VARIABLES
    phase,      \* where each task is
    session,    \* what the handshake established for it
    todo,       \* try_sends it still has to make since it left the mutex
    outbound,   \* its mpsc channel of ServerMessages
    sending,    \* the message `sender.send(..).await` is writing, if any
    penalized,  \* its penalty flag
    view        \* what its client has learnt of the room (the remote end)

tasks == <<phase, session, todo, outbound, sending, penalized, view>>
vars == <<registry, tasks>>

ASSUME ServerAssumption ==
    /\ MultiThread \in BOOLEAN
    /\ Handles # {}
    /\ QueueCapacity \in Nat \ {0}
    /\ Talkers \subseteq Conn

(***************************************************************************)
(* Phases, named after what the task waits for.  From "init" to            *)
(* "finalization" it is inside authenticate_socket, under the handshake    *)
(* timeout; "authenticated" waits for register, "closing" for unregister.  *)
(***************************************************************************)
AuthPhases == {"init", "capacity", "registration", "finalization"}

Registered == {"running", "closing"}

Phases == AuthPhases \cup Registered \cup {"closed", "authenticated", "leaving"}

Session ==
    [role : Roles, room : Handles, alias : Aliases \cup {NoAlias},
     created : BOOLEAN, id : ClientIds \cup {NoId}]

\* Before its task learnt anything.
NoSession ==
    [role |-> "agent",
     room |-> CHOOSE h \in Handles : TRUE, alias |-> NoAlias,
     created |-> FALSE, id |-> NoId]

(***************************************************************************)
(* Messages.  Error and Pong answer the client itself; payloads and texts  *)
(* are left out, and so is the half of Connected's two rosters that lists  *)
(* the receiver's own role, which neither client uses.                     *)
(***************************************************************************)
Connected(peers) == [type |-> "connected", peers |-> peers]
PeerJoined(id) == [type |-> "peer_joined", id |-> id]
PeerLeft(id) == [type |-> "peer_left", id |-> id]
Signal(id) == [type |-> "signal", id |-> id]
Reply == [type |-> "reply"]

Messages ==
    {Connected(peers) : peers \in SUBSET ClientIds}
    \cup {PeerJoined(id) : id \in ClientIds}
    \cup {PeerLeft(id) : id \in ClientIds}
    \cup {Signal(id) : id \in ClientIds}
    \cup {Reply}

\* A try_send that is still to be made.
Sends == [to : Conn, msg : Messages]

\* What a client knows: whether it got its Connected, and which peers of the
\* other role it was told of and not told away.
NoView == [greeted |-> FALSE, peers |-> {}]

TypeOK ==
    /\ RegistryTypeOK
    /\ phase \in [Conn -> Phases]
    /\ session \in [Conn -> Session]
    /\ todo \in [Conn -> SUBSET Sends]
    /\ outbound \in [Conn -> Seq(Messages)]
    /\ \A c \in Conn : Len(outbound[c]) <= QueueCapacity
    /\ sending \in [Conn -> {<<>>} \cup {<<m>> : m \in Messages}]
    /\ penalized \in [Conn -> BOOLEAN]
    /\ view \in [Conn -> [greeted : BOOLEAN, peers : SUBSET ClientIds]]

Init ==
    /\ RegistryInit
    /\ phase = [c \in Conn |-> "closed"]
    /\ session = [c \in Conn |-> NoSession]
    /\ todo = [c \in Conn |-> {}]
    /\ outbound = [c \in Conn |-> <<>>]
    /\ sending = [c \in Conn |-> <<>>]
    /\ penalized = [c \in Conn |-> FALSE]
    /\ view = [c \in Conn |-> NoView]

(***************************************************************************)
(* Scheduling: on the current-thread runtime a task that left the mutex    *)
(* with messages to send keeps the thread until it has sent them.          *)
(***************************************************************************)
\* Mutant: `send(..).await` instead of `try_send` after the mutex.
MayRunAfterAwait(c) == MultiThread \/ c \in Conn

MayRun(c) == MultiThread \/ \A d \in Conn \ {c} : todo[d] = {}

Goto(c, p) == phase' = [phase EXCEPT ![c] = p]

channels == <<todo, outbound, sending, penalized, view>>

\* The task returns: everything it owned is dropped.
Drop(c) ==
    /\ Goto(c, "closed")
    /\ session' = [session EXCEPT ![c] = NoSession]
    /\ outbound' = [outbound EXCEPT ![c] = <<>>]
    /\ sending' = [sending EXCEPT ![c] = <<>>]
    /\ penalized' = [penalized EXCEPT ![c] = FALSE]
    /\ view' = [view EXCEPT ![c] = NoView]
    /\ UNCHANGED todo

(***************************************************************************)
(* authenticate_socket                                                     *)
(***************************************************************************)
\* A new websocket, and check_auth_rate_limit on its address: refused, or on
\* to the handshake.  The slot is free once nobody holds its old handle.
Accept(c, ip) ==
    /\ MayRun(c)
    /\ phase[c] = "closed"
    /\ \A d \in Conn : \A s \in todo[d] : s.to # c
    /\ check_auth_rate_limit(ip)
    /\ \/ AuthAdmitted(ip) /\ Goto(c, "init")
       \/ ~AuthAdmitted(ip) /\ UNCHANGED phase
    /\ UNCHANGED <<session, channels>>

\* A PakeInit message, then candidate_login_for_room.  Only an agent keeps
\* its alias.
PakeInit(c, role, handle, alias) ==
    /\ MayRun(c)
    /\ phase[c] = "init"
    /\ Look
    /\ LET stays == [session EXCEPT ![c] =
               [@ EXCEPT !.role = role, !.room = handle,
                         !.alias = IF role = "agent" THEN alias ELSE NoAlias]]
       IN  \/ /\ RoomKnown(handle)
              /\ Goto(c, "finalization")
              /\ session' = stays
              /\ UNCHANGED channels
           \/ /\ ~RoomKnown(handle)
              /\ role = "agent" /\ AllowAgentRoomCreation
              /\ Goto(c, "capacity")
              /\ session' = stays
              /\ UNCHANGED channels
           \/ /\ ~RoomKnown(handle)
              /\ role = "zookeeper" \/ ~AllowAgentRoomCreation
              /\ Drop(c)

EnsureRoomCapacity(c) ==
    /\ MayRun(c)
    /\ phase[c] = "capacity"
    /\ Look
    /\ \/ HasCapacity /\ Goto(c, "registration") /\ UNCHANGED <<session, channels>>
       \/ ~HasCapacity /\ Drop(c)

\* PakeRegistrationRequest and PakeRegistrationUpload: two round trips that
\* touch nothing shared, and end with a password file to log in against.
PakeRegistration(c) ==
    /\ MayRun(c)
    /\ phase[c] = "registration"
    /\ Goto(c, "finalization")
    /\ session' = [session EXCEPT ![c].created = TRUE]
    /\ UNCHANGED <<registry, channels>>

\* The client proved it knows the password; a room it created is stored now.
PakeCredentialFinalization(c) ==
    /\ MayRun(c)
    /\ phase[c] = "finalization"
    /\ \/ /\ ~session[c].created
          /\ Goto(c, "authenticated")
          /\ UNCHANGED <<registry, session, channels>>
       \/ /\ session[c].created
          /\ store_room(session[c].room)
          /\ \/ /\ CanStore(session[c].room)
                /\ Goto(c, "authenticated")
                /\ UNCHANGED <<session, channels>>
             \/ ~CanStore(session[c].room) /\ Drop(c)

\* Mutant: the wait for the first message has no timeout.
AuthAbortLate(c) ==
    /\ MayRun(c)
    /\ phase[c] \in AuthPhases \ {"init"}
    /\ Drop(c)
    /\ UNCHANGED registry

\* Anything else: a wrong or malformed message, a failed login, a closed
\* socket, WS_AUTH_READ_TIMEOUT, WS_AUTH_HANDSHAKE_TIMEOUT.
AuthAbort(c) ==
    /\ MayRun(c)
    /\ phase[c] \in AuthPhases
    /\ Drop(c)
    /\ UNCHANGED registry

(***************************************************************************)
(* handle_socket: register, send Connected and the announcements, loop.    *)
(***************************************************************************)
Announce(msg, audience) == {[to |-> d, msg |-> msg] : d \in audience}

Register(c) ==
    LET s == session[c] IN
    /\ MayRun(c)
    /\ phase[c] = "authenticated"
    /\ RoomKnown(s.room)
    /\ \E counter \in next_client_id..MaxClientId, id \in ClientIds :
        /\ ChosenId(s.room, s.role, s.alias, id, counter)
        /\ register(c, s.room, s.role, id, counter)
        /\ session' = [session EXCEPT ![c].id = id]
        /\ todo' = [todo EXCEPT ![c] =
               {[to |-> c,
                 msg |-> Connected(DOMAIN LiveRooms[s.room].members[Opposite(s.role)])]}
               \cup Announce(PeerJoined(id), Audience(s.room, s.role))]
    /\ Goto(c, "running")
    /\ UNCHANGED <<outbound, sending, penalized, view>>

\* "channel not found": the room expired since the login looked at it.
RegisterFails(c) ==
    /\ MayRun(c)
    /\ phase[c] = "authenticated"
    /\ ~RoomKnown(session[c].room)
    /\ Look
    /\ Drop(c)

(***************************************************************************)
(* enqueue_local_message and enqueue_remote_message: try_send, and on a    *)
(* full queue drop the message and set the owner's penalty flag.  The      *)
(* queue is closed once its task has returned.  A task that cannot queue a *)
(* reply to its own client leaves the loop.                                *)
(***************************************************************************)
QueueOpen(c) == phase[c] \in Registered \cup {"leaving"}

IsFull(c) == Len(outbound[c]) >= QueueCapacity

Enqueue(to, msg) ==
    outbound' = IF QueueOpen(to) /\ ~IsFull(to)
                THEN [outbound EXCEPT ![to] = Append(@, msg)]
                ELSE outbound

\* Mutant: a message that does not fit is dropped silently.
PenalizeNobody(to) == to \in Conn /\ UNCHANGED penalized

Penalize(to) ==
    penalized' = IF QueueOpen(to) /\ IsFull(to)
                 THEN [penalized EXCEPT ![to] = TRUE]
                 ELSE penalized

\* The initial message goes before the announcements, which go in the order
\* of a HashMap.
NextSends(c) ==
    LET own == {s \in todo[c] : s.msg.type = "connected"}
    IN  IF own = {} THEN todo[c] ELSE own

TrySend(c) ==
    /\ MayRun(c)
    /\ \E s \in NextSends(c) :
        /\ Enqueue(s.to, s.msg)
        /\ Penalize(s.to)
        /\ todo' = [todo EXCEPT ![c] = @ \ {s}]
        /\ IF s.msg = Reply /\ IsFull(c) THEN Goto(c, "closing")
           ELSE UNCHANGED phase
    /\ UNCHANGED <<registry, session, sending, view>>

(***************************************************************************)
(* The select loop.  It is stuck while it writes to the socket.            *)
(***************************************************************************)
Looping(c) ==
    /\ MayRun(c)
    /\ phase[c] = "running"
    /\ todo[c] = {}
    /\ sending[c] = <<>>

\* Mutant: the tick takes the flag and goes on.
PenaltyTickForgives(c) ==
    /\ Looping(c)
    /\ penalized[c]
    /\ penalized' = [penalized EXCEPT ![c] = FALSE]
    /\ UNCHANGED <<registry, phase, session, todo, outbound, sending, view>>

\* maintenance_tick with the penalty flag set.
PenaltyTick(c) ==
    /\ Looping(c)
    /\ penalized[c]
    /\ Goto(c, "closing")
    /\ UNCHANGED <<registry, session, channels>>

\* The socket closed or failed, a Close frame, or no frame for
\* WS_RUNTIME_READ_TIMEOUT.
Disconnect(c) ==
    /\ Looping(c)
    /\ Goto(c, "closing")
    /\ UNCHANGED <<registry, session, channels>>

\* outbound_rx.recv(), and send_outbound_message starts.
SendOutbound(c) ==
    /\ Looping(c)
    /\ outbound[c] # <<>>
    /\ sending' = [sending EXCEPT ![c] = <<Head(outbound[c])>>]
    /\ outbound' = [outbound EXCEPT ![c] = Tail(@)]
    /\ UNCHANGED <<registry, phase, session, todo, penalized, view>>

\* Mutant: Connected replaces what the client was told before.
LearnAfresh(v, msg) ==
    CASE msg.type = "connected" -> [greeted |-> TRUE, peers |-> msg.peers]
      [] msg.type = "peer_joined" -> [v EXCEPT !.peers = @ \cup {msg.id}]
      [] msg.type = "peer_left" -> [v EXCEPT !.peers = @ \ {msg.id}]
      [] OTHER -> v

\* The client's view after a message: index.html for zookeepers,
\* agent/signaling_handlers.rs for agents.
Learn(v, msg) ==
    CASE msg.type = "connected" -> [greeted |-> TRUE, peers |-> v.peers \cup msg.peers]
      [] msg.type = "peer_joined" -> [v EXCEPT !.peers = @ \cup {msg.id}]
      [] msg.type = "peer_left" -> [v EXCEPT !.peers = @ \ {msg.id}]
      [] OTHER -> v

SendCompletes(c) ==
    /\ MayRun(c)
    /\ phase[c] = "running"
    /\ sending[c] # <<>>
    /\ view' = [view EXCEPT ![c] = Learn(@, Head(sending[c]))]
    /\ sending' = [sending EXCEPT ![c] = <<>>]
    /\ UNCHANGED <<registry, phase, session, todo, outbound, penalized>>

SendFails(c) ==
    /\ MayRun(c)
    /\ phase[c] = "running"
    /\ sending[c] # <<>>
    /\ sending' = [sending EXCEPT ![c] = <<>>]
    /\ Goto(c, "closing")
    /\ UNCHANGED <<registry, session, todo, outbound, penalized, view>>

\* A frame the task answers itself: a ping, a binary frame, a message that
\* does not parse or comes after authentication.
AnswerFrame(c) ==
    /\ Looping(c) /\ c \in Talkers
    /\ Enqueue(c, Reply)
    /\ Penalize(c)
    /\ IF IsFull(c) THEN Goto(c, "closing") ELSE UNCHANGED phase
    /\ UNCHANGED <<registry, session, todo, sending, view>>

\* A Signal frame for `peer`: the signal, or an error for the sender.
SignalFrame(c, peer) ==
    LET s == session[c] IN
    /\ Looping(c) /\ c \in Talkers
    /\ forward_signal(s.room)
    /\ todo' = [todo EXCEPT ![c] =
           IF SignalForwarded(s.room, s.id, peer)
           THEN Announce(Signal(s.id), {SignalTarget(s.room, peer)})
           ELSE Announce(Reply, {c})]
    /\ UNCHANGED <<phase, session, outbound, sending, penalized, view>>

Unregister(c) ==
    LET s == session[c] IN
    /\ MayRun(c)
    /\ phase[c] = "closing"
    /\ unregister(s.room, s.role, s.id)
    /\ todo' = [todo EXCEPT ![c] =
           IF IsMember(s.room, s.role, s.id)
           THEN Announce(PeerLeft(s.id), Audience(s.room, s.role))
           ELSE {}]
    /\ Goto(c, "leaving")
    /\ UNCHANGED <<session, outbound, sending, penalized, view>>

\* handle_socket returns, and the receiving end of the queue goes with it.
Return(c) ==
    /\ MayRun(c)
    /\ phase[c] = "leaving"
    /\ todo[c] = {}
    /\ Drop(c)
    /\ UNCHANGED registry

TimePasses ==
    /\ MultiThread \/ \A d \in Conn : todo[d] = {}
    /\ Tick
    /\ UNCHANGED tasks

Handshake(c) ==
    \/ \E role \in Roles, handle \in Handles, alias \in Aliases \cup {NoAlias} :
           PakeInit(c, role, handle, alias)
    \/ EnsureRoomCapacity(c)
    \/ PakeRegistration(c)
    \/ PakeCredentialFinalization(c)
    \/ AuthAbort(c)

\* The steps of handle_socket that no frame of the client causes, and all.
Listening(c) ==
    \/ Register(c)
    \/ RegisterFails(c)
    \/ TrySend(c)
    \/ PenaltyTick(c)
    \/ Disconnect(c)
    \/ SendOutbound(c)
    \/ SendCompletes(c)
    \/ SendFails(c)
    \/ Unregister(c)
    \/ Return(c)

Runtime(c) == Listening(c) \/ AnswerFrame(c)

Next ==
    \/ TimePasses
    \/ \E c \in Conn :
        \/ \E ip \in IPs : Accept(c, ip)
        \/ Handshake(c)
        \/ Runtime(c)
        \/ \E peer \in ClientIds : SignalFrame(c, peer)

Spec == Init /\ [][Next]_vars

\* Clients that only listen once they are logged in.
SilentNext ==
    \/ TimePasses
    \/ \E c \in Conn :
        \/ \E ip \in IPs : Accept(c, ip)
        \/ Handshake(c)
        \/ Listening(c)

(***************************************************************************)
(* Fairness.  The runtime polls every task that can go on, the handshake   *)
(* ends by its timeouts, and `select!` picks at random among the branches  *)
(* that are ready, so that one that is ready again and again is picked in  *)
(* the end.  Clients owe us nothing: FairSpec is about clients that never  *)
(* send a frame, so that nothing can depend on one.                        *)
(***************************************************************************)
TaskStep(c) ==
    \/ EnsureRoomCapacity(c) \/ AuthAbort(c)
    \/ Register(c) \/ RegisterFails(c)
    \/ TrySend(c)
    \/ Unregister(c) \/ Return(c)

TaskFairness ==
    \A c \in Conn :
        WF_vars(TaskStep(c)) /\ SF_vars(PenaltyTick(c)) /\ SF_vars(SendOutbound(c))

\* A client that reads, or whose connection fails: a write to it ends.
SocketFairness == \A c \in Conn : WF_vars(SendCompletes(c) \/ SendFails(c))

FairSpec == Init /\ [][SilentNext]_vars /\ TaskFairness /\ SocketFairness

StalledSocketSpec == Spec /\ TaskFairness

(***************************************************************************)
(* Safety.                                                                 *)
(***************************************************************************)
\* The registry holds no stale handle: an entry of a room's maps is the
\* connection that registered under that id, in that room, with that role,
\* and has not unregistered yet (register, unregister in app_state.rs).
NoStaleHandle ==
    \A h \in DOMAIN rooms, role \in Roles :
        \A id \in DOMAIN rooms[h].members[role] :
            LET c == rooms[h].members[role][id] IN
            /\ phase[c] \in Registered
            /\ session[c].room = h /\ session[c].role = role /\ session[c].id = id

\* No connection in its loop is displaced by another one's alias, and the
\* room under it is never pruned: a registered connection is found in the
\* registry under its own id (register's occupied_client_ids, and the first
\* test of prune_expired_rooms).
NoLostMember ==
    \A c \in Conn : phase[c] \in Registered =>
        LET s == session[c] IN
        /\ s.room \in DOMAIN rooms
        /\ s.id \in DOMAIN rooms[s.room].members[s.role]
        /\ rooms[s.room].members[s.role][s.id] = c

\* An id names at most one member of a room, over both maps: forward_signal
\* looks an id up among the agents first, so an agent whose alias equals a
\* zookeeper's id would receive that zookeeper's signals.
IdsNameOneMember ==
    \A h \in DOMAIN rooms :
        DOMAIN rooms[h].members["agent"] \cap DOMAIN rooms[h].members["zookeeper"] = {}

\* The registry and the connection tasks agree: whatever aliases agents ask
\* for and however connections come and go, each entry of a room is a live
\* connection under its own id, each connection in its loop has its entry,
\* and no id names two members (register, unregister, prune_expired_rooms).
RegistryInv == NoStaleHandle /\ NoLostMember /\ IdsNameOneMember

\* However the handshakes interleave between ensure_room_capacity and
\* store_room, there are never more rooms than the quota.
RoomsWithinQuota == Cardinality(DOMAIN rooms) <= MaxRooms

(***************************************************************************)
(* Liveness.                                                               *)
(***************************************************************************)
\* A client whose queue overflowed is disconnected: handle_socket checks the
\* penalty flag at every maintenance tick and leaves the loop.
PenalizedLeaves ==
    \A c \in Conn : (phase[c] = "running" /\ penalized[c]) ~> (phase[c] = "closed")

\* No handshake hangs: every accepted socket ends up in its loop or closed.
HandshakeEnds ==
    \A c \in Conn :
        (phase[c] \in AuthPhases \cup {"authenticated"})
            ~> (phase[c] \in {"running", "closed"})

=============================================================================
