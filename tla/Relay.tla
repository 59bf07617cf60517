-------------------------------- MODULE Relay -------------------------------
(***************************************************************************)
(* The signaling server as its clients see it, for the login and the       *)
(* exchange of offers and answers.  It serves one message at a time; what  *)
(* its threads, bounded queues, quotas and rate limits add is the subject  *)
(* of SignalingServer.  A client is one WebSocket: the k-th of the page or *)
(* of the agent.  A message is lost only with its connection.              *)
(***************************************************************************)
EXTENDS Pake, Sequences, FiniteSets

CONSTANTS
    MaxSockets,  \* bounds how often the page connects
    MaxSessions, \* bounds how often the agent connects
    Aliased      \* whether the agent asks for an id of its own

ASSUME RelayAssumption == MaxSockets \in Nat /\ MaxSessions \in Nat /\ Aliased \in BOOLEAN

PageClients == {"page"} \X (1..MaxSockets)
AgentClients == {"agent"} \X (1..MaxSessions)
Clients == PageClients \cup AgentClients
TheAlias == <<"alias", 0>>
Ids == Clients \cup {TheAlias}
Opposite(c) == IF c \in PageClients THEN AgentClients ELSE PageClients

VARIABLES
    to_server, to_client, \* what is on its way, per connection
    open,                 \* whether the connection carries messages
    phase,                \* how far the server's task is with a client
    login,                \* the request the server has answered, and
                          \* whether the client brought a new room
    ids,                  \* the id a member has
    room                  \* whether the room of the secret exists

server_vars == <<to_server, to_client, open, phase, login, ids, room>>

Members == {c \in Clients : phase[c] = "member"}
IdsOf(C) == {ids[c] : c \in C \cap Members}

NoLogin == [request |-> <<>>, created |-> FALSE]

RelayInit ==
    /\ to_server = [c \in Clients |-> <<>>]
    /\ to_client = [c \in Clients |-> <<>>]
    /\ open = [c \in Clients |-> FALSE]
    /\ phase = [c \in Clients |-> "none"]
    /\ login = [c \in Clients |-> NoLogin]
    /\ ids = [c \in Clients |-> c]
    /\ room = FALSE

Deliver(q, c, m) == [q EXCEPT ![c] = Append(@, m)]
Announce(q, C, m) == [c \in Clients |-> IF c \in C \cap Members THEN Append(q[c], m) ELSE q[c]]
Error == [type |-> "error"]

\* The server takes the next message of a client in this phase.
Takes(c, p) ==
    /\ phase[c] = p
    /\ to_server[c] # <<>>
    /\ to_server' = [to_server EXCEPT ![c] = Tail(@)]

\* An answer within the login, and its end with a last message or none.
Answer(c, p, m) ==
    /\ phase' = [phase EXCEPT ![c] = p]
    /\ to_client' = Deliver(to_client, c, m)
    /\ UNCHANGED <<open, ids, room>>
Close(c, last) ==
    /\ phase' = [phase EXCEPT ![c] = "gone"]
    /\ to_client' = [to_client EXCEPT ![c] = @ \o last]
    /\ open' = [open EXCEPT ![c] = FALSE]
    /\ login' = [login EXCEPT ![c] = NoLogin]
    /\ UNCHANGED <<ids, room>>
Refuse(c) == Close(c, <<Error>>)

PakeInit(c) ==
    LET m == Head(to_server[c]) IN
    /\ Takes(c, "init")
    /\ IF m.type = "init" /\ room THEN
           /\ login' = [login EXCEPT ![c] = [request |-> m.request, created |-> FALSE]]
           /\ Answer(c, "finalization", [type |-> "candidates", request |-> m.request])
       ELSE IF m.type = "init" /\ c \in AgentClients THEN
           /\ Answer(c, "registration", [type |-> "registration_required"])
           /\ UNCHANGED login
       ELSE Refuse(c)

PakeRegistrationRequest(c) ==
    /\ Takes(c, "registration")
    /\ IF Head(to_server[c]).type = "registration_request" THEN
           /\ Answer(c, "upload", [type |-> "registration_response"])
           /\ UNCHANGED login
       ELSE Refuse(c)

PakeRegistrationUpload(c) ==
    LET m == Head(to_server[c]) IN
    /\ Takes(c, "upload")
    /\ IF m.type = "registration_upload" THEN
           /\ login' = [login EXCEPT ![c] = [request |-> m.request, created |-> TRUE]]
           /\ Answer(c, "finalization", [type |-> "candidates", request |-> m.request])
       ELSE Refuse(c)

\* The end of the login: store_room, which fails if the room has been made
\* meanwhile, register, which fails without a word if it has expired,
\* Connected and PeerJoined.  An alias is granted if no member has it.
PakeCredentialFinalization(c) ==
    LET m == Head(to_server[c])
        id == IF Aliased /\ c \in AgentClients /\ TheAlias \notin IdsOf(Clients)
              THEN TheAlias ELSE c
    IN  /\ Takes(c, "finalization")
        /\ IF \/ m.type # "finalization" \/ m.request # login[c].request
              \/ room /\ login[c].created
           THEN Refuse(c)
           ELSE IF ~room /\ ~login[c].created THEN Close(c, <<>>)
           ELSE /\ phase' = [phase EXCEPT ![c] = "member"]
                /\ ids' = [ids EXCEPT ![c] = id]
                /\ room' = TRUE
                /\ to_client' = Announce(
                       Deliver(to_client, c, [type |-> "connected", peers |-> IdsOf(Opposite(c))]),
                       Opposite(c), [type |-> "peer_joined", id |-> id])
                /\ login' = [login EXCEPT ![c] = NoLogin]
                /\ UNCHANGED open

\* handle_incoming_message of a member: a signal goes to the member that has
\* the id now, anything else is answered with an error.
HandleIncoming(c) ==
    LET m == Head(to_server[c])
        target == {d \in Opposite(c) \cap Members : m.type = "signal" /\ ids[d] = m.to}
    IN  /\ Takes(c, "member")
        /\ to_client' = IF target = {} THEN Deliver(to_client, c, Error)
                        ELSE Announce(to_client, target,
                                 [type |-> "signal", from |-> ids[c], payload |-> m.payload])
        /\ UNCHANGED <<open, phase, login, ids, room>>

\* The server finds a connection closed: unregister and PeerLeft.
Disconnected(c) ==
    /\ phase[c] \notin {"none", "gone"} /\ ~open[c]
    /\ phase' = [phase EXCEPT ![c] = "gone"]
    /\ to_client' = IF phase[c] = "member"
                    THEN Announce(to_client, Opposite(c), [type |-> "peer_left", id |-> ids[c]])
                    ELSE to_client
    /\ to_server' = [to_server EXCEPT ![c] = <<>>]
    /\ login' = [login EXCEPT ![c] = NoLogin]
    /\ UNCHANGED <<open, ids, room>>

ServeClient(c) ==
    \/ PakeInit(c)
    \/ PakeRegistrationRequest(c)
    \/ PakeRegistrationUpload(c)
    \/ PakeCredentialFinalization(c)
    \/ HandleIncoming(c)
    \/ Disconnected(c)

\* A room without members is forgotten some time later.
RoomExpires ==
    /\ room /\ Members = {}
    /\ room' = FALSE
    /\ UNCHANGED <<to_server, to_client, open, phase, login, ids>>

\* A connection breaks, or the server closes it for its silence.
LinkLost(c) ==
    /\ open[c]
    /\ open' = [open EXCEPT ![c] = FALSE]
    /\ UNCHANGED <<to_server, to_client, phase, login, ids, room>>
=============================================================================
