---------------------------- MODULE BrowserPage -----------------------------
(***************************************************************************)
(* The zookeeper's page, static/index.html: one global socket, login state *)
(* and table of agents, shared by the handlers of every socket it has      *)
(* opened and by the functions that continue after an await.  Every action *)
(* is one event handler or the code between two awaits.                    *)
(***************************************************************************)
EXTENDS Relay

Sockets == 1..MaxSockets
PageClient(k) == <<"page", k>>

VARIABLES
    socket,       \* the global socket, 0 for null
    ready,        \* readyState of every socket
    input_enabled,\* whether the secret can be entered
    bridge,       \* the cached promise of the WebAssembly module
    begin,        \* where beginAuthentication of a socket waits
    auth_state,   \* whose session authState holds, 0 for null
    sessions,     \* the sessions inside the module, by handle
    peers,        \* ids of the agents shown
    connection    \* the WebRTC connection to a shown agent

page_vars == <<socket, ready, input_enabled, bridge, begin, auth_state, sessions, peers, connection>>

NoConnection == [offer |-> <<>>, answered |-> FALSE]
Alive(k) == ready[k] \in {"connecting", "open", "closing"}

PageInit ==
    /\ socket = 0
    /\ ready = [k \in Sockets |-> "unused"]
    /\ input_enabled = TRUE
    /\ bridge = "unloaded"
    /\ begin = [k \in Sockets |-> "idle"]
    /\ auth_state = 0
    /\ sessions = [k \in Sockets |-> ClientSession]
    /\ peers = {}
    /\ connection = [i \in Ids |-> NoConnection]

\* A mutant: the agent is only marked as not connected.
closeAgents(gone) ==
    /\ connection' = [i \in Ids |-> IF i \in gone THEN NoConnection ELSE connection[i]]
    /\ UNCHANGED peers

\* forgetAgent closes the connection; a handler that waits for it never
\* goes on.
forgetAgents(gone) ==
    /\ peers' = peers \ gone
    /\ connection' = [i \in Ids |-> IF i \in gone THEN NoConnection ELSE connection[i]]

rememberAgents(ids_seen) ==
    /\ peers' = peers \cup ids_seen
    /\ UNCHANGED connection

\* socket.close() of the global socket.  The close event comes later.
CloseSocket ==
    IF socket = 0 \/ ready[socket] \notin {"connecting", "open"} THEN UNCHANGED <<ready, open>>
    ELSE /\ ready' = [ready EXCEPT ![socket] = "closing"]
         /\ open' = [open EXCEPT ![PageClient(socket)] = FALSE]

\* A mutant: the secret can be entered at any time.
MayAlwaysEnterSecret == TRUE

\* setConnectionUi while connected: the input is disabled.
MayEnterSecret == input_enabled

\* connect, by the enter key or by the button, which only connects when
\* there is no socket.
connect ==
    LET k == CHOOSE j \in Sockets : ready[j] = "unused" /\ \A i \in 1..(j - 1) : ready[i] # "unused"
    IN  /\ MayEnterSecret \/ socket = 0
        /\ \E j \in Sockets : ready[j] = "unused"
        /\ ready' = [j \in Sockets |->
                        IF j = k THEN "connecting"
                        ELSE IF j = socket /\ ready[j] \in {"connecting", "open"} THEN "closing"
                        ELSE ready[j]]
        /\ open' = [c \in Clients |-> IF socket # 0 /\ c = PageClient(socket) THEN FALSE ELSE open[c]]
        /\ socket' = k
        /\ input_enabled' = FALSE
        /\ forgetAgents(peers)
        /\ UNCHANGED <<bridge, begin, auth_state, sessions>>
        /\ UNCHANGED <<to_server, to_client, phase, login, ids, room>>

Disconnect ==
    /\ socket # 0
    /\ CloseSocket
    /\ UNCHANGED <<socket, input_enabled, bridge, begin, auth_state, sessions, peers, connection>>
    /\ UNCHANGED <<to_server, to_client, phase, login, ids, room>>

\* The open event starts beginAuthentication.
SocketOpen(k) ==
    /\ ready[k] = "connecting"
    /\ ready' = [ready EXCEPT ![k] = "open"]
    /\ begin' = [begin EXCEPT ![k] = "bridge"]
    /\ open' = [open EXCEPT ![PageClient(k)] = TRUE]
    /\ phase' = [phase EXCEPT ![PageClient(k)] = "init"]
    /\ UNCHANGED <<socket, input_enabled, bridge, auth_state, sessions, peers, connection>>
    /\ UNCHANGED <<to_server, to_client, login, ids, room>>

\* The module is loaded and there is WebCrypto for deriveRoomHandle, or not,
\* which does not change while the page lives (the promise is cached); then
\* the catch handler closes whatever socket there is now.
getPakeBridge(k) ==
    /\ begin[k] = "bridge"
    /\ bridge' \in IF bridge = "unloaded" THEN {"ready", "failed"} ELSE {bridge}
    /\ IF bridge' = "ready"
       THEN begin' = [begin EXCEPT ![k] = "derive"] /\ UNCHANGED <<ready, open>>
       ELSE begin' = [begin EXCEPT ![k] = "done"] /\ CloseSocket
    /\ UNCHANGED <<socket, input_enabled, auth_state, sessions, peers, connection>>
    /\ UNCHANGED <<to_server, to_client, phase, login, ids, room>>

\* The rest of beginAuthentication, on the socket there is now: null and a
\* connecting one throw, a closing one swallows the message.
StartLogin(k) ==
    LET session == start_login(sessions[k]) IN
    /\ begin[k] = "derive"
    /\ begin' = [begin EXCEPT ![k] = "done"]
    /\ auth_state' = k
    /\ sessions' = [sessions EXCEPT ![k] = session]
    /\ IF socket # 0 /\ ready[socket] = "open" THEN
           /\ to_server' = Deliver(to_server, PageClient(socket),
                  [type |-> "init", request |-> CredentialRequest(PageClient(k), session)])
           /\ UNCHANGED <<ready, open>>
       ELSE CloseSocket /\ UNCHANGED to_server
    /\ UNCHANGED <<socket, input_enabled, bridge, peers, connection>>
    /\ UNCHANGED <<to_client, phase, login, ids, room>>

\* A mutant: the handlers go on with the state of a destroyed session.
clearSessionOnly ==
    /\ sessions' = [k \in Sockets |-> IF k = auth_state THEN ClientSession ELSE sessions[k]]
    /\ UNCHANGED auth_state

\* clearAuthState destroys the session of the handle.
clearAuthState ==
    /\ auth_state' = 0
    /\ sessions' = [k \in Sockets |-> IF k = auth_state THEN ClientSession ELSE sessions[k]]

\* handleAuthMessage: answers of the session, `connected`, or the end.  A
\* failing operation of the session throws out of an async function that
\* nobody awaits: nothing happens.
handleAuthMessage(m) ==
    LET owner == PageClient(auth_state)
        replies == AuthReply(owner, sessions[auth_state], m)
    IN  IF m.type \in LoginMessages THEN
            /\ IF replies = {} THEN UNCHANGED <<sessions, to_server>>
               ELSE \E r \in replies :
                        /\ sessions' = [sessions EXCEPT ![auth_state] = r.session]
                        /\ to_server' = Deliver(to_server, PageClient(socket), r.send)
            /\ UNCHANGED <<auth_state, peers, connection, ready, open>>
        ELSE IF m.type = "connected" THEN
            /\ clearAuthState
            /\ rememberAgents(m.peers)
            /\ UNCHANGED <<ready, open, to_server>>
        ELSE /\ CloseSocket
             /\ UNCHANGED <<auth_state, sessions, peers, connection, to_server>>

\* handleServerMessage; of handleSignal the part before the first await.
handleServerMessage(m) ==
    /\ IF m.type = "connected" THEN rememberAgents(m.peers)
       ELSE IF m.type = "peer_joined" THEN rememberAgents({m.id})
       ELSE IF m.type = "peer_left" THEN forgetAgents({m.id})
       ELSE IF m.type = "signal" THEN
           /\ peers' = peers \cup {m.from}
           /\ connection' = [connection EXCEPT ![m.from] = [offer |-> m.payload, answered |-> FALSE]]
       ELSE UNCHANGED <<peers, connection>>
    /\ UNCHANGED <<auth_state, sessions, ready, open, to_server>>

\* A message event; there is none once the socket is closing.
PageMessage(k) ==
    LET c == PageClient(k)
        m == Head(to_client[c])
    IN  /\ ready[k] = "open"
        /\ to_client[c] # <<>>
        /\ to_client' = [to_client EXCEPT ![c] = Tail(@)]
        /\ IF auth_state # 0 THEN handleAuthMessage(m) ELSE handleServerMessage(m)
        /\ UNCHANGED <<socket, input_enabled, bridge, begin, phase, login, ids, room>>

\* The rest of handleSignal once the answer and its candidates are there.
SendAnswer(id) ==
    /\ connection[id].offer # <<>> /\ ~connection[id].answered
    /\ connection' = [connection EXCEPT ![id].answered = TRUE]
    /\ to_server' = IF socket = 0 \/ ready[socket] # "open" THEN to_server
                    ELSE Deliver(to_server, PageClient(socket),
                             [type |-> "signal", to |-> id, payload |-> connection[id].offer])
    /\ UNCHANGED <<socket, ready, input_enabled, bridge, begin, auth_state, sessions, peers>>
    /\ UNCHANGED <<to_client, open, phase, login, ids, room>>

\* The close event of a socket.
SocketClose(k) ==
    /\ Alive(k)
    /\ ready[k] \in {"closing", "connecting"} \/ ~open[PageClient(k)]
    /\ ready' = [ready EXCEPT ![k] = "closed"]
    /\ open' = [open EXCEPT ![PageClient(k)] = FALSE]
    /\ clearAuthState
    /\ socket' = 0
    /\ input_enabled' = TRUE
    /\ forgetAgents(peers)
    /\ to_client' = [to_client EXCEPT ![PageClient(k)] = <<>>]
    /\ UNCHANGED <<bridge, begin, to_server, phase, login, ids, room>>

PageStep ==
    \/ \E k \in Sockets : \/ SocketOpen(k)
                          \/ getPakeBridge(k)
                          \/ StartLogin(k)
                          \/ PageMessage(k)
                          \/ SocketClose(k)
    \/ \E id \in Ids : SendAnswer(id)

UserStep == connect \/ Disconnect
=============================================================================
