----------------------------- MODULE AgentPeers -----------------------------
(***************************************************************************)
(* The agent's sessions with the signaling server, agent.rs with agent/:   *)
(* login, one offer to each zookeeper, its answer, and the loop around     *)
(* them that reconnects after a lost session.                              *)
(***************************************************************************)
EXTENDS Relay

VARIABLES
    agent,         \* what the loop of `run` does
    session_no,    \* the number of its sessions so far
    agent_session, \* its side of the login
    agent_peers    \* for every zookeeper the state of the connection to it

agent_vars == <<agent, session_no, agent_session, agent_peers>>

Me == <<"agent", session_no>>
Mine(z) == <<Me, z>>  \* the offer of this session to a zookeeper

NoPeer == [state |-> "none", answer |-> <<>>]
Offered == [state |-> "have-local-offer", answer |-> <<>>]

\* A mutant: the connections to the zookeepers survive the session.
PeersKept == agent_peers

\* A session starts with no connections, and its connections end with it.
FreshPeers == [i \in Ids |-> NoPeer]

AgentInit ==
    /\ agent = "sleep"
    /\ session_no = 0
    /\ agent_session = ClientSession
    /\ agent_peers = [i \in Ids |-> NoPeer]

\* connect_async and the first message of the login.
AgentConnects ==
    LET c == <<"agent", session_no + 1>>
        s == start_login(ClientSession)
    IN  /\ agent = "sleep" /\ session_no < MaxSessions
        /\ agent' = "login"
        /\ session_no' = session_no + 1
        /\ agent_session' = s
        /\ agent_peers' = FreshPeers
        /\ open' = [open EXCEPT ![c] = TRUE]
        /\ phase' = [phase EXCEPT ![c] = "init"]
        /\ to_server' = Deliver(to_server, c,
               [type |-> "init", request |-> CredentialRequest(c, s)])
        /\ UNCHANGED <<to_client, login, ids, room>>

\* A mutant: the zookeepers of the room on arrival get no offer, only those
\* that join later.
ensure_peer_joined(zs) ==
    LET new == {z \in zs : agent_peers[z].state = "none" /\ agent = "session"} IN
    /\ agent_peers' = [i \in Ids |-> IF i \in new THEN Offered ELSE agent_peers[i]]
    /\ to_server' = [to_server EXCEPT ![Me] = @ \o
           [i \in 1..Cardinality(new) |->
               LET z == CHOOSE y \in new : TRUE
               IN  [type |-> "signal", to |-> z, payload |-> Mine(z)]]]

\* ensure_peer for zookeepers it does not know: a connection and its offer.
ensure_peer(zs) ==
    LET new == {z \in zs : agent_peers[z].state = "none"}
        Offers == CHOOSE q \in [1..Cardinality(new) -> new] : \A z \in new : \E i \in DOMAIN q : q[i] = z
    IN  /\ agent_peers' = [i \in Ids |-> IF i \in new THEN Offered ELSE agent_peers[i]]
        /\ to_server' = [to_server EXCEPT ![Me] = @ \o
               [i \in 1..Cardinality(new) |->
                   [type |-> "signal", to |-> Offers[i], payload |-> Mine(Offers[i])]]]

\* authenticate_websocket: any error here is final.
authenticate_websocket(m) ==
    LET replies == AuthReply(Me, agent_session, m) IN
    IF m.type = "connected" THEN
        /\ agent' = "session"
        /\ ensure_peer(m.peers)
        /\ UNCHANGED agent_session
    ELSE IF replies # {} THEN
        /\ \E r \in replies : /\ agent_session' = r.session
                              /\ to_server' = Deliver(to_server, Me, r.send)
        /\ UNCHANGED <<agent, agent_peers>>
    ELSE /\ agent' = "refused"
         /\ UNCHANGED <<agent_session, agent_peers, to_server>>

\* handle_signal: an answer is set as the remote description of the
\* connection, which fails unless the connection has made an offer and is
\* waiting; the error ends the agent.
handle_signal(z, answer) ==
    /\ IF agent_peers[z].state = "have-local-offer" THEN
           /\ agent_peers' = [agent_peers EXCEPT ![z] = [state |-> "stable", answer |-> answer]]
           /\ UNCHANGED agent
       ELSE IF agent_peers[z].state = "stable" THEN
           /\ agent' = "webrtc_error"
           /\ UNCHANGED agent_peers
       ELSE UNCHANGED <<agent, agent_peers>>
    /\ UNCHANGED to_server

handle_server_message(m) ==
    /\ IF m.type = "peer_joined" THEN ensure_peer({m.id}) /\ UNCHANGED agent
       ELSE IF m.type = "peer_left" THEN
           /\ agent_peers' = [agent_peers EXCEPT ![m.id] = NoPeer]
           /\ UNCHANGED <<agent, to_server>>
       ELSE IF m.type = "signal" THEN handle_signal(m.from, m.payload)
       ELSE UNCHANGED <<agent, agent_peers, to_server>>
    /\ UNCHANGED agent_session

\* The next message; a final error ends the agent and its connection.
AgentMessage ==
    /\ agent \in {"login", "session"}
    /\ to_client[Me] # <<>>
    /\ to_client' = [to_client EXCEPT ![Me] = Tail(@)]
    /\ IF agent = "login" THEN authenticate_websocket(Head(to_client[Me]))
       ELSE handle_server_message(Head(to_client[Me]))
    /\ open' = [open EXCEPT ![Me] = @ /\ agent' \in {"login", "session"}]
    /\ UNCHANGED <<session_no, phase, login, ids, room>>

\* The socket is closed or fails.  A session ends and another one follows; in
\* the login only a failing socket is retried, a closed one is final.  The
\* peers go with the session.
AgentLost ==
    /\ agent \in {"login", "session"} /\ ~open[Me]
    /\ agent' \in IF agent = "login" THEN {"sleep", "refused"} ELSE {"sleep"}
    /\ agent_peers' = FreshPeers
    /\ agent_session' = ClientSession
    /\ to_client' = [to_client EXCEPT ![Me] = <<>>]
    /\ UNCHANGED <<session_no, to_server, open, phase, login, ids, room>>

AgentStep == AgentConnects \/ AgentMessage \/ AgentLost
=============================================================================
