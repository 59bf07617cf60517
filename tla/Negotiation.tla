---------------------------- MODULE Negotiation -----------------------------
(***************************************************************************)
(* Page, signaling server and agent together, from the first connect to    *)
(* the WebRTC connection between page and agent.                           *)
(***************************************************************************)
EXTENDS BrowserPage, AgentPeers

CONSTANT MaxConnections \* bounds the connections of page and agent together

vars == <<server_vars, page_vars, agent_vars>>

Init == RelayInit /\ PageInit /\ AgentInit

Bounded == Cardinality({k \in Sockets : ready'[k] # "unused"}) + session_no' <= MaxConnections

SystemStep ==
    \/ (\E c \in Clients : ServeClient(c)) /\ UNCHANGED <<page_vars, agent_vars>>
    \/ PageStep /\ UNCHANGED agent_vars
    \/ AgentStep /\ UNCHANGED page_vars /\ Bounded

\* What users, networks and time do.
Environment ==
    \/ UserStep /\ UNCHANGED agent_vars /\ Bounded
    \/ (RoomExpires \/ \E c \in Clients : LinkLost(c)) /\ UNCHANGED <<page_vars, agent_vars>>

Next == SystemStep \/ Environment

\* Event loops, tasks and the server go on; there are finitely many
\* connections, so that a behaviour ends when there is nothing left to do.
Spec == Init /\ [][Next]_vars /\ WF_vars(SystemStep)

(***************************************************************************)
(* Properties.                                                             *)
(***************************************************************************)
\* No socket outlives the global that all handlers use: no close event of an
\* old socket can forget the agents, the login and the socket of a new one
\* (connect, setConnectionUi and the close handler in index.html).
OneSocket == \A k \in Sockets : Alive(k) => socket = k

\* A page that is logged in and has handled what it was sent shows exactly
\* the agents of the room (rememberAgent, forgetAgent, the messages of
\* register and unregister).
AgentsShown ==
    \A k \in Sockets :
        /\ ready[k] = "open" /\ auth_state = 0
        /\ phase[PageClient(k)] = "member" /\ to_client[PageClient(k)] = <<>>
        => peers = IdsOf(AgentClients)

\* No loss of a connection, and no answer that is still under way then, ends
\* the agent through handle_signal, and an answer that it uses is one to the
\* offer of this session.
SurvivesLoss ==
    /\ agent # "webrtc_error"
    /\ \A z \in Ids : agent_peers[z].state = "stable" => agent_peers[z].answer = Mine(z)

Paired(k, n) ==
    LET z == ids[PageClient(k)]
        a == ids[<<"agent", n>>]
    IN  /\ session_no = n /\ agent = "session" /\ agent_peers[z].state = "stable"
        /\ connection[a] = [offer |-> <<<<"agent", n>>, z>>, answered |-> TRUE]

\* A page and a session of the agent that are both in the room do not stay
\* there unconnected: they become connected or one of them leaves
\* (ensure_peer on Connected and PeerJoined, handleSignal in the page).
PairsUp ==
    []<>(\A k \in Sockets, n \in 1..MaxSessions :
            phase[PageClient(k)] = "member" /\ phase[<<"agent", n>>] = "member" => Paired(k, n))

\* Every attempt to connect comes to an end: the page is logged in and its
\* handlers know it, or the socket is closed and the user can try again,
\* also when beginAuthentication of an earlier socket comes in late.
LoginEnds ==
    []<>(\A k \in Sockets :
            Alive(k) => phase[PageClient(k)] = "member" /\ auth_state = 0)
=============================================================================
