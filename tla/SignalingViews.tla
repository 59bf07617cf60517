--------------------------- MODULE SignalingViews ---------------------------
(***************************************************************************)
(* What the clients of the signaling server come to believe: properties of *)
(* the messages a connection has been sent and still has in its queue.     *)
(***************************************************************************)
EXTENDS SignalingServer

\* What is on its way to the client of c, in order.
Stream(c) == sending[c] \o outbound[c]

\* What a client that knows v knows once the messages of s have arrived, one
\* after the other: the peers it was told of and not told away afterwards.
Brings(msg, id) ==
    \/ msg.type = "connected" /\ id \in msg.peers
    \/ msg = PeerJoined(id)

After(v, s) ==
    [greeted |-> v.greeted \/ \E i \in DOMAIN s : s[i].type = "connected",
     peers |->
        {id \in ClientIds :
            \/ id \in v.peers /\ \A i \in DOMAIN s : s[i] # PeerLeft(id)
            \/ \E i \in DOMAIN s :
                   /\ Brings(s[i], id)
                   /\ \A j \in DOMAIN s : i < j => s[j] # PeerLeft(id)}]

\* What the client of c will know once all of it has arrived.
FinalView(c) == After(view[c], Stream(c))

\* The members of the other role that the registry has for c's room.
Roster(c) == DOMAIN rooms[session[c].room].members[Opposite(session[c].role)]

\* The first message a client gets after its login is Connected: both
\* clients take anything else for a protocol error and give up
\* (agent/auth.rs authenticate_websocket, index.html handleAuthMessage).
ConnectedFirst ==
    \A c \in Conn :
        phase[c] = "running" /\ ~view[c].greeted /\ Stream(c) # <<>>
            => Head(Stream(c)).type = "connected"

\* A client is told of every peer that comes and goes: whenever no
\* announcement is still to be made, the messages sent to a client and the
\* ones in its queue add up to the room's roster, unless its queue
\* overflowed, and then its penalty flag is up.
RosterInSync ==
    \A c \in Conn :
        /\ phase[c] = "running"
        /\ \A d \in Conn : todo[d] = {}
        /\ ~penalized[c]
        => FinalView(c) = [greeted |-> TRUE, peers |-> Roster(c)]

\* Also on the multi-threaded runtime, where announcements overtake each
\* other: a client misses no peer that is in the room under an id that was
\* generated.  An alias may come back, and be announced before it left.
NoPeerMissed ==
    \A c \in Conn :
        /\ phase[c] = "running"
        /\ \A d \in Conn : todo[d] = {}
        /\ ~penalized[c]
        => Roster(c) \ Aliases \subseteq FinalView(c).peers

\* Peers that left are forgotten: once the comings and goings stop, a client
\* that stays connected does not keep a peer that is no longer in the room.
GhostsVanish ==
    \A c \in Conn :
        (phase[c] = "running" /\ ~(view[c].peers \subseteq Roster(c)))
            ~> (phase[c] # "running" \/ view[c].peers \subseteq Roster(c))

=============================================================================
