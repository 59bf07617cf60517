-------------------------- MODULE SignalingHistory --------------------------
(***************************************************************************)
(* The signaling server with history variables, to say what its limits and *)
(* its time to live promise over time rather than what they compute.       *)
(***************************************************************************)
EXTENDS SignalingViews

VARIABLES
    admitted,   \* for each address, when its handshakes were admitted
    signalled,  \* for each live room, when its signals were admitted
    occupied_at \* for each room, when it was last created or had members

history == <<admitted, signalled, occupied_at>>
hvars == <<vars, history>>

HInit ==
    /\ Init
    /\ admitted = [ip \in IPs |-> <<>>]
    /\ signalled = [h \in Handles |-> <<>>]
    /\ occupied_at = [h \in Handles |-> 0]

RecordAdmission(ip) ==
    admitted' = IF AuthAdmitted(ip) THEN [admitted EXCEPT ![ip] = Append(@, now)]
                ELSE admitted

\* A room that has expired starts over, also if the section that prunes it is
\* the one that creates it again.
RecordSignal(handles) ==
    signalled' = [h \in Handles |->
        IF ~RoomKnown(h) THEN <<>>
        ELSE IF h \in handles /\ SignalAdmitted(h) THEN Append(signalled[h], now)
        ELSE signalled[h]]

RecordOccupation ==
    occupied_at' = [h \in Handles |->
        IF h \in DOMAIN rooms' /\ (h \notin DOMAIN rooms \/ OccupiedIds(rooms'[h]) # {})
        THEN now' ELSE occupied_at[h]]

HNext ==
    /\ \/ /\ TimePasses \/ \E c \in Conn : Handshake(c) \/ Runtime(c)
          /\ UNCHANGED admitted
          /\ RecordSignal({})
       \/ \E c \in Conn, ip \in IPs :
              Accept(c, ip) /\ RecordAdmission(ip) /\ RecordSignal({})
       \/ \E c \in Conn, peer \in ClientIds :
              /\ SignalFrame(c, peer)
              /\ RecordSignal({session[c].room})
              /\ UNCHANGED admitted
    /\ RecordOccupation

HSpec == HInit /\ [][HNext]_hvars

\* Any `limit + 1` consecutive events span at least the window.
Spaced(times, limit, window) ==
    \A i \in 1..Len(times) :
        i + limit <= Len(times) => times[i + limit] - times[i] >= window

\* No address gets more than AuthRateLimit handshakes admitted within any
\* AuthRateWindow, and no room more than RoomSignalRateLimit signals within
\* any RoomSignalRateWindow, whatever other callers pruned from the deques
\* meanwhile (check_auth_rate_limit, forward_signal, prune_event_window).
RatesBounded ==
    /\ \A ip \in IPs : Spaced(admitted[ip], AuthRateLimit, AuthRateWindow)
    /\ \A h \in Handles :
           Spaced(signalled[h], RoomSignalRateLimit, RoomSignalRateWindow)

\* A room disappears only when nobody has been in it for RoomTtl, so that a
\* dropped agent finds its room again (prune_expired_rooms, and the refresh
\* of last_active_at in unregister).
RoomGrace ==
    [][\A h \in DOMAIN rooms : h \notin DOMAIN rooms' =>
           now - occupied_at[h] >= RoomTtl]_hvars

=============================================================================
