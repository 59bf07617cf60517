------------------------------ MODULE AppState ------------------------------
(***************************************************************************)
(* The registry of the signaling server: `StateInner`, which every         *)
(* connection task of mitb-server reaches through the mutex                *)
(* `AppState.inner` (mitb-server/src/lib.rs, mitb-server/src/app_state.rs).*)
(* No method of AppState awaits while it holds the mutex, so each method   *)
(* is one atomic section; the operators below give the effect of each      *)
(* section on the registry and what it answers.  Which task runs which     *)
(* section when is the business of module SignalingServer.                 *)
(*                                                                         *)
(* A ClientHandle (an mpsc sender and a penalty flag) is represented by    *)
(* the connection that owns both.  The PAKE password file of a room is not *)
(* kept: OPAQUE's verdict on a login is an input of SignalingServer.       *)
(***************************************************************************)
EXTENDS Naturals, Sequences, FiniteSets

CONSTANTS
    Conn,                    \* connection tasks (websocket slots)
    Handles,                 \* room handles
    IPs,                     \* client addresses
    Aliases,                 \* client ids that agents ask for
    AllowAgentRoomCreation,  \* SecurityConfig.allow_agent_room_creation
    MaxRooms,                \* SecurityConfig.max_rooms, at least 1
    RoomTtl,                 \* SecurityConfig.room_ttl, in clock units
    AuthRateLimit,           \* SecurityConfig.auth_rate_limit, at least 1
    AuthRateWindow,          \* SecurityConfig.auth_rate_window
    RoomSignalRateLimit,     \* SecurityConfig.room_signal_rate_limit, >= 1
    RoomSignalRateWindow,    \* SecurityConfig.room_signal_rate_window
    MaxClientId,             \* bound on the counter next_client_id
    MaxTime                  \* bound on the clock

VARIABLES
    now,                \* the monotonic clock `Instant::now()` reads
    next_client_id,     \* StateInner.next_client_id
    rooms,              \* StateInner.rooms, a function on the live handles
    auth_events_by_ip   \* StateInner.auth_events_by_ip; <<>> is "no entry"

registry == <<now, next_client_id, rooms, auth_events_by_ip>>

Roles == {"agent", "zookeeper"}

Opposite(role) == IF role = "agent" THEN "zookeeper" ELSE "agent"

\* A client id is a prefix and a number: <<"agent", 3>> is "agent-3".  An
\* alias is any id, and may well look like a generated one.
NoAlias == <<"", 0>>

ClientIds == Aliases \cup (Roles \X (1..MaxClientId))

\* The client id of a connection that has none.
NoId == NoAlias

ASSUME ConfigAssumption ==
    /\ AllowAgentRoomCreation \in BOOLEAN
    /\ MaxRooms \in Nat \ {0}
    /\ RoomTtl \in Nat
    /\ AuthRateLimit \in Nat \ {0}
    /\ AuthRateWindow \in Nat
    /\ RoomSignalRateLimit \in Nat \ {0}
    /\ RoomSignalRateWindow \in Nat
    /\ MaxClientId \in Nat
    /\ MaxTime \in Nat

ASSUME NoAliasAssumption == NoAlias \notin Aliases

ASSUME FiniteAssumption == IsFiniteSet(Handles)

(***************************************************************************)
(* Maps: HashMap::insert and HashMap::remove.                              *)
(***************************************************************************)
MapInsert(map, key, value) ==
    [k \in DOMAIN map \cup {key} |-> IF k = key THEN value ELSE map[k]]

MapRemove(map, key) == [k \in DOMAIN map \ {key} |-> map[k]]

EmptyMap == [k \in {} |-> {}]

(***************************************************************************)
(* RoomState: `agents` and `zookeepers` are members["agent"] and           *)
(* members["zookeeper"], maps from client ids to connections.              *)
(***************************************************************************)
Members == UNION {[ids -> Conn] : ids \in SUBSET ClientIds}

RoomState ==
    [members : [Roles -> Members],
     last_active_at : Nat,
     signal_events : Seq(Nat)]

NewRoom ==
    [members |-> [role \in Roles |-> EmptyMap],
     last_active_at |-> now,
     signal_events |-> <<>>]

\* The ids taken in a room, as an agent or as a zookeeper.
OccupiedIds(room) == UNION {DOMAIN room.members[role] : role \in Roles}

RegistryTypeOK ==
    /\ now \in 0..MaxTime
    /\ next_client_id \in 0..MaxClientId
    /\ DOMAIN rooms \subseteq Handles
    /\ rooms \in [DOMAIN rooms -> RoomState]
    /\ auth_events_by_ip \in [IPs -> Seq(Nat)]

RegistryInit ==
    /\ now = 0
    /\ next_client_id = 0
    /\ rooms = EmptyMap
    /\ auth_events_by_ip = [ip \in IPs |-> <<>>]

(***************************************************************************)
(* prune_event_window pops the events at the front that have left the      *)
(* window; it stops at the first one that is still inside.                 *)
(***************************************************************************)
InWindow(t, window) == now - t < window

prune_event_window(events, window) ==
    LET gone == {i \in 1..Len(events) : \A j \in 1..i : ~InWindow(events[j], window)}
    IN  SubSeq(events, Cardinality(gone) + 1, Len(events))

(***************************************************************************)
(* prune_expired_rooms, the first thing every section does: drop the rooms *)
(* nobody is in that have been idle for the TTL, and the authentication    *)
(* events that have left their window.                                     *)
(***************************************************************************)
Expired(room) ==
    /\ OccupiedIds(room) = {}
    /\ now - room.last_active_at >= RoomTtl

PrunedRooms(map) == [h \in {x \in DOMAIN map : ~Expired(map[x])} |-> map[h]]

PrunedAuthEvents ==
    [ip \in IPs |-> prune_event_window(auth_events_by_ip[ip], AuthRateWindow)]

LiveRooms == PrunedRooms(rooms)

\* A section that, besides pruning, leaves the registry's rooms as `map`.
Section(map) ==
    /\ rooms' = map
    /\ auth_events_by_ip' = PrunedAuthEvents
    /\ UNCHANGED now

(***************************************************************************)
(* check_auth_rate_limit                                                   *)
(***************************************************************************)
\* Mutant: one handshake too many.
AuthAdmittedInclusive(ip) == Len(PrunedAuthEvents[ip]) <= AuthRateLimit

AuthAdmitted(ip) == Len(PrunedAuthEvents[ip]) < AuthRateLimit

check_auth_rate_limit(ip) ==
    /\ rooms' = LiveRooms
    /\ auth_events_by_ip' =
        IF AuthAdmitted(ip)
        THEN [PrunedAuthEvents EXCEPT ![ip] = Append(@, now)]
        ELSE PrunedAuthEvents
    /\ UNCHANGED <<now, next_client_id>>

(***************************************************************************)
(* candidate_login_for_room and ensure_room_capacity only look.            *)
(***************************************************************************)
RoomKnown(handle) == handle \in DOMAIN LiveRooms

HasCapacity == Cardinality(DOMAIN LiveRooms) < MaxRooms

Look == Section(LiveRooms) /\ UNCHANGED next_client_id

(***************************************************************************)
(* store_room checks the quota again, and that nobody created the room     *)
(* since candidate_login_for_room missed it.                               *)
(***************************************************************************)
\* Mutant: rely on the check ensure_room_capacity made.
CanStoreUnchecked(handle) == ~RoomKnown(handle)

CanStore(handle) == HasCapacity /\ ~RoomKnown(handle)

store_room(handle) ==
    /\ Section(IF CanStore(handle)
               THEN MapInsert(LiveRooms, handle, NewRoom)
               ELSE LiveRooms)
    /\ UNCHANGED next_client_id

(***************************************************************************)
(* register: the preferred id when it is free, else the first free         *)
(* generated one, as the counter goes up; then insert the handle.          *)
(***************************************************************************)
\* Mutant: only the ids of the same role are looked at.
ChosenIdOwnRole(handle, role, alias, id, counter) ==
    LET occupied == DOMAIN LiveRooms[handle].members[role]
    IN  IF alias # NoAlias /\ alias \notin occupied
        THEN id = alias /\ counter = next_client_id
        ELSE /\ counter = next_client_id + 1
             /\ id = <<role, counter>>
             /\ id \notin occupied

ChosenId(handle, role, alias, id, counter) ==
    LET occupied == OccupiedIds(LiveRooms[handle])
    IN  IF alias # NoAlias /\ alias \notin occupied
        THEN id = alias /\ counter = next_client_id
        ELSE /\ counter > next_client_id
             /\ id = <<role, counter>>
             /\ id \notin occupied
             /\ \A n \in (next_client_id + 1)..(counter - 1) :
                    <<role, n>> \in occupied

\* Mutant: membership changes do not refresh the room.
WithMembersStale(room, role, map) ==
    [room EXCEPT !.members = [room.members EXCEPT ![role] = map]]

\* `room` with other members of one role, refreshed.
WithMembers(room, role, map) ==
    [room EXCEPT !.members = [room.members EXCEPT ![role] = map],
                 !.last_active_at = now]

register(c, handle, role, id, counter) ==
    /\ LET room == LiveRooms[handle] IN
       Section([LiveRooms EXCEPT ![handle] =
           WithMembers(room, role, MapInsert(room.members[role], id, c))])
    /\ next_client_id' = counter

(***************************************************************************)
(* unregister prunes, removes the entry if it is there, prunes again.      *)
(***************************************************************************)
IsMember(handle, role, id) ==
    /\ handle \in DOMAIN LiveRooms
    /\ id \in DOMAIN LiveRooms[handle].members[role]

unregister(handle, role, id) ==
    /\ LET room == LiveRooms[handle] IN
       Section(IF IsMember(handle, role, id)
               THEN PrunedRooms([LiveRooms EXCEPT ![handle] =
                        WithMembers(room, role, MapRemove(room.members[role], id))])
               ELSE LiveRooms)
    /\ UNCHANGED next_client_id

\* Mutant: announce to the peers of the same role.
AudienceOwnRole(handle, role) ==
    LET others == LiveRooms[handle].members[role]
    IN  {others[id] : id \in DOMAIN others}

\* The connections register and unregister announce a change of `role` to.
Audience(handle, role) ==
    LET others == LiveRooms[handle].members[Opposite(role)]
    IN  {others[id] : id \in DOMAIN others}

(***************************************************************************)
(* forward_signal: an admitted signal is counted and refreshes the room    *)
(* before its sender and its peer are looked up.                           *)
(***************************************************************************)
SignalEvents(handle) ==
    prune_event_window(LiveRooms[handle].signal_events, RoomSignalRateWindow)

SignalAdmitted(handle) ==
    /\ RoomKnown(handle)
    /\ Len(SignalEvents(handle)) < RoomSignalRateLimit

MemberRole(room, id) ==
    IF id \in DOMAIN room.members["agent"] THEN "agent"
    ELSE IF id \in DOMAIN room.members["zookeeper"] THEN "zookeeper"
    ELSE "none"

SignalForwarded(handle, sender, peer) ==
    /\ SignalAdmitted(handle)
    /\ LET from == MemberRole(LiveRooms[handle], sender)
           to == MemberRole(LiveRooms[handle], peer)
       IN  from # "none" /\ to # "none" /\ ~(from = "agent" /\ to = "agent")

SignalTarget(handle, peer) ==
    LiveRooms[handle].members[MemberRole(LiveRooms[handle], peer)][peer]

forward_signal(handle) ==
    /\ Section(IF ~RoomKnown(handle) THEN LiveRooms
               ELSE IF SignalAdmitted(handle)
               THEN [LiveRooms EXCEPT ![handle] =
                        [@ EXCEPT !.signal_events = Append(SignalEvents(handle), now),
                                  !.last_active_at = now]]
               ELSE [LiveRooms EXCEPT ![handle] =
                        [@ EXCEPT !.signal_events = SignalEvents(handle)]])
    /\ UNCHANGED next_client_id

\* Time passes.
Tick ==
    /\ now < MaxTime
    /\ now' = now + 1
    /\ UNCHANGED <<next_client_id, rooms, auth_events_by_ip>>

=============================================================================
