----------------------- MODULE SignalingServerProofs -----------------------
(***************************************************************************)
(* Proofs about the signaling server, for every set of connections,        *)
(* handles and aliases, every configuration, and both runtimes.            *)
(***************************************************************************)
EXTENDS SignalingHistory, SequenceTheorems, FiniteSetTheorems, TLAPS

(***************************************************************************)
(* Types of the registry's operators.                                      *)
(***************************************************************************)
\* Pruning a deque of instants leaves a deque of instants.
LEMMA PruneWindowType ==
    ASSUME NEW events \in Seq(Nat), NEW window
    PROVE  prune_event_window(events, window) \in Seq(Nat)
<1> DEFINE gone == {i \in 1..Len(events) : \A j \in 1..i : ~InWindow(events[j], window)}
<1>1. Len(events) \in Nat /\ \A i \in 1..Len(events) : events[i] \in Nat
  BY LenProperties, ElementOfSeq
<1>2. IsFiniteSet(1..Len(events)) /\ gone \in SUBSET (1..Len(events))
  BY <1>1, FS_Interval
<1>3. Cardinality(gone) \in Nat
  BY <1>2, FS_Subset, FS_CardinalityType
<1> HIDE DEF gone
<1>4. SubSeq(events, Cardinality(gone) + 1, Len(events)) \in Seq(Nat)
  BY <1>1, <1>3, SubSeqProperties
<1>. QED
  BY <1>4 DEF prune_event_window, gone

\* Pruning keeps the rooms it keeps as they are, and every occupied one.
LEMMA PrunedRoomsFacts ==
    ASSUME NEW map
    PROVE  /\ DOMAIN PrunedRooms(map) \subseteq DOMAIN map
           /\ \A h \in DOMAIN PrunedRooms(map) : PrunedRooms(map)[h] = map[h]
           /\ \A h \in DOMAIN map : OccupiedIds(map[h]) # {} => h \in DOMAIN PrunedRooms(map)
           /\ PrunedRooms(map) = [h \in DOMAIN PrunedRooms(map) |-> PrunedRooms(map)[h]]
BY DEF PrunedRooms, Expired

LEMMA LiveRoomsType ==
    ASSUME RegistryTypeOK
    PROVE  /\ DOMAIN LiveRooms \subseteq Handles
           /\ LiveRooms \in [DOMAIN LiveRooms -> RoomState]
BY PrunedRoomsFacts DEF LiveRooms, RegistryTypeOK

LEMMA PrunedAuthEventsType ==
    ASSUME RegistryTypeOK
    PROVE  PrunedAuthEvents \in [IPs -> Seq(Nat)]
BY PruneWindowType DEF PrunedAuthEvents, RegistryTypeOK

\* What a section leaves behind is well typed when its rooms are.
LEMMA SectionType ==
    ASSUME RegistryTypeOK, NEW map, Section(map),
           DOMAIN map \subseteq Handles, map \in [DOMAIN map -> RoomState],
           next_client_id' \in 0..MaxClientId
    PROVE  RegistryTypeOK'
BY PrunedAuthEventsType DEF Section, RegistryTypeOK

LEMMA LookType ==
    ASSUME RegistryTypeOK, Look
    PROVE  RegistryTypeOK'
BY SectionType, LiveRoomsType DEF Look, RegistryTypeOK

\* A map from client ids to connections, without the UNION.
LEMMA MembersFacts ==
    ASSUME NEW m
    PROVE  m \in Members <=> DOMAIN m \subseteq ClientIds /\ m \in [DOMAIN m -> Conn]
BY DEF Members

LEMMA NewRoomType ==
    ASSUME RegistryTypeOK
    PROVE  NewRoom \in RoomState /\ OccupiedIds(NewRoom) = {}
<1>1. EmptyMap \in Members /\ DOMAIN EmptyMap = {}
  BY MembersFacts DEF EmptyMap
<1>2. now \in Nat
  BY ConfigAssumption DEF RegistryTypeOK
<1>. QED
  BY <1>1, <1>2 DEF NewRoom, RoomState, OccupiedIds

LEMMA RoleFacts ==
    ASSUME NEW role \in Roles
    PROVE  Opposite(role) \in Roles
BY DEF Roles, Opposite

LEMMA CheckAuthType ==
    ASSUME RegistryTypeOK, NEW ip \in IPs, check_auth_rate_limit(ip)
    PROVE  RegistryTypeOK'
<1>1. now \in Nat
  BY ConfigAssumption DEF RegistryTypeOK
<1>2. auth_events_by_ip' \in [IPs -> Seq(Nat)]
  BY <1>1, PrunedAuthEventsType DEF check_auth_rate_limit
<1>. QED
  BY <1>2, LiveRoomsType DEF check_auth_rate_limit, RegistryTypeOK

LEMMA StoreRoomType ==
    ASSUME RegistryTypeOK, NEW h \in Handles, store_room(h)
    PROVE  RegistryTypeOK'
<1> DEFINE map == MapInsert(LiveRooms, h, NewRoom)
<1>1. DOMAIN map \subseteq Handles /\ map \in [DOMAIN map -> RoomState]
  BY LiveRoomsType, NewRoomType DEF MapInsert
<1>2. next_client_id' \in 0..MaxClientId
  BY DEF store_room, RegistryTypeOK
<1>. QED
  BY <1>1, <1>2, SectionType, LiveRoomsType DEF store_room

\* A member of LiveRooms, field by field.
LEMMA LiveRoomFields ==
    ASSUME RegistryTypeOK, NEW h \in DOMAIN LiveRooms
    PROVE  /\ LiveRooms[h] \in RoomState
           /\ LiveRooms[h].signal_events \in Seq(Nat)
           /\ LiveRooms[h].members \in [Roles -> Members]
           /\ \A role \in Roles :
                /\ DOMAIN LiveRooms[h].members[role] \subseteq ClientIds
                /\ LiveRooms[h].members[role] \in [DOMAIN LiveRooms[h].members[role] -> Conn]
<1>1. LiveRooms[h] \in RoomState
  BY LiveRoomsType
<1>2. \A role \in Roles : LiveRooms[h].members[role] \in Members
  BY <1>1 DEF RoomState
<1>. QED
  BY <1>1, <1>2, MembersFacts DEF RoomState

\* A room of LiveRooms replaced by another one.
LEMMA LiveRoomsExcept ==
    ASSUME RegistryTypeOK, NEW h \in DOMAIN LiveRooms, NEW r \in RoomState
    PROVE  /\ DOMAIN [LiveRooms EXCEPT ![h] = r] = DOMAIN LiveRooms
           /\ [LiveRooms EXCEPT ![h] = r] \in [DOMAIN LiveRooms -> RoomState]
BY LiveRoomsType

LEMMA WithMembersType ==
    ASSUME RegistryTypeOK, NEW h \in DOMAIN LiveRooms, NEW role \in Roles,
           NEW map \in Members
    PROVE  /\ WithMembers(LiveRooms[h], role, map) \in RoomState
           /\ WithMembers(LiveRooms[h], role, map).members =
                [LiveRooms[h].members EXCEPT ![role] = map]
<1>1. LiveRooms[h] \in RoomState
  BY LiveRoomsType
<1>2. now \in Nat
  BY ConfigAssumption DEF RegistryTypeOK
<1>3. [LiveRooms[h].members EXCEPT ![role] = map] \in [Roles -> Members]
  BY <1>1 DEF RoomState
<1>. QED
  BY <1>1, <1>2, <1>3 DEF WithMembers, RoomState

LEMMA RegisterType ==
    ASSUME RegistryTypeOK, NEW c \in Conn, NEW h \in DOMAIN LiveRooms,
           NEW role \in Roles, NEW id \in ClientIds,
           NEW counter \in next_client_id..MaxClientId,
           register(c, h, role, id, counter)
    PROVE  RegistryTypeOK'
<1> DEFINE map == MapInsert(LiveRooms[h].members[role], id, c)
           room == WithMembers(LiveRooms[h], role, map)
<1>1. map \in Members
  <2>1. /\ DOMAIN LiveRooms[h].members[role] \subseteq ClientIds
        /\ LiveRooms[h].members[role] \in [DOMAIN LiveRooms[h].members[role] -> Conn]
    BY LiveRoomFields
  <2>2. DOMAIN map \subseteq ClientIds /\ map \in [DOMAIN map -> Conn]
    BY <2>1 DEF MapInsert
  <2>. QED
    BY <2>2, MembersFacts
<1>2. room \in RoomState
  BY <1>1, WithMembersType
<1>3. Section([LiveRooms EXCEPT ![h] = room])
  BY DEF register
<1>4. next_client_id' \in 0..MaxClientId
  BY ConfigAssumption DEF register, RegistryTypeOK
<1> HIDE DEF room
<1>. QED
  BY <1>2, <1>3, <1>4, LiveRoomsType, LiveRoomsExcept, SectionType

LEMMA UnregisterType ==
    ASSUME RegistryTypeOK, NEW h, NEW role \in Roles, NEW id,
           unregister(h, role, id)
    PROVE  RegistryTypeOK'
<1>1. next_client_id' \in 0..MaxClientId
  BY DEF unregister, RegistryTypeOK
<1>2. CASE ~IsMember(h, role, id)
  BY <1>1, <1>2, LiveRoomsType, SectionType DEF unregister
<1>3. CASE IsMember(h, role, id)
  <2> DEFINE map == MapRemove(LiveRooms[h].members[role], id)
             room == WithMembers(LiveRooms[h], role, map)
             left == [LiveRooms EXCEPT ![h] = room]
  <2>1. h \in DOMAIN LiveRooms
    BY <1>3 DEF IsMember
  <2>2. map \in Members
    <3>1. /\ DOMAIN LiveRooms[h].members[role] \subseteq ClientIds
          /\ LiveRooms[h].members[role] \in [DOMAIN LiveRooms[h].members[role] -> Conn]
      BY <2>1, LiveRoomFields
    <3>2. DOMAIN map \subseteq ClientIds /\ map \in [DOMAIN map -> Conn]
      BY <3>1 DEF MapRemove
    <3>. QED
      BY <3>2, MembersFacts
  <2>3. room \in RoomState
    BY <2>1, <2>2, WithMembersType
  <2>4. Section(PrunedRooms(left))
    BY <1>3 DEF unregister
  <2> HIDE DEF room
  <2>5. DOMAIN left \subseteq Handles /\ left \in [DOMAIN left -> RoomState]
    BY <2>1, <2>3, LiveRoomsType, LiveRoomsExcept
  <2> HIDE DEF left
  <2>6. /\ DOMAIN PrunedRooms(left) \subseteq Handles
        /\ PrunedRooms(left) \in [DOMAIN PrunedRooms(left) -> RoomState]
    BY <2>5, PrunedRoomsFacts
  <2>. QED
    BY <1>1, <2>4, <2>6, SectionType
<1>. QED
  BY <1>2, <1>3

\* A signal changes the deque and the activity of its room, nothing else.
LEMMA ForwardSignalRooms ==
    ASSUME RegistryTypeOK, NEW h, forward_signal(h)
    PROVE  /\ DOMAIN rooms' = DOMAIN LiveRooms
           /\ rooms' \in [DOMAIN LiveRooms -> RoomState]
           /\ \A g \in DOMAIN LiveRooms : rooms'[g].members = LiveRooms[g].members
<1>1. CASE ~RoomKnown(h)
  BY <1>1, LiveRoomsType DEF forward_signal, Section
<1>2. CASE RoomKnown(h)
  <2>1. h \in DOMAIN LiveRooms /\ LiveRooms[h] \in RoomState
    BY <1>2, LiveRoomsType DEF RoomKnown
  <2>2. now \in Nat
    BY ConfigAssumption DEF RegistryTypeOK
  <2>3. SignalEvents(h) \in Seq(Nat) /\ Append(SignalEvents(h), now) \in Seq(Nat)
    <3>1. SignalEvents(h) \in Seq(Nat)
      BY <2>1, LiveRoomFields, PruneWindowType DEF SignalEvents
    <3>. QED
      BY <3>1, <2>2
  <2>4. PICK r \in RoomState :
            /\ r.members = LiveRooms[h].members
            /\ rooms' = [LiveRooms EXCEPT ![h] = r]
    <3>1. CASE SignalAdmitted(h)
      <4> DEFINE r == [LiveRooms[h] EXCEPT !.signal_events = Append(SignalEvents(h), now),
                                           !.last_active_at = now]
      <4>1. r \in RoomState /\ r.members = LiveRooms[h].members
        BY <2>1, <2>2, <2>3 DEF RoomState
      <4>2. rooms' = [LiveRooms EXCEPT ![h] = r]
        BY <1>2, <2>1, <3>1 DEF forward_signal, Section
      <4>. QED
        BY <4>1, <4>2
    <3>2. CASE ~SignalAdmitted(h)
      <4> DEFINE r == [LiveRooms[h] EXCEPT !.signal_events = SignalEvents(h)]
      <4>1. r \in RoomState /\ r.members = LiveRooms[h].members
        BY <2>1, <2>3 DEF RoomState
      <4>2. rooms' = [LiveRooms EXCEPT ![h] = r]
        BY <1>2, <2>1, <3>2 DEF forward_signal, Section
      <4>. QED
        BY <4>1, <4>2
    <3>. QED
      BY <3>1, <3>2
  <2>. QED
    BY <2>1, <2>4, LiveRoomsType
<1>. QED
  BY <1>1, <1>2

LEMMA ForwardSignalType ==
    ASSUME RegistryTypeOK, NEW h, forward_signal(h)
    PROVE  RegistryTypeOK'
<1>1. auth_events_by_ip' \in [IPs -> Seq(Nat)] /\ UNCHANGED <<now, next_client_id>>
  BY PrunedAuthEventsType DEF forward_signal, Section
<1>. QED
  BY <1>1, ForwardSignalRooms, LiveRoomsType DEF RegistryTypeOK

(***************************************************************************)
(* Type correctness of the tasks.                                          *)
(***************************************************************************)
TasksTypeOK ==
    /\ phase \in [Conn -> Phases]
    /\ session \in [Conn -> Session]
    /\ todo \in [Conn -> SUBSET Sends]
    /\ outbound \in [Conn -> Seq(Messages)]
    /\ \A c \in Conn : Len(outbound[c]) <= QueueCapacity
    /\ sending \in [Conn -> {<<>>} \cup {<<m>> : m \in Messages}]
    /\ penalized \in [Conn -> BOOLEAN]
    /\ view \in [Conn -> [greeted : BOOLEAN, peers : SUBSET ClientIds]]

LEMMA NoSessionType == NoSession \in Session
BY ServerAssumption DEF NoSession, Session, Roles, NoId, NoAlias

LEMMA MessageTypes ==
    /\ Reply \in Messages
    /\ \A peers \in SUBSET ClientIds : Connected(peers) \in Messages
    /\ \A id \in ClientIds :
           PeerJoined(id) \in Messages /\ PeerLeft(id) \in Messages /\ Signal(id) \in Messages
BY DEF Messages

LEMMA AnnounceType ==
    ASSUME NEW msg \in Messages, NEW audience \in SUBSET Conn
    PROVE  Announce(msg, audience) \in SUBSET Sends
BY DEF Announce, Sends

LEMMA AudienceType ==
    ASSUME RegistryTypeOK, NEW h \in DOMAIN LiveRooms, NEW role \in Roles
    PROVE  Audience(h, role) \in SUBSET Conn
BY LiveRoomFields, RoleFacts DEF Audience

LEMMA DropType ==
    ASSUME TasksTypeOK, NEW c \in Conn, Drop(c)
    PROVE  TasksTypeOK'
<1>1. Len(<<>>) = 0 /\ QueueCapacity \in Nat
  BY ServerAssumption
<1>2. phase' \in [Conn -> Phases] /\ session' \in [Conn -> Session]
  BY NoSessionType DEF Drop, Goto, TasksTypeOK, Phases
<1>3. outbound' \in [Conn -> Seq(Messages)] /\ \A d \in Conn : Len(outbound'[d]) <= QueueCapacity
  BY <1>1 DEF Drop, TasksTypeOK
<1>4. sending' \in [Conn -> {<<>>} \cup {<<m>> : m \in Messages}]
  BY DEF Drop, TasksTypeOK
<1>5. penalized' \in [Conn -> BOOLEAN]
  BY DEF Drop, TasksTypeOK
<1>6. view' \in [Conn -> [greeted : BOOLEAN, peers : SUBSET ClientIds]]
  BY DEF Drop, TasksTypeOK, NoView
<1>. QED
  BY <1>2, <1>3, <1>4, <1>5, <1>6 DEF Drop, TasksTypeOK

LEMMA EnqueueType ==
    ASSUME TasksTypeOK, NEW to \in Conn, NEW msg \in Messages, Enqueue(to, msg)
    PROVE  /\ outbound' \in [Conn -> Seq(Messages)]
           /\ \A d \in Conn : Len(outbound'[d]) <= QueueCapacity
<1>1. QueueCapacity \in Nat
  BY ServerAssumption
<1>2. CASE QueueOpen(to) /\ ~IsFull(to)
  <2>1. outbound[to] \in Seq(Messages) /\ Len(outbound[to]) \in Nat
    BY LenProperties DEF TasksTypeOK
  <2>2. /\ Append(outbound[to], msg) \in Seq(Messages)
        /\ Len(Append(outbound[to], msg)) = Len(outbound[to]) + 1
    BY <2>1
  <2>3. Len(Append(outbound[to], msg)) <= QueueCapacity
    BY <1>1, <1>2, <2>1, <2>2 DEF IsFull
  <2>. QED
    BY <1>2, <2>2, <2>3 DEF Enqueue, TasksTypeOK
<1>3. CASE ~(QueueOpen(to) /\ ~IsFull(to))
  BY <1>3 DEF Enqueue, TasksTypeOK
<1>. QED
  BY <1>2, <1>3

LEMMA PenalizeType ==
    ASSUME TasksTypeOK, NEW to \in Conn, Penalize(to)
    PROVE  penalized' \in [Conn -> BOOLEAN]
BY DEF Penalize, TasksTypeOK

LEMMA LearnType ==
    ASSUME NEW v \in [greeted : BOOLEAN, peers : SUBSET ClientIds], NEW msg \in Messages
    PROVE  Learn(v, msg) \in [greeted : BOOLEAN, peers : SUBSET ClientIds]
<1>1. CASE \E peers \in SUBSET ClientIds : msg = Connected(peers)
  BY <1>1 DEF Learn, Connected
<1>2. CASE \E id \in ClientIds : msg = PeerJoined(id)
  BY <1>2 DEF Learn, PeerJoined
<1>3. CASE \E id \in ClientIds : msg = PeerLeft(id)
  BY <1>3 DEF Learn, PeerLeft
<1>4. CASE \E id \in ClientIds : msg = Signal(id)
  BY <1>4 DEF Learn, Signal
<1>5. CASE msg = Reply
  BY <1>5 DEF Learn, Reply
<1>. QED
  BY <1>1, <1>2, <1>3, <1>4, <1>5 DEF Messages

LEMMA SessionFields ==
    ASSUME TasksTypeOK, NEW c \in Conn
    PROVE  /\ session[c] \in Session
           /\ session[c].role \in Roles
           /\ session[c].room \in Handles
           /\ session[c].id \in ClientIds \cup {NoId}
BY DEF TasksTypeOK, Session

\* A step that only moves task c along, possibly with another session.
LEMMA GotoType ==
    ASSUME TasksTypeOK, NEW c \in Conn, NEW p \in Phases, Goto(c, p),
           session' \in [Conn -> Session], UNCHANGED channels
    PROVE  TasksTypeOK'
BY DEF Goto, channels, TasksTypeOK

LEMMA TypeHandshake ==
    ASSUME RegistryTypeOK, TasksTypeOK, NEW c \in Conn, Handshake(c)
    PROVE  RegistryTypeOK' /\ TasksTypeOK'
<1>2. UNCHANGED registry => RegistryTypeOK'
  BY DEF registry, RegistryTypeOK
<1>3. UNCHANGED session => session' \in [Conn -> Session]
  BY DEF TasksTypeOK
<1>4. ASSUME NEW role \in Roles, NEW h \in Handles, NEW alias \in Aliases \cup {NoAlias},
             PakeInit(c, role, h, alias)
      PROVE  RegistryTypeOK' /\ TasksTypeOK'
  <2> DEFINE known == [session[c] EXCEPT !.role = role, !.room = h,
                          !.alias = IF role = "agent" THEN alias ELSE NoAlias]
             stays == [session EXCEPT ![c] = known]
  <2>1. RegistryTypeOK'
    BY <1>4, LookType DEF PakeInit
  <2>2. stays \in [Conn -> Session]
    <3>1. known \in Session
      BY SessionFields DEF Session
    <3> HIDE DEF known
    <3>. QED
      BY <3>1 DEF TasksTypeOK
  <2>3. CASE Drop(c)
    BY <2>1, <2>3, DropType
  <2>4. ASSUME NEW p \in {"finalization", "capacity"}, Goto(c, p), session' = stays, UNCHANGED channels
        PROVE  RegistryTypeOK' /\ TasksTypeOK'
    <3>1. p \in Phases
      BY DEF Phases, AuthPhases
    <3>. QED
      BY <2>1, <2>2, <2>4, <3>1, GotoType
  <2>. QED
    BY <1>4, <2>3, <2>4 DEF PakeInit
<1>5. CASE EnsureRoomCapacity(c)
  <2>1. RegistryTypeOK'
    BY <1>5, LookType DEF EnsureRoomCapacity
  <2>2. "registration" \in Phases
    BY DEF Phases, AuthPhases
  <2>. QED
    BY <1>3, <1>5, <2>1, <2>2, DropType, GotoType DEF EnsureRoomCapacity
<1>6. CASE PakeRegistration(c)
  <2>1. "finalization" \in Phases
    BY DEF Phases, AuthPhases
  <2>2. session' \in [Conn -> Session]
    BY <1>6 DEF PakeRegistration, TasksTypeOK, Session
  <2>. QED
    BY <1>2, <1>6, <2>1, <2>2, GotoType DEF PakeRegistration
<1>7. CASE PakeCredentialFinalization(c)
  <2>1. "authenticated" \in Phases
    BY DEF Phases
  <2>2. RegistryTypeOK'
    BY <1>2, <1>7, StoreRoomType, SessionFields DEF PakeCredentialFinalization
  <2>. QED
    BY <1>3, <1>7, <2>1, <2>2, DropType, GotoType DEF PakeCredentialFinalization
<1>8. CASE AuthAbort(c)
  BY <1>2, <1>8, DropType DEF AuthAbort
<1>. QED
  BY <1>4, <1>5, <1>6, <1>7, <1>8 DEF Handshake

LEMMA TypeRegister ==
    ASSUME RegistryTypeOK, TasksTypeOK, NEW c \in Conn, Register(c)
    PROVE  RegistryTypeOK' /\ TasksTypeOK'
<1> DEFINE s == session[c]
<1>1. RegistryTypeOK /\ TasksTypeOK /\ s.role \in Roles /\ s.room \in DOMAIN LiveRooms
  BY SessionFields DEF Register, RoomKnown
<1>2. PICK counter \in next_client_id..MaxClientId, id \in ClientIds :
          /\ register(c, s.room, s.role, id, counter)
          /\ session' = [session EXCEPT ![c].id = id]
          /\ todo' = [todo EXCEPT ![c] =
                 {[to |-> c,
                   msg |-> Connected(DOMAIN LiveRooms[s.room].members[Opposite(s.role)])]}
                 \cup Announce(PeerJoined(id), Audience(s.room, s.role))]
  BY DEF Register
<1>3. RegistryTypeOK'
  BY <1>1, <1>2, RegisterType
<1>4. session' \in [Conn -> Session]
  <2>1. [session[c] EXCEPT !.id = id] \in Session
    BY SessionFields DEF Session
  <2>2. session' = [session EXCEPT ![c] = [session[c] EXCEPT !.id = id]]
    BY <1>2
  <2>. QED
    BY <2>1, <2>2 DEF TasksTypeOK
<1>5. todo' \in [Conn -> SUBSET Sends]
  <2>1. Announce(PeerJoined(id), Audience(s.room, s.role)) \in SUBSET Sends
    BY <1>1, MessageTypes, AudienceType, AnnounceType
  <2>2. DOMAIN LiveRooms[s.room].members[Opposite(s.role)] \in SUBSET ClientIds
    BY <1>1, RoleFacts, LiveRoomFields
  <2>3. [to |-> c, msg |-> Connected(DOMAIN LiveRooms[s.room].members[Opposite(s.role)])] \in Sends
    BY <2>2, MessageTypes DEF Sends
  <2>. QED
    BY <1>1, <1>2, <2>1, <2>3 DEF TasksTypeOK
<1>6. phase' \in [Conn -> Phases]
  BY <1>1 DEF Register, Goto, TasksTypeOK, Phases, Registered
<1>. QED
  BY <1>1, <1>3, <1>4, <1>5, <1>6 DEF Register, TasksTypeOK

LEMMA TypeTrySend ==
    ASSUME RegistryTypeOK, TasksTypeOK, NEW c \in Conn, TrySend(c)
    PROVE  RegistryTypeOK' /\ TasksTypeOK'
<1>1. PICK m \in NextSends(c) :
          /\ Enqueue(m.to, m.msg)
          /\ Penalize(m.to)
          /\ todo' = [todo EXCEPT ![c] = @ \ {m}]
          /\ IF m.msg = Reply /\ IsFull(c) THEN Goto(c, "closing") ELSE UNCHANGED phase
  BY DEF TrySend
<1>2. m \in todo[c] /\ m \in Sends /\ m.to \in Conn /\ m.msg \in Messages
  BY DEF NextSends, TasksTypeOK, Sends
<1>3. /\ outbound' \in [Conn -> Seq(Messages)]
      /\ \A d \in Conn : Len(outbound'[d]) <= QueueCapacity
      /\ penalized' \in [Conn -> BOOLEAN]
  BY <1>1, <1>2, EnqueueType, PenalizeType
<1>4. todo' \in [Conn -> SUBSET Sends]
  BY <1>1 DEF TasksTypeOK
<1>5. phase' \in [Conn -> Phases]
  BY <1>1 DEF Goto, TasksTypeOK, Phases, Registered
<1>6. RegistryTypeOK'
  BY DEF TrySend, registry, RegistryTypeOK
<1>. QED
  BY <1>3, <1>4, <1>5, <1>6 DEF TrySend, TasksTypeOK

LEMMA TypeSignalFrame ==
    ASSUME RegistryTypeOK, TasksTypeOK, NEW c \in Conn, NEW peer \in ClientIds, SignalFrame(c, peer),
           session[c].id \in ClientIds
    PROVE  RegistryTypeOK' /\ TasksTypeOK'
<1> DEFINE s == session[c]
<1>1. RegistryTypeOK'
  BY ForwardSignalType DEF SignalFrame
<1>2. Announce(Reply, {c}) \in SUBSET Sends
  BY MessageTypes, AnnounceType
<1>3. ASSUME SignalForwarded(s.room, s.id, peer)
      PROVE  Announce(Signal(s.id), {SignalTarget(s.room, peer)}) \in SUBSET Sends
  <2>1. s.room \in DOMAIN LiveRooms
    BY <1>3 DEF SignalForwarded, SignalAdmitted, RoomKnown
  <2>2. /\ MemberRole(LiveRooms[s.room], peer) \in Roles
        /\ peer \in DOMAIN LiveRooms[s.room].members[MemberRole(LiveRooms[s.room], peer)]
    BY <1>3 DEF SignalForwarded, MemberRole, Roles
  <2>3. SignalTarget(s.room, peer) \in Conn
    BY <2>1, <2>2, LiveRoomFields DEF SignalTarget
  <2>. QED
    BY <2>3, MessageTypes, AnnounceType
<1>4. todo' \in [Conn -> SUBSET Sends]
  BY <1>2, <1>3 DEF SignalFrame, TasksTypeOK
<1>. QED
  BY <1>1, <1>4 DEF SignalFrame, TasksTypeOK

LEMMA TypeRuntime ==
    ASSUME RegistryTypeOK, TasksTypeOK, NEW c \in Conn, Runtime(c)
    PROVE  RegistryTypeOK' /\ TasksTypeOK'
<1>1. UNCHANGED registry => RegistryTypeOK'
  BY DEF registry, RegistryTypeOK
<1>2. UNCHANGED session => session' \in [Conn -> Session]
  BY DEF TasksTypeOK
<1>3. "closing" \in Phases /\ "leaving" \in Phases
  BY DEF Phases, Registered
<1>4. CASE Register(c)
  BY <1>4, TypeRegister
<1>5. CASE RegisterFails(c)
  BY <1>5, LookType, DropType DEF RegisterFails
<1>6. CASE TrySend(c)
  BY <1>6, TypeTrySend
<1>7. CASE PenaltyTick(c) \/ Disconnect(c)
  BY <1>1, <1>2, <1>3, <1>7, GotoType DEF PenaltyTick, Disconnect
<1>8. CASE SendOutbound(c)
  <2>1. outbound[c] \in Seq(Messages) /\ outbound[c] # <<>>
    BY <1>8 DEF SendOutbound, TasksTypeOK
  <2>2. /\ Head(outbound[c]) \in Messages
        /\ Tail(outbound[c]) \in Seq(Messages)
        /\ Len(Tail(outbound[c])) = Len(outbound[c]) - 1
        /\ Len(outbound[c]) \in Nat
    BY <2>1, HeadTailProperties, LenProperties
  <2>3. Len(Tail(outbound[c])) <= QueueCapacity
    BY <2>2, ServerAssumption DEF TasksTypeOK
  <2>4. /\ outbound' \in [Conn -> Seq(Messages)]
        /\ \A d \in Conn : Len(outbound'[d]) <= QueueCapacity
    BY <1>8, <2>2, <2>3 DEF SendOutbound, TasksTypeOK
  <2>5. sending' \in [Conn -> {<<>>} \cup {<<m>> : m \in Messages}]
    BY <1>8, <2>2 DEF SendOutbound, TasksTypeOK
  <2>. QED
    BY <1>1, <1>8, <2>4, <2>5 DEF SendOutbound, TasksTypeOK
<1>9. CASE SendCompletes(c)
  <2>1. PICK m \in Messages : sending[c] = <<m>>
    BY <1>9 DEF SendCompletes, TasksTypeOK
  <2>2. Learn(view[c], m) \in [greeted : BOOLEAN, peers : SUBSET ClientIds]
    BY LearnType DEF TasksTypeOK
  <2>3. view' = [view EXCEPT ![c] = Learn(view[c], m)]
    BY <1>9, <2>1 DEF SendCompletes
  <2>4. view' \in [Conn -> [greeted : BOOLEAN, peers : SUBSET ClientIds]]
    BY <2>2, <2>3 DEF TasksTypeOK
  <2>5. sending' \in [Conn -> {<<>>} \cup {<<n>> : n \in Messages}]
    BY <1>9 DEF SendCompletes, TasksTypeOK
  <2>. QED
    BY <1>1, <1>9, <2>4, <2>5 DEF SendCompletes, TasksTypeOK
<1>10. CASE SendFails(c)
  <2>1. sending' \in [Conn -> {<<>>} \cup {<<m>> : m \in Messages}]
    BY <1>10 DEF SendFails, TasksTypeOK
  <2>2. phase' \in [Conn -> Phases]
    BY <1>3, <1>10 DEF SendFails, Goto, TasksTypeOK
  <2>. QED
    BY <1>1, <1>10, <2>1, <2>2 DEF SendFails, TasksTypeOK
<1>11. CASE AnswerFrame(c)
  <2>1. /\ outbound' \in [Conn -> Seq(Messages)]
        /\ \A d \in Conn : Len(outbound'[d]) <= QueueCapacity
        /\ penalized' \in [Conn -> BOOLEAN]
    BY <1>11, MessageTypes, EnqueueType, PenalizeType DEF AnswerFrame
  <2>2. phase' \in [Conn -> Phases]
    BY <1>3, <1>11 DEF AnswerFrame, Goto, TasksTypeOK
  <2>. QED
    BY <1>1, <1>11, <2>1, <2>2 DEF AnswerFrame, TasksTypeOK
<1>12. CASE Unregister(c)
  <2> DEFINE s == session[c]
  <2>1. RegistryTypeOK'
    BY <1>12, SessionFields, UnregisterType DEF Unregister
  <2>2. ASSUME IsMember(s.room, s.role, s.id)
        PROVE  Announce(PeerLeft(s.id), Audience(s.room, s.role)) \in SUBSET Sends
    <3>1. s.room \in DOMAIN LiveRooms /\ s.role \in Roles /\ s.id \in ClientIds
      BY <2>2, SessionFields, LiveRoomFields DEF IsMember
    <3>. QED
      BY <3>1, MessageTypes, AudienceType, AnnounceType
  <2>3. todo' \in [Conn -> SUBSET Sends]
    BY <1>12, <2>2 DEF Unregister, TasksTypeOK
  <2>4. phase' \in [Conn -> Phases]
    BY <1>3, <1>12 DEF Unregister, Goto, TasksTypeOK
  <2>. QED
    BY <1>12, <2>1, <2>3, <2>4 DEF Unregister, TasksTypeOK
<1>13. CASE Return(c)
  BY <1>1, <1>13, DropType DEF Return
<1>. QED
  BY <1>4, <1>5, <1>6, <1>7, <1>8, <1>9, <1>10, <1>11, <1>12, <1>13 DEF Runtime, Listening

LEMMA TypeAccept ==
    ASSUME RegistryTypeOK, TasksTypeOK, NEW c \in Conn, NEW ip \in IPs, Accept(c, ip)
    PROVE  RegistryTypeOK' /\ TasksTypeOK'
<1>1. RegistryTypeOK'
  BY CheckAuthType DEF Accept
<1>2. phase' \in [Conn -> Phases]
  BY DEF Accept, Goto, TasksTypeOK, Phases, AuthPhases
<1>. QED
  BY <1>1, <1>2 DEF Accept, channels, TasksTypeOK

(***************************************************************************)
(* The registry and the connections agree.                                 *)
(***************************************************************************)
\* A step that leaves the members of every occupied room alone, creates no
\* occupied room and keeps the registered connections as they are.
LEMMA QuietStep ==
    ASSUME RegistryTypeOK, TasksTypeOK, RegistryInv,
           \A h \in DOMAIN rooms' :
               \/ OccupiedIds(rooms'[h]) = {}
               \/ h \in DOMAIN rooms /\ rooms'[h].members = rooms[h].members,
           \A h \in DOMAIN rooms : OccupiedIds(rooms[h]) # {} =>
               h \in DOMAIN rooms' /\ rooms'[h].members = rooms[h].members,
           \A d \in Conn : phase'[d] \in Registered <=> phase[d] \in Registered,
           \A d \in Conn : phase[d] \in Registered => session'[d] = session[d]
    PROVE  RegistryInv'
<1>1. \A h \in DOMAIN rooms, role \in Roles : \A id \in DOMAIN rooms[h].members[role] :
          rooms[h].members[role][id] \in Conn
  <2>1. \A h \in DOMAIN rooms, role \in Roles : rooms[h].members[role] \in Members
    BY DEF RegistryTypeOK, RoomState
  <2>. QED
    BY <2>1, MembersFacts
<1>2. \A h \in DOMAIN rooms' : OccupiedIds(rooms'[h]) = {} =>
          \A role \in Roles : DOMAIN rooms'[h].members[role] = {}
  BY DEF OccupiedIds
<1>3. NoStaleHandle'
  BY <1>1, <1>2 DEF RegistryInv, NoStaleHandle
<1>4. NoLostMember'
  <2> SUFFICES ASSUME NEW d \in Conn, phase'[d] \in Registered
               PROVE  /\ session'[d].room \in DOMAIN rooms'
                      /\ session'[d].id \in DOMAIN rooms'[session'[d].room].members[session'[d].role]
                      /\ rooms'[session'[d].room].members[session'[d].role][session'[d].id] = d
    BY DEF NoLostMember
  <2> DEFINE s == session[d]
  <2>1. /\ session'[d] = s
        /\ s.room \in DOMAIN rooms
        /\ s.id \in DOMAIN rooms[s.room].members[s.role]
        /\ rooms[s.room].members[s.role][s.id] = d
    BY DEF RegistryInv, NoLostMember
  <2>2. s.role \in Roles
    BY SessionFields
  <2>3. OccupiedIds(rooms[s.room]) # {}
    BY <2>1, <2>2 DEF OccupiedIds
  <2>. QED
    BY <2>1, <2>3
<1>5. IdsNameOneMember'
  BY <1>2 DEF RegistryInv, IdsNameOneMember, Roles
<1>. QED
  BY <1>3, <1>4, <1>5 DEF RegistryInv

\* The rooms a step may leave without touching anybody's membership.
QuietRooms ==
    /\ \A h \in DOMAIN rooms' :
           \/ OccupiedIds(rooms'[h]) = {}
           \/ h \in DOMAIN rooms /\ rooms'[h].members = rooms[h].members
    /\ \A h \in DOMAIN rooms : OccupiedIds(rooms[h]) # {} =>
           h \in DOMAIN rooms' /\ rooms'[h].members = rooms[h].members

LEMMA LiveRoomsQuiet ==
    ASSUME rooms' = LiveRooms \/ rooms' = rooms
    PROVE  QuietRooms
BY PrunedRoomsFacts DEF QuietRooms, LiveRooms

LEMMA StoreRoomQuiet ==
    ASSUME RegistryTypeOK, NEW h \in Handles, store_room(h)
    PROVE  QuietRooms
<1>1. CASE CanStore(h)
  <2>1. h \notin DOMAIN LiveRooms
    BY <1>1 DEF CanStore, RoomKnown
  <2>2. rooms' = MapInsert(LiveRooms, h, NewRoom)
    BY <1>1 DEF store_room, Section
  <2>3. /\ DOMAIN rooms' = DOMAIN LiveRooms \cup {h}
        /\ rooms'[h] = NewRoom
        /\ \A g \in DOMAIN LiveRooms : rooms'[g] = LiveRooms[g]
    BY <2>1, <2>2 DEF MapInsert
  <2>. QED
    BY <2>3, NewRoomType, PrunedRoomsFacts DEF QuietRooms, LiveRooms
<1>2. CASE ~CanStore(h)
  BY <1>2, LiveRoomsQuiet DEF store_room, Section
<1>. QED
  BY <1>1, <1>2

LEMMA ForwardSignalQuiet ==
    ASSUME RegistryTypeOK, NEW h, forward_signal(h)
    PROVE  QuietRooms
BY ForwardSignalRooms, PrunedRoomsFacts DEF QuietRooms, LiveRooms

\* The tasks of a step that neither registers nor unregisters anybody.
QuietTasks ==
    /\ \A d \in Conn : phase'[d] \in Registered <=> phase[d] \in Registered
    /\ \A d \in Conn : phase[d] \in Registered => session'[d] = session[d]

LEMMA QuietInv ==
    ASSUME RegistryTypeOK, TasksTypeOK, RegistryInv, QuietRooms, QuietTasks
    PROVE  RegistryInv'
BY QuietStep DEF QuietRooms, QuietTasks

LEMMA DropQuiet ==
    ASSUME TasksTypeOK, NEW c \in Conn, phase[c] \notin Registered, Drop(c)
    PROVE  QuietTasks
BY DEF Drop, Goto, QuietTasks, TasksTypeOK, Registered

LEMMA GotoQuiet ==
    ASSUME TasksTypeOK, NEW c \in Conn, NEW p, Goto(c, p),
           p \in Registered <=> phase[c] \in Registered,
           \A d \in Conn : d # c \/ phase[c] \in Registered => session'[d] = session[d]
    PROVE  QuietTasks
BY DEF Goto, QuietTasks, TasksTypeOK

\* A handshake neither registers nor unregisters anybody.
LEMMA QuietHandshake ==
    ASSUME RegistryTypeOK, TasksTypeOK, NEW c \in Conn, Handshake(c)
    PROVE  QuietRooms /\ QuietTasks
<1>1. AuthPhases \cap Registered = {} /\ "authenticated" \notin Registered
  BY DEF AuthPhases, Registered
<1>2. UNCHANGED registry => QuietRooms
  BY LiveRoomsQuiet DEF registry
<1>3. Look => QuietRooms
  BY LiveRoomsQuiet DEF Look, Section
<1>4. ASSUME NEW role \in Roles, NEW h \in Handles, NEW alias \in Aliases \cup {NoAlias},
             PakeInit(c, role, h, alias)
      PROVE  QuietRooms /\ QuietTasks
  <2>1. phase[c] \notin Registered
    BY <1>4 DEF PakeInit, Registered
  <2>2. CASE Drop(c)
    BY <1>3, <1>4, <2>1, <2>2, DropQuiet DEF PakeInit
  <2>3. ASSUME NEW p \in {"finalization", "capacity"}, NEW r, Goto(c, p),
               session' = [session EXCEPT ![c] = r]
        PROVE  QuietRooms /\ QuietTasks
    <3>1. p \notin Registered
      BY DEF Registered
    <3>2. \A d \in Conn : d # c => session'[d] = session[d]
      BY <2>3 DEF TasksTypeOK
    <3>. QED
      BY <1>3, <1>4, <2>1, <2>3, <3>1, <3>2, GotoQuiet DEF PakeInit
  <2>. QED
    BY <1>4, <2>2, <2>3 DEF PakeInit
<1>5. CASE EnsureRoomCapacity(c)
  <2>1. phase[c] \notin Registered /\ "registration" \notin Registered
    BY <1>5 DEF EnsureRoomCapacity, Registered
  <2>. QED
    BY <1>3, <1>5, <2>1, DropQuiet, GotoQuiet DEF EnsureRoomCapacity
<1>6. CASE PakeRegistration(c)
  <2>1. phase[c] \notin Registered /\ "finalization" \notin Registered
    BY <1>6 DEF PakeRegistration, Registered
  <2>2. \A d \in Conn : d # c => session'[d] = session[d]
    BY <1>6 DEF PakeRegistration, TasksTypeOK
  <2>. QED
    BY <1>2, <1>6, <2>1, <2>2, GotoQuiet DEF PakeRegistration
<1>7. CASE PakeCredentialFinalization(c)
  <2>1. phase[c] \notin Registered /\ "authenticated" \notin Registered
    BY <1>7 DEF PakeCredentialFinalization, Registered
  <2>2. QuietRooms
    BY <1>2, <1>7, SessionFields, StoreRoomQuiet DEF PakeCredentialFinalization
  <2>. QED
    BY <1>7, <2>1, <2>2, DropQuiet, GotoQuiet DEF PakeCredentialFinalization
<1>8. CASE AuthAbort(c)
  BY <1>1, <1>2, <1>8, DropQuiet DEF AuthAbort
<1>. QED
  BY <1>4, <1>5, <1>6, <1>7, <1>8 DEF Handshake

LEMMA InvHandshake ==
    ASSUME RegistryTypeOK, TasksTypeOK, RegistryInv, NEW c \in Conn, Handshake(c)
    PROVE  RegistryInv'
BY QuietHandshake, QuietInv

\* A registered connection's room is occupied, hence live.
LEMMA RegisteredLive ==
    ASSUME TasksTypeOK, RegistryInv, NEW d \in Conn, phase[d] \in Registered
    PROVE  LET s == session[d] IN
           /\ s.room \in DOMAIN LiveRooms
           /\ LiveRooms[s.room] = rooms[s.room]
           /\ s.id \in DOMAIN LiveRooms[s.room].members[s.role]
           /\ LiveRooms[s.room].members[s.role][s.id] = d
<1> DEFINE s == session[d]
<1>1. /\ s.room \in DOMAIN rooms
      /\ s.id \in DOMAIN rooms[s.room].members[s.role]
      /\ rooms[s.room].members[s.role][s.id] = d
      /\ s.role \in Roles
  BY SessionFields DEF RegistryInv, NoLostMember
<1>2. OccupiedIds(rooms[s.room]) # {}
  BY <1>1 DEF OccupiedIds
<1>. QED
  BY <1>1, <1>2, PrunedRoomsFacts DEF LiveRooms

(* The registry `after`, which is LiveRooms with one map of one room       *)
(* replaced.                                                               *)
Placed(after, h, role, map) ==
    /\ DOMAIN after = DOMAIN LiveRooms
    /\ after[h].members[role] = map
    /\ \A r \in Roles : r # role => after[h].members[r] = LiveRooms[h].members[r]
    /\ \A g \in DOMAIN LiveRooms : g # h => after[g] = LiveRooms[g]

\* The members of the rooms after the handle of one connection came or went.
LEMMA WithMembersRooms ==
    ASSUME RegistryTypeOK, NEW h \in DOMAIN LiveRooms, NEW role \in Roles,
           NEW map \in Members, NEW after,
           after = [LiveRooms EXCEPT ![h] = WithMembers(LiveRooms[h], role, map)]
    PROVE  Placed(after, h, role, map)
<1>1. DOMAIN after = DOMAIN LiveRooms /\ after[h] = WithMembers(LiveRooms[h], role, map)
  BY LiveRoomsType
<1>2. \A g \in DOMAIN LiveRooms : g # h => after[g] = LiveRooms[g]
  BY LiveRoomsType
<1>3. after[h].members = [LiveRooms[h].members EXCEPT ![role] = map]
  BY <1>1, WithMembersType
<1>4. LiveRooms[h].members \in [Roles -> Members]
  BY LiveRoomFields
<1>. QED
  BY <1>1, <1>2, <1>3, <1>4 DEF Placed

LEMMA InvRegister ==
    ASSUME RegistryTypeOK, TasksTypeOK, RegistryInv, NEW c \in Conn, Register(c)
    PROVE  RegistryInv'
<1> DEFINE h == session[c].room
           role == session[c].role
           m == LiveRooms[h].members[role]
<1>1. h \in DOMAIN LiveRooms /\ role \in Roles /\ phase[c] = "authenticated"
  BY SessionFields DEF Register, RoomKnown
<1>2. PICK counter \in next_client_id..MaxClientId, id \in ClientIds :
          /\ ChosenId(h, role, session[c].alias, id, counter)
          /\ register(c, h, role, id, counter)
          /\ session' = [session EXCEPT ![c].id = id]
  BY DEF Register
<1>3. id \notin OccupiedIds(LiveRooms[h])
  BY <1>2 DEF ChosenId
<1>4. /\ \A r \in Roles : id \notin DOMAIN LiveRooms[h].members[r]
      /\ DOMAIN m \subseteq ClientIds /\ m \in [DOMAIN m -> Conn]
  BY <1>1, <1>3, LiveRoomFields DEF OccupiedIds
<1>5. /\ DOMAIN MapInsert(m, id, c) = DOMAIN m \cup {id}
      /\ MapInsert(m, id, c)[id] = c
      /\ \A i \in DOMAIN m : MapInsert(m, id, c)[i] = m[i]
      /\ MapInsert(m, id, c) \in Members
  <2>1. /\ DOMAIN MapInsert(m, id, c) = DOMAIN m \cup {id}
        /\ MapInsert(m, id, c)[id] = c
        /\ \A i \in DOMAIN m : MapInsert(m, id, c)[i] = m[i]
        /\ MapInsert(m, id, c) \in [DOMAIN m \cup {id} -> Conn]
    BY <1>1, <1>4 DEF MapInsert
  <2>. QED
    BY <1>4, <2>1, MembersFacts
<1>6. rooms' = [LiveRooms EXCEPT ![h] = WithMembers(LiveRooms[h], role, MapInsert(m, id, c))]
  BY <1>2 DEF register, Section
<1>7. /\ DOMAIN rooms' = DOMAIN LiveRooms
      /\ rooms'[h].members[role] = MapInsert(m, id, c)
      /\ \A r \in Roles : r # role => rooms'[h].members[r] = LiveRooms[h].members[r]
      /\ \A g \in DOMAIN LiveRooms : g # h => rooms'[g] = LiveRooms[g]
  <2>1. PICK map \in Members : map = MapInsert(m, id, c)
    BY <1>5
  <2>2. PICK after : after = rooms'
    OBVIOUS
  <2>3. Placed(after, h, role, map)
    BY <1>1, <1>6, <2>1, <2>2, WithMembersRooms
  <2>. QED
    BY <2>1, <2>2, <2>3 DEF Placed
<1>8. \A g \in DOMAIN LiveRooms : g \in DOMAIN rooms /\ LiveRooms[g] = rooms[g]
  BY PrunedRoomsFacts DEF LiveRooms
<1>9. /\ phase'[c] = "running" /\ "running" \in Registered /\ phase[c] \notin Registered
      /\ session'[c].room = h /\ session'[c].role = role /\ session'[c].id = id
      /\ \A d \in Conn : d # c => phase'[d] = phase[d] /\ session'[d] = session[d]
  BY <1>1, <1>2, SessionFields DEF Register, Goto, TasksTypeOK, Registered, Session
<1>10. NoStaleHandle'
  <2> SUFFICES ASSUME NEW g \in DOMAIN rooms', NEW r \in Roles,
                      NEW i \in DOMAIN rooms'[g].members[r]
               PROVE  LET d == rooms'[g].members[r][i] IN
                      /\ phase'[d] \in Registered
                      /\ session'[d].room = g /\ session'[d].role = r /\ session'[d].id = i
    BY DEF NoStaleHandle
  <2>1. CASE g = h /\ r = role /\ i = id
    BY <1>5, <1>7, <1>9, <2>1
  <2>2. CASE ~(g = h /\ r = role /\ i = id)
    <3>1. /\ g \in DOMAIN LiveRooms
          /\ i \in DOMAIN LiveRooms[g].members[r]
          /\ rooms'[g].members[r][i] = LiveRooms[g].members[r][i]
      BY <1>5, <1>7, <2>2
    <3>2. LiveRooms[g].members[r][i] \in Conn
      BY <3>1, LiveRoomFields
    <3>3. LET d == LiveRooms[g].members[r][i] IN
          /\ phase[d] \in Registered
          /\ session[d].room = g /\ session[d].role = r /\ session[d].id = i
      BY <1>8, <3>1 DEF RegistryInv, NoStaleHandle
    <3>. QED
      BY <1>9, <3>1, <3>2, <3>3
  <2>. QED
    BY <2>1, <2>2
<1>11. NoLostMember'
  <2> SUFFICES ASSUME NEW d \in Conn, phase'[d] \in Registered
               PROVE  /\ session'[d].room \in DOMAIN rooms'
                      /\ session'[d].id \in DOMAIN rooms'[session'[d].room].members[session'[d].role]
                      /\ rooms'[session'[d].room].members[session'[d].role][session'[d].id] = d
    BY DEF NoLostMember
  <2>1. CASE d = c
    BY <1>1, <1>5, <1>7, <1>9, <2>1
  <2>2. CASE d # c
    <3>1. phase[d] \in Registered /\ session'[d] = session[d] /\ session[d].role \in Roles
      BY <1>9, <2>2, SessionFields
    <3>2. /\ session[d].room \in DOMAIN LiveRooms
          /\ session[d].id \in DOMAIN LiveRooms[session[d].room].members[session[d].role]
          /\ LiveRooms[session[d].room].members[session[d].role][session[d].id] = d
      BY <3>1, RegisteredLive
    <3>3. CASE session[d].room = h /\ session[d].role = role
      <4>1. session[d].id \in DOMAIN m /\ m[session[d].id] = d
        BY <3>2, <3>3
      <4>2. rooms'[session[d].room].members[session[d].role] = MapInsert(m, id, c)
        BY <1>7, <3>3
      <4>3. /\ session[d].id \in DOMAIN MapInsert(m, id, c)
            /\ MapInsert(m, id, c)[session[d].id] = d
        BY <1>5, <4>1
      <4>. QED
        BY <1>1, <1>7, <3>1, <3>3, <4>2, <4>3
    <3>4. CASE ~(session[d].room = h /\ session[d].role = role)
      <4>1. rooms'[session[d].room].members[session[d].role]
              = LiveRooms[session[d].room].members[session[d].role]
        BY <1>7, <3>1, <3>2, <3>4
      <4>. QED
        BY <1>7, <3>1, <3>2, <4>1
    <3>. QED
      BY <3>3, <3>4
  <2>. QED
    BY <2>1, <2>2
<1>12. IdsNameOneMember'
  <2>1. \A g \in DOMAIN LiveRooms :
            DOMAIN LiveRooms[g].members["agent"] \cap DOMAIN LiveRooms[g].members["zookeeper"] = {}
    BY <1>8 DEF RegistryInv, IdsNameOneMember
  <2>2. Roles = {"agent", "zookeeper"}
    BY DEF Roles
  <2>3. DOMAIN rooms'[h].members["agent"] \cap DOMAIN rooms'[h].members["zookeeper"] = {}
    <3>1. DOMAIN rooms'[h].members[role] = DOMAIN m \cup {id}
      BY <1>5, <1>7
    <3>2. CASE role = "agent"
      <4>1. DOMAIN rooms'[h].members["zookeeper"] = DOMAIN LiveRooms[h].members["zookeeper"]
        BY <1>7, <2>2, <3>2
      <4>2. id \notin DOMAIN LiveRooms[h].members["zookeeper"]
        BY <1>4, <2>2
      <4>. QED
        BY <1>1, <2>1, <3>1, <3>2, <4>1, <4>2
    <3>3. CASE role = "zookeeper"
      <4>1. DOMAIN rooms'[h].members["agent"] = DOMAIN LiveRooms[h].members["agent"]
        BY <1>7, <2>2, <3>3
      <4>2. id \notin DOMAIN LiveRooms[h].members["agent"]
        BY <1>4, <2>2
      <4>. QED
        BY <1>1, <2>1, <3>1, <3>3, <4>1, <4>2
    <3>. QED
      BY <1>1, <2>2, <3>2, <3>3
  <2>. QED
    BY <1>7, <2>1, <2>3 DEF IdsNameOneMember
<1>. QED
  BY <1>10, <1>11, <1>12 DEF RegistryInv

\* Unregister: the entry that goes is the connection's own, and the second
\* pruning spares every room that still has a member.
LEMMA InvUnregister ==
    ASSUME RegistryTypeOK, TasksTypeOK, RegistryInv, NEW c \in Conn, Unregister(c)
    PROVE  RegistryInv'
<1> DEFINE h == session[c].room
           role == session[c].role
           id == session[c].id
           m == LiveRooms[h].members[role]
<1>0. PICK mid : mid = [LiveRooms EXCEPT ![h] = WithMembers(LiveRooms[h], role, MapRemove(m, id))]
  OBVIOUS
<1>1. /\ phase[c] = "closing" /\ phase[c] \in Registered /\ role \in Roles
      /\ h \in DOMAIN LiveRooms /\ id \in DOMAIN m /\ m[id] = c
  BY SessionFields, RegisteredLive DEF Unregister, Registered
<1>2. DOMAIN m \subseteq ClientIds /\ m \in [DOMAIN m -> Conn]
  BY <1>1, LiveRoomFields
<1>3. /\ DOMAIN MapRemove(m, id) = DOMAIN m \ {id}
      /\ \A i \in DOMAIN m : i # id => MapRemove(m, id)[i] = m[i]
      /\ MapRemove(m, id) \in Members
  <2>1. /\ DOMAIN MapRemove(m, id) = DOMAIN m \ {id}
        /\ \A i \in DOMAIN m : i # id => MapRemove(m, id)[i] = m[i]
        /\ MapRemove(m, id) \in [DOMAIN m \ {id} -> Conn]
    BY <1>2 DEF MapRemove
  <2>. QED
    BY <1>2, <2>1, MembersFacts
<1>4. rooms' = PrunedRooms(mid)
  BY <1>0, <1>1 DEF Unregister, unregister, IsMember, Section
<1>5. /\ DOMAIN mid = DOMAIN LiveRooms
      /\ mid[h].members[role] = MapRemove(m, id)
      /\ \A r \in Roles : r # role => mid[h].members[r] = LiveRooms[h].members[r]
      /\ \A g \in DOMAIN LiveRooms : g # h => mid[g] = LiveRooms[g]
  <2>1. PICK map \in Members : map = MapRemove(m, id)
    BY <1>3
  <2>2. h \in DOMAIN LiveRooms /\ role \in Roles
    BY <1>1
  <2>3. mid = [LiveRooms EXCEPT ![h] = WithMembers(LiveRooms[h], role, map)]
    BY <1>0, <2>1
  <2>4. Placed(mid, h, role, map)
    BY <2>2, <2>3, WithMembersRooms
  <2>. QED
    BY <2>1, <2>4 DEF Placed
<1>6. /\ DOMAIN rooms' \subseteq DOMAIN LiveRooms
      /\ \A g \in DOMAIN rooms' : rooms'[g] = mid[g]
      /\ \A g \in DOMAIN LiveRooms : OccupiedIds(mid[g]) # {} => g \in DOMAIN rooms'
  BY <1>4, <1>5, PrunedRoomsFacts
<1>7. \A g \in DOMAIN LiveRooms : g \in DOMAIN rooms /\ LiveRooms[g] = rooms[g]
  BY PrunedRoomsFacts DEF LiveRooms
<1>8. /\ phase'[c] \notin Registered
      /\ session' = session
      /\ \A d \in Conn : d # c => phase'[d] = phase[d]
  BY DEF Unregister, Goto, TasksTypeOK, Registered
<1>9. NoStaleHandle'
  <2> SUFFICES ASSUME NEW g \in DOMAIN rooms', NEW r \in Roles,
                      NEW i \in DOMAIN rooms'[g].members[r]
               PROVE  LET d == rooms'[g].members[r][i] IN
                      /\ phase'[d] \in Registered
                      /\ session'[d].room = g /\ session'[d].role = r /\ session'[d].id = i
    BY DEF NoStaleHandle
  <2>1. /\ g \in DOMAIN LiveRooms
        /\ i \in DOMAIN LiveRooms[g].members[r]
        /\ rooms'[g].members[r][i] = LiveRooms[g].members[r][i]
        /\ ~(g = h /\ r = role /\ i = id)
    <3>1. CASE g = h /\ r = role
      <4>1. rooms'[g].members[r] = MapRemove(m, id)
        BY <1>5, <1>6, <3>1
      <4>. QED
        BY <1>1, <1>3, <3>1, <4>1
    <3>2. CASE ~(g = h /\ r = role)
      <4>1. g \in DOMAIN LiveRooms /\ rooms'[g].members[r] = LiveRooms[g].members[r]
        BY <1>5, <1>6, <3>2
      <4>. QED
        BY <3>2, <4>1
    <3>. QED
      BY <3>1, <3>2
  <2>2. LiveRooms[g].members[r][i] \in Conn
    BY <2>1, LiveRoomFields
  <2>3. LET d == LiveRooms[g].members[r][i] IN
        /\ phase[d] \in Registered
        /\ session[d].room = g /\ session[d].role = r /\ session[d].id = i
    BY <1>7, <2>1 DEF RegistryInv, NoStaleHandle
  <2>4. LiveRooms[g].members[r][i] # c
    BY <2>1, <2>3
  <2>. QED
    BY <1>8, <2>1, <2>2, <2>3, <2>4
<1>10. NoLostMember'
  <2> SUFFICES ASSUME NEW d \in Conn, phase'[d] \in Registered
               PROVE  /\ session'[d].room \in DOMAIN rooms'
                      /\ session'[d].id \in DOMAIN rooms'[session'[d].room].members[session'[d].role]
                      /\ rooms'[session'[d].room].members[session'[d].role][session'[d].id] = d
    BY DEF NoLostMember
  <2> DEFINE g == session[d].room
             r == session[d].role
             i == session[d].id
  <2>1. d # c /\ phase[d] \in Registered /\ r \in Roles
    BY <1>8, SessionFields
  <2>2. /\ g \in DOMAIN LiveRooms
        /\ i \in DOMAIN LiveRooms[g].members[r]
        /\ LiveRooms[g].members[r][i] = d
    BY <2>1, RegisteredLive
  <2>3. i \in DOMAIN mid[g].members[r] /\ mid[g].members[r][i] = d
    <3>1. CASE g = h /\ r = role
      <4>1. i \in DOMAIN m /\ m[i] = d /\ i # id
        BY <1>1, <2>1, <2>2, <3>1
      <4>2. mid[g].members[r] = MapRemove(m, id)
        BY <1>5, <3>1
      <4>. QED
        BY <1>3, <4>1, <4>2
    <3>2. CASE ~(g = h /\ r = role)
      <4>1. mid[g].members[r] = LiveRooms[g].members[r]
        BY <1>5, <2>1, <2>2, <3>2
      <4>. QED
        BY <2>2, <4>1
    <3>. QED
      BY <3>1, <3>2
  <2>4. OccupiedIds(mid[g]) # {}
    BY <2>1, <2>3 DEF OccupiedIds
  <2>. QED
    BY <1>6, <1>8, <2>2, <2>3, <2>4
<1>11. IdsNameOneMember'
  <2>1. \A g \in DOMAIN LiveRooms :
            DOMAIN LiveRooms[g].members["agent"] \cap DOMAIN LiveRooms[g].members["zookeeper"] = {}
    BY <1>7 DEF RegistryInv, IdsNameOneMember
  <2>2. Roles = {"agent", "zookeeper"}
    BY DEF Roles
  <2>3. DOMAIN mid[h].members["agent"] \cap DOMAIN mid[h].members["zookeeper"] = {}
    <3>1. DOMAIN mid[h].members[role] \subseteq DOMAIN m
      BY <1>3, <1>5
    <3>2. \A r \in Roles : DOMAIN mid[h].members[r] \subseteq DOMAIN LiveRooms[h].members[r]
      BY <1>1, <1>5, <3>1
    <3>. QED
      BY <1>1, <2>1, <2>2, <3>2
  <2>. QED
    BY <1>5, <1>6, <2>1, <2>3 DEF IdsNameOneMember
<1>. QED
  BY <1>9, <1>10, <1>11 DEF RegistryInv

\* A reply that is still to be queued belongs to a connection in its loop, so
\* that TrySend, which leaves the loop when it cannot queue one, never sends
\* back a task that has unregistered.
ReplyPending ==
    \A c \in Conn : \A s \in todo[c] : s.msg = Reply => phase[c] \in Registered

\* The inductive invariant.
IInv == TypeOK /\ RegistryInv /\ ReplyPending

\* The other steps of a connection neither register nor unregister anybody.
LEMMA QuietRuntime ==
    ASSUME TasksTypeOK, ReplyPending, NEW c \in Conn, Runtime(c), ~Register(c), ~Unregister(c)
    PROVE  QuietRooms /\ QuietTasks
<1>1. "running" \in Registered /\ "closing" \in Registered /\ "leaving" \notin Registered
  BY DEF Registered
<1>2. UNCHANGED registry => QuietRooms
  BY LiveRoomsQuiet DEF registry
<1>3. phase' = phase /\ session' = session => QuietTasks
  BY DEF QuietTasks
<1>4. phase[c] \in Registered /\ Goto(c, "closing") /\ session' = session => QuietTasks
  BY <1>1, GotoQuiet
<1>5. CASE RegisterFails(c)
  <2>1. QuietRooms
    BY <1>5, LiveRoomsQuiet DEF RegisterFails, Look, Section
  <2>2. phase[c] \notin Registered
    BY <1>5 DEF RegisterFails, Registered
  <2>. QED
    BY <1>5, <2>1, <2>2, DropQuiet DEF RegisterFails
<1>6. CASE TrySend(c)
  <2>1. PICK s \in NextSends(c) :
            IF s.msg = Reply /\ IsFull(c) THEN Goto(c, "closing") ELSE UNCHANGED phase
    BY <1>6 DEF TrySend
  <2>2. s \in todo[c]
    BY DEF NextSends
  <2>3. s.msg = Reply => phase[c] \in Registered
    BY <2>2 DEF ReplyPending
  <2>. QED
    BY <1>2, <1>3, <1>4, <1>6, <2>1, <2>3 DEF TrySend
<1>7. CASE PenaltyTick(c) \/ Disconnect(c) \/ SendFails(c)
  BY <1>1, <1>2, <1>4, <1>7 DEF PenaltyTick, Disconnect, SendFails, Looping
<1>8. CASE SendOutbound(c) \/ SendCompletes(c)
  BY <1>2, <1>3, <1>8 DEF SendOutbound, SendCompletes
<1>9. CASE AnswerFrame(c)
  BY <1>1, <1>2, <1>3, <1>4, <1>9 DEF AnswerFrame, Looping
<1>10. CASE Return(c)
  <2>1. phase[c] \notin Registered
    BY <1>1, <1>10 DEF Return
  <2>. QED
    BY <1>2, <1>10, <2>1, DropQuiet DEF Return
<1>. QED
  BY <1>5, <1>6, <1>7, <1>8, <1>9, <1>10 DEF Runtime, Listening

LEMMA InvRuntime ==
    ASSUME RegistryTypeOK, TasksTypeOK, RegistryInv, ReplyPending, NEW c \in Conn, Runtime(c)
    PROVE  RegistryInv'
BY InvRegister, InvUnregister, QuietRuntime, QuietInv

\* A new connection is not registered yet.
LEMMA QuietAccept ==
    ASSUME TasksTypeOK, NEW c \in Conn, NEW ip \in IPs, Accept(c, ip)
    PROVE  QuietRooms /\ QuietTasks
<1>1. phase[c] \notin Registered /\ "init" \notin Registered
  BY DEF Accept, Registered
<1>2. QuietRooms
  BY LiveRoomsQuiet DEF Accept, check_auth_rate_limit
<1>3. QuietTasks
  BY <1>1, GotoQuiet DEF Accept, QuietTasks
<1>. QED
  BY <1>2, <1>3

\* A signal changes no membership.
LEMMA QuietSignalFrame ==
    ASSUME RegistryTypeOK, NEW c \in Conn, NEW peer \in ClientIds, SignalFrame(c, peer)
    PROVE  QuietRooms /\ QuietTasks
<1>1. QuietRooms
  BY ForwardSignalQuiet DEF SignalFrame
<1>2. QuietTasks
  BY DEF SignalFrame, QuietTasks
<1>. QED
  BY <1>1, <1>2

\* A step that unregisters nobody and adds no send to be made keeps
\* ReplyPending.
LEMMA ReplyKept ==
    ASSUME ReplyPending, \A d \in Conn : todo'[d] \subseteq todo[d],
           \A d \in Conn : phase[d] \in Registered => phase'[d] \in Registered
    PROVE  ReplyPending'
BY DEF ReplyPending

\* So does one whose connection moves on while it is not registered.
LEMMA ReplyUnregistered ==
    ASSUME TasksTypeOK, ReplyPending, NEW c \in Conn, phase[c] \notin Registered,
           NEW p, Goto(c, p), todo' = todo
    PROVE  ReplyPending'
BY DEF ReplyPending, Goto, TasksTypeOK

\* So does one that replaces a connection's sends by messages that are no
\* replies.
LEMMA ReplyReplaced ==
    ASSUME TasksTypeOK, ReplyPending, NEW c \in Conn, NEW S,
           todo' = [todo EXCEPT ![c] = S], \A s \in S : s.msg # Reply,
           \A d \in Conn : d # c => phase'[d] = phase[d]
    PROVE  ReplyPending'
BY DEF ReplyPending, TasksTypeOK

\* Announcements are no replies.
LEMMA NoReplies ==
    /\ \A x : /\ Connected(x) # Reply /\ PeerJoined(x) # Reply
              /\ PeerLeft(x) # Reply /\ Signal(x) # Reply
    /\ \A msg, audience : \A s \in Announce(msg, audience) : s.msg = msg
<1>1. \A x : /\ Connected(x) # Reply /\ PeerJoined(x) # Reply
             /\ PeerLeft(x) # Reply /\ Signal(x) # Reply
  BY DEF Connected, PeerJoined, PeerLeft, Signal, Reply
<1>2. \A msg, audience : \A s \in Announce(msg, audience) : s.msg = msg
  BY DEF Announce
<1>. QED
  BY <1>1, <1>2

LEMMA ReplyHandshake ==
    ASSUME TasksTypeOK, ReplyPending, NEW c \in Conn, Handshake(c)
    PROVE  ReplyPending'
<1>1. phase[c] \notin Registered
  BY DEF Handshake, PakeInit, EnsureRoomCapacity, PakeRegistration,
         PakeCredentialFinalization, AuthAbort, AuthPhases, Registered
<1>2. todo' = todo
  BY DEF Handshake, PakeInit, EnsureRoomCapacity, PakeRegistration,
         PakeCredentialFinalization, AuthAbort, Drop, channels
<1>3. PICK p : Goto(c, p)
  BY DEF Handshake, PakeInit, EnsureRoomCapacity, PakeRegistration,
         PakeCredentialFinalization, AuthAbort, Drop
<1>. QED
  BY <1>1, <1>2, <1>3, ReplyUnregistered

LEMMA ReplyRuntime ==
    ASSUME TasksTypeOK, ReplyPending, NEW c \in Conn, Runtime(c)
    PROVE  ReplyPending'
<1>1. "running" \in Registered /\ "closing" \in Registered
  BY DEF Registered
<1>2. \A p : Goto(c, p) => \A d \in Conn : d # c => phase'[d] = phase[d]
  BY DEF Goto, TasksTypeOK
<1>3. ASSUME phase' = phase \/ Goto(c, "closing")
      PROVE  \A d \in Conn : phase[d] \in Registered => phase'[d] \in Registered
  BY <1>1, <1>3 DEF Goto, TasksTypeOK
<1>4. CASE Register(c)
  <2> DEFINE s == session[c]
             own == [to |-> c,
                     msg |-> Connected(DOMAIN LiveRooms[s.room].members[Opposite(s.role)])]
  <2>1. PICK id : todo' = [todo EXCEPT ![c] =
            {own} \cup Announce(PeerJoined(id), Audience(s.room, s.role))]
    BY <1>4 DEF Register
  <2>2. own.msg # Reply
    BY NoReplies
  <2>3. \A x \in {own} \cup Announce(PeerJoined(id), Audience(s.room, s.role)) : x.msg # Reply
    BY <2>2, NoReplies
  <2>4. \A d \in Conn : d # c => phase'[d] = phase[d]
    BY <1>2, <1>4 DEF Register
  <2> HIDE DEF own
  <2>. QED
    BY <2>1, <2>3, <2>4, ReplyReplaced
<1>5. CASE RegisterFails(c) \/ Return(c)
  <2>1. phase[c] \notin Registered
    BY <1>5 DEF RegisterFails, Return, Registered
  <2>. QED
    BY <1>5, <2>1, ReplyUnregistered DEF RegisterFails, Return, Drop
<1>6. CASE TrySend(c)
  <2>1. \A d \in Conn : todo'[d] \subseteq todo[d]
    BY <1>6 DEF TrySend, TasksTypeOK
  <2>2. phase' = phase \/ Goto(c, "closing")
    BY <1>6 DEF TrySend
  <2>. QED
    BY <1>3, <2>1, <2>2, ReplyKept
<1>7. CASE \/ PenaltyTick(c) \/ Disconnect(c) \/ SendOutbound(c) \/ SendCompletes(c)
           \/ SendFails(c) \/ AnswerFrame(c)
  <2>1. todo' = todo
    BY <1>7 DEF PenaltyTick, Disconnect, SendOutbound, SendCompletes, SendFails,
                AnswerFrame, channels
  <2>2. phase' = phase \/ Goto(c, "closing")
    BY <1>7 DEF PenaltyTick, Disconnect, SendOutbound, SendCompletes, SendFails, AnswerFrame
  <2>. QED
    BY <1>3, <2>1, <2>2, ReplyKept
<1>8. CASE Unregister(c)
  <2> DEFINE s == session[c]
             S == IF IsMember(s.room, s.role, s.id)
                  THEN Announce(PeerLeft(s.id), Audience(s.room, s.role)) ELSE {}
  <2>1. todo' = [todo EXCEPT ![c] = S]
    BY <1>8 DEF Unregister
  <2>2. \A x \in S : x.msg # Reply
    BY NoReplies
  <2>3. \A d \in Conn : d # c => phase'[d] = phase[d]
    BY <1>2, <1>8 DEF Unregister
  <2> HIDE DEF S
  <2>. QED
    BY <2>1, <2>2, <2>3, ReplyReplaced
<1>. QED
  BY <1>4, <1>5, <1>6, <1>7, <1>8 DEF Runtime, Listening

\* The only step that leaves a reply to be queued is a signal's, by a
\* connection in its loop.
LEMMA ReplySignalFrame ==
    ASSUME TasksTypeOK, ReplyPending, NEW c \in Conn, NEW peer, SignalFrame(c, peer)
    PROVE  ReplyPending'
<1>1. phase' = phase /\ phase[c] \in Registered
  BY DEF SignalFrame, Looping, Registered
<1>2. \A d \in Conn : d # c => todo'[d] = todo[d]
  BY DEF SignalFrame, TasksTypeOK
<1>. QED
  BY <1>1, <1>2 DEF ReplyPending

(***************************************************************************)
(* The theorems.                                                           *)
(***************************************************************************)
\* The initial state: no room, no connection.
LEMMA InitInv == Init => IInv
<1> SUFFICES ASSUME Init PROVE IInv
  OBVIOUS
<1>1. RegistryTypeOK
  BY ConfigAssumption DEF Init, RegistryInit, RegistryTypeOK, EmptyMap
<1>2. TasksTypeOK
  BY NoSessionType, ServerAssumption DEF Init, TasksTypeOK, Phases, NoView
<1>3. RegistryInv
  BY DEF Init, RegistryInit, EmptyMap, RegistryInv, NoStaleHandle, NoLostMember,
         IdsNameOneMember, Registered
<1>4. ReplyPending
  BY DEF Init, ReplyPending
<1>. QED
  BY <1>1, <1>2, <1>3, <1>4 DEF IInv, TypeOK, TasksTypeOK

\* Every step preserves the inductive invariant.
LEMMA NextInv == IInv /\ [Next]_vars => IInv'
<1> SUFFICES ASSUME IInv, [Next]_vars PROVE IInv'
  OBVIOUS
<1>1. RegistryTypeOK /\ TasksTypeOK /\ RegistryInv /\ ReplyPending
  BY DEF IInv, TypeOK, TasksTypeOK
<1>2. RegistryTypeOK' /\ TasksTypeOK' /\ RegistryInv' /\ ReplyPending' => IInv'
  BY DEF IInv, TypeOK, TasksTypeOK
<1>3. CASE UNCHANGED vars
  <2>1. RegistryTypeOK' /\ TasksTypeOK'
    BY <1>1, <1>3 DEF vars, registry, tasks, RegistryTypeOK, RoomState, TasksTypeOK
  <2>2. RegistryInv' /\ ReplyPending'
    BY <1>1, <1>3 DEF vars, registry, tasks, RegistryInv, NoStaleHandle, NoLostMember,
                      IdsNameOneMember, ReplyPending
  <2>. QED
    BY <1>2, <2>1, <2>2
<1>4. CASE TimePasses
  <2>1. RegistryTypeOK'
    BY <1>1, <1>4, ConfigAssumption DEF TimePasses, Tick, RegistryTypeOK, RoomState
  <2>2. TasksTypeOK'
    BY <1>1, <1>4 DEF TimePasses, tasks, TasksTypeOK
  <2>3. RegistryInv' /\ ReplyPending'
    BY <1>1, <1>4 DEF TimePasses, Tick, tasks, RegistryInv, NoStaleHandle, NoLostMember,
                      IdsNameOneMember, ReplyPending
  <2>. QED
    BY <1>2, <2>1, <2>2, <2>3
<1>5. ASSUME NEW c \in Conn, NEW ip \in IPs, Accept(c, ip)
      PROVE  IInv'
  <2>1. ReplyPending'
    <3>1. phase[c] \notin Registered /\ todo' = todo
      BY <1>5 DEF Accept, channels, Registered
    <3>2. phase' = phase \/ Goto(c, "init")
      BY <1>5 DEF Accept
    <3>. QED
      BY <1>1, <3>1, <3>2, ReplyUnregistered DEF ReplyPending
  <2>. QED
    BY <1>1, <1>2, <1>5, <2>1, TypeAccept, QuietAccept, QuietInv
<1>6. ASSUME NEW c \in Conn, Handshake(c)
      PROVE  IInv'
  BY <1>1, <1>2, <1>6, TypeHandshake, InvHandshake, ReplyHandshake
<1>7. ASSUME NEW c \in Conn, Runtime(c)
      PROVE  IInv'
  BY <1>1, <1>2, <1>7, TypeRuntime, InvRuntime, ReplyRuntime
<1>8. ASSUME NEW c \in Conn, NEW peer \in ClientIds, SignalFrame(c, peer)
      PROVE  IInv'
  <2>1. session[c].id \in ClientIds
    <3>1. phase[c] \in Registered
      BY <1>8 DEF SignalFrame, Looping, Registered
    <3>. QED
      BY <1>1, <3>1, RegisteredLive, SessionFields, LiveRoomFields
  <2>. QED
    BY <1>1, <1>2, <1>8, <2>1, TypeSignalFrame, QuietSignalFrame, QuietInv, ReplySignalFrame
<1>. QED
  BY <1>3, <1>4, <1>5, <1>6, <1>7, <1>8 DEF Next

\* The server keeps its state well typed; in particular no queue ever holds
\* more than WS_OUTBOUND_QUEUE_CAPACITY messages, and no handle outside the
\* registry's rooms is ever reached for.
THEOREM TypeCorrect == Spec => []TypeOK
<1>1. IInv => TypeOK
  BY DEF IInv
<1>. QED
  BY <1>1, InitInv, NextInv, PTL DEF Spec

\* The registry and the connection tasks agree at all times, whatever aliases
\* agents ask for, on either runtime and for every number of connections.
THEOREM RegistryCorrect == Spec => []RegistryInv
<1>1. IInv => RegistryInv
  BY DEF IInv
<1>. QED
  BY <1>1, InitInv, NextInv, PTL DEF Spec

\* register and unregister leave no stale handle in a room.
THEOREM NothingStale == Spec => []NoStaleHandle
<1>1. RegistryInv => NoStaleHandle
  BY DEF RegistryInv
<1>. QED
  BY <1>1, RegistryCorrect, PTL

\* Nobody is displaced by an alias or loses the room while in the loop.
THEOREM NobodyLost == Spec => []NoLostMember
<1>1. RegistryInv => NoLostMember
  BY DEF RegistryInv
<1>. QED
  BY <1>1, RegistryCorrect, PTL

\* forward_signal's look-up, agents first, is unambiguous.
THEOREM IdsUnambiguous == Spec => []IdsNameOneMember
<1>1. RegistryInv => IdsNameOneMember
  BY DEF RegistryInv
<1>. QED
  BY <1>1, RegistryCorrect, PTL

(***************************************************************************)
(* The quota.                                                              *)
(***************************************************************************)
\* A section other than store_room's adds no room.
LEMMA RoomsDoNotGrow ==
    ASSUME RegistryTypeOK, RoomsWithinQuota, DOMAIN rooms' \subseteq DOMAIN rooms
    PROVE  RoomsWithinQuota'
<1>1. IsFiniteSet(DOMAIN rooms)
  BY FiniteAssumption, FS_Subset DEF RegistryTypeOK
<1>2. /\ IsFiniteSet(DOMAIN rooms')
      /\ Cardinality(DOMAIN rooms') <= Cardinality(DOMAIN rooms)
  BY <1>1, FS_Subset
<1>3. Cardinality(DOMAIN rooms) \in Nat /\ Cardinality(DOMAIN rooms') \in Nat
  BY <1>1, <1>2, FS_CardinalityType
<1>. QED
  BY <1>2, <1>3, ConfigAssumption DEF RoomsWithinQuota

\* Pruning adds no room.
LEMMA LiveRoomsShrink == DOMAIN LiveRooms \subseteq DOMAIN rooms
BY PrunedRoomsFacts DEF LiveRooms

\* store_room checks the quota in the section that inserts the room.
LEMMA QuotaStoreRoom ==
    ASSUME RegistryTypeOK, RoomsWithinQuota, NEW h \in Handles, store_room(h)
    PROVE  RoomsWithinQuota'
<1>1. CASE CanStore(h)
  <2>1. IsFiniteSet(DOMAIN LiveRooms)
    BY LiveRoomsType, FiniteAssumption, FS_Subset
  <2>2. DOMAIN rooms' = DOMAIN LiveRooms \cup {h}
    BY <1>1 DEF store_room, Section, MapInsert
  <2>3. Cardinality(DOMAIN LiveRooms) < MaxRooms /\ h \notin DOMAIN LiveRooms
    BY <1>1 DEF CanStore, HasCapacity, RoomKnown
  <2>4. Cardinality(DOMAIN rooms') = Cardinality(DOMAIN LiveRooms) + 1
    BY <2>1, <2>2, <2>3, FS_AddElement
  <2>5. Cardinality(DOMAIN LiveRooms) \in Nat
    BY <2>1, FS_CardinalityType
  <2>. QED
    BY <2>3, <2>4, <2>5, ConfigAssumption DEF RoomsWithinQuota
<1>2. CASE ~CanStore(h)
  BY <1>2, LiveRoomsShrink, RoomsDoNotGrow DEF store_room, Section
<1>. QED
  BY <1>1, <1>2

\* Every step keeps the number of rooms within the quota.
LEMMA QuotaStep ==
    ASSUME TypeOK, RoomsWithinQuota, [Next]_vars
    PROVE  RoomsWithinQuota'
<1>1. RegistryTypeOK /\ TasksTypeOK
  BY DEF TypeOK, TasksTypeOK
<1>2. ASSUME rooms' = rooms \/ rooms' = LiveRooms
      PROVE  RoomsWithinQuota'
  BY <1>1, <1>2, LiveRoomsShrink, RoomsDoNotGrow
<1>3. UNCHANGED vars \/ TimePasses => RoomsWithinQuota'
  BY <1>2 DEF vars, registry, TimePasses, Tick
<1>4. ASSUME NEW c \in Conn, NEW ip \in IPs, Accept(c, ip)
      PROVE  RoomsWithinQuota'
  BY <1>2, <1>4 DEF Accept, check_auth_rate_limit
<1>5. ASSUME NEW c \in Conn, Handshake(c)
      PROVE  RoomsWithinQuota'
  <2>1. CASE PakeCredentialFinalization(c)
    BY <1>1, <1>2, <2>1, SessionFields, QuotaStoreRoom
       DEF PakeCredentialFinalization, registry
  <2>2. CASE ~PakeCredentialFinalization(c)
    BY <1>2, <1>5, <2>2 DEF Handshake, PakeInit, EnsureRoomCapacity, PakeRegistration,
                            AuthAbort, Look, Section, registry
  <2>. QED
    BY <2>1, <2>2
<1>6. ASSUME NEW c \in Conn, Runtime(c)
      PROVE  RoomsWithinQuota'
  <2>1. CASE Register(c)
    <3>1. DOMAIN rooms' = DOMAIN LiveRooms
      BY <2>1 DEF Register, register, Section
    <3>. QED
      BY <1>1, <3>1, LiveRoomsShrink, RoomsDoNotGrow
  <2>2. CASE Unregister(c)
    <3>1. DOMAIN rooms' \subseteq DOMAIN LiveRooms
      BY <2>2, PrunedRoomsFacts DEF Unregister, unregister, Section
    <3>. QED
      BY <1>1, <3>1, LiveRoomsShrink, RoomsDoNotGrow
  <2>3. CASE ~Register(c) /\ ~Unregister(c)
    BY <1>2, <1>6, <2>3 DEF Runtime, Listening, RegisterFails, TrySend, PenaltyTick, Disconnect,
           SendOutbound, SendCompletes, SendFails, AnswerFrame, Return, Look, Section, registry
  <2>. QED
    BY <2>1, <2>2, <2>3
<1>7. ASSUME NEW c \in Conn, NEW peer \in ClientIds, SignalFrame(c, peer)
      PROVE  RoomsWithinQuota'
  <2>1. DOMAIN rooms' = DOMAIN LiveRooms
    BY <1>7 DEF SignalFrame, forward_signal, Section
  <2>. QED
    BY <1>1, <2>1, LiveRoomsShrink, RoomsDoNotGrow
<1>. QED
  BY <1>3, <1>4, <1>5, <1>6, <1>7 DEF Next

\* Between ensure_room_capacity and store_room any number of other handshakes
\* may create rooms; there are still never more than max_rooms.
THEOREM QuotaKept == Spec => []RoomsWithinQuota
<1>1. Init => RoomsWithinQuota
  BY FS_EmptySet, ConfigAssumption DEF Init, RegistryInit, EmptyMap, RoomsWithinQuota
<1>2. RoomsWithinQuota /\ TypeOK /\ [Next]_vars => RoomsWithinQuota'
  BY QuotaStep
<1>. QED
  BY <1>1, <1>2, TypeCorrect, PTL DEF Spec

(***************************************************************************)
(* The rate limits.                                                        *)
(***************************************************************************)
\* prune_event_window leaves an end of the deque, and what it pops has left
\* the window.
LEMMA PruneWindowFacts ==
    ASSUME NEW events \in Seq(Nat), NEW window
    PROVE  \E k \in 0..Len(events) :
               LET rest == prune_event_window(events, window) IN
               /\ Len(rest) = Len(events) - k
               /\ \A i \in 1..(Len(events) - k) : rest[i] = events[k + i]
               /\ \A i \in 1..k : ~InWindow(events[i], window)
<1> DEFINE gone == {i \in 1..Len(events) : \A j \in 1..i : ~InWindow(events[j], window)}
           k == Cardinality(gone)
<1>1. Len(events) \in Nat /\ \A i \in 1..Len(events) : events[i] \in Nat
  BY LenProperties, ElementOfSeq
<1>2. IsFiniteSet(1..Len(events)) /\ gone \in SUBSET (1..Len(events))
      /\ Cardinality(1..Len(events)) = Len(events)
  <2>1. IsFiniteSet(1..Len(events))
    BY <1>1, FS_Interval
  <2>2. Cardinality(1..Len(events)) = IF 1 > Len(events) THEN 0 ELSE Len(events) - 1 + 1
    BY <1>1, FS_Interval
  <2>. QED
    BY <1>1, <2>1, <2>2
<1>3. k \in Nat /\ k <= Len(events)
  <2>1. IsFiniteSet(gone) /\ Cardinality(gone) <= Cardinality(1..Len(events))
    BY <1>2, FS_Subset
  <2>. QED
    BY <1>2, <2>1, FS_CardinalityType
<1>4. ASSUME NEW i \in 1..k PROVE ~InWindow(events[i], window)
  <2>1. CASE i \in gone
    BY <1>1, <2>1
  <2>2. CASE i \notin gone
    <3>1. i \in 1..Len(events) /\ i - 1 \in Nat
      BY <1>1, <1>3
    <3>2. gone \subseteq 1..(i - 1)
      <4> SUFFICES ASSUME NEW j \in gone, j > i - 1 PROVE FALSE
        BY <1>1, <3>1
      <4>1. j \in 1..Len(events) /\ i <= j /\ \A x \in 1..j : ~InWindow(events[x], window)
        BY <1>1, <3>1
      <4>2. \A x \in 1..i : ~InWindow(events[x], window)
        BY <3>1, <4>1
      <4>. QED
        BY <2>2, <3>1, <4>2
    <3>3. IsFiniteSet(1..(i - 1)) /\ Cardinality(1..(i - 1)) = i - 1
      <4>1. IsFiniteSet(1..(i - 1))
        BY <3>1, FS_Interval
      <4>2. Cardinality(1..(i - 1)) = IF 1 > i - 1 THEN 0 ELSE (i - 1) - 1 + 1
        BY <3>1, FS_Interval
      <4>. QED
        BY <3>1, <4>1, <4>2
    <3>4. Cardinality(gone) <= Cardinality(1..(i - 1))
      BY <3>2, <3>3, FS_Subset
    <3>. QED
      BY <1>3, <3>1, <3>3, <3>4
  <2>. QED
    BY <2>1, <2>2
<1> HIDE DEF gone, k
<1>5. /\ Len(SubSeq(events, k + 1, Len(events))) = Len(events) - k
      /\ \A i \in 1..(Len(events) - k) : SubSeq(events, k + 1, Len(events))[i] = events[k + i]
  <2>1. \A i \in (k + 1)..Len(events) : events[i] \in Nat
    BY <1>1, <1>3
  <2>2. /\ Len(SubSeq(events, k + 1, Len(events))) =
               IF k + 1 <= Len(events) THEN Len(events) - (k + 1) + 1 ELSE 0
        /\ \A i \in 1..(Len(events) - (k + 1) + 1) :
               SubSeq(events, k + 1, Len(events))[i] = events[(k + 1) + i - 1]
    <3>1. k + 1 \in Int /\ Len(events) \in Int
      BY <1>1, <1>3
    <3>. QED
      BY <2>1, <3>1, SubSeqProperties
  <2>3. Len(events) - (k + 1) + 1 = Len(events) - k /\ (~(k + 1 <= Len(events)) => Len(events) - k = 0)
    BY <1>1, <1>3
  <2>4. \A i \in 1..(Len(events) - k) : (k + 1) + i - 1 = k + i
    BY <1>1, <1>3
  <2>. QED
    BY <2>2, <2>3, <2>4
<1>6. prune_event_window(events, window) = SubSeq(events, k + 1, Len(events))
  BY DEF prune_event_window, gone, k
<1>. QED
  BY <1>1, <1>3, <1>4, <1>5, <1>6

\* A deque against the history of what it admitted: it holds an end of the
\* history, and what it no longer holds has left the window.
Tracked(events, times, limit, window) ==
    /\ events \in Seq(Nat) /\ times \in Seq(Nat)
    /\ Len(events) <= Len(times)
    /\ \A i \in 1..Len(events) : events[i] = times[(Len(times) - Len(events)) + i]
    /\ \A i \in 1..(Len(times) - Len(events)) : now - times[i] >= window
    /\ Spaced(times, limit, window)

LEMMA TrackedPruned ==
    ASSUME NEW events, NEW times, NEW limit, NEW window \in Nat, now \in Nat,
           Tracked(events, times, limit, window)
    PROVE  Tracked(prune_event_window(events, window), times, limit, window)
<1>1. events \in Seq(Nat) /\ times \in Seq(Nat) /\ Len(events) \in Nat /\ Len(times) \in Nat
      /\ Len(events) <= Len(times)
  BY DEF Tracked
<1>2. PICK rest \in Seq(Nat) : rest = prune_event_window(events, window)
  BY <1>1, PruneWindowType
<1>3. PICK k \in 0..Len(events) :
          /\ Len(rest) = Len(events) - k
          /\ \A i \in 1..(Len(events) - k) : rest[i] = events[k + i]
          /\ \A i \in 1..k : ~InWindow(events[i], window)
  BY <1>1, <1>2, PruneWindowFacts
<1>4. Len(rest) \in Nat /\ Len(rest) <= Len(times)
      /\ Len(times) - Len(rest) = (Len(times) - Len(events)) + k
  BY <1>1, <1>3
<1>5. ASSUME NEW i \in 1..Len(rest) PROVE rest[i] = times[(Len(times) - Len(rest)) + i]
  <2>1. k + i \in 1..Len(events) /\ rest[i] = events[k + i]
    BY <1>1, <1>3
  <2>2. events[k + i] = times[(Len(times) - Len(events)) + (k + i)]
    BY <2>1 DEF Tracked
  <2>3. (Len(times) - Len(events)) + (k + i) = (Len(times) - Len(rest)) + i
    <3>1. k \in Int /\ i \in Int
      BY <1>1, <1>3, <1>4
    <3>2. Len(times) \in Int /\ Len(events) \in Int /\ Len(rest) = Len(events) - k
      BY <1>1, <1>3
    <3>. QED
      BY <3>1, <3>2
  <2>. QED
    BY <2>1, <2>2, <2>3
<1>6. ASSUME NEW i \in 1..(Len(times) - Len(rest)) PROVE now - times[i] >= window
  <2>1. CASE i <= Len(times) - Len(events)
    BY <1>1, <1>4, <2>1 DEF Tracked
  <2>2. CASE i > Len(times) - Len(events)
    <3>1. i - (Len(times) - Len(events)) \in 1..k
      BY <1>1, <1>3, <1>4, <2>2
    <3>2. PICK j \in 1..k : j = i - (Len(times) - Len(events))
      BY <3>1
    <3>3. j \in 1..Len(events) /\ (Len(times) - Len(events)) + j = i
      <4>1. j \in Nat /\ j >= 1 /\ j <= k /\ k <= Len(events)
        BY <1>1, <1>3
      <4>2. i \in Int
        BY <1>1, <1>4
      <4>. QED
        BY <1>1, <3>2, <4>1, <4>2
    <3>4. events[j] = times[i]
      BY <3>3 DEF Tracked
    <3>5. events[j] \in Nat
      BY <1>1, <3>3, ElementOfSeq
    <3>6. ~InWindow(events[j], window)
      BY <1>3
    <3>7. now - events[j] >= window
      BY <3>5, <3>6 DEF InWindow
    <3>. QED
      BY <3>4, <3>7
  <2>. QED
    BY <1>1, <1>4, <2>1, <2>2
<1>7. Tracked(rest, times, limit, window)
  BY <1>1, <1>4, <1>5, <1>6 DEF Tracked
<1>. QED
  BY <1>2, <1>7

\* An event is admitted while the deque holds fewer than `limit`: the event
\* that far back in the history has left the window.
LEMMA TrackedAdmitted ==
    ASSUME NEW events, NEW times, NEW limit \in Nat \ {0}, NEW window \in Nat, now \in Nat,
           Tracked(events, times, limit, window), Len(events) < limit
    PROVE  Tracked(Append(events, now), Append(times, now), limit, window)
<1>1. /\ events \in Seq(Nat) /\ times \in Seq(Nat) /\ Len(events) \in Nat /\ Len(times) \in Nat
      /\ Len(events) <= Len(times)
      /\ \A i \in 1..Len(events) : events[i] = times[(Len(times) - Len(events)) + i]
      /\ \A i \in 1..(Len(times) - Len(events)) : now - times[i] >= window
  BY DEF Tracked
<1>2. PICK e \in Seq(Nat) : e = Append(events, now)
  BY <1>1, AppendProperties
<1>3. PICK t \in Seq(Nat) : t = Append(times, now)
  BY <1>1, AppendProperties
<1>4. /\ Len(e) = Len(events) + 1 /\ e[Len(events) + 1] = now
      /\ \A i \in 1..Len(events) : e[i] = events[i]
      /\ Len(t) = Len(times) + 1 /\ t[Len(times) + 1] = now
      /\ \A i \in 1..Len(times) : t[i] = times[i]
  BY <1>1, <1>2, <1>3
<1>5. Len(t) - Len(e) = Len(times) - Len(events) /\ Len(e) <= Len(t)
  BY <1>1, <1>4
<1>6. ASSUME NEW i \in 1..Len(e) PROVE e[i] = t[(Len(t) - Len(e)) + i]
  <2>1. CASE i <= Len(events)
    <3>1. i \in 1..Len(events) /\ (Len(times) - Len(events)) + i \in 1..Len(times)
      BY <1>1, <2>1
    <3>. QED
      BY <1>1, <1>4, <1>5, <3>1
  <2>2. CASE i = Len(events) + 1
    <3>1. (Len(times) - Len(events)) + i = Len(times) + 1
      BY <1>1, <2>2
    <3>. QED
      BY <1>4, <1>5, <2>2, <3>1
  <2>. QED
    BY <1>1, <1>4, <2>1, <2>2
<1>7. ASSUME NEW i \in 1..(Len(t) - Len(e)) PROVE now - t[i] >= window
  <2>1. i \in 1..(Len(times) - Len(events)) /\ i \in 1..Len(times)
    BY <1>1, <1>5
  <2>. QED
    BY <1>1, <1>4, <2>1
<1>8. Spaced(t, limit, window)
  <2> SUFFICES ASSUME NEW i \in 1..Len(t), i + limit <= Len(t)
               PROVE  t[i + limit] - t[i] >= window
    BY DEF Spaced
  <2>1. CASE i + limit <= Len(times)
    <3>1. i \in 1..Len(times) /\ i + limit \in 1..Len(times)
      BY <1>1, <1>4, <2>1
    <3>. QED
      BY <1>4, <2>1, <3>1 DEF Tracked, Spaced
  <2>2. CASE ~(i + limit <= Len(times))
    <3>0. i \in Nat /\ i >= 1 /\ i + limit = Len(times) + 1
      <4>1. i \in Nat /\ i >= 1 /\ limit \in Nat
        BY <1>4
      <4>2. PICK n \in Nat : n = i + limit
        BY <4>1
      <4>3. n <= Len(times) + 1 /\ ~(n <= Len(times)) /\ Len(times) \in Nat
        BY <1>1, <1>4, <2>2, <4>2
      <4>4. n = Len(times) + 1
        BY <4>3
      <4>. QED
        BY <4>1, <4>2, <4>4
    <3>1. i \in 1..(Len(times) - Len(events)) /\ i \in 1..Len(times)
      <4>1. i \in Nat /\ i >= 1 /\ i = Len(times) + 1 - limit /\ limit >= Len(events) + 1
        BY <1>1, <3>0
      <4>. QED
        BY <1>1, <4>1
    <3>2. t[i + limit] = now /\ t[i] = times[i]
      BY <1>4, <3>0, <3>1
    <3>. QED
      BY <1>1, <3>1, <3>2
  <2>. QED
    BY <2>1, <2>2
<1>9. Tracked(e, t, limit, window)
  BY <1>5, <1>6, <1>7, <1>8 DEF Tracked
<1>. QED
  BY <1>2, <1>3, <1>9

\* Time only moves what was popped further away.
LEMMA TrackedLater ==
    ASSUME NEW events, NEW times, NEW limit, NEW window \in Nat, now \in Nat, now' \in Nat,
           now <= now', Tracked(events, times, limit, window)
    PROVE  /\ events \in Seq(Nat) /\ times \in Seq(Nat)
           /\ Len(events) <= Len(times)
           /\ \A i \in 1..Len(events) : events[i] = times[(Len(times) - Len(events)) + i]
           /\ \A i \in 1..(Len(times) - Len(events)) : now' - times[i] >= window
           /\ Spaced(times, limit, window)
<1>1. \A i \in 1..(Len(times) - Len(events)) : times[i] \in Nat
  BY DEF Tracked
<1>. QED
  BY <1>1 DEF Tracked

(***************************************************************************)
(* What a step does to the deques and to the age of the rooms.             *)
(***************************************************************************)
\* The deques of the rooms that live on are left alone, and start empty.
EventsKept ==
    \A g \in Handles : g \in DOMAIN LiveRooms' =>
        \/ g \in DOMAIN LiveRooms /\ rooms'[g].signal_events = rooms[g].signal_events
        \/ g \notin DOMAIN LiveRooms /\ rooms'[g].signal_events = <<>>

\* A room is as old as it was, or has just been refreshed; and what has gone
\* had expired.
AgesKept ==
    /\ \A g \in DOMAIN rooms' :
           \/ now' = now /\ rooms'[g].last_active_at = now
           \/ /\ g \in DOMAIN rooms
              /\ rooms'[g].last_active_at = rooms[g].last_active_at
              /\ rooms'[g].members = rooms[g].members
    /\ \A h \in DOMAIN rooms : h \notin DOMAIN rooms' => Expired(rooms[h]) \/ RoomTtl = 0

OrdinaryStep ==
    /\ now' = now
    /\ auth_events_by_ip' = auth_events_by_ip \/ auth_events_by_ip' = PrunedAuthEvents
    /\ EventsKept /\ AgesKept

LEMMA LiveRoomsDef ==
    /\ DOMAIN LiveRooms = {h \in DOMAIN rooms : ~Expired(rooms[h])}
    /\ \A h \in DOMAIN LiveRooms : LiveRooms[h] = rooms[h]
BY DEF LiveRooms, PrunedRooms

LEMMA LiveRoomsAfter ==
    DOMAIN LiveRooms' \subseteq DOMAIN rooms'
BY DEF LiveRooms, PrunedRooms

LEMMA KeptByLook ==
    ASSUME rooms' = LiveRooms, now' = now
    PROVE  EventsKept /\ AgesKept
<1>1. EventsKept
  BY LiveRoomsDef, LiveRoomsAfter DEF EventsKept
<1>2. AgesKept
  BY LiveRoomsDef DEF AgesKept
<1>. QED
  BY <1>1, <1>2

LEMMA KeptByNothing ==
    ASSUME UNCHANGED registry
    PROVE  OrdinaryStep
<1>1. LiveRooms' = LiveRooms
  BY DEF registry, LiveRooms, PrunedRooms, Expired
<1>. QED
  BY <1>1, LiveRoomsDef DEF registry, OrdinaryStep, EventsKept, AgesKept

LEMMA KeptByStoreRoom ==
    ASSUME NEW h, store_room(h)
    PROVE  OrdinaryStep
<1>1. now' = now /\ auth_events_by_ip' = PrunedAuthEvents
  BY DEF store_room, Section
<1>2. CASE ~CanStore(h)
  BY <1>1, <1>2, KeptByLook DEF store_room, Section, OrdinaryStep
<1>3. CASE CanStore(h)
  <2>1. h \notin DOMAIN LiveRooms
    BY <1>3 DEF CanStore, RoomKnown
  <2>2. rooms' = MapInsert(LiveRooms, h, NewRoom)
    BY <1>3 DEF store_room, Section
  <2>3. /\ DOMAIN rooms' = DOMAIN LiveRooms \cup {h} /\ rooms'[h] = NewRoom
        /\ \A g \in DOMAIN LiveRooms : rooms'[g] = LiveRooms[g]
    BY <2>1, <2>2 DEF MapInsert
  <2>4. NewRoom.signal_events = <<>> /\ NewRoom.last_active_at = now
    BY DEF NewRoom
  <2>5. EventsKept
    BY <2>1, <2>3, <2>4, LiveRoomsDef, LiveRoomsAfter DEF EventsKept
  <2>6. AgesKept
    BY <1>1, <2>3, <2>4, LiveRoomsDef DEF AgesKept
  <2>. QED
    BY <1>1, <2>5, <2>6 DEF OrdinaryStep
<1>. QED
  BY <1>2, <1>3

\* A room whose members changed keeps its deque and is refreshed.
LEMMA WithMembersFields ==
    ASSUME RegistryTypeOK, NEW h \in DOMAIN LiveRooms, NEW role, NEW map
    PROVE  LET room == WithMembers(LiveRooms[h], role, map) IN
           /\ room.signal_events = LiveRooms[h].signal_events
           /\ room.last_active_at = now
<1>1. LiveRooms[h] \in RoomState
  BY LiveRoomsType
<1>. QED
  BY <1>1 DEF WithMembers, RoomState

LEMMA KeptByMembers ==
    ASSUME RegistryTypeOK, NEW h \in DOMAIN LiveRooms, NEW role, NEW map,
           now' = now,
           LET left == [LiveRooms EXCEPT ![h] = WithMembers(LiveRooms[h], role, map)]
           IN  rooms' = left \/ rooms' = PrunedRooms(left)
    PROVE  EventsKept /\ AgesKept
<1>1. PICK room : room = WithMembers(LiveRooms[h], role, map)
  OBVIOUS
<1>2. room.signal_events = LiveRooms[h].signal_events /\ room.last_active_at = now
  BY <1>1, WithMembersFields
<1>3. PICK left : left = [LiveRooms EXCEPT ![h] = room]
  OBVIOUS
<1>4. /\ DOMAIN left = DOMAIN LiveRooms /\ left[h] = room
      /\ \A g \in DOMAIN LiveRooms : g # h => left[g] = LiveRooms[g]
  BY <1>3, LiveRoomsType
<1>5. rooms' = left \/ rooms' = PrunedRooms(left)
  BY <1>1, <1>3
<1>6. /\ DOMAIN rooms' \subseteq DOMAIN LiveRooms
      /\ \A g \in DOMAIN rooms' : rooms'[g] = left[g]
  BY <1>4, <1>5, PrunedRoomsFacts
<1>7. \A g \in DOMAIN LiveRooms : g \notin DOMAIN rooms' => Expired(left[g])
  BY <1>4, <1>5 DEF PrunedRooms
<1>8. EventsKept
  BY <1>2, <1>4, <1>6, LiveRoomsDef, LiveRoomsAfter DEF EventsKept
<1>9. \A g \in DOMAIN rooms : g \notin DOMAIN rooms' => Expired(rooms[g]) \/ RoomTtl = 0
  <2> SUFFICES ASSUME NEW g \in DOMAIN rooms, g \notin DOMAIN rooms', ~Expired(rooms[g])
               PROVE  RoomTtl = 0
    OBVIOUS
  <2>1. g \in DOMAIN LiveRooms /\ Expired(left[g])
    BY <1>7, LiveRoomsDef
  <2>2. g = h
    BY <1>4, <2>1, LiveRoomsDef
  <2>3. now - now >= RoomTtl /\ now \in Nat
    BY <1>2, <1>4, <2>1, <2>2, ConfigAssumption DEF Expired, RegistryTypeOK
  <2>. QED
    BY <2>3, ConfigAssumption
<1>10. AgesKept
  BY <1>2, <1>4, <1>6, <1>9, LiveRoomsDef DEF AgesKept
<1>. QED
  BY <1>8, <1>10

LEMMA OrdinaryHandshake ==
    ASSUME NEW c \in Conn, Handshake(c)
    PROVE  OrdinaryStep
<1>1. Look => OrdinaryStep
  BY KeptByLook DEF Look, Section, OrdinaryStep
<1>2. CASE PakeCredentialFinalization(c)
  BY <1>2, KeptByNothing, KeptByStoreRoom DEF PakeCredentialFinalization
<1>3. CASE ~PakeCredentialFinalization(c)
  BY <1>1, <1>3, KeptByNothing DEF Handshake, PakeInit, EnsureRoomCapacity, PakeRegistration, AuthAbort
<1>. QED
  BY <1>2, <1>3

LEMMA OrdinaryRuntime ==
    ASSUME RegistryTypeOK, NEW c \in Conn, Runtime(c)
    PROVE  OrdinaryStep
<1>1. Look => OrdinaryStep
  BY KeptByLook DEF Look, Section, OrdinaryStep
<1>2. CASE Register(c)
  <2>1. PICK counter \in next_client_id..MaxClientId, id \in ClientIds :
            register(c, session[c].room, session[c].role, id, counter)
    BY <1>2 DEF Register
  <2>2. session[c].room \in DOMAIN LiveRooms
    BY <1>2 DEF Register, RoomKnown
  <2>3. now' = now /\ auth_events_by_ip' = PrunedAuthEvents
    BY <2>1 DEF register, Section
  <2>4. EventsKept /\ AgesKept
    BY <2>1, <2>2, <2>3, KeptByMembers DEF register, Section
  <2>. QED
    BY <2>3, <2>4 DEF OrdinaryStep
<1>3. CASE Unregister(c)
  <2>1. unregister(session[c].room, session[c].role, session[c].id)
    BY <1>3 DEF Unregister
  <2>2. now' = now /\ auth_events_by_ip' = PrunedAuthEvents
    BY <2>1 DEF unregister, Section
  <2>3. CASE IsMember(session[c].room, session[c].role, session[c].id)
    <3>1. session[c].room \in DOMAIN LiveRooms
      BY <2>3 DEF IsMember
    <3>2. EventsKept /\ AgesKept
      BY <2>1, <2>2, <2>3, <3>1, KeptByMembers DEF unregister, Section
    <3>. QED
      BY <2>2, <3>2 DEF OrdinaryStep
  <2>4. CASE ~IsMember(session[c].room, session[c].role, session[c].id)
    BY <2>1, <2>2, <2>4, KeptByLook DEF unregister, Section, OrdinaryStep
  <2>. QED
    BY <2>3, <2>4
<1>4. CASE ~Register(c) /\ ~Unregister(c)
  BY <1>1, <1>4, KeptByNothing
     DEF Runtime, Listening, RegisterFails, TrySend, PenaltyTick, Disconnect, SendOutbound,
         SendCompletes, SendFails, AnswerFrame, Return
<1>. QED
  BY <1>2, <1>3, <1>4

\* A signal refreshes its room if it is admitted, and only then is counted.
LEMMA SignalStep ==
    ASSUME RegistryTypeOK, NEW h, forward_signal(h)
    PROVE  /\ now' = now /\ auth_events_by_ip' = PrunedAuthEvents
           /\ AgesKept
           /\ \A g \in DOMAIN rooms' :
                  /\ g \in DOMAIN LiveRooms
                  /\ g # h => rooms'[g].signal_events = rooms[g].signal_events
                  /\ g = h => rooms'[g].signal_events =
                                  IF SignalAdmitted(h) THEN Append(SignalEvents(h), now)
                                  ELSE SignalEvents(h)
<1>1. now' = now /\ auth_events_by_ip' = PrunedAuthEvents
  BY DEF forward_signal, Section
<1>2. CASE ~RoomKnown(h)
  <2>1. rooms' = LiveRooms
    BY <1>2 DEF forward_signal, Section
  <2>. QED
    BY <1>1, <1>2, <2>1, KeptByLook, LiveRoomsDef DEF RoomKnown
<1>3. CASE RoomKnown(h)
  <2>1. h \in DOMAIN LiveRooms /\ LiveRooms[h] \in RoomState
    BY <1>3, LiveRoomsType DEF RoomKnown
  <2>2. PICK r :
            /\ rooms' = [LiveRooms EXCEPT ![h] = r]
            /\ r.members = LiveRooms[h].members
            /\ r.signal_events = IF SignalAdmitted(h) THEN Append(SignalEvents(h), now)
                                 ELSE SignalEvents(h)
            /\ r.last_active_at = IF SignalAdmitted(h) THEN now ELSE LiveRooms[h].last_active_at
    <3>1. CASE SignalAdmitted(h)
      <4> DEFINE r == [LiveRooms[h] EXCEPT !.signal_events = Append(SignalEvents(h), now),
                                           !.last_active_at = now]
      <4>1. /\ r.members = LiveRooms[h].members /\ r.last_active_at = now
            /\ r.signal_events = Append(SignalEvents(h), now)
        BY <2>1 DEF RoomState
      <4>2. rooms' = [LiveRooms EXCEPT ![h] = r]
        BY <1>3, <2>1, <3>1 DEF forward_signal, Section
      <4>. QED
        BY <3>1, <4>1, <4>2
    <3>2. CASE ~SignalAdmitted(h)
      <4> DEFINE r == [LiveRooms[h] EXCEPT !.signal_events = SignalEvents(h)]
      <4>1. /\ r.members = LiveRooms[h].members
            /\ r.last_active_at = LiveRooms[h].last_active_at
            /\ r.signal_events = SignalEvents(h)
        BY <2>1 DEF RoomState
      <4>2. rooms' = [LiveRooms EXCEPT ![h] = r]
        BY <1>3, <2>1, <3>2 DEF forward_signal, Section
      <4>. QED
        BY <3>2, <4>1, <4>2
    <3>. QED
      BY <3>1, <3>2
  <2>3. /\ DOMAIN rooms' = DOMAIN LiveRooms /\ rooms'[h] = r
        /\ \A g \in DOMAIN LiveRooms : g # h => rooms'[g] = LiveRooms[g]
    BY <2>1, <2>2, LiveRoomsType
  <2>4. AgesKept
    BY <1>1, <2>1, <2>2, <2>3, LiveRoomsDef DEF AgesKept
  <2>. QED
    BY <1>1, <2>2, <2>3, <2>4, LiveRoomsDef
<1>. QED
  BY <1>2, <1>3

\* The deques of the server against the histories: a part of the inductive
\* invariant.
RateBooks ==
    /\ admitted \in [IPs -> Seq(Nat)] /\ signalled \in [Handles -> Seq(Nat)]
    /\ \A ip \in IPs :
           Tracked(auth_events_by_ip[ip], admitted[ip], AuthRateLimit, AuthRateWindow)
    /\ \A h \in Handles : Spaced(signalled[h], RoomSignalRateLimit, RoomSignalRateWindow)
    /\ \A h \in DOMAIN LiveRooms :
           Tracked(rooms[h].signal_events, signalled[h], RoomSignalRateLimit, RoomSignalRateWindow)

\* When a room was last occupied, against what it knows of its age.
OccupationBooks ==
    /\ occupied_at \in [Handles -> Nat]
    /\ \A h \in DOMAIN rooms :
           /\ occupied_at[h] <= now
           /\ OccupiedIds(rooms[h]) # {} => occupied_at[h] = now
           /\ OccupiedIds(rooms[h]) = {} => occupied_at[h] <= rooms[h].last_active_at

LEMMA TrackedEmpty ==
    ASSUME NEW limit \in Nat, NEW window
    PROVE  Tracked(<<>>, <<>>, limit, window) /\ Spaced(<<>>, limit, window)
BY DEF Tracked, Spaced

\* A step at the same instant that prunes the deques of the addresses, if that.
LEMMA AuthBooks ==
    ASSUME RegistryTypeOK, RateBooks, now' = now, admitted' = admitted,
           auth_events_by_ip' = auth_events_by_ip \/ auth_events_by_ip' = PrunedAuthEvents,
           NEW ip \in IPs
    PROVE  Tracked(auth_events_by_ip[ip], admitted[ip], AuthRateLimit, AuthRateWindow)'
<1>1. now \in Nat /\ AuthRateWindow \in Nat
  BY ConfigAssumption DEF RegistryTypeOK
<1>2. Tracked(auth_events_by_ip[ip], admitted[ip], AuthRateLimit, AuthRateWindow)
  BY DEF RateBooks
<1>3. Tracked(auth_events_by_ip'[ip], admitted'[ip], AuthRateLimit, AuthRateWindow)
  <2>1. PrunedAuthEvents[ip] = prune_event_window(auth_events_by_ip[ip], AuthRateWindow)
    BY DEF PrunedAuthEvents
  <2>. QED
    BY <1>1, <1>2, <2>1, TrackedPruned
<1>. QED
  BY <1>3 DEF Tracked, Spaced

\* What a step does to the histories of the signals.
LEMMA SignalBooks ==
    ASSUME RegistryTypeOK, RegistryTypeOK', RateBooks, NEW handles, RecordSignal(handles),
           now <= now',
           \A g \in Handles : g \in DOMAIN LiveRooms' =>
               \/ g \notin DOMAIN LiveRooms /\ rooms'[g].signal_events = <<>>
               \/ /\ g \in DOMAIN LiveRooms
                  /\ IF g \in handles /\ SignalAdmitted(g)
                     THEN rooms'[g].signal_events = Append(SignalEvents(g), now)
                     ELSE rooms'[g].signal_events \in {rooms[g].signal_events, SignalEvents(g)}
    PROVE  /\ signalled' \in [Handles -> Seq(Nat)]
           /\ \A h \in Handles : Spaced(signalled'[h], RoomSignalRateLimit, RoomSignalRateWindow)
           /\ \A h \in DOMAIN LiveRooms' :
                  Tracked(rooms[h].signal_events, signalled[h],
                          RoomSignalRateLimit, RoomSignalRateWindow)'
<1>1. /\ now \in Nat /\ now' \in Nat
      /\ RoomSignalRateLimit \in Nat \ {0} /\ RoomSignalRateWindow \in Nat
  BY ConfigAssumption DEF RegistryTypeOK
<1> DEFINE lim == RoomSignalRateLimit
           win == RoomSignalRateWindow
<1>2. ASSUME NEW g \in Handles, g \notin DOMAIN LiveRooms
      PROVE  signalled'[g] = <<>>
  BY <1>2 DEF RecordSignal, RoomKnown
<1>3. ASSUME NEW g \in DOMAIN LiveRooms
      PROVE  /\ g \in Handles
             /\ Tracked(rooms[g].signal_events, signalled[g], lim, win)
             /\ Tracked(SignalEvents(g), signalled[g], lim, win)
  <2>1. g \in Handles /\ LiveRooms[g] = rooms[g]
    BY LiveRoomsDef, LiveRoomsType
  <2>2. Tracked(rooms[g].signal_events, signalled[g], lim, win)
    BY DEF RateBooks
  <2>. QED
    BY <1>1, <2>1, <2>2, TrackedPruned DEF SignalEvents
<1>4. ASSUME NEW g \in DOMAIN LiveRooms, ~(g \in handles /\ SignalAdmitted(g))
      PROVE  signalled'[g] = signalled[g]
  BY <1>3, <1>4 DEF RecordSignal, RoomKnown
<1>5. ASSUME NEW g \in DOMAIN LiveRooms, g \in handles /\ SignalAdmitted(g)
      PROVE  /\ signalled'[g] = Append(signalled[g], now)
             /\ Tracked(Append(SignalEvents(g), now), signalled'[g], lim, win)
  <2>1. signalled'[g] = Append(signalled[g], now)
    BY <1>3, <1>5 DEF RecordSignal, RoomKnown
  <2>2. Len(SignalEvents(g)) < lim
    BY <1>5 DEF SignalAdmitted
  <2>. QED
    BY <1>1, <1>3, <2>1, <2>2, TrackedAdmitted
<1>6. ASSUME NEW h \in Handles PROVE signalled'[h] \in Seq(Nat) /\ Spaced(signalled'[h], lim, win)
  <2>1. CASE h \notin DOMAIN LiveRooms
    <3>1. signalled'[h] = <<>>
      BY <1>2, <2>1
    <3>2. Spaced(<<>>, lim, win)
      BY <1>1, TrackedEmpty
    <3>. QED
      BY <3>1, <3>2
  <2>2. CASE h \in DOMAIN LiveRooms /\ h \in handles /\ SignalAdmitted(h)
    BY <1>5, <2>2 DEF Tracked
  <2>3. CASE h \in DOMAIN LiveRooms /\ ~(h \in handles /\ SignalAdmitted(h))
    BY <1>3, <1>4, <2>3 DEF Tracked
  <2>. QED
    BY <2>1, <2>2, <2>3
<1>7. ASSUME NEW h \in DOMAIN LiveRooms'
      PROVE  Tracked(rooms'[h].signal_events, signalled'[h], lim, win)
  <2>0. h \in Handles
    BY LiveRoomsAfter DEF RegistryTypeOK
  <2>1. CASE h \notin DOMAIN LiveRooms
    BY <1>1, <1>2, <2>0, <2>1, TrackedEmpty
  <2>2. CASE h \in DOMAIN LiveRooms /\ h \in handles /\ SignalAdmitted(h)
    BY <1>5, <2>0, <2>2
  <2>3. CASE h \in DOMAIN LiveRooms /\ ~(h \in handles /\ SignalAdmitted(h))
    BY <1>3, <1>4, <2>0, <2>3
  <2>. QED
    BY <2>1, <2>2, <2>3
<1>8. ASSUME NEW h \in DOMAIN LiveRooms'
      PROVE  Tracked(rooms[h].signal_events, signalled[h], RoomSignalRateLimit, RoomSignalRateWindow)'
  BY <1>1, <1>7, TrackedLater DEF Tracked, Spaced
<1>9. signalled' \in [Handles -> Seq(Nat)]
  BY <1>6 DEF RecordSignal
<1>. QED
  BY <1>6, <1>8, <1>9

LEMMA AgeBooks ==
    ASSUME RegistryTypeOK, RegistryTypeOK', OccupationBooks, AgesKept, RecordOccupation,
           now <= now'
    PROVE  OccupationBooks'
<1>1. now \in Nat /\ now' \in Nat
  BY ConfigAssumption DEF RegistryTypeOK
<1>2. occupied_at' \in [Handles -> Nat]
  BY <1>1 DEF RecordOccupation, OccupationBooks
<1>3. ASSUME NEW h \in DOMAIN rooms'
      PROVE  /\ occupied_at'[h] <= now'
             /\ OccupiedIds(rooms'[h]) # {} => occupied_at'[h] = now'
             /\ OccupiedIds(rooms'[h]) = {} => occupied_at'[h] <= rooms'[h].last_active_at
  <2>1. h \in Handles /\ rooms'[h].last_active_at \in Nat
    BY DEF RegistryTypeOK, RoomState
  <2>2. CASE OccupiedIds(rooms'[h]) # {}
    BY <1>1, <2>1, <2>2 DEF RecordOccupation
  <2>3. CASE OccupiedIds(rooms'[h]) = {} /\ h \notin DOMAIN rooms
    BY <1>1, <2>1, <2>3 DEF RecordOccupation, AgesKept
  <2>4. CASE OccupiedIds(rooms'[h]) = {} /\ h \in DOMAIN rooms
    <3>1. occupied_at'[h] = occupied_at[h] /\ occupied_at[h] <= now /\ occupied_at[h] \in Nat
      BY <2>1, <2>4 DEF RecordOccupation, OccupationBooks
    <3>2. CASE rooms'[h].last_active_at = now
      BY <1>1, <2>4, <3>1, <3>2
    <3>3. CASE /\ rooms'[h].last_active_at = rooms[h].last_active_at
               /\ rooms'[h].members = rooms[h].members
      <4>1. OccupiedIds(rooms[h]) = {}
        BY <2>4, <3>3 DEF OccupiedIds
      <4>. QED
        BY <1>1, <2>4, <3>1, <3>3, <4>1 DEF OccupationBooks
    <3>. QED
      BY <3>2, <3>3 DEF AgesKept
  <2>. QED
    BY <2>2, <2>3, <2>4
<1>. QED
  BY <1>2, <1>3 DEF OccupationBooks

HIInv == IInv /\ RateBooks /\ OccupationBooks

LEMMA HInitInv == HInit => HIInv
<1> SUFFICES ASSUME HInit PROVE HIInv
  OBVIOUS
<1>1. IInv
  BY InitInv DEF HInit
<1>2. DOMAIN rooms = {} /\ DOMAIN LiveRooms = {}
  BY LiveRoomsDef DEF HInit, Init, RegistryInit, EmptyMap
<1>3. /\ \A ip \in IPs : auth_events_by_ip[ip] = <<>> /\ admitted[ip] = <<>>
      /\ \A h \in Handles : signalled[h] = <<>>
      /\ admitted \in [IPs -> Seq(Nat)] /\ signalled \in [Handles -> Seq(Nat)]
      /\ occupied_at \in [Handles -> Nat]
  BY DEF HInit, Init, RegistryInit
<1>4. \A ip \in IPs : Tracked(auth_events_by_ip[ip], admitted[ip], AuthRateLimit, AuthRateWindow)
  BY <1>3, TrackedEmpty, ConfigAssumption
<1>5. \A h \in Handles : Spaced(signalled[h], RoomSignalRateLimit, RoomSignalRateWindow)
  BY <1>3, TrackedEmpty, ConfigAssumption
<1>6. RateBooks /\ OccupationBooks
  BY <1>2, <1>3, <1>4, <1>5 DEF RateBooks, OccupationBooks
<1>. QED
  BY <1>1, <1>6 DEF HIInv

\* A step of the server with its history is a step of the server.
LEMMA HNextIsNext == [HNext]_hvars => [Next]_vars
<1> SUFFICES ASSUME [HNext]_hvars PROVE [Next]_vars
  OBVIOUS
<1>1. CASE HNext
  BY <1>1 DEF HNext, Next
<1>2. CASE UNCHANGED hvars
  BY <1>2 DEF hvars
<1>. QED
  BY <1>1, <1>2

\* What every step of the server leaves of the rooms' ages.
LEMMA HNextAges ==
    ASSUME RegistryTypeOK, HNext
    PROVE  AgesKept /\ now <= now'
<1>1. now \in Nat
  BY ConfigAssumption DEF RegistryTypeOK
<1>2. CASE TimePasses
  BY <1>1, <1>2 DEF TimePasses, Tick, AgesKept
<1>3. CASE \E c \in Conn : Handshake(c) \/ Runtime(c)
  BY <1>1, <1>3, OrdinaryHandshake, OrdinaryRuntime DEF OrdinaryStep
<1>4. CASE \E c \in Conn, ip \in IPs : Accept(c, ip)
  BY <1>1, <1>4, KeptByLook DEF Accept, check_auth_rate_limit
<1>5. CASE \E c \in Conn, peer \in ClientIds : SignalFrame(c, peer)
  BY <1>1, <1>5, SignalStep DEF SignalFrame
<1>. QED
  BY <1>2, <1>3, <1>4, <1>5 DEF HNext

LEMMA RatesTimePasses ==
    ASSUME RegistryTypeOK, RegistryTypeOK', RateBooks, TimePasses, UNCHANGED admitted,
           RecordSignal({})
    PROVE  RateBooks'
<1>1. /\ now \in Nat /\ now' = now + 1 /\ now' \in Nat /\ rooms' = rooms
      /\ auth_events_by_ip' = auth_events_by_ip
  BY ConfigAssumption DEF RegistryTypeOK, TimePasses, Tick
<1>2. \A g \in DOMAIN LiveRooms' : g \in DOMAIN LiveRooms
  <2> SUFFICES ASSUME NEW g \in DOMAIN rooms, Expired(rooms[g])
               PROVE  Expired(rooms[g])'
    BY <1>1 DEF LiveRooms, PrunedRooms
  <2>1. rooms[g].last_active_at \in Nat
    BY DEF RegistryTypeOK, RoomState
  <2>. QED
    BY <1>1, <2>1, ConfigAssumption DEF Expired, OccupiedIds
<1>3. /\ signalled' \in [Handles -> Seq(Nat)]
      /\ \A h \in Handles : Spaced(signalled'[h], RoomSignalRateLimit, RoomSignalRateWindow)
      /\ \A h \in DOMAIN LiveRooms' :
             Tracked(rooms[h].signal_events, signalled[h],
                     RoomSignalRateLimit, RoomSignalRateWindow)'
  BY <1>1, <1>2, SignalBooks
<1>4. ASSUME NEW ip \in IPs
      PROVE  Tracked(auth_events_by_ip[ip], admitted[ip], AuthRateLimit, AuthRateWindow)'
  <2>1. Tracked(auth_events_by_ip[ip], admitted[ip], AuthRateLimit, AuthRateWindow)
    BY DEF RateBooks
  <2>2. AuthRateWindow \in Nat /\ now <= now'
    BY <1>1, ConfigAssumption
  <2>. QED
    BY <1>1, <2>1, <2>2, TrackedLater DEF Tracked, Spaced
<1>. QED
  BY <1>3, <1>4 DEF RateBooks, Spaced

LEMMA RatesOrdinary ==
    ASSUME RegistryTypeOK, RegistryTypeOK', RateBooks, OrdinaryStep, UNCHANGED admitted,
           RecordSignal({})
    PROVE  RateBooks'
<1>1. \A ip \in IPs : Tracked(auth_events_by_ip[ip], admitted[ip], AuthRateLimit, AuthRateWindow)'
  BY AuthBooks DEF OrdinaryStep
<1>2. now <= now'
  BY ConfigAssumption DEF OrdinaryStep, RegistryTypeOK
<1>3. /\ signalled' \in [Handles -> Seq(Nat)]
      /\ \A h \in Handles : Spaced(signalled'[h], RoomSignalRateLimit, RoomSignalRateWindow)
      /\ \A h \in DOMAIN LiveRooms' :
             Tracked(rooms[h].signal_events, signalled[h],
                     RoomSignalRateLimit, RoomSignalRateWindow)'
  BY <1>2, SignalBooks DEF OrdinaryStep, EventsKept
<1>4. admitted' \in [IPs -> Seq(Nat)]
  BY DEF RateBooks
<1>. QED
  BY <1>1, <1>3, <1>4 DEF RateBooks, Spaced

LEMMA RatesAccept ==
    ASSUME RegistryTypeOK, RegistryTypeOK', RateBooks, NEW c \in Conn, NEW ip \in IPs,
           Accept(c, ip), RecordAdmission(ip), RecordSignal({})
    PROVE  RateBooks'
<1>1. now \in Nat /\ now' = now /\ now <= now' /\ rooms' = LiveRooms /\ AuthRateWindow \in Nat
      /\ AuthRateLimit \in Nat \ {0}
  BY ConfigAssumption DEF RegistryTypeOK, Accept, check_auth_rate_limit
<1>2. EventsKept
  BY <1>1, KeptByLook
<1>3. /\ signalled' \in [Handles -> Seq(Nat)]
      /\ \A h \in Handles : Spaced(signalled'[h], RoomSignalRateLimit, RoomSignalRateWindow)
      /\ \A h \in DOMAIN LiveRooms' :
             Tracked(rooms[h].signal_events, signalled[h],
                     RoomSignalRateLimit, RoomSignalRateWindow)'
  BY <1>1, <1>2, SignalBooks DEF EventsKept
<1>4. CASE ~AuthAdmitted(ip)
  <2>1. admitted' = admitted /\ auth_events_by_ip' = PrunedAuthEvents
    BY <1>4 DEF RecordAdmission, Accept, check_auth_rate_limit
  <2>2. \A i \in IPs : Tracked(auth_events_by_ip[i], admitted[i], AuthRateLimit, AuthRateWindow)'
    BY <1>1, <2>1, AuthBooks
  <2>. QED
    BY <1>3, <2>1, <2>2 DEF RateBooks, Spaced
<1>5. CASE AuthAdmitted(ip)
  <2>1. /\ admitted' = [admitted EXCEPT ![ip] = Append(@, now)]
        /\ auth_events_by_ip' = [PrunedAuthEvents EXCEPT ![ip] = Append(@, now)]
    BY <1>5 DEF RecordAdmission, Accept, check_auth_rate_limit
  <2>2. admitted \in [IPs -> Seq(Nat)] /\ PrunedAuthEvents \in [IPs -> Seq(Nat)]
    BY PrunedAuthEventsType DEF RateBooks
  <2>3. ASSUME NEW i \in IPs
        PROVE  Tracked(PrunedAuthEvents[i], admitted[i], AuthRateLimit, AuthRateWindow)
    <3>1. PrunedAuthEvents[i] = prune_event_window(auth_events_by_ip[i], AuthRateWindow)
      BY DEF PrunedAuthEvents
    <3>2. Tracked(auth_events_by_ip[i], admitted[i], AuthRateLimit, AuthRateWindow)
      BY DEF RateBooks
    <3>. QED
      BY <1>1, <3>1, <3>2, TrackedPruned
  <2>4. Tracked(Append(PrunedAuthEvents[ip], now), Append(admitted[ip], now),
                AuthRateLimit, AuthRateWindow)
    BY <1>1, <1>5, <2>3, TrackedAdmitted DEF AuthAdmitted
  <2>5. ASSUME NEW i \in IPs
        PROVE  Tracked(auth_events_by_ip'[i], admitted'[i], AuthRateLimit, AuthRateWindow)
    BY <2>1, <2>2, <2>3, <2>4
  <2>6. \A i \in IPs : Tracked(auth_events_by_ip[i], admitted[i], AuthRateLimit, AuthRateWindow)'
    BY <1>1, <2>5 DEF Tracked, Spaced
  <2>7. admitted' \in [IPs -> Seq(Nat)]
    BY <1>1, <2>1, <2>2
  <2>. QED
    BY <1>3, <2>6, <2>7 DEF RateBooks, Spaced
<1>. QED
  BY <1>4, <1>5

LEMMA RatesSignalFrame ==
    ASSUME RegistryTypeOK, RegistryTypeOK', RateBooks, NEW c \in Conn, NEW peer \in ClientIds,
           SignalFrame(c, peer), RecordSignal({session[c].room}), UNCHANGED admitted
    PROVE  RateBooks'
<1>1. forward_signal(session[c].room)
  BY DEF SignalFrame
<1>2. /\ now' = now /\ auth_events_by_ip' = PrunedAuthEvents
      /\ \A g \in DOMAIN rooms' :
             /\ g \in DOMAIN LiveRooms
             /\ g # session[c].room => rooms'[g].signal_events = rooms[g].signal_events
             /\ g = session[c].room => rooms'[g].signal_events =
                    IF SignalAdmitted(session[c].room)
                    THEN Append(SignalEvents(session[c].room), now)
                    ELSE SignalEvents(session[c].room)
  BY <1>1, SignalStep
<1>3. now <= now'
  BY <1>2, ConfigAssumption DEF RegistryTypeOK
<1>4. \A ip \in IPs : Tracked(auth_events_by_ip[ip], admitted[ip], AuthRateLimit, AuthRateWindow)'
  BY <1>2, AuthBooks
<1>5. \A g \in DOMAIN LiveRooms' :
          /\ g \in DOMAIN LiveRooms
          /\ IF g \in {session[c].room} /\ SignalAdmitted(g)
             THEN rooms'[g].signal_events = Append(SignalEvents(g), now)
             ELSE rooms'[g].signal_events \in {rooms[g].signal_events, SignalEvents(g)}
  BY <1>2, LiveRoomsAfter
<1>6. /\ signalled' \in [Handles -> Seq(Nat)]
      /\ \A h \in Handles : Spaced(signalled'[h], RoomSignalRateLimit, RoomSignalRateWindow)
      /\ \A h \in DOMAIN LiveRooms' :
             Tracked(rooms[h].signal_events, signalled[h],
                     RoomSignalRateLimit, RoomSignalRateWindow)'
  BY <1>3, <1>5, SignalBooks
<1>7. admitted' \in [IPs -> Seq(Nat)]
  BY DEF RateBooks
<1>. QED
  BY <1>4, <1>6, <1>7 DEF RateBooks, Spaced

LEMMA HNextInv == HIInv /\ [HNext]_hvars => HIInv'
<1> SUFFICES ASSUME HIInv, [HNext]_hvars PROVE HIInv'
  OBVIOUS
<1>1. IInv /\ IInv'
  BY HNextIsNext, NextInv DEF HIInv
<1>2. RegistryTypeOK /\ RegistryTypeOK' /\ RateBooks /\ OccupationBooks
  BY <1>1 DEF HIInv, IInv, TypeOK
<1>3. CASE UNCHANGED hvars
  <2>1. LiveRooms' = LiveRooms
    BY <1>3 DEF hvars, vars, registry, LiveRooms, PrunedRooms, Expired
  <2>2. /\ now' = now /\ rooms' = rooms /\ auth_events_by_ip' = auth_events_by_ip
        /\ admitted' = admitted /\ signalled' = signalled /\ occupied_at' = occupied_at
    BY <1>3 DEF hvars, vars, registry, history
  <2>3. OccupationBooks'
    BY <1>2, <2>2 DEF OccupationBooks, OccupiedIds
  <2>4. \A ip \in IPs : Tracked(auth_events_by_ip[ip], admitted[ip], AuthRateLimit, AuthRateWindow)'
    BY <1>2, <2>2 DEF RateBooks, Tracked, Spaced
  <2>5. \A h \in DOMAIN LiveRooms' :
            Tracked(rooms[h].signal_events, signalled[h], RoomSignalRateLimit, RoomSignalRateWindow)'
    BY <1>2, <2>1, <2>2 DEF RateBooks, Tracked, Spaced
  <2>6. RateBooks'
    BY <1>2, <2>2, <2>4, <2>5 DEF RateBooks, Spaced
  <2>. QED
    BY <1>1, <2>3, <2>6 DEF HIInv
<1>4. CASE HNext
  <2>1. OccupationBooks'
    BY <1>2, <1>4, HNextAges, AgeBooks DEF HNext
  <2>2. RateBooks'
    BY <1>2, <1>4, RatesTimePasses, RatesOrdinary, RatesAccept, RatesSignalFrame,
       OrdinaryHandshake, OrdinaryRuntime DEF HNext
  <2>. QED
    BY <1>1, <2>1, <2>2 DEF HIInv
<1>. QED
  BY <1>3, <1>4

\* No address and no room gets more than its limit within any window, for all
\* limits, windows and times to live and however the tasks interleave:
\* check_auth_rate_limit, forward_signal, prune_event_window.
THEOREM RatesKept == HSpec => []RatesBounded
<1>1. HIInv => RatesBounded
  BY DEF HIInv, RateBooks, RatesBounded, Tracked
<1>. QED
  BY <1>1, HInitInv, HNextInv, PTL DEF HSpec

\* No room disappears before nobody has been in it for its time to live:
\* prune_expired_rooms, unregister.
THEOREM GraceKept == HSpec => RoomGrace
<1>1. HIInv /\ [HNext]_hvars =>
          (\A h \in DOMAIN rooms : h \notin DOMAIN rooms' => now - occupied_at[h] >= RoomTtl)
  <2> SUFFICES ASSUME HIInv, [HNext]_hvars, NEW h \in DOMAIN rooms, h \notin DOMAIN rooms'
               PROVE  now - occupied_at[h] >= RoomTtl
    OBVIOUS
  <2>1. RegistryTypeOK /\ OccupationBooks /\ HNext
    BY DEF HIInv, IInv, TypeOK, hvars, vars, registry
  <2>2. /\ h \in Handles /\ rooms[h].last_active_at \in Nat /\ now \in Nat
        /\ occupied_at[h] \in Nat /\ occupied_at[h] <= now /\ RoomTtl \in Nat
    BY <2>1, ConfigAssumption DEF RegistryTypeOK, RoomState, OccupationBooks
  <2>3. Expired(rooms[h]) \/ RoomTtl = 0
    BY <2>1, HNextAges DEF AgesKept
  <2>4. CASE RoomTtl = 0
    BY <2>2, <2>4
  <2>5. CASE Expired(rooms[h])
    <3>1. occupied_at[h] <= rooms[h].last_active_at /\ now - rooms[h].last_active_at >= RoomTtl
      BY <2>1, <2>5 DEF Expired, OccupationBooks
    <3>. QED
      BY <2>2, <3>1
  <2>. QED
    BY <2>3, <2>4, <2>5
<1>. QED
  BY <1>1, HInitInv, HNextInv, PTL DEF HSpec, RoomGrace

(***************************************************************************)
(* What a client comes to know.                                            *)
(***************************************************************************)
Views == [greeted : BOOLEAN, peers : SUBSET ClientIds]

\* The types of the messages tell them apart.
LEMMA MessageFacts ==
    ASSUME NEW m \in Messages
    PROVE  /\ m.type = "connected" => m.peers \in SUBSET ClientIds
           /\ m.type = "peer_joined" => m.id \in ClientIds
           /\ m.type = "peer_left" => m.id \in ClientIds
           /\ \A id : m = PeerJoined(id) <=> m.type = "peer_joined" /\ m.id = id
           /\ \A id : m = PeerLeft(id) <=> m.type = "peer_left" /\ m.id = id
           /\ m = Reply <=> m.type = "reply"
<1>1. CASE \E peers \in SUBSET ClientIds : m = Connected(peers)
  BY <1>1 DEF Connected, PeerJoined, PeerLeft, Reply
<1>2. CASE \E id \in ClientIds : m = PeerJoined(id)
  BY <1>2 DEF PeerJoined, PeerLeft, Reply
<1>3. CASE \E id \in ClientIds : m = PeerLeft(id)
  BY <1>3 DEF PeerJoined, PeerLeft, Reply
<1>4. CASE \E id \in ClientIds : m = Signal(id)
  BY <1>4 DEF Signal, PeerJoined, PeerLeft, Reply
<1>5. CASE m = Reply
  BY <1>5 DEF Reply, PeerJoined, PeerLeft
<1>. QED
  BY <1>1, <1>2, <1>3, <1>4, <1>5 DEF Messages

\* What a message adds to what a client knows, and what it takes away.
LEMMA LearnForm ==
    ASSUME NEW v \in Views, NEW m \in Messages
    PROVE  Learn(v, m) =
             [greeted |-> v.greeted \/ m.type = "connected",
              peers |-> {id \in ClientIds : Brings(m, id) \/ (id \in v.peers /\ m # PeerLeft(id))}]
<1>0. v = [greeted |-> v.greeted, peers |-> v.peers] /\ v.peers \subseteq ClientIds /\ v.greeted \in BOOLEAN
  BY DEF Views
<1> DEFINE P == {id \in ClientIds : Brings(m, id) \/ (id \in v.peers /\ m # PeerLeft(id))}
<1>1. CASE m.type = "connected"
  <2>1. P = v.peers \cup m.peers
    BY <1>0, <1>1, MessageFacts DEF Brings
  <2>. QED
    BY <1>1, <2>1 DEF Learn
<1>2. CASE m.type = "peer_joined"
  <2>1. P = v.peers \cup {m.id}
    BY <1>0, <1>2, MessageFacts DEF Brings
  <2>2. Learn(v, m) = [greeted |-> v.greeted, peers |-> v.peers \cup {m.id}]
    BY <1>0, <1>2 DEF Learn
  <2>. QED
    BY <1>0, <1>2, <2>1, <2>2
<1>3. CASE m.type = "peer_left"
  <2>1. P = v.peers \ {m.id}
    BY <1>0, <1>3, MessageFacts DEF Brings
  <2>2. Learn(v, m) = [greeted |-> v.greeted, peers |-> v.peers \ {m.id}]
    BY <1>0, <1>3 DEF Learn
  <2>. QED
    BY <1>0, <1>3, <2>1, <2>2
<1>4. CASE m.type \notin {"connected", "peer_joined", "peer_left"}
  <2>1. P = v.peers
    BY <1>0, <1>4, MessageFacts DEF Brings
  <2>2. Learn(v, m) = v
    BY <1>4 DEF Learn
  <2>. QED
    BY <1>0, <1>4, <2>1, <2>2
<1>. QED
  BY <1>1, <1>2, <1>3, <1>4

LEMMA AfterType ==
    ASSUME NEW v \in Views, NEW s \in Seq(Messages)
    PROVE  After(v, s) \in Views
BY DEF After, Views

LEMMA AfterNothing ==
    ASSUME NEW v \in Views
    PROVE  After(v, <<>>) = v
<1>1. DOMAIN <<>> = {}
  OBVIOUS
<1>2. v = [greeted |-> v.greeted, peers |-> v.peers] /\ v.peers \subseteq ClientIds /\ v.greeted \in BOOLEAN
  BY DEF Views
<1>3. {id \in ClientIds : id \in v.peers} = v.peers
  BY <1>2
<1>4. After(v, <<>>) = [greeted |-> v.greeted, peers |-> {id \in ClientIds : id \in v.peers}]
  BY <1>1, <1>2 DEF After
<1>. QED
  BY <1>2, <1>3, <1>4

\* After is the fold of Learn, from the last message...
LEMMA AfterAppend ==
    ASSUME NEW v \in Views, NEW s \in Seq(Messages), NEW m \in Messages
    PROVE  After(v, Append(s, m)) = Learn(After(v, s), m)
<1>1. PICK t \in Seq(Messages) : t = Append(s, m)
  BY AppendProperties
<1>2. PICK n \in Nat : n = Len(s)
  BY LenProperties
<1>3. /\ DOMAIN t = 1..(n + 1) /\ DOMAIN s = 1..n
      /\ t[n + 1] = m /\ \A i \in 1..n : t[i] = s[i]
  BY <1>1, <1>2, AppendProperties
<1>4. PICK w \in Views : w = After(v, s)
  BY AfterType
<1>5. /\ w.greeted = (v.greeted \/ \E i \in 1..n : s[i].type = "connected")
      /\ \A id \in ClientIds : id \in w.peers <=>
            \/ id \in v.peers /\ \A i \in 1..n : s[i] # PeerLeft(id)
            \/ \E i \in 1..n : Brings(s[i], id) /\ \A j \in 1..n : i < j => s[j] # PeerLeft(id)
  BY <1>3, <1>4 DEF After
<1>6. \A i : i \in 1..(n + 1) <=> i \in 1..n \/ i = n + 1
  BY <1>2
<1>7. (\E i \in 1..(n + 1) : t[i].type = "connected") <=> (\E i \in 1..n : s[i].type = "connected") \/ m.type = "connected"
  BY <1>3, <1>6
<1>8. ASSUME NEW id \in ClientIds
      PROVE  (\/ id \in v.peers /\ \A i \in 1..(n + 1) : t[i] # PeerLeft(id)
              \/ \E i \in 1..(n + 1) :
                     Brings(t[i], id) /\ \A j \in 1..(n + 1) : i < j => t[j] # PeerLeft(id))
             <=> (Brings(m, id) \/ (id \in w.peers /\ m # PeerLeft(id)))
  <2>1. (\A i \in 1..(n + 1) : t[i] # PeerLeft(id)) <=> (\A i \in 1..n : s[i] # PeerLeft(id)) /\ m # PeerLeft(id)
    BY <1>3, <1>6
  <2>2. \A j \in 1..(n + 1) : ~(n + 1 < j)
    BY <1>2
  <2>3. \A i \in 1..n : i < n + 1
    BY <1>2
  <2>4. ASSUME NEW i \in 1..n
        PROVE  (\A j \in 1..(n + 1) : i < j => t[j] # PeerLeft(id))
                <=> (\A j \in 1..n : i < j => s[j] # PeerLeft(id)) /\ m # PeerLeft(id)
    BY <1>3, <1>6, <2>3
  <2>5. (\E i \in 1..(n + 1) :
             Brings(t[i], id) /\ \A j \in 1..(n + 1) : i < j => t[j] # PeerLeft(id))
        <=> Brings(m, id)
            \/ (/\ \E i \in 1..n : Brings(s[i], id) /\ \A j \in 1..n : i < j => s[j] # PeerLeft(id)
                /\ m # PeerLeft(id))
    BY <1>3, <1>6, <2>2, <2>4
  <2>. QED
    BY <1>5, <2>1, <2>5
<1>9. Learn(w, m) =
         [greeted |-> w.greeted \/ m.type = "connected",
          peers |-> {id \in ClientIds : Brings(m, id) \/ (id \in w.peers /\ m # PeerLeft(id))}]
  BY LearnForm
<1>10. After(v, t).greeted = Learn(w, m).greeted
  <2>1. After(v, t).greeted = (v.greeted \/ \E i \in 1..(n + 1) : t[i].type = "connected")
    BY <1>3 DEF After
  <2>2. Learn(w, m).greeted = (w.greeted \/ m.type = "connected")
    BY <1>9
  <2>. QED
    BY <1>5, <1>7, <2>1, <2>2
<1>11. After(v, t).peers = Learn(w, m).peers
  BY <1>3, <1>8, <1>9 DEF After
<1>12. After(v, t) = [greeted |-> After(v, t).greeted, peers |-> After(v, t).peers]
  BY DEF After
<1>13. Learn(w, m) = [greeted |-> Learn(w, m).greeted, peers |-> Learn(w, m).peers]
  BY <1>9
<1>14. After(v, t) = Learn(w, m)
  BY <1>10, <1>11, <1>12, <1>13
<1>. QED
  BY <1>1, <1>4, <1>14

\* ... and from the first.
LEMMA AfterFirst ==
    ASSUME NEW v \in Views, NEW s \in Seq(Messages), NEW m \in Messages
    PROVE  After(v, <<m>> \o s) = After(Learn(v, m), s)
<1>0. <<m>> \in Seq(Messages) /\ Len(<<m>>) = 1 /\ <<m>>[1] = m
  OBVIOUS
<1>1. PICK t \in Seq(Messages) : t = <<m>> \o s
  BY <1>0, ConcatProperties
<1>2. PICK n \in Nat : n = Len(s)
  BY LenProperties
<1>3. /\ DOMAIN t = 1..(n + 1) /\ DOMAIN s = 1..n
      /\ t[1] = m /\ \A i \in 1..n : t[i + 1] = s[i]
  <2>1. Len(t) = 1 + n
    BY <1>0, <1>1, <1>2, ConcatProperties
  <2>2. \A i \in 1..(1 + n) : t[i] = IF i <= 1 THEN <<m>>[i] ELSE s[i - 1]
    BY <1>0, <1>1, <1>2, ConcatProperties
  <2>3. \A i \in 1..n : i + 1 \in 1..(1 + n) /\ ~(i + 1 <= 1) /\ (i + 1) - 1 = i
    BY <1>2
  <2>. QED
    BY <1>0, <1>2, <2>1, <2>2, <2>3
<1>4. PICK w \in Views : w = Learn(v, m)
  BY LearnType DEF Views
<1>5. w = [greeted |-> v.greeted \/ m.type = "connected",
           peers |-> {id \in ClientIds : Brings(m, id) \/ (id \in v.peers /\ m # PeerLeft(id))}]
  BY <1>4, LearnForm
<1>6. /\ 1 \in 1..(n + 1)
      /\ \A k \in 1..n : k + 1 \in 1..(n + 1) /\ t[k + 1] = s[k]
      /\ \A i \in 1..(n + 1) : i # 1 => i - 1 \in 1..n /\ t[i] = s[i - 1]
  <2>1. ASSUME NEW i \in 1..(n + 1), i # 1 PROVE i - 1 \in 1..n /\ i = (i - 1) + 1
    BY <1>2, <2>1
  <2>2. \A k \in 1..n : k + 1 \in 1..(n + 1)
    BY <1>2
  <2>3. 1 \in 1..(n + 1)
    BY <1>2
  <2>4. ASSUME NEW i \in 1..(n + 1), i # 1 PROVE t[i] = s[i - 1]
    <3>1. PICK k \in 1..n : k = i - 1
      BY <2>1, <2>4
    <3>2. i = k + 1
      BY <2>1, <2>4, <3>1
    <3>. QED
      BY <1>3, <3>1, <3>2
  <2>. QED
    BY <1>3, <2>1, <2>2, <2>3, <2>4
<1>7. (\E i \in 1..(n + 1) : t[i].type = "connected") <=> (\E i \in 1..n : s[i].type = "connected") \/ m.type = "connected"
  <2>1. ASSUME NEW i \in 1..(n + 1), t[i].type = "connected"
        PROVE  (\E k \in 1..n : s[k].type = "connected") \/ m.type = "connected"
    BY <1>3, <1>6, <2>1
  <2>2. ASSUME NEW k \in 1..n, s[k].type = "connected"
        PROVE  \E i \in 1..(n + 1) : t[i].type = "connected"
    BY <1>6, <2>2
  <2>3. m.type = "connected" => \E i \in 1..(n + 1) : t[i].type = "connected"
    BY <1>3, <1>6
  <2>. QED
    BY <2>1, <2>2, <2>3
<1>8. ASSUME NEW id \in ClientIds
      PROVE  (\/ id \in v.peers /\ \A i \in 1..(n + 1) : t[i] # PeerLeft(id)
              \/ \E i \in 1..(n + 1) :
                     Brings(t[i], id) /\ \A j \in 1..(n + 1) : i < j => t[j] # PeerLeft(id))
             <=> (\/ id \in w.peers /\ \A i \in 1..n : s[i] # PeerLeft(id)
                  \/ \E i \in 1..n : Brings(s[i], id) /\ \A j \in 1..n : i < j => s[j] # PeerLeft(id))
  <2>1. (\A i \in 1..(n + 1) : t[i] # PeerLeft(id)) <=> (\A i \in 1..n : s[i] # PeerLeft(id)) /\ m # PeerLeft(id)
    <3>1. ASSUME \A i \in 1..(n + 1) : t[i] # PeerLeft(id)
          PROVE  (\A i \in 1..n : s[i] # PeerLeft(id)) /\ m # PeerLeft(id)
      BY <1>3, <1>6, <3>1
    <3>2. ASSUME \A i \in 1..n : s[i] # PeerLeft(id), m # PeerLeft(id), NEW i \in 1..(n + 1)
          PROVE  t[i] # PeerLeft(id)
      BY <1>3, <1>6, <3>2
    <3>. QED
      BY <3>1, <3>2
  <2>2. ASSUME NEW i \in 0..n
        PROVE  (\A j \in 1..(n + 1) : i + 1 < j => t[j] # PeerLeft(id))
                <=> (\A j \in 1..n : i < j => s[j] # PeerLeft(id))
    <3>1. ASSUME \A j \in 1..(n + 1) : i + 1 < j => t[j] # PeerLeft(id), NEW j \in 1..n, i < j
          PROVE  s[j] # PeerLeft(id)
      <4>1. i + 1 < j + 1
        BY <1>2, <3>1
      <4>. QED
        BY <1>6, <3>1, <4>1
    <3>2. ASSUME \A j \in 1..n : i < j => s[j] # PeerLeft(id), NEW j \in 1..(n + 1), i + 1 < j
          PROVE  t[j] # PeerLeft(id)
      <4>1. j # 1 /\ i < j - 1
        BY <1>2, <3>2
      <4>. QED
        BY <1>6, <3>2, <4>1
    <3>. QED
      BY <3>1, <3>2
  <2>3. (\A j \in 1..(n + 1) : 1 < j => t[j] # PeerLeft(id)) <=> (\A j \in 1..n : s[j] # PeerLeft(id))
    <3>1. 0 \in 0..n /\ 0 + 1 = 1 /\ \A j \in 1..n : 0 < j
      BY <1>2
    <3>2. (\A j \in 1..(n + 1) : 0 + 1 < j => t[j] # PeerLeft(id))
            <=> (\A j \in 1..n : 0 < j => s[j] # PeerLeft(id))
      BY <2>2, <3>1
    <3>. QED
      BY <3>1, <3>2
  <2>4. ASSUME NEW i \in 1..(n + 1), Brings(t[i], id), \A j \in 1..(n + 1) : i < j => t[j] # PeerLeft(id)
        PROVE  \/ Brings(m, id) /\ \A j \in 1..n : s[j] # PeerLeft(id)
               \/ \E k \in 1..n : Brings(s[k], id) /\ \A j \in 1..n : k < j => s[j] # PeerLeft(id)
    <3>1. CASE i = 1
      BY <1>3, <2>3, <2>4, <3>1
    <3>2. CASE i # 1
      <4>1. PICK k \in 1..n : k = i - 1 /\ t[i] = s[k]
        BY <1>6, <3>2
      <4>2. i = k + 1 /\ k \in 0..n
        BY <1>2, <4>1
      <4>. QED
        BY <2>2, <2>4, <4>1, <4>2
    <3>. QED
      BY <3>1, <3>2
  <2>5. ASSUME NEW k \in 1..n, Brings(s[k], id), \A j \in 1..n : k < j => s[j] # PeerLeft(id)
        PROVE  \E i \in 1..(n + 1) :
                   Brings(t[i], id) /\ \A j \in 1..(n + 1) : i < j => t[j] # PeerLeft(id)
    <3>1. PICK i \in 1..(n + 1) : i = k + 1 /\ t[i] = s[k]
      BY <1>6
    <3>2. k \in 0..n
      BY <1>2
    <3>. QED
      BY <2>2, <2>5, <3>1, <3>2
  <2>6. ASSUME Brings(m, id), \A j \in 1..n : s[j] # PeerLeft(id)
        PROVE  \E i \in 1..(n + 1) :
                   Brings(t[i], id) /\ \A j \in 1..(n + 1) : i < j => t[j] # PeerLeft(id)
    BY <1>3, <1>6, <2>3, <2>6
  <2>7. id \in w.peers <=> Brings(m, id) \/ (id \in v.peers /\ m # PeerLeft(id))
    BY <1>5
  <2>. QED
    BY <2>1, <2>4, <2>5, <2>6, <2>7
<1>9. After(v, t).greeted = After(w, s).greeted
  BY <1>3, <1>5, <1>7 DEF After
<1>10. After(v, t).peers = After(w, s).peers
  <2>1. \A id \in ClientIds : id \in After(v, t).peers <=> id \in After(w, s).peers
    BY <1>3, <1>8 DEF After
  <2>2. After(v, t).peers \subseteq ClientIds /\ After(w, s).peers \subseteq ClientIds
    BY DEF After
  <2>. QED
    BY <2>1, <2>2
<1>11. After(v, t) = After(w, s)
  <2>1. After(v, t) = [greeted |-> After(v, t).greeted, peers |-> After(v, t).peers]
    BY DEF After
  <2>2. After(w, s) = [greeted |-> After(w, s).greeted, peers |-> After(w, s).peers]
    BY DEF After
  <2>. QED
    BY <1>9, <1>10, <2>1, <2>2
<1>. QED
  BY <1>1, <1>4, <1>11

(***************************************************************************)
(* The invariants of the announcements.                                    *)
(***************************************************************************)
\* The messages that tell a client of a change in its room.
IsNews(msg) == msg.type \in {"connected", "peer_joined", "peer_left"}

\* A task that writes to its socket, that has not registered or that waits to
\* unregister has nothing to send; a reply and a signal are sent alone; the
\* Connected of a task is for its own client.
Calm ==
    \A c \in Conn :
        /\ sending[c] # <<>> => phase[c] = "running" /\ todo[c] = {}
        /\ phase[c] \notin {"running", "leaving"} => todo[c] = {}
        /\ \A s \in todo[c] : s.msg = Reply => todo[c] = {s}
        /\ \A s \in todo[c] : s.msg.type = "connected" => s.to = c

\* A task that has not registered has been sent nothing.
Blank ==
    \A c \in Conn : phase[c] \in AuthPhases \cup {"closed", "authenticated"} =>
        /\ Stream(c) = <<>>
        /\ view[c] = NoView
        /\ ~penalized[c]

\* Generated ids are never used twice.
FreshIds ==
    \A c \in Conn : phase[c] \in Registered /\ session[c].id \notin Aliases =>
        /\ session[c].id[2] <= next_client_id
        /\ \A d \in Conn : phase[d] \in Registered /\ session[d].id = session[c].id => d = c

\* Whoever is still to be announced as gone is gone for good.
GoneIds ==
    \A d \in Conn : \A s \in todo[d] :
        \A id \in ClientIds \ Aliases : s.msg = PeerLeft(id) =>
            /\ id[2] <= next_client_id
            /\ \A c \in Conn : phase[c] \in Registered => session[c].id # id

\* A client has been told, or is still to be told, of its peers.
Told ==
    \A c \in Conn : phase[c] = "running" /\ ~penalized[c] =>
        \A id \in Roster(c) \ Aliases :
            \/ id \in FinalView(c).peers
            \/ \E d \in Conn : \E s \in todo[d] : s.to = c /\ Brings(s.msg, id)

\* On the current-thread runtime one task at a time has messages to send.
OneTalks == \A c, d \in Conn : todo[c] # {} /\ todo[d] # {} => c = d

\* Which tell a client one thing.
OneNews ==
    \A d \in Conn : \A s, t \in todo[d] :
        IsNews(s.msg) /\ IsNews(t.msg) /\ s.to = t.to => s = t

Synced ==
    \A c \in Conn : phase[c] = "running" /\ ~penalized[c] =>
        LET right == [greeted |-> TRUE, peers |-> Roster(c)] IN
        /\ \A d \in Conn : \A s \in todo[d] : s.to = c /\ IsNews(s.msg) =>
               Learn(FinalView(c), s.msg) = right
        /\ (\A d \in Conn : \A s \in todo[d] : s.to = c => ~IsNews(s.msg)) => FinalView(c) = right

GreetedFirst ==
    \A c \in Conn : phase[c] = "running" =>
        IF \E s \in todo[c] : s.msg.type = "connected"
        THEN Stream(c) = <<>>
        ELSE view[c].greeted \/ (Stream(c) # <<>> /\ Head(Stream(c)).type = "connected")

(***************************************************************************)
(* What a step does to what is on its way to a client.                     *)
(***************************************************************************)
Kept(d) == view'[d] = view[d] /\ Stream(d)' = Stream(d)

Reached(d, m) == view'[d] = view[d] /\ Stream(d)' = Append(Stream(d), m)

Delivered(d) ==
    \E m \in Messages : Stream(d) = <<m>> \o Stream(d)' /\ view'[d] = Learn(view[d], m)

\* At most one message.
LEMMA ShortSeq ==
    ASSUME NEW x, x = <<>> \/ \E m \in Messages : x = <<m>>
    PROVE  x \in Seq(Messages)
<1>1. CASE x = <<>>
  BY <1>1
<1>2. ASSUME NEW m \in Messages, x = <<m>> PROVE x \in Seq(Messages)
  <2>1. <<m>> \in Seq(Messages)
    OBVIOUS
  <2>. QED
    BY <1>2, <2>1
<1>. QED
  BY <1>1, <1>2

LEMMA StreamType ==
    ASSUME TasksTypeOK, NEW d \in Conn
    PROVE  /\ sending[d] \in Seq(Messages) /\ outbound[d] \in Seq(Messages)
           /\ Stream(d) \in Seq(Messages)
           /\ Stream(d) = <<>> <=> sending[d] = <<>> /\ outbound[d] = <<>>
           /\ view[d] \in Views
           /\ FinalView(d) \in Views
<1>1. outbound[d] \in Seq(Messages) /\ view[d] \in Views
  BY DEF TasksTypeOK, Views
<1>2. sending[d] \in Seq(Messages)
  <2>1. sending[d] = <<>> \/ \E m \in Messages : sending[d] = <<m>>
    BY DEF TasksTypeOK
  <2>. QED
    BY <2>1, ShortSeq
<1>3. Stream(d) \in Seq(Messages)
  BY <1>1, <1>2, ConcatProperties DEF Stream
<1>4. Stream(d) = <<>> <=> sending[d] = <<>> /\ outbound[d] = <<>>
  BY <1>1, <1>2, ConcatEqualIffEmpty DEF Stream
<1>5. FinalView(d) \in Views
  BY <1>1, <1>3, AfterType DEF FinalView
<1>. QED
  BY <1>1, <1>2, <1>3, <1>4, <1>5

LEMMA StreamTypeAfter ==
    ASSUME TasksTypeOK', NEW d \in Conn
    PROVE  Stream(d)' \in Seq(Messages)
<1>1. sending'[d] = <<>> \/ \E n \in Messages : sending'[d] = <<n>>
  BY DEF TasksTypeOK
<1>2. sending'[d] \in Seq(Messages) /\ outbound'[d] \in Seq(Messages)
  BY <1>1, ShortSeq DEF TasksTypeOK
<1>3. sending'[d] \o outbound'[d] \in Seq(Messages)
  BY <1>2, ConcatProperties
<1>. QED
  BY <1>3 DEF Stream

LEMMA FinalViewKept ==
    ASSUME TasksTypeOK, TasksTypeOK', NEW d \in Conn, Kept(d) \/ Delivered(d)
    PROVE  FinalView(d)' = FinalView(d)
<1>1. CASE Kept(d)
  BY <1>1 DEF Kept, FinalView
<1>2. CASE Delivered(d)
  <2>1. PICK m \in Messages : Stream(d) = <<m>> \o Stream(d)' /\ view'[d] = Learn(view[d], m)
    BY <1>2 DEF Delivered
  <2>2. view[d] \in Views
    BY StreamType
  <2>3. PICK t \in Seq(Messages) : t = Stream(d)'
    BY StreamTypeAfter
  <2>4. After(view[d], <<m>> \o t) = After(Learn(view[d], m), t)
    BY <2>2, AfterFirst
  <2>. QED
    BY <2>1, <2>3, <2>4 DEF FinalView
<1>. QED
  BY <1>1, <1>2

LEMMA FinalViewReached ==
    ASSUME TasksTypeOK, NEW d \in Conn, NEW m \in Messages, Reached(d, m)
    PROVE  FinalView(d)' = Learn(FinalView(d), m)
<1>1. view[d] \in Views /\ Stream(d) \in Seq(Messages)
  BY StreamType
<1>2. After(view[d], Append(Stream(d), m)) = Learn(After(view[d], Stream(d)), m)
  BY <1>1, AfterAppend
<1>. QED
  BY <1>2 DEF Reached, FinalView

\* A message that brings no news teaches nothing.
LEMMA LearnNothing ==
    ASSUME NEW v \in Views, NEW m \in Messages, ~IsNews(m)
    PROVE  Learn(v, m) = v
BY DEF Learn, IsNews

LEMMA EnqueueStream ==
    ASSUME TasksTypeOK, NEW to \in Conn, NEW msg \in Messages, Enqueue(to, msg),
           sending' = sending, view' = view
    PROVE  /\ \A d \in Conn : d # to => Kept(d)
           /\ ~IsFull(to) /\ QueueOpen(to) => Reached(to, msg)
           /\ ~(~IsFull(to) /\ QueueOpen(to)) => Kept(to)
<1>1. \A d \in Conn : outbound'[d] = outbound[d] => Kept(d)
  BY DEF Kept, Stream
<1>2. \A d \in Conn : d # to => outbound'[d] = outbound[d]
  BY DEF Enqueue, TasksTypeOK
<1>3. ASSUME ~IsFull(to), QueueOpen(to) PROVE Reached(to, msg)
  <2>1. outbound'[to] = Append(outbound[to], msg)
    BY <1>3 DEF Enqueue, TasksTypeOK
  <2>2. PICK a \in Seq(Messages), b \in Seq(Messages) : a = sending[to] /\ b = outbound[to]
    BY StreamType
  <2>3. a \o Append(b, msg) = Append(a \o b, msg)
    <3>1. <<msg>> \in Seq(Messages) /\ a \o b \in Seq(Messages)
      BY ConcatProperties
    <3>2. Append(b, msg) = b \o <<msg>> /\ Append(a \o b, msg) = (a \o b) \o <<msg>>
      BY <3>1, AppendIsConcat
    <3>3. (a \o b) \o <<msg>> = a \o (b \o <<msg>>)
      BY <3>1, ConcatAssociative
    <3>. QED
      BY <3>2, <3>3
  <2>. QED
    BY <2>1, <2>2, <2>3 DEF Reached, Stream
<1>4. ASSUME ~(~IsFull(to) /\ QueueOpen(to)) PROVE Kept(to)
  BY <1>1, <1>4 DEF Enqueue
<1>. QED
  BY <1>1, <1>2, <1>3, <1>4

\* A step that neither registers, nor unregisters, nor sends.
SilentStep ==
    /\ \A d \in Conn : phase'[d] = "running" =>
           /\ phase[d] = "running" /\ session'[d] = session[d]
           /\ ~penalized'[d] => ~penalized[d]
           /\ Kept(d) \/ Delivered(d) \/ (Reached(d, Reply) /\ todo[d] = {})
    /\ \A d \in Conn : \A s \in todo'[d] : IsNews(s.msg) => s \in todo[d]
    /\ \A d \in Conn : \A s \in todo[d] : s \in todo'[d]

LEMMA SilentUnchanged ==
    ASSUME TasksTypeOK, UNCHANGED tasks
    PROVE  SilentStep
BY DEF SilentStep, tasks, Kept, Stream

\* A task that moves on, or ends, while it is not in its loop.
LEMMA SilentGoto ==
    ASSUME TasksTypeOK, NEW c \in Conn, NEW p, p # "running", Goto(c, p) \/ phase' = phase,
           \A d \in Conn : d # c => session'[d] = session[d],
           phase' = phase => session' = session,
           UNCHANGED channels
    PROVE  SilentStep
<1>1. \A d \in Conn : Kept(d)
  BY DEF channels, Kept, Stream
<1>. QED
  BY <1>1 DEF SilentStep, Goto, channels, TasksTypeOK

LEMMA SilentDrop ==
    ASSUME TasksTypeOK, NEW c \in Conn, Drop(c)
    PROVE  SilentStep
<1>1. \A d \in Conn : d # c => Kept(d) /\ session'[d] = session[d] /\ penalized'[d] = penalized[d]
                               /\ phase'[d] = phase[d]
  BY DEF Drop, Goto, Kept, Stream, TasksTypeOK
<1>2. phase'[c] # "running"
  BY DEF Drop, Goto, TasksTypeOK
<1>. QED
  BY <1>1, <1>2 DEF SilentStep, Drop

LEMMA SilentHandshake ==
    ASSUME TasksTypeOK, NEW c \in Conn, Handshake(c)
    PROVE  SilentStep
<1>1. CASE Drop(c)
  BY <1>1, SilentDrop
<1>2. CASE ~Drop(c)
  <2>1. PICK p : p # "running" /\ Goto(c, p)
    BY <1>2 DEF Handshake, PakeInit, EnsureRoomCapacity, PakeRegistration,
                PakeCredentialFinalization, AuthAbort
  <2>2. UNCHANGED channels /\ \A d \in Conn : d # c => session'[d] = session[d]
    BY <1>2 DEF Handshake, PakeInit, EnsureRoomCapacity, PakeRegistration,
                PakeCredentialFinalization, AuthAbort, TasksTypeOK
  <2>3. phase' = phase => p = phase[c]
    BY <2>1 DEF Goto, TasksTypeOK
  <2>4. phase' # phase
    BY <1>2 DEF Handshake, PakeInit, EnsureRoomCapacity, PakeRegistration,
                PakeCredentialFinalization, AuthAbort, Goto, TasksTypeOK
  <2>. QED
    BY <2>1, <2>2, <2>4, SilentGoto
<1>. QED
  BY <1>1, <1>2

LEMMA SilentAccept ==
    ASSUME TasksTypeOK, NEW c \in Conn, NEW ip, Accept(c, ip)
    PROVE  SilentStep
BY SilentGoto DEF Accept

LEMMA SilentSignalFrame ==
    ASSUME TasksTypeOK, NEW c \in Conn, NEW peer, SignalFrame(c, peer)
    PROVE  SilentStep
<1>1. \A d \in Conn : Kept(d)
  BY DEF SignalFrame, Kept, Stream
<1>2. todo[c] = {}
  BY DEF SignalFrame, Looping
<1>3. \A s \in todo'[c] : s.msg = Reply \/ s.msg = Signal(session[c].id)
  BY DEF SignalFrame, Announce, TasksTypeOK
<1>4. \A s \in todo'[c] : ~IsNews(s.msg)
  BY <1>3 DEF IsNews, Reply, Signal
<1>5. \A d \in Conn : d # c => todo'[d] = todo[d]
  BY DEF SignalFrame, TasksTypeOK
<1>. QED
  BY <1>1, <1>2, <1>4, <1>5 DEF SilentStep, SignalFrame

LEMMA SilentRuntime ==
    ASSUME TasksTypeOK, NEW c \in Conn, Runtime(c),
           ~Register(c), ~Unregister(c), ~TrySend(c)
    PROVE  SilentStep
<1>1. CASE RegisterFails(c) \/ Return(c)
  BY <1>1, SilentDrop DEF RegisterFails, Return
<1>2. CASE PenaltyTick(c) \/ Disconnect(c)
  BY <1>2, SilentGoto DEF PenaltyTick, Disconnect
<1>3. CASE SendOutbound(c)
  <2>1. \A d \in Conn : d # c => Kept(d)
    BY <1>3 DEF SendOutbound, Kept, Stream, TasksTypeOK
  <2>2. PICK o \in Seq(Messages) : o = outbound[c] /\ o # <<>>
    BY <1>3, StreamType DEF SendOutbound
  <2>3. sending[c] = <<>> /\ sending'[c] = <<Head(o)>> /\ outbound'[c] = Tail(o)
    BY <1>3, <2>2 DEF SendOutbound, Looping, TasksTypeOK
  <2>4. <<Head(o)>> \o Tail(o) = o /\ <<>> \o o = o
    BY <2>2, HeadTailProperties, ConcatProperties, ConcatEmptySeq
  <2>5. Kept(c)
    BY <1>3, <2>2, <2>3, <2>4 DEF SendOutbound, Kept, Stream
  <2>. QED
    BY <1>3, <2>1, <2>5 DEF SilentStep, SendOutbound
<1>4. CASE SendCompletes(c)
  <2>1. \A d \in Conn : d # c => Kept(d)
    BY <1>4 DEF SendCompletes, Kept, Stream, TasksTypeOK
  <2>2. PICK m \in Messages : sending[c] = <<m>>
    BY <1>4 DEF SendCompletes, TasksTypeOK
  <2>3. sending'[c] = <<>> /\ outbound'[c] = outbound[c] /\ view'[c] = Learn(view[c], m)
    BY <1>4, <2>2 DEF SendCompletes, TasksTypeOK
  <2>4. <<>> \o outbound[c] = outbound[c]
    BY StreamType, ConcatEmptySeq
  <2>5. Delivered(c)
    BY <2>2, <2>3, <2>4 DEF Delivered, Stream
  <2>. QED
    BY <1>4, <2>1, <2>5 DEF SilentStep, SendCompletes
<1>5. CASE SendFails(c)
  <2>1. \A d \in Conn : d # c => Kept(d) /\ phase'[d] = phase[d]
    BY <1>5 DEF SendFails, Kept, Stream, Goto, TasksTypeOK
  <2>2. phase'[c] # "running"
    BY <1>5 DEF SendFails, Goto, TasksTypeOK
  <2>. QED
    BY <1>5, <2>1, <2>2 DEF SilentStep, SendFails
<1>6. CASE AnswerFrame(c)
  <2>1. Reply \in Messages /\ QueueOpen(c) /\ todo[c] = {} /\ phase[c] = "running"
    BY <1>6, MessageTypes DEF AnswerFrame, Looping, QueueOpen, Registered
  <2>2. /\ \A d \in Conn : d # c => Kept(d)
        /\ ~IsFull(c) => Reached(c, Reply)
    BY <1>6, <2>1, EnqueueStream DEF AnswerFrame
  <2>3. /\ \A d \in Conn : d # c => penalized'[d] = penalized[d] /\ phase'[d] = phase[d]
        /\ ~IsFull(c) => penalized' = penalized
        /\ IsFull(c) => phase'[c] # "running"
    BY <1>6 DEF AnswerFrame, Penalize, Goto, TasksTypeOK
  <2>. QED
    BY <1>6, <2>1, <2>2, <2>3 DEF SilentStep, AnswerFrame
<1>. QED
  BY <1>1, <1>2, <1>3, <1>4, <1>5, <1>6 DEF Runtime, Listening

(***************************************************************************)
(* Calm and Blank.                                                         *)
(***************************************************************************)
LEMMA CalmFrame ==
    ASSUME Calm, NEW c \in Conn,
           \A d \in Conn : d # c =>
               phase'[d] = phase[d] /\ sending'[d] = sending[d] /\ todo'[d] = todo[d],
           sending'[c] # <<>> => phase'[c] = "running" /\ todo'[c] = {},
           phase'[c] \notin {"running", "leaving"} => todo'[c] = {},
           \A s \in todo'[c] : s.msg = Reply => todo'[c] = {s},
           \A s \in todo'[c] : s.msg.type = "connected" => s.to = c
    PROVE  Calm'
BY DEF Calm

LEMMA CalmIdle ==
    ASSUME Calm, NEW c \in Conn,
           \A d \in Conn : d # c =>
               phase'[d] = phase[d] /\ sending'[d] = sending[d] /\ todo'[d] = todo[d],
           sending'[c] = <<>>, todo'[c] = {}
    PROVE  Calm'
BY CalmFrame

LEMMA CalmHandshake ==
    ASSUME TasksTypeOK, Calm, NEW c \in Conn, Handshake(c)
    PROVE  Calm'
<1>1. phase[c] \in AuthPhases
  BY DEF Handshake, PakeInit, EnsureRoomCapacity, PakeRegistration,
         PakeCredentialFinalization, AuthAbort, AuthPhases
<1>2. todo[c] = {} /\ sending[c] = <<>>
  BY <1>1 DEF Calm, AuthPhases
<1>3. CASE Drop(c)
  BY <1>2, <1>3, CalmIdle DEF Drop, Goto, TasksTypeOK
<1>4. CASE ~Drop(c)
  <2>1. UNCHANGED channels /\ \E p : Goto(c, p)
    BY <1>4 DEF Handshake, PakeInit, EnsureRoomCapacity, PakeRegistration,
                PakeCredentialFinalization, AuthAbort
  <2>. QED
    BY <1>2, <2>1, CalmIdle DEF channels, Goto, TasksTypeOK
<1>. QED
  BY <1>3, <1>4

LEMMA CalmAccept ==
    ASSUME TasksTypeOK, Calm, NEW c \in Conn, NEW ip, Accept(c, ip)
    PROVE  Calm'
<1>1. todo[c] = {} /\ sending[c] = <<>>
  BY DEF Calm, Accept
<1>. QED
  BY <1>1, CalmIdle DEF Accept, channels, Goto, TasksTypeOK

\* The types of what the tasks announce.
LEMMA AnnounceTypes ==
    /\ \A id : PeerJoined(id).type = "peer_joined" /\ PeerLeft(id).type = "peer_left"
               /\ Signal(id).type = "signal" /\ PeerJoined(id).id = id /\ PeerLeft(id).id = id
    /\ \A peers : Connected(peers).type = "connected" /\ Connected(peers).peers = peers
    /\ Reply.type = "reply"
BY DEF PeerJoined, PeerLeft, Signal, Connected, Reply

LEMMA CalmRuntime ==
    ASSUME TasksTypeOK, Calm, NEW c \in Conn, Runtime(c)
    PROVE  Calm'
<1>1. CASE RegisterFails(c) \/ Return(c)
  <2>1. todo[c] = {} /\ sending'[c] = <<>>
    BY <1>1 DEF RegisterFails, Return, Drop, Calm, TasksTypeOK
  <2>. QED
    BY <1>1, <2>1, CalmIdle DEF RegisterFails, Return, Drop, Goto, TasksTypeOK
<1>2. CASE PenaltyTick(c) \/ Disconnect(c)
  BY <1>2, CalmIdle DEF PenaltyTick, Disconnect, Looping, channels, Goto, TasksTypeOK
<1>3. CASE SendOutbound(c)
  BY <1>3, CalmFrame DEF SendOutbound, Looping, TasksTypeOK
<1>4. CASE SendCompletes(c) \/ SendFails(c)
  <2>1. todo[c] = {} /\ sending'[c] = <<>>
    BY <1>4 DEF SendCompletes, SendFails, Calm, TasksTypeOK
  <2>. QED
    BY <1>4, <2>1, CalmIdle DEF SendCompletes, SendFails, Goto, TasksTypeOK
<1>5. CASE AnswerFrame(c)
  BY <1>5, CalmIdle DEF AnswerFrame, Looping, Goto, TasksTypeOK
<1>6. CASE Register(c)
  <2>1. phase'[c] = "running" /\ sending'[c] = <<>>
        /\ \A d \in Conn : d # c => phase'[d] = phase[d] /\ sending'[d] = sending[d] /\ todo'[d] = todo[d]
    BY <1>6 DEF Register, Goto, Calm, TasksTypeOK
  <2>2. \A s \in todo'[c] : \/ s.to = c /\ \E peers : s.msg = Connected(peers)
                            \/ \E id : s.msg = PeerJoined(id)
    BY <1>6 DEF Register, Announce, TasksTypeOK
  <2>3. \A s \in todo'[c] : s.msg # Reply /\ (s.msg.type = "connected" => s.to = c)
    BY <2>2, NoReplies, AnnounceTypes
  <2>. QED
    BY <2>1, <2>3, CalmFrame
<1>7. CASE Unregister(c)
  <2>1. phase'[c] = "leaving" /\ sending'[c] = <<>>
        /\ \A d \in Conn : d # c => phase'[d] = phase[d] /\ sending'[d] = sending[d] /\ todo'[d] = todo[d]
    BY <1>7 DEF Unregister, Goto, Calm, TasksTypeOK
  <2>2. \A s \in todo'[c] : \E id : s.msg = PeerLeft(id)
    BY <1>7 DEF Unregister, Announce, TasksTypeOK
  <2>3. \A s \in todo'[c] : s.msg # Reply /\ s.msg.type # "connected"
    BY <2>2, NoReplies, AnnounceTypes
  <2>. QED
    BY <2>1, <2>3, CalmFrame
<1>8. CASE TrySend(c)
  <2>1. PICK s \in NextSends(c) :
            /\ todo' = [todo EXCEPT ![c] = @ \ {s}]
            /\ IF s.msg = Reply /\ IsFull(c) THEN Goto(c, "closing") ELSE UNCHANGED phase
    BY <1>8 DEF TrySend
  <2>2. s \in todo[c]
    BY DEF NextSends
  <2>3. sending[c] = <<>> /\ phase[c] \in {"running", "leaving"}
    BY <2>2 DEF Calm
  <2>4. todo'[c] = todo[c] \ {s} /\ \A d \in Conn : d # c => todo'[d] = todo[d] /\ phase'[d] = phase[d]
    BY <2>1 DEF Goto, TasksTypeOK
  <2>5. phase'[c] = phase[c] \/ todo'[c] = {}
    BY <2>1, <2>2, <2>4 DEF Calm
  <2>6. sending' = sending
    BY <1>8 DEF TrySend
  <2>7. \A t \in todo'[c] : (t.msg = Reply => todo'[c] = {t}) /\ (t.msg.type = "connected" => t.to = c)
    BY <2>4 DEF Calm
  <2>. QED
    BY <2>3, <2>4, <2>5, <2>6, <2>7, CalmFrame
<1>. QED
  BY <1>1, <1>2, <1>3, <1>4, <1>5, <1>6, <1>7, <1>8 DEF Runtime, Listening

LEMMA CalmSignalFrame ==
    ASSUME TasksTypeOK, Calm, NEW c \in Conn, NEW peer, SignalFrame(c, peer)
    PROVE  Calm'
<1>1. phase'[c] = "running" /\ sending'[c] = <<>>
      /\ \A d \in Conn : d # c => phase'[d] = phase[d] /\ sending'[d] = sending[d] /\ todo'[d] = todo[d]
  BY DEF SignalFrame, Looping, TasksTypeOK
<1>2. PICK s : (s.msg = Reply \/ s.msg = Signal(session[c].id)) /\ todo'[c] = {s}
  <2>1. PICK x : (x = Announce(Reply, {c}) \/ \E to : x = Announce(Signal(session[c].id), {to}))
                 /\ todo' = [todo EXCEPT ![c] = x]
    BY DEF SignalFrame
  <2>2. todo'[c] = x
    BY <2>1 DEF TasksTypeOK
  <2>3. ASSUME NEW msg, NEW to, x = Announce(msg, {to})
        PROVE  \E s : s.msg = msg /\ todo'[c] = {s}
    <3>1. PICK s : s = [to |-> to, msg |-> msg]
      OBVIOUS
    <3>2. s.msg = msg /\ x = {s}
      BY <2>3, <3>1 DEF Announce
    <3>. QED
      BY <2>2, <3>2
  <2>4. \E msg, to : x = Announce(msg, {to}) /\ (msg = Reply \/ msg = Signal(session[c].id))
    BY <2>1
  <2>. QED
    BY <2>3, <2>4
<1>3. s.msg.type # "connected"
  BY <1>2, AnnounceTypes
<1>. QED
  BY <1>1, <1>2, <1>3, CalmFrame

BlankPhases == AuthPhases \cup {"closed", "authenticated"}

LEMMA BlankFrame ==
    ASSUME Blank, \A d \in Conn : phase'[d] \in BlankPhases =>
               \/ phase[d] \in BlankPhases /\ Kept(d) /\ penalized'[d] = penalized[d]
               \/ Stream(d)' = <<>> /\ view'[d] = NoView /\ ~penalized'[d]
    PROVE  Blank'
BY DEF Blank, BlankPhases, Kept

LEMMA BlankDrop ==
    ASSUME TasksTypeOK, Blank, NEW c \in Conn, Drop(c)
    PROVE  Blank'
<1>1. \A d \in Conn : d # c => phase'[d] = phase[d] /\ Kept(d) /\ penalized'[d] = penalized[d]
  BY DEF Drop, Goto, Kept, Stream, TasksTypeOK
<1>2. sending'[c] = <<>> /\ outbound'[c] = <<>> /\ view'[c] = NoView /\ ~penalized'[c]
  BY DEF Drop, TasksTypeOK
<1>3. Stream(c)' = <<>>
  <2>1. <<>> \o <<>> = <<>>
    OBVIOUS
  <2>. QED
    BY <1>2, <2>1 DEF Stream
<1>. QED
  BY <1>1, <1>2, <1>3, BlankFrame

LEMMA BlankGoto ==
    ASSUME TasksTypeOK, Blank, NEW c \in Conn, NEW p, Goto(c, p) \/ phase' = phase,
           p \in BlankPhases => phase[c] \in BlankPhases,
           UNCHANGED <<outbound, sending, penalized, view>>
    PROVE  Blank'
<1>1. \A d \in Conn : Kept(d)
  BY DEF Kept, Stream
<1>2. \A d \in Conn : phase'[d] \in BlankPhases => phase[d] \in BlankPhases
  BY DEF Goto, TasksTypeOK
<1>. QED
  BY <1>1, <1>2, BlankFrame

LEMMA BlankEnqueue ==
    ASSUME TasksTypeOK, Blank, NEW to \in Conn, NEW msg \in Messages, Enqueue(to, msg), Penalize(to),
           \A d \in Conn : phase'[d] = phase[d] \/ phase'[d] = "closing",
           UNCHANGED <<sending, view>>
    PROVE  Blank'
<1>1. "closing" \notin BlankPhases /\ \A p \in BlankPhases : p \notin Registered \cup {"leaving"}
  BY DEF BlankPhases, AuthPhases, Registered
<1>2. phase[to] \in BlankPhases => Kept(to) /\ penalized' = penalized
  BY <1>1, EnqueueStream DEF QueueOpen, Penalize
<1>3. \A d \in Conn : d # to => Kept(d) /\ penalized'[d] = penalized[d]
  BY EnqueueStream DEF Penalize, TasksTypeOK
<1>. QED
  BY <1>1, <1>2, <1>3, BlankFrame

LEMMA BlankStep ==
    ASSUME TasksTypeOK, Blank, NEW c \in Conn,
           \/ Handshake(c) \/ Runtime(c)
           \/ \E ip \in IPs : Accept(c, ip)
           \/ \E peer \in ClientIds : SignalFrame(c, peer)
    PROVE  Blank'
<1>0. /\ \A p \in AuthPhases : p \in BlankPhases
      /\ "closed" \in BlankPhases /\ "authenticated" \in BlankPhases
      /\ "running" \notin BlankPhases /\ "closing" \notin BlankPhases /\ "leaving" \notin BlankPhases
  BY DEF BlankPhases, AuthPhases
<1>1. CASE Handshake(c)
  <2>1. phase[c] \in BlankPhases
    BY <1>0, <1>1 DEF Handshake, PakeInit, EnsureRoomCapacity, PakeRegistration,
           PakeCredentialFinalization, AuthAbort, AuthPhases
  <2>2. CASE ~Drop(c)
    <3>1. UNCHANGED channels /\ \E p : Goto(c, p)
      BY <1>1, <2>2 DEF Handshake, PakeInit, EnsureRoomCapacity, PakeRegistration,
                  PakeCredentialFinalization, AuthAbort
    <3>. QED
      BY <2>1, <3>1, BlankGoto DEF channels
  <2>. QED
    BY <2>2, BlankDrop
<1>2. CASE \E ip \in IPs : Accept(c, ip)
  <2>1. phase[c] \in BlankPhases
    BY <1>0, <1>2 DEF Accept
  <2>. QED
    BY <1>2, <2>1, BlankGoto DEF Accept, channels
<1>3. CASE \E peer \in ClientIds : SignalFrame(c, peer)
  BY <1>3, BlankGoto DEF SignalFrame
<1>4. CASE RegisterFails(c) \/ Return(c)
  BY <1>4, BlankDrop DEF RegisterFails, Return
<1>5. CASE PenaltyTick(c) \/ Disconnect(c) \/ Register(c) \/ Unregister(c)
  BY <1>0, <1>5, BlankGoto DEF PenaltyTick, Disconnect, Register, Unregister, channels
<1>6. CASE SendOutbound(c) \/ SendCompletes(c) \/ SendFails(c)
  <2>1. /\ phase[c] \notin BlankPhases /\ phase'[c] \notin BlankPhases
        /\ \A d \in Conn : d # c => phase'[d] = phase[d] /\ Kept(d) /\ penalized'[d] = penalized[d]
    BY <1>0, <1>6 DEF SendOutbound, SendCompletes, SendFails, Looping, Goto, Kept, Stream, TasksTypeOK
  <2>. QED
    BY <2>1, BlankFrame
<1>7. CASE AnswerFrame(c)
  <2>1. \A d \in Conn : phase'[d] = phase[d] \/ phase'[d] = "closing"
    BY <1>7 DEF AnswerFrame, Goto, TasksTypeOK
  <2>. QED
    BY <1>7, <2>1, MessageTypes, BlankEnqueue DEF AnswerFrame
<1>8. CASE TrySend(c)
  <2>1. PICK s \in NextSends(c) :
            /\ Enqueue(s.to, s.msg) /\ Penalize(s.to)
            /\ IF s.msg = Reply /\ IsFull(c) THEN Goto(c, "closing") ELSE UNCHANGED phase
    BY <1>8 DEF TrySend
  <2>2. s.to \in Conn /\ s.msg \in Messages
    BY DEF NextSends, TasksTypeOK, Sends
  <2>3. \A d \in Conn : phase'[d] = phase[d] \/ phase'[d] = "closing"
    BY <2>1 DEF Goto, TasksTypeOK
  <2>4. UNCHANGED <<sending, view>>
    BY <1>8 DEF TrySend
  <2>. QED
    BY <2>1, <2>2, <2>3, <2>4, BlankEnqueue
<1>. QED
  BY <1>1, <1>2, <1>3, <1>4, <1>5, <1>6, <1>7, <1>8 DEF Runtime, Listening

(***************************************************************************)
(* The steps that send, register and unregister.                           *)
(***************************************************************************)
\* Sending: the message joins the queue of its receiver, or the receiver is
\* penalized.
SendStep(c, s) ==
    /\ s \in NextSends(c) /\ s \in todo[c] /\ s.to \in Conn /\ s.msg \in Messages
    /\ todo'[c] = todo[c] \ {s}
    /\ \A d \in Conn : d # c => todo'[d] = todo[d]
    /\ session' = session
    /\ \A d \in Conn : phase'[d] = "running" => phase[d] = "running"
    /\ \A d \in Conn : d # s.to => Kept(d) /\ penalized'[d] = penalized[d]
    /\ phase[s.to] = "running" =>
           \/ Reached(s.to, s.msg) /\ penalized'[s.to] = penalized[s.to]
           \/ Kept(s.to) /\ penalized'[s.to] /\ Stream(s.to) # <<>>

LEMMA TrySendEffect ==
    ASSUME TasksTypeOK, NEW c \in Conn, TrySend(c)
    PROVE  \E s : SendStep(c, s)
<1>1. PICK s \in NextSends(c) :
          /\ Enqueue(s.to, s.msg) /\ Penalize(s.to)
          /\ todo' = [todo EXCEPT ![c] = @ \ {s}]
          /\ IF s.msg = Reply /\ IsFull(c) THEN Goto(c, "closing") ELSE UNCHANGED phase
  BY DEF TrySend
<1>2. s \in todo[c] /\ s.to \in Conn /\ s.msg \in Messages
  BY DEF NextSends, TasksTypeOK, Sends
<1>3. session' = session /\ sending' = sending /\ view' = view
  BY DEF TrySend
<1>4. /\ \A d \in Conn : d # s.to => Kept(d)
      /\ ~IsFull(s.to) /\ QueueOpen(s.to) => Reached(s.to, s.msg)
      /\ ~(~IsFull(s.to) /\ QueueOpen(s.to)) => Kept(s.to)
  BY <1>1, <1>2, <1>3, EnqueueStream
<1>5. \A d \in Conn : phase'[d] = "running" => phase[d] = "running"
  BY <1>1 DEF Goto, TasksTypeOK
<1>6. \A d \in Conn : d # s.to => penalized'[d] = penalized[d]
  BY <1>1 DEF Penalize, TasksTypeOK
<1>7. ASSUME phase[s.to] = "running"
      PROVE  \/ Reached(s.to, s.msg) /\ penalized'[s.to] = penalized[s.to]
             \/ Kept(s.to) /\ penalized'[s.to] /\ Stream(s.to) # <<>>
  <2>1. QueueOpen(s.to)
    BY <1>7 DEF QueueOpen, Registered
  <2>2. CASE ~IsFull(s.to)
    BY <1>1, <1>4, <2>1, <2>2 DEF Penalize
  <2>3. CASE IsFull(s.to)
    <3>1. Len(<<>>) = 0 /\ QueueCapacity > 0 /\ QueueCapacity \in Nat
      BY ServerAssumption
    <3>2. outbound[s.to] # <<>>
      BY <2>3, <3>1 DEF IsFull
    <3>3. Stream(s.to) # <<>>
      BY <1>2, <3>2, StreamType
    <3>4. penalized'[s.to]
      BY <1>1, <1>2, <2>1, <2>3 DEF Penalize, TasksTypeOK
    <3>. QED
      BY <1>4, <2>3, <3>3, <3>4
  <2>. QED
    BY <2>2, <2>3
<1>8. todo'[c] = todo[c] \ {s} /\ \A d \in Conn : d # c => todo'[d] = todo[d]
  BY <1>1 DEF TasksTypeOK
<1>. QED
  BY <1>1, <1>2, <1>3, <1>4, <1>5, <1>6, <1>7, <1>8 DEF SendStep

\* The connections a change is announced to are the registered ones of the
\* other role in the room.
LEMMA AudienceFacts ==
    ASSUME RegistryTypeOK, TasksTypeOK, RegistryInv,
           NEW h \in DOMAIN LiveRooms, NEW role \in Roles, NEW d \in Conn
    PROVE  d \in Audience(h, role) <=>
             phase[d] \in Registered /\ session[d].room = h /\ session[d].role = Opposite(role)
<1> DEFINE others == LiveRooms[h].members[Opposite(role)]
<1>1. LiveRooms[h] = rooms[h] /\ h \in DOMAIN rooms /\ Opposite(role) \in Roles
  BY PrunedRoomsFacts, RoleFacts DEF LiveRooms
<1>2. \A id \in DOMAIN others :
          /\ phase[others[id]] \in Registered
          /\ session[others[id]].room = h /\ session[others[id]].role = Opposite(role)
  BY <1>1 DEF RegistryInv, NoStaleHandle
<1>3. phase[d] \in Registered /\ session[d].room = h /\ session[d].role = Opposite(role) =>
          session[d].id \in DOMAIN others /\ others[session[d].id] = d
  BY RegisteredLive
<1>. QED
  BY <1>2, <1>3 DEF Audience

\* What a change of one map of one room does to the rosters.
LEMMA RosterPlaced ==
    ASSUME RegistryTypeOK, TasksTypeOK, RegistryInv,
           NEW h \in DOMAIN LiveRooms, NEW role \in Roles, NEW map, NEW after,
           Placed(after, h, role, map), NEW d \in Conn, phase[d] \in Registered
    PROVE  LET s == session[d] IN
           /\ Roster(d) = DOMAIN LiveRooms[s.room].members[Opposite(s.role)]
           /\ d \in Audience(h, role) =>
                /\ Roster(d) = DOMAIN LiveRooms[h].members[role]
                /\ DOMAIN after[s.room].members[Opposite(s.role)] = DOMAIN map
           /\ d \notin Audience(h, role) =>
                DOMAIN after[s.room].members[Opposite(s.role)] = Roster(d)
<1> DEFINE s == session[d]
<1>1. s.room \in DOMAIN LiveRooms /\ LiveRooms[s.room] = rooms[s.room] /\ s.role \in Roles
  BY RegisteredLive, SessionFields
<1>2. d \in Audience(h, role) <=> s.room = h /\ s.role = Opposite(role)
  BY AudienceFacts
<1>3. Opposite(s.role) \in Roles /\ (Opposite(s.role) = role <=> s.role = Opposite(role))
  BY <1>1 DEF Roles, Opposite
<1>4. Roster(d) = DOMAIN LiveRooms[s.room].members[Opposite(s.role)]
  BY <1>1 DEF Roster
<1>. QED
  BY <1>1, <1>2, <1>3, <1>4 DEF Placed

\* register: the newcomer gets the roster, the others the newcomer.
RegisterStep(c, id) ==
    /\ id \in ClientIds /\ phase[c] = "authenticated" /\ phase[c] \notin Registered
    /\ phase'[c] = "running" /\ session'[c].id = id
    /\ \A d \in Conn : d # c =>
           phase'[d] = phase[d] /\ session'[d] = session[d] /\ todo'[d] = todo[d]
    /\ \A d \in Conn : Kept(d) /\ penalized'[d] = penalized[d]
    /\ next_client_id <= next_client_id'
    /\ id \notin Aliases => id[2] > next_client_id /\ id[2] <= next_client_id'
    /\ \E audience \in SUBSET (Conn \ {c}) :
        /\ todo'[c] = {[to |-> c, msg |-> Connected(Roster(c)')]}
                      \cup Announce(PeerJoined(id), audience)
        /\ \A d \in Conn : phase[d] \in Registered =>
               Roster(d)' = IF d \in audience THEN Roster(d) \cup {id} ELSE Roster(d)

LEMMA RegisterEffect ==
    ASSUME RegistryTypeOK, TasksTypeOK, RegistryInv, NEW c \in Conn, Register(c)
    PROVE  \E id : RegisterStep(c, id)
<1> DEFINE h == session[c].room
           role == session[c].role
           m == LiveRooms[h].members[role]
<1>1. h \in DOMAIN LiveRooms /\ role \in Roles /\ phase[c] = "authenticated" /\ phase[c] \notin Registered
  BY SessionFields DEF Register, RoomKnown, Registered
<1>2. PICK counter \in next_client_id..MaxClientId, id \in ClientIds :
          /\ ChosenId(h, role, session[c].alias, id, counter)
          /\ register(c, h, role, id, counter)
          /\ session' = [session EXCEPT ![c].id = id]
          /\ todo' = [todo EXCEPT ![c] =
                 {[to |-> c, msg |-> Connected(DOMAIN LiveRooms[h].members[Opposite(role)])]}
                 \cup Announce(PeerJoined(id), Audience(h, role))]
  BY DEF Register
<1>3. DOMAIN m \subseteq ClientIds /\ m \in [DOMAIN m -> Conn]
  BY <1>1, LiveRoomFields
<1>4. PICK map \in Members : map = MapInsert(m, id, c) /\ DOMAIN map = DOMAIN m \cup {id}
  <2>1. /\ DOMAIN MapInsert(m, id, c) = DOMAIN m \cup {id}
        /\ MapInsert(m, id, c) \in [DOMAIN m \cup {id} -> Conn]
    BY <1>1, <1>3 DEF MapInsert
  <2>. QED
    BY <1>3, <2>1, MembersFacts
<1>5. PICK after : after = rooms'
  OBVIOUS
<1>6. Placed(after, h, role, map)
  <2>1. after = [LiveRooms EXCEPT ![h] = WithMembers(LiveRooms[h], role, map)]
    BY <1>2, <1>4, <1>5 DEF register, Section
  <2>. QED
    BY <1>1, <2>1, WithMembersRooms
<1>7. /\ phase'[c] = "running"
      /\ session'[c].room = h /\ session'[c].role = role /\ session'[c].id = id
      /\ \A d \in Conn : d # c =>
             phase'[d] = phase[d] /\ session'[d] = session[d] /\ todo'[d] = todo[d]
  BY <1>1, <1>2, SessionFields DEF Register, Goto, TasksTypeOK, Session
<1>8. \A d \in Conn : Kept(d) /\ penalized'[d] = penalized[d]
  BY DEF Register, Kept, Stream
<1>9. /\ next_client_id <= next_client_id'
      /\ id \notin Aliases => id[2] > next_client_id /\ id[2] <= next_client_id'
  <2>1. next_client_id' = counter /\ next_client_id \in Nat /\ counter \in Nat
    BY <1>2, ConfigAssumption DEF register, RegistryTypeOK
  <2>2. session[c].alias \in Aliases \cup {NoAlias}
    BY DEF TasksTypeOK, Session
  <2>3. id \notin Aliases => counter > next_client_id /\ id = <<role, counter>>
    BY <1>2, <2>2 DEF ChosenId
  <2>. QED
    BY <1>2, <2>1, <2>3
<1>10. PICK audience \in SUBSET (Conn \ {c}) : audience = Audience(h, role)
  <2>1. Audience(h, role) \in SUBSET Conn
    BY <1>1, AudienceType
  <2>2. c \notin Audience(h, role)
    BY <1>1, AudienceFacts
  <2>. QED
    BY <2>1, <2>2
<1>11. Roster(c)' = DOMAIN LiveRooms[h].members[Opposite(role)]
  <2>1. Opposite(role) \in Roles /\ Opposite(role) # role
    BY <1>1 DEF Roles, Opposite
  <2>. QED
    BY <1>1, <1>5, <1>6, <1>7, <2>1 DEF Roster, Placed
<1>12. todo'[c] = {[to |-> c, msg |-> Connected(Roster(c)')]} \cup Announce(PeerJoined(id), audience)
  BY <1>2, <1>10, <1>11 DEF TasksTypeOK
<1>13. ASSUME NEW d \in Conn, phase[d] \in Registered
       PROVE  Roster(d)' = IF d \in audience THEN Roster(d) \cup {id} ELSE Roster(d)
  <2>1. d # c /\ session'[d] = session[d]
    BY <1>1, <1>7, <1>13
  <2>2. Roster(d)' = DOMAIN after[session[d].room].members[Opposite(session[d].role)]
    BY <1>5, <2>1 DEF Roster
  <2>. QED
    <3>1. /\ d \in Audience(h, role) =>
               /\ Roster(d) = DOMAIN LiveRooms[h].members[role]
               /\ DOMAIN after[session[d].room].members[Opposite(session[d].role)] = DOMAIN map
          /\ d \notin Audience(h, role) =>
               DOMAIN after[session[d].room].members[Opposite(session[d].role)] = Roster(d)
      BY <1>1, <1>6, <1>13, RosterPlaced
    <3>. QED
      BY <3>1, <1>4, <1>10, <2>2
<1>. QED
  BY <1>1, <1>2, <1>7, <1>8, <1>9, <1>10, <1>12, <1>13 DEF RegisterStep

\* unregister: the others are told that it left.
UnregisterStep(c) ==
    /\ phase[c] = "closing" /\ phase[c] \in Registered /\ phase'[c] = "leaving"
    /\ phase'[c] \notin Registered /\ session[c].id \in ClientIds
    /\ session' = session /\ next_client_id' = next_client_id
    /\ \A d \in Conn : d # c => phase'[d] = phase[d] /\ todo'[d] = todo[d]
    /\ \A d \in Conn : Kept(d) /\ penalized'[d] = penalized[d]
    /\ \E audience \in SUBSET Conn :
        /\ todo'[c] = Announce(PeerLeft(session[c].id), audience)
        /\ \A d \in Conn \ {c} : phase[d] \in Registered =>
               Roster(d)' = IF d \in audience THEN Roster(d) \ {session[c].id} ELSE Roster(d)

LEMMA UnregisterEffect ==
    ASSUME RegistryTypeOK, TasksTypeOK, RegistryInv, NEW c \in Conn, Unregister(c)
    PROVE  UnregisterStep(c)
<1> DEFINE h == session[c].room
           role == session[c].role
           id == session[c].id
           m == LiveRooms[h].members[role]
<1>0. PICK mid : mid = [LiveRooms EXCEPT ![h] = WithMembers(LiveRooms[h], role, MapRemove(m, id))]
  OBVIOUS
<1>1. /\ phase[c] = "closing" /\ phase[c] \in Registered /\ role \in Roles
      /\ h \in DOMAIN LiveRooms /\ id \in DOMAIN m /\ m[id] = c
  BY SessionFields, RegisteredLive DEF Unregister, Registered
<1>2. DOMAIN m \subseteq ClientIds /\ m \in [DOMAIN m -> Conn]
  BY <1>1, LiveRoomFields
<1>3. PICK map \in Members : map = MapRemove(m, id) /\ DOMAIN map = DOMAIN m \ {id}
  <2>1. /\ DOMAIN MapRemove(m, id) = DOMAIN m \ {id}
        /\ MapRemove(m, id) \in [DOMAIN m \ {id} -> Conn]
    BY <1>2 DEF MapRemove
  <2>. QED
    BY <1>2, <2>1, MembersFacts
<1>4. rooms' = PrunedRooms(mid)
  BY <1>0, <1>1 DEF Unregister, unregister, IsMember, Section
<1>5. Placed(mid, h, role, map)
  BY <1>0, <1>1, <1>3, WithMembersRooms
<1>6. /\ phase'[c] = "leaving" /\ session' = session /\ next_client_id' = next_client_id
      /\ phase'[c] \notin Registered
      /\ \A d \in Conn : d # c => phase'[d] = phase[d] /\ todo'[d] = todo[d]
  BY DEF Unregister, unregister, Goto, TasksTypeOK, Registered
<1>7. \A d \in Conn : Kept(d) /\ penalized'[d] = penalized[d]
  BY DEF Unregister, Kept, Stream
<1>8. PICK audience \in SUBSET Conn : audience = Audience(h, role)
  BY <1>1, AudienceType
<1>9. todo'[c] = Announce(PeerLeft(id), audience)
  BY <1>1, <1>8 DEF Unregister, IsMember, TasksTypeOK
<1>10. ASSUME NEW d \in Conn \ {c}, phase[d] \in Registered
       PROVE  Roster(d)' = IF d \in audience THEN Roster(d) \ {id} ELSE Roster(d)
  <2>1. RegistryInv'
    BY InvUnregister
  <2>2. session[d].room \in DOMAIN rooms'
    BY <1>6, <1>10, <2>1 DEF RegistryInv, NoLostMember
  <2>3. rooms'[session[d].room] = mid[session[d].room]
    BY <1>4, <2>2, PrunedRoomsFacts
  <2>4. Roster(d)' = DOMAIN mid[session[d].room].members[Opposite(session[d].role)]
    BY <1>6, <2>3 DEF Roster
  <2>. QED
    <3>1. /\ d \in Audience(h, role) =>
               /\ Roster(d) = DOMAIN LiveRooms[h].members[role]
               /\ DOMAIN mid[session[d].room].members[Opposite(session[d].role)] = DOMAIN map
          /\ d \notin Audience(h, role) =>
               DOMAIN mid[session[d].room].members[Opposite(session[d].role)] = Roster(d)
      BY <1>1, <1>5, <1>10, RosterPlaced
    <3>. QED
      BY <3>1, <1>3, <1>8, <2>4
<1>. QED
  BY <1>1, <1>2, <1>6, <1>7, <1>8, <1>9, <1>10 DEF UnregisterStep

LEMMA RosterQuiet ==
    ASSUME TasksTypeOK, RegistryInv, QuietRooms, NEW d \in Conn, phase[d] \in Registered,
           session'[d] = session[d]
    PROVE  Roster(d)' = Roster(d)
<1> DEFINE s == session[d]
<1>1. s.room \in DOMAIN rooms /\ s.id \in DOMAIN rooms[s.room].members[s.role] /\ s.role \in Roles
  BY SessionFields DEF RegistryInv, NoLostMember
<1>2. OccupiedIds(rooms[s.room]) # {}
  BY <1>1 DEF OccupiedIds
<1>. QED
  BY <1>1, <1>2 DEF QuietRooms, Roster

(***************************************************************************)
(* No peer is missed.                                                      *)
(***************************************************************************)
\* A step that registers and unregisters nobody and announces nothing new.
LEMMA IdsQuiet ==
    ASSUME FreshIds, GoneIds, QuietTasks, next_client_id' = next_client_id,
           \A d \in Conn : \A s \in todo'[d] : IsNews(s.msg) => s \in todo[d]
    PROVE  FreshIds' /\ GoneIds'
<1>1. FreshIds'
  BY DEF FreshIds, QuietTasks
<1>2. GoneIds'
  <2> SUFFICES ASSUME NEW d \in Conn, NEW s \in todo'[d], NEW id \in ClientIds \ Aliases,
                      s.msg = PeerLeft(id)
               PROVE  /\ id[2] <= next_client_id'
                      /\ \A c \in Conn : phase'[c] \in Registered => session'[c].id # id
    BY DEF GoneIds
  <2>1. IsNews(s.msg)
    BY DEF IsNews, PeerLeft
  <2>2. s \in todo[d]
    BY <2>1
  <2>3. id[2] <= next_client_id /\ \A c \in Conn : phase[c] \in Registered => session[c].id # id
    BY <2>2 DEF GoneIds
  <2>. QED
    BY <2>3 DEF QuietTasks
<1>. QED
  BY <1>1, <1>2

\* A generated id is a role and a number.
LEMMA GeneratedIds ==
    ASSUME NEW id \in ClientIds, id \notin Aliases
    PROVE  id[2] \in Nat
BY ConfigAssumption DEF ClientIds

LEMMA IdsRegister ==
    ASSUME RegistryTypeOK, TasksTypeOK, RegistryInv, FreshIds, GoneIds,
           next_client_id' \in Nat, NEW c \in Conn, NEW id, RegisterStep(c, id)
    PROVE  FreshIds' /\ GoneIds'
<1>1. next_client_id \in Nat /\ next_client_id <= next_client_id'
  BY ConfigAssumption DEF RegistryTypeOK, RegisterStep
<1>2. \A d \in Conn : phase[d] \in Registered => session[d].id \in ClientIds
  BY RegisteredLive, SessionFields, LiveRoomFields
<1>3. \A d \in Conn : d # c => phase'[d] = phase[d] /\ session'[d] = session[d] /\ todo'[d] = todo[d]
  BY DEF RegisterStep
<1>4. phase[c] \notin Registered /\ session'[c].id = id /\ id \in ClientIds
      /\ (id \notin Aliases => id[2] > next_client_id /\ id[2] <= next_client_id')
  BY DEF RegisterStep
<1>5. ASSUME NEW d \in Conn, phase[d] \in Registered, id \notin Aliases PROVE session[d].id # id
  <2> SUFFICES ASSUME session[d].id = id PROVE FALSE
    OBVIOUS
  <2>1. id[2] <= next_client_id
    BY <1>5 DEF FreshIds
  <2>. QED
    BY <1>1, <1>4, <1>5, <2>1, GeneratedIds
<1>6. FreshIds'
  <2> SUFFICES ASSUME NEW d \in Conn, phase'[d] \in Registered, session'[d].id \notin Aliases
               PROVE  /\ session'[d].id[2] <= next_client_id'
                      /\ \A e \in Conn : phase'[e] \in Registered /\ session'[e].id = session'[d].id => e = d
    BY DEF FreshIds
  <2>1. CASE d = c
    BY <1>3, <1>4, <1>5, <2>1
  <2>2. CASE d # c
    <3>1. phase[d] \in Registered /\ session'[d] = session[d] /\ session[d].id \in ClientIds
      BY <1>2, <1>3, <2>2
    <3>2. PICK n \in Nat : n = session[d].id[2]
      BY <3>1, GeneratedIds
    <3>3. /\ n <= next_client_id
          /\ \A e \in Conn : phase[e] \in Registered /\ session[e].id = session[d].id => e = d
      BY <3>1, <3>2 DEF FreshIds
    <3>4. n <= next_client_id'
      BY <1>1, <3>3
    <3>. QED
      BY <1>3, <1>4, <1>5, <3>1, <3>2, <3>3, <3>4
  <2>. QED
    BY <2>1, <2>2
<1>7. GoneIds'
  <2> SUFFICES ASSUME NEW d \in Conn, NEW s \in todo'[d], NEW x \in ClientIds \ Aliases,
                      s.msg = PeerLeft(x)
               PROVE  /\ x[2] <= next_client_id'
                      /\ \A e \in Conn : phase'[e] \in Registered => session'[e].id # x
    BY DEF GoneIds
  <2>1. d # c
    <3>1. \A t \in todo'[c] : (\E peers : t.msg = Connected(peers)) \/ t.msg = PeerJoined(id)
      BY DEF RegisterStep, Announce
    <3>. QED
      BY <3>1, AnnounceTypes
  <2>2. s \in todo[d]
    BY <1>3, <2>1
  <2>3. PICK n \in Nat : n = x[2]
    BY GeneratedIds
  <2>4. n <= next_client_id /\ \A e \in Conn : phase[e] \in Registered => session[e].id # x
    BY <2>2, <2>3 DEF GoneIds
  <2>5. n <= next_client_id'
    BY <1>1, <2>4
  <2>6. id # x
    <3> SUFFICES ASSUME id = x PROVE FALSE
      OBVIOUS
    <3>1. n > next_client_id
      BY <1>4, <2>3
    <3>. QED
      BY <1>1, <2>4, <3>1
  <2>. QED
    BY <1>3, <1>4, <2>3, <2>4, <2>5, <2>6
<1>. QED
  BY <1>6, <1>7

LEMMA IdsUnregister ==
    ASSUME FreshIds, GoneIds, NEW c \in Conn, UnregisterStep(c)
    PROVE  FreshIds' /\ GoneIds'
<1>1. /\ session' = session /\ next_client_id' = next_client_id
      /\ phase[c] \in Registered /\ phase'[c] \notin Registered
      /\ \A d \in Conn : d # c => phase'[d] = phase[d] /\ todo'[d] = todo[d]
  BY DEF UnregisterStep
<1>2. FreshIds'
  BY <1>1 DEF FreshIds
<1>3. GoneIds'
  <2> SUFFICES ASSUME NEW d \in Conn, NEW s \in todo'[d], NEW x \in ClientIds \ Aliases,
                      s.msg = PeerLeft(x)
               PROVE  /\ x[2] <= next_client_id'
                      /\ \A e \in Conn : phase'[e] \in Registered => session'[e].id # x
    BY DEF GoneIds
  <2>1. CASE d = c
    <3>1. s.msg = PeerLeft(session[c].id)
      BY <2>1 DEF UnregisterStep, Announce
    <3>2. x = session[c].id
      <4>1. PeerLeft(x).id = x /\ PeerLeft(session[c].id).id = session[c].id
        BY AnnounceTypes
      <4>. QED
        BY <3>1, <4>1
    <3>. QED
      BY <1>1, <3>2 DEF FreshIds
  <2>2. CASE d # c
    BY <1>1, <2>2 DEF GoneIds
  <2>. QED
    BY <2>1, <2>2
<1>. QED
  BY <1>2, <1>3

LEMMA FinalViewSilent ==
    ASSUME TasksTypeOK, TasksTypeOK', NEW c \in Conn, Kept(c) \/ Delivered(c) \/ Reached(c, Reply)
    PROVE  FinalView(c)' = FinalView(c)
<1>1. CASE Reached(c, Reply)
  <2>1. FinalView(c)' = Learn(FinalView(c), Reply)
    BY <1>1, MessageTypes, FinalViewReached
  <2>2. ~IsNews(Reply)
    BY DEF IsNews, Reply
  <2>. QED
    BY <2>1, <2>2, MessageTypes, StreamType, LearnNothing
<1>. QED
  BY <1>1, FinalViewKept

LEMMA ToldSilent ==
    ASSUME TasksTypeOK, TasksTypeOK', RegistryInv, Told, SilentStep, QuietRooms
    PROVE  Told'
<1> SUFFICES ASSUME NEW c \in Conn, phase'[c] = "running", ~penalized'[c],
                    NEW id \in Roster(c)' \ Aliases
             PROVE  \/ id \in FinalView(c)'.peers
                    \/ \E d \in Conn : \E s \in todo'[d] : s.to = c /\ Brings(s.msg, id)
  BY DEF Told
<1>1. /\ phase[c] = "running" /\ session'[c] = session[c] /\ ~penalized[c]
      /\ Kept(c) \/ Delivered(c) \/ Reached(c, Reply)
  BY DEF SilentStep
<1>2. Roster(c)' = Roster(c)
  BY <1>1, RosterQuiet DEF Registered
<1>3. FinalView(c)' = FinalView(c)
  BY <1>1, FinalViewSilent
<1>. QED
  BY <1>1, <1>2, <1>3 DEF Told, SilentStep

\* Whoever is on the roster is registered under that id.
LEMMA RosterIds ==
    ASSUME RegistryTypeOK, TasksTypeOK, RegistryInv, NEW c \in Conn, phase[c] \in Registered,
           NEW id \in Roster(c)
    PROVE  /\ id \in ClientIds
           /\ \E p \in Conn : phase[p] \in Registered /\ session[p].id = id
<1> DEFINE h == session[c].room
           r == Opposite(session[c].role)
<1>1. h \in DOMAIN rooms /\ r \in Roles /\ id \in DOMAIN rooms[h].members[r]
  BY SessionFields, RoleFacts DEF RegistryInv, NoLostMember, Roster
<1>2. rooms[h].members[r] \in Members
  BY <1>1 DEF RegistryTypeOK, RoomState
<1>3. id \in ClientIds /\ rooms[h].members[r][id] \in Conn
  BY <1>1, <1>2, MembersFacts
<1>4. phase[rooms[h].members[r][id]] \in Registered /\ session[rooms[h].members[r][id]].id = id
  BY <1>1 DEF RegistryInv, NoStaleHandle
<1>. QED
  BY <1>3, <1>4

LEMMA ToldTrySend ==
    ASSUME RegistryTypeOK, TasksTypeOK, TasksTypeOK', RegistryInv, GoneIds, Told, NEW e \in Conn, NEW s,
           SendStep(e, s), QuietRooms
    PROVE  Told'
<1> SUFFICES ASSUME NEW c \in Conn, phase'[c] = "running", ~penalized'[c],
                    NEW id \in Roster(c)' \ Aliases
             PROVE  \/ id \in FinalView(c)'.peers
                    \/ \E d \in Conn : \E t \in todo'[d] : t.to = c /\ Brings(t.msg, id)
  BY DEF Told
<1>1. phase[c] = "running" /\ session'[c] = session[c]
  BY DEF SendStep
<1>2. Roster(c)' = Roster(c)
  BY <1>1, RosterQuiet DEF Registered
<1>3. \A d \in Conn : \A t \in todo[d] : t = s \/ t \in todo'[d]
  BY DEF SendStep
<1>4. CASE c # s.to
  <2>1. ~penalized[c] /\ FinalView(c)' = FinalView(c)
    BY <1>4, FinalViewKept DEF SendStep
  <2>. QED
    BY <1>1, <1>2, <1>3, <1>4, <2>1 DEF Told
<1>5. CASE c = s.to
  <2>1. ~penalized[c] /\ Reached(c, s.msg) /\ s.msg \in Messages /\ s \in todo[e]
    BY <1>1, <1>5 DEF SendStep
  <2>2. PICK v \in Views : v = FinalView(c)
    BY StreamType
  <2>3. FinalView(c)' = Learn(v, s.msg)
    BY <2>1, <2>2, FinalViewReached
  <2>4. id \in ClientIds /\ s.msg # PeerLeft(id)
    <3>1. PICK p \in Conn : phase[p] \in Registered /\ session[p].id = id /\ id \in ClientIds
      BY <1>1, <1>2, RosterIds DEF Registered
    <3>. QED
      BY <2>1, <3>1 DEF GoneIds
  <2>5. id \in Learn(v, s.msg).peers <=> Brings(s.msg, id) \/ id \in v.peers
    BY <2>1, <2>4, LearnForm
  <2>6. \/ id \in v.peers
        \/ \E d \in Conn : \E t \in todo[d] : t.to = c /\ Brings(t.msg, id)
    BY <1>1, <1>2, <2>1, <2>2 DEF Told
  <2>. QED
    BY <1>3, <2>3, <2>5, <2>6
<1>. QED
  BY <1>4, <1>5

LEMMA ToldRegister ==
    ASSUME TasksTypeOK, TasksTypeOK', Calm, Told, NEW e \in Conn, NEW x, RegisterStep(e, x)
    PROVE  Told'
<1> SUFFICES ASSUME NEW c \in Conn, phase'[c] = "running", ~penalized'[c],
                    NEW id \in Roster(c)' \ Aliases
             PROVE  \/ id \in FinalView(c)'.peers
                    \/ \E d \in Conn : \E t \in todo'[d] : t.to = c /\ Brings(t.msg, id)
  BY DEF Told
<1>1. PICK audience \in SUBSET (Conn \ {e}) :
        /\ todo'[e] = {[to |-> e, msg |-> Connected(Roster(e)')]} \cup Announce(PeerJoined(x), audience)
        /\ \A d \in Conn : phase[d] \in Registered =>
               Roster(d)' = IF d \in audience THEN Roster(d) \cup {x} ELSE Roster(d)
  BY DEF RegisterStep
<1>2. CASE c = e
  <2>1. PICK t : t = [to |-> e, msg |-> Connected(Roster(e)')]
    OBVIOUS
  <2>2. t \in todo'[e] /\ t.to = c
    BY <1>1, <1>2, <2>1
  <2>3. t.msg.type = "connected" /\ t.msg.peers = Roster(e)'
    BY <2>1, AnnounceTypes
  <2>. QED
    BY <1>2, <2>2, <2>3 DEF Brings
<1>3. CASE c # e
  <2>1. phase[c] = "running" /\ ~penalized[c] /\ Kept(c) /\ phase[c] \in Registered
    BY <1>3 DEF RegisterStep, Registered
  <2>2. FinalView(c)' = FinalView(c)
    BY <2>1, FinalViewKept
  <2>3. CASE id \in Roster(c)
    <3>1. \/ id \in FinalView(c).peers
          \/ \E d \in Conn : \E t \in todo[d] : t.to = c /\ Brings(t.msg, id)
      BY <2>1, <2>3 DEF Told
    <3>2. todo[e] = {} /\ \A d \in Conn : d # e => todo'[d] = todo[d]
      BY DEF Calm, RegisterStep
    <3>. QED
      BY <2>2, <3>1, <3>2
  <2>4. CASE id \notin Roster(c)
    <3>1. c \in audience /\ id = x
      BY <1>1, <2>1, <2>4
    <3>2. PICK t : t = [to |-> c, msg |-> PeerJoined(x)]
      OBVIOUS
    <3>3. t \in todo'[e] /\ t.to = c /\ Brings(t.msg, id)
      BY <1>1, <3>1, <3>2 DEF Announce, Brings
    <3>. QED
      BY <3>3
  <2>. QED
    BY <2>3, <2>4
<1>. QED
  BY <1>2, <1>3

LEMMA ToldUnregister ==
    ASSUME TasksTypeOK, TasksTypeOK', Calm, Told, NEW e \in Conn, UnregisterStep(e)
    PROVE  Told'
<1> SUFFICES ASSUME NEW c \in Conn, phase'[c] = "running", ~penalized'[c],
                    NEW id \in Roster(c)' \ Aliases
             PROVE  \/ id \in FinalView(c)'.peers
                    \/ \E d \in Conn : \E t \in todo'[d] : t.to = c /\ Brings(t.msg, id)
  BY DEF Told
<1>1. c # e /\ phase[c] = "running" /\ ~penalized[c] /\ Kept(c) /\ phase[c] \in Registered
  BY DEF UnregisterStep, Registered
<1>2. id \in Roster(c)
  BY <1>1 DEF UnregisterStep
<1>3. FinalView(c)' = FinalView(c)
  BY <1>1, FinalViewKept
<1>4. \/ id \in FinalView(c).peers
      \/ \E d \in Conn : \E t \in todo[d] : t.to = c /\ Brings(t.msg, id)
  BY <1>1, <1>2 DEF Told
<1>5. todo[e] = {} /\ \A d \in Conn : d # e => todo'[d] = todo[d]
  BY DEF Calm, UnregisterStep
<1>. QED
  BY <1>3, <1>4, <1>5

\* Every step but register leaves the counter alone.
LEMMA CounterKept ==
    ASSUME NEW c \in Conn,
           \/ Handshake(c) \/ (Runtime(c) /\ ~Register(c))
           \/ \E ip \in IPs : Accept(c, ip)
           \/ \E peer \in ClientIds : SignalFrame(c, peer)
    PROVE  next_client_id' = next_client_id
<1>1. CASE Handshake(c)
  BY <1>1 DEF Handshake, PakeInit, EnsureRoomCapacity, PakeRegistration,
              PakeCredentialFinalization, AuthAbort, Look, store_room, registry
<1>2. CASE Runtime(c) /\ ~Register(c)
  BY <1>2 DEF Runtime, Listening, RegisterFails, TrySend, PenaltyTick, Disconnect, SendOutbound,
              SendCompletes, SendFails, AnswerFrame, Unregister, unregister, Return, Look, registry
<1>3. CASE \E ip \in IPs : Accept(c, ip)
  BY <1>3 DEF Accept, check_auth_rate_limit
<1>4. CASE \E peer \in ClientIds : SignalFrame(c, peer)
  BY <1>4 DEF SignalFrame, forward_signal
<1>. QED
  BY <1>1, <1>2, <1>3, <1>4

\* The invariant of the announcements, on either runtime.
VInv == Calm /\ Blank /\ FreshIds /\ GoneIds /\ Told

LEMMA ViewInit == Init => VInv
<1> SUFFICES ASSUME Init PROVE VInv
  OBVIOUS
<1>1. Calm
  BY DEF Init, Calm
<1>2. Blank
  <2>1. <<>> \o <<>> = <<>>
    OBVIOUS
  <2>. QED
    BY <2>1 DEF Init, Blank, Stream
<1>3. FreshIds /\ GoneIds /\ Told
  BY DEF Init, FreshIds, GoneIds, Told, Registered
<1>. QED
  BY <1>1, <1>2, <1>3 DEF VInv

\* A step in which nobody registers, unregisters or sends.
LEMMA ViewSilent ==
    ASSUME TasksTypeOK, TasksTypeOK', RegistryInv, VInv, Calm', Blank',
           SilentStep, QuietRooms, QuietTasks, next_client_id' = next_client_id
    PROVE  VInv'
<1>1. \A d \in Conn : \A s \in todo'[d] : IsNews(s.msg) => s \in todo[d]
  BY DEF SilentStep
<1>2. FreshIds' /\ GoneIds'
  BY <1>1, IdsQuiet DEF VInv
<1>. QED
  BY <1>2, ToldSilent DEF VInv

LEMMA ViewUnchanged ==
    ASSUME TasksTypeOK, TasksTypeOK', RegistryInv, VInv, UNCHANGED tasks, rooms' = rooms,
           next_client_id' = next_client_id
    PROVE  VInv'
<1>1. Calm' /\ Blank'
  BY DEF VInv, tasks, Calm, Blank, Stream
<1>2. QuietRooms /\ QuietTasks
  BY LiveRoomsQuiet DEF tasks, QuietTasks
<1>. QED
  BY <1>1, <1>2, SilentUnchanged, ViewSilent

LEMMA ViewRuntime ==
    ASSUME IInv, IInv', VInv, NEW c \in Conn, Runtime(c)
    PROVE  VInv'
<1>1. RegistryTypeOK /\ TasksTypeOK /\ RegistryInv /\ ReplyPending /\ TasksTypeOK'
  BY DEF IInv, TypeOK, TasksTypeOK
<1>2. Calm' /\ Blank'
  BY <1>1, CalmRuntime, BlankStep DEF VInv
<1>3. CASE Register(c)
  <2>1. PICK id : RegisterStep(c, id)
    BY <1>1, <1>3, RegisterEffect
  <2>2. next_client_id' \in Nat
    BY ConfigAssumption DEF IInv, TypeOK, RegistryTypeOK
  <2>3. FreshIds' /\ GoneIds'
    BY <1>1, <2>1, <2>2, IdsRegister DEF VInv
  <2>. QED
    BY <1>1, <1>2, <2>1, <2>3, ToldRegister DEF VInv
<1>4. CASE Unregister(c)
  <2>1. UnregisterStep(c)
    BY <1>1, <1>4, UnregisterEffect
  <2>. QED
    BY <1>1, <1>2, <2>1, IdsUnregister, ToldUnregister DEF VInv
<1>5. CASE TrySend(c)
  <2>1. PICK s : SendStep(c, s)
    BY <1>1, <1>5, TrySendEffect
  <2>2. QuietRooms /\ QuietTasks /\ next_client_id' = next_client_id
    <3>1. ~Register(c) /\ ~Unregister(c)
      <4>1. todo[c] # {}
        BY <1>5 DEF TrySend, NextSends
      <4>. QED
        BY <4>1 DEF VInv, Calm, Register, Unregister
    <3>. QED
      BY <1>1, <3>1, QuietRuntime, CounterKept
  <2>3. \A d \in Conn : \A t \in todo'[d] : IsNews(t.msg) => t \in todo[d]
    BY <2>1 DEF SendStep
  <2>4. FreshIds' /\ GoneIds'
    BY <2>2, <2>3, IdsQuiet DEF VInv
  <2>. QED
    BY <1>1, <1>2, <2>1, <2>2, <2>4, ToldTrySend DEF VInv
<1>6. CASE ~Register(c) /\ ~Unregister(c) /\ ~TrySend(c)
  BY <1>1, <1>2, <1>6, SilentRuntime, QuietRuntime, CounterKept, ViewSilent
<1>. QED
  BY <1>3, <1>4, <1>5, <1>6

LEMMA ViewStep ==
    ASSUME IInv, IInv', VInv, [Next]_vars
    PROVE  VInv'
<1>1. RegistryTypeOK /\ TasksTypeOK /\ RegistryInv /\ ReplyPending /\ TasksTypeOK'
  BY DEF IInv, TypeOK, TasksTypeOK
<1>2. CASE UNCHANGED vars \/ TimePasses
  BY <1>1, <1>2, ViewUnchanged DEF vars, registry, TimePasses, Tick
<1>3. ASSUME NEW c \in Conn, NEW ip \in IPs, Accept(c, ip)
      PROVE  VInv'
  BY <1>1, <1>3, CalmAccept, BlankStep, SilentAccept, QuietAccept, CounterKept, ViewSilent DEF VInv
<1>4. ASSUME NEW c \in Conn, Handshake(c)
      PROVE  VInv'
  BY <1>1, <1>4, CalmHandshake, BlankStep, SilentHandshake, QuietHandshake, CounterKept, ViewSilent DEF VInv
<1>5. ASSUME NEW c \in Conn, Runtime(c)
      PROVE  VInv'
  BY <1>5, ViewRuntime
<1>6. ASSUME NEW c \in Conn, NEW peer \in ClientIds, SignalFrame(c, peer)
      PROVE  VInv'
  BY <1>1, <1>6, CalmSignalFrame, BlankStep, SilentSignalFrame, QuietSignalFrame, CounterKept, ViewSilent
     DEF VInv
<1>. QED
  BY <1>2, <1>3, <1>4, <1>5, <1>6 DEF Next

\* On the multi-threaded runtime too, however the announcements overtake each
\* other: whenever none is still to be made, a client whose queue did not
\* overflow has been told of every peer with a generated id that is in its
\* room, for every number of connections and rooms and every queue capacity.
THEOREM NobodyMissed == Spec => []NoPeerMissed
<1>1. VInv => NoPeerMissed
  BY DEF VInv, Told, NoPeerMissed
<1>2. IInv /\ IInv' /\ VInv /\ [Next]_vars => VInv'
  BY ViewStep
<1>. QED
  BY <1>1, <1>2, InitInv, NextInv, ViewInit, PTL DEF Spec

(***************************************************************************)
(* The current-thread runtime.                                             *)
(***************************************************************************)
\* A task that runs has the thread: nobody else has messages to send.
LEMMA ActorAlone ==
    ASSUME ~MultiThread, TasksTypeOK, NEW c \in Conn,
           \/ Handshake(c) \/ Runtime(c)
           \/ \E ip \in IPs : Accept(c, ip)
           \/ \E peer \in ClientIds : SignalFrame(c, peer)
    PROVE  \A d \in Conn : d # c => todo[d] = {} /\ todo'[d] = {}
<1>1. MayRun(c)
  BY DEF Handshake, PakeInit, EnsureRoomCapacity, PakeRegistration, PakeCredentialFinalization,
         AuthAbort, Runtime, Listening, Register, RegisterFails, TrySend, PenaltyTick, Disconnect,
         SendOutbound, SendCompletes, SendFails, AnswerFrame, Unregister, Return, Accept,
         SignalFrame, Looping
<1>2. \A d \in Conn : d # c => todo[d] = {}
  BY <1>1 DEF MayRun
<1>3. \A d \in Conn : d # c => todo'[d] = todo[d]
  <2>1. CASE Handshake(c)
    BY <2>1 DEF Handshake, PakeInit, EnsureRoomCapacity, PakeRegistration,
                PakeCredentialFinalization, AuthAbort, Drop, channels
  <2>2. CASE Runtime(c)
    BY <2>2 DEF Runtime, Listening, Register, RegisterFails, TrySend, PenaltyTick, Disconnect,
                SendOutbound, SendCompletes, SendFails, AnswerFrame, Unregister, Return, Drop,
                channels, TasksTypeOK
  <2>3. CASE \E ip \in IPs : Accept(c, ip)
    BY <2>3 DEF Accept, channels
  <2>4. CASE \E peer \in ClientIds : SignalFrame(c, peer)
    BY <2>4 DEF SignalFrame, TasksTypeOK
  <2>. QED
    BY <2>1, <2>2, <2>3, <2>4
<1>. QED
  BY <1>2, <1>3

LEMMA OneNewsFewer ==
    ASSUME OneNews, \A d \in Conn : \A s \in todo'[d] : IsNews(s.msg) => s \in todo[d]
    PROVE  OneNews'
BY DEF OneNews

LEMMA OneNewsReplaced ==
    ASSUME OneNews, NEW c \in Conn, \A d \in Conn : d # c => todo'[d] = todo[d],
           \A s, t \in todo'[c] : s.to = t.to => s = t
    PROVE  OneNews'
BY DEF OneNews

\* An announcement goes to each receiver once.
LEMMA AnnounceOnce ==
    ASSUME NEW msg, NEW audience
    PROVE  /\ \A s \in Announce(msg, audience) : s = [to |-> s.to, msg |-> msg] /\ s.to \in audience
           /\ \A d \in audience : [to |-> d, msg |-> msg] \in Announce(msg, audience)
BY DEF Announce

Right(c) == [greeted |-> TRUE, peers |-> Roster(c)]

LEMMA SyncedSilent ==
    ASSUME TasksTypeOK, TasksTypeOK', RegistryInv, Synced, SilentStep, QuietRooms
    PROVE  Synced'
<1> SUFFICES ASSUME NEW c \in Conn, phase'[c] = "running", ~penalized'[c]
             PROVE  /\ \A d \in Conn : \A s \in todo'[d] : s.to = c /\ IsNews(s.msg) =>
                           Learn(FinalView(c)', s.msg) = Right(c)'
                    /\ (\A d \in Conn : \A s \in todo'[d] : s.to = c => ~IsNews(s.msg)) =>
                           FinalView(c)' = Right(c)'
  BY DEF Synced, Right
<1>1. /\ phase[c] = "running" /\ session'[c] = session[c] /\ ~penalized[c]
      /\ Kept(c) \/ Delivered(c) \/ Reached(c, Reply)
  BY DEF SilentStep
<1>2. Right(c)' = Right(c)
  BY <1>1, RosterQuiet DEF Registered, Right
<1>3. FinalView(c)' = FinalView(c)
  BY <1>1, FinalViewSilent
<1>4. /\ \A d \in Conn : \A s \in todo[d] : s.to = c /\ IsNews(s.msg) =>
             Learn(FinalView(c), s.msg) = Right(c)
      /\ (\A d \in Conn : \A s \in todo[d] : s.to = c => ~IsNews(s.msg)) => FinalView(c) = Right(c)
  BY <1>1 DEF Synced, Right
<1>5. \A d \in Conn : \A s : IsNews(s.msg) => (s \in todo'[d] <=> s \in todo[d])
  BY DEF SilentStep
<1>. QED
  BY <1>2, <1>3, <1>4, <1>5

LEMMA SyncedTrySend ==
    ASSUME TasksTypeOK, TasksTypeOK', RegistryInv, OneTalks, OneNews, Synced,
           NEW e \in Conn, NEW x, SendStep(e, x), QuietRooms
    PROVE  Synced'
<1> SUFFICES ASSUME NEW c \in Conn, phase'[c] = "running", ~penalized'[c]
             PROVE  /\ \A d \in Conn : \A s \in todo'[d] : s.to = c /\ IsNews(s.msg) =>
                           Learn(FinalView(c)', s.msg) = Right(c)'
                    /\ (\A d \in Conn : \A s \in todo'[d] : s.to = c => ~IsNews(s.msg)) =>
                           FinalView(c)' = Right(c)'
  BY DEF Synced, Right
<1>1. phase[c] = "running" /\ session'[c] = session[c]
  BY DEF SendStep
<1>2. Right(c)' = Right(c)
  BY <1>1, RosterQuiet DEF Registered, Right
<1>3. ~penalized[c]
  BY <1>1 DEF SendStep
<1>4. /\ \A d \in Conn : \A s \in todo[d] : s.to = c /\ IsNews(s.msg) =>
             Learn(FinalView(c), s.msg) = Right(c)
      /\ (\A d \in Conn : \A s \in todo[d] : s.to = c => ~IsNews(s.msg)) => FinalView(c) = Right(c)
  BY <1>1, <1>3 DEF Synced, Right
<1>5. \A d \in Conn : \A s : s # x => (s \in todo'[d] <=> s \in todo[d])
  BY DEF SendStep
<1>6. \A d \in Conn : \A s \in todo'[d] : s \in todo[d]
  BY DEF SendStep
<1>7. CASE ~(x.to = c /\ IsNews(x.msg))
  <2>1. FinalView(c)' = FinalView(c)
    <3>1. CASE x.to # c
      BY <3>1, FinalViewKept DEF SendStep
    <3>2. CASE x.to = c
      <4>1. Reached(c, x.msg) /\ x.msg \in Messages /\ ~IsNews(x.msg)
        BY <1>1, <1>7, <3>2 DEF SendStep
      <4>2. FinalView(c)' = Learn(FinalView(c), x.msg)
        BY <4>1, FinalViewReached
      <4>. QED
        BY <4>1, <4>2, StreamType, LearnNothing
    <3>. QED
      BY <3>1, <3>2
  <2>. QED
    BY <1>2, <1>4, <1>5, <1>6, <1>7, <2>1
<1>8. CASE x.to = c /\ IsNews(x.msg)
  <2>1. Reached(c, x.msg) /\ x.msg \in Messages /\ x \in todo[e] /\ x \notin todo'[e]
    BY <1>1, <1>8 DEF SendStep
  <2>2. FinalView(c)' = Learn(FinalView(c), x.msg)
    BY <2>1, FinalViewReached
  <2>3. FinalView(c)' = Right(c)
    BY <1>4, <1>8, <2>1, <2>2
  <2>4. \A d \in Conn : \A s \in todo'[d] : ~(s.to = c /\ IsNews(s.msg))
    <3> SUFFICES ASSUME NEW d \in Conn, NEW s \in todo'[d], s.to = c, IsNews(s.msg)
                 PROVE  FALSE
      OBVIOUS
    <3>1. s \in todo[d]
      BY <1>6
    <3>2. d = e
      BY <2>1, <3>1 DEF OneTalks
    <3>3. s = x
      BY <1>8, <2>1, <3>1, <3>2 DEF OneNews
    <3>. QED
      BY <2>1, <3>2, <3>3
  <2>. QED
    BY <1>2, <2>3, <2>4
<1>. QED
  BY <1>7, <1>8

\* What register's messages teach.
LEMMA LearnJoined ==
    ASSUME NEW R, NEW x
    PROVE  /\ Learn([greeted |-> TRUE, peers |-> R], PeerJoined(x)) = [greeted |-> TRUE, peers |-> R \cup {x}]
           /\ Learn([greeted |-> TRUE, peers |-> R], PeerLeft(x)) = [greeted |-> TRUE, peers |-> R \ {x}]
           /\ Learn(NoView, Connected(R)) = [greeted |-> TRUE, peers |-> R]
<1>1. Learn([greeted |-> TRUE, peers |-> R], PeerJoined(x)) = [greeted |-> TRUE, peers |-> R \cup {x}]
  BY DEF Learn, PeerJoined
<1>2. Learn([greeted |-> TRUE, peers |-> R], PeerLeft(x)) = [greeted |-> TRUE, peers |-> R \ {x}]
  BY DEF Learn, PeerLeft
<1>3. Learn(NoView, Connected(R)) = [greeted |-> TRUE, peers |-> {} \cup R]
  BY DEF Learn, Connected, NoView
<1>. QED
  BY <1>1, <1>2, <1>3

LEMMA SyncedRegister ==
    ASSUME TasksTypeOK, TasksTypeOK', Calm, Blank, Synced, NEW e \in Conn, NEW x, RegisterStep(e, x),
           \A d \in Conn : d # e => todo[d] = {}
    PROVE  Synced'
<1> SUFFICES ASSUME NEW c \in Conn, phase'[c] = "running", ~penalized'[c]
             PROVE  /\ \A d \in Conn : \A s \in todo'[d] : s.to = c /\ IsNews(s.msg) =>
                           Learn(FinalView(c)', s.msg) = Right(c)'
                    /\ (\A d \in Conn : \A s \in todo'[d] : s.to = c => ~IsNews(s.msg)) =>
                           FinalView(c)' = Right(c)'
  BY DEF Synced, Right
<1>1. PICK audience \in SUBSET (Conn \ {e}) :
        /\ todo'[e] = {[to |-> e, msg |-> Connected(Roster(e)')]} \cup Announce(PeerJoined(x), audience)
        /\ \A d \in Conn : phase[d] \in Registered =>
               Roster(d)' = IF d \in audience THEN Roster(d) \cup {x} ELSE Roster(d)
  BY DEF RegisterStep
<1>2. \A d \in Conn : todo[d] = {} /\ (d # e => todo'[d] = {})
  BY DEF Calm, RegisterStep
<1>3. FinalView(c)' = FinalView(c)
  BY FinalViewKept DEF RegisterStep
<1>4. \A s \in todo'[e] : \/ s = [to |-> e, msg |-> Connected(Roster(e)')]
                          \/ s = [to |-> s.to, msg |-> PeerJoined(x)] /\ s.to \in audience
  BY <1>1, AnnounceOnce
<1>5. CASE c = e
  <2>1. FinalView(e) = NoView
    <3>1. Stream(e) = <<>> /\ view[e] = NoView /\ view[e] \in Views
      BY StreamType DEF RegisterStep, Blank
    <3>. QED
      BY <3>1, AfterNothing DEF FinalView
  <2>2. PICK r : r = [to |-> e, msg |-> Connected(Roster(e)')]
    OBVIOUS
  <2>3. r.to = e /\ r.msg = Connected(Roster(e)') /\ IsNews(r.msg) /\ r \in todo'[e]
    BY <1>1, <2>2, AnnounceTypes DEF IsNews
  <2>4. \A s \in todo'[e] : s.to = c => s = r
    BY <1>4, <1>5, <2>2
  <2>5. Learn(NoView, r.msg) = Right(e)'
    BY <2>3, LearnJoined DEF Right
  <2>. QED
    BY <1>2, <1>3, <1>5, <2>1, <2>3, <2>4, <2>5
<1>6. CASE c # e
  <2>1. phase[c] = "running" /\ ~penalized[c] /\ phase[c] \in Registered
    BY <1>6 DEF RegisterStep, Registered
  <2>2. FinalView(c) = Right(c)
    BY <1>2, <2>1 DEF Synced, Right
  <2>3. CASE c \in audience
    <3>1. PICK r : r = [to |-> c, msg |-> PeerJoined(x)]
      OBVIOUS
    <3>2. r.to = c /\ r.msg = PeerJoined(x) /\ IsNews(r.msg) /\ r \in todo'[e]
      BY <1>1, <2>3, <3>1, AnnounceTypes, AnnounceOnce DEF IsNews
    <3>3. \A s \in todo'[e] : s.to = c => s = r
      BY <1>4, <1>6, <3>1
    <3>4. Learn(Right(c), PeerJoined(x)) = Right(c)'
      <4>1. Roster(c)' = Roster(c) \cup {x}
        BY <1>1, <2>1, <2>3
      <4>. QED
        BY <4>1, LearnJoined DEF Right
    <3>. QED
      BY <1>2, <1>3, <2>2, <3>2, <3>3, <3>4
  <2>4. CASE c \notin audience
    <3>1. \A d \in Conn : \A s \in todo'[d] : s.to # c
      BY <1>2, <1>4, <1>6, <2>4
    <3>2. Right(c)' = Right(c)
      BY <1>1, <2>1, <2>4 DEF Right
    <3>. QED
      BY <1>3, <2>2, <3>1, <3>2
  <2>. QED
    BY <2>3, <2>4
<1>. QED
  BY <1>5, <1>6

LEMMA SyncedUnregister ==
    ASSUME TasksTypeOK, TasksTypeOK', Calm, Synced, NEW e \in Conn, UnregisterStep(e),
           \A d \in Conn : d # e => todo[d] = {}
    PROVE  Synced'
<1> SUFFICES ASSUME NEW c \in Conn, phase'[c] = "running", ~penalized'[c]
             PROVE  /\ \A d \in Conn : \A s \in todo'[d] : s.to = c /\ IsNews(s.msg) =>
                           Learn(FinalView(c)', s.msg) = Right(c)'
                    /\ (\A d \in Conn : \A s \in todo'[d] : s.to = c => ~IsNews(s.msg)) =>
                           FinalView(c)' = Right(c)'
  BY DEF Synced, Right
<1>0. PICK x : x = session[e].id
  OBVIOUS
<1>1. PICK audience \in SUBSET Conn :
        /\ todo'[e] = Announce(PeerLeft(x), audience)
        /\ \A d \in Conn \ {e} : phase[d] \in Registered =>
               Roster(d)' = IF d \in audience THEN Roster(d) \ {x} ELSE Roster(d)
  BY <1>0 DEF UnregisterStep
<1>2. \A d \in Conn : todo[d] = {} /\ (d # e => todo'[d] = {})
  BY DEF Calm, UnregisterStep
<1>3. FinalView(c)' = FinalView(c)
  BY FinalViewKept DEF UnregisterStep
<1>4. \A s \in todo'[e] : s = [to |-> s.to, msg |-> PeerLeft(x)] /\ s.to \in audience
  BY <1>1, AnnounceOnce
<1>5. c # e /\ phase[c] = "running" /\ ~penalized[c] /\ phase[c] \in Registered
  BY DEF UnregisterStep, Registered
<1>6. FinalView(c) = Right(c)
  BY <1>2, <1>5 DEF Synced, Right
<1>7. CASE c \in audience
  <2>1. PICK r : r = [to |-> c, msg |-> PeerLeft(x)]
    OBVIOUS
  <2>2. r.to = c /\ r.msg = PeerLeft(x) /\ IsNews(r.msg) /\ r \in todo'[e]
    BY <1>1, <1>7, <2>1, AnnounceTypes, AnnounceOnce DEF IsNews
  <2>3. \A s \in todo'[e] : s.to = c => s = r
    BY <1>4, <2>1
  <2>4. Learn(Right(c), PeerLeft(x)) = Right(c)'
    <3>1. Roster(c)' = Roster(c) \ {x}
      BY <1>1, <1>5, <1>7
    <3>. QED
      BY <3>1, LearnJoined DEF Right
  <2>. QED
    BY <1>2, <1>3, <1>6, <2>2, <2>3, <2>4
<1>8. CASE c \notin audience
  <2>1. \A d \in Conn : \A s \in todo'[d] : s.to # c
    BY <1>2, <1>4, <1>8
  <2>2. Right(c)' = Right(c)
    BY <1>1, <1>5, <1>8 DEF Right
  <2>. QED
    BY <1>3, <1>6, <2>1, <2>2
<1>. QED
  BY <1>7, <1>8

\* Whether its Connected is the first thing a client gets.
Greets(c) == view[c].greeted \/ (Stream(c) # <<>> /\ Head(Stream(c)).type = "connected")

OwnPending(c) == \E s \in todo[c] : s.msg.type = "connected"

LEMMA GreetsKept ==
    ASSUME TasksTypeOK, TasksTypeOK', NEW c \in Conn, Greets(c),
           Kept(c) \/ Delivered(c) \/ \E m \in Messages : Reached(c, m)
    PROVE  Greets(c)'
<1>1. CASE Kept(c)
  BY <1>1 DEF Greets, Kept
<1>2. CASE Delivered(c)
  <2>1. PICK m \in Messages : Stream(c) = <<m>> \o Stream(c)' /\ view'[c] = Learn(view[c], m)
    BY <1>2 DEF Delivered
  <2>2. view[c] \in Views
    BY StreamType
  <2>3. view'[c].greeted <=> view[c].greeted \/ m.type = "connected"
    <3>1. PICK v \in Views : v = view[c]
      BY <2>2
    <3>2. PICK b : b = (v.greeted \/ m.type = "connected")
      OBVIOUS
    <3>3. PICK P : P = {id \in ClientIds : Brings(m, id) \/ (id \in v.peers /\ m # PeerLeft(id))}
      OBVIOUS
    <3>4. Learn(v, m) = [greeted |-> b, peers |-> P]
      BY <3>2, <3>3, LearnForm
    <3>5. Learn(v, m).greeted = b
      BY <3>4
    <3>. QED
      BY <2>1, <3>1, <3>2, <3>5, Zenon
  <2>4. Head(Stream(c)) = m
    <3>1. PICK t \in Seq(Messages) : t = Stream(c)'
      BY StreamTypeAfter
    <3>2. Head(<<m>> \o t) = m
      <4>1. <<m>> \in Seq(Messages) /\ Len(<<m>>) = 1 /\ <<m>>[1] = m /\ Len(t) \in Nat
        OBVIOUS
      <4>2. (<<m>> \o t)[1] = m /\ <<m>> \o t \in Seq(Messages) /\ Len(<<m>> \o t) = 1 + Len(t)
        BY <4>1, ConcatProperties
      <4>. QED
        BY <4>1, <4>2
    <3>. QED
      BY <2>1, <3>1, <3>2
  <2>. QED
    BY <2>3, <2>4 DEF Greets
<1>3. ASSUME NEW m \in Messages, Reached(c, m) PROVE Greets(c)'
  <2>1. PICK t \in Seq(Messages) : t = Stream(c)
    BY StreamType
  <2>2. Append(t, m) # <<>> /\ (t # <<>> => Head(Append(t, m)) = Head(t))
    <3>1. PICK u : u = Append(t, m)
      OBVIOUS
    <3>2. u \in Seq(Messages) /\ Len(u) = Len(t) + 1 /\ \A i \in 1 .. Len(t) : u[i] = t[i]
      BY <3>1, AppendProperties
    <3>3. Len(t) \in Nat /\ u # <<>>
      BY <3>2
    <3>4. CASE t # <<>>
      <4>1. 1 \in 1 .. Len(t)
        BY <3>3, <3>4, EmptySeq
      <4>2. Head(t) = t[1] /\ Head(u) = u[1]
        BY <3>2, <3>3, <3>4
      <4>. QED
        BY <3>1, <3>2, <3>3, <4>1, <4>2
    <3>. QED
      BY <3>1, <3>3, <3>4
  <2>. QED
    BY <1>3, <2>1, <2>2 DEF Greets, Reached
<1>. QED
  BY <1>1, <1>2, <1>3

LEMMA GreetedForm ==
    GreetedFirst <=> \A c \in Conn : phase[c] = "running" =>
        (OwnPending(c) /\ Stream(c) = <<>>) \/ (~OwnPending(c) /\ Greets(c))
BY DEF GreetedFirst, OwnPending, Greets

LEMMA GreetedFormAfter ==
    GreetedFirst' <=> \A c \in Conn : phase'[c] = "running" =>
        (OwnPending(c)' /\ Stream(c)' = <<>>) \/ (~OwnPending(c)' /\ Greets(c)')
BY DEF GreetedFirst, OwnPending, Greets

LEMMA GreetedSilent ==
    ASSUME TasksTypeOK, TasksTypeOK', GreetedFirst, SilentStep
    PROVE  GreetedFirst'
<1> SUFFICES ASSUME NEW c \in Conn, phase'[c] = "running"
             PROVE  (OwnPending(c)' /\ Stream(c)' = <<>>) \/ (~OwnPending(c)' /\ Greets(c)')
  BY GreetedFormAfter
<1>1. phase[c] = "running" /\ (Kept(c) \/ Delivered(c) \/ (Reached(c, Reply) /\ todo[c] = {}))
  BY DEF SilentStep
<1>2. OwnPending(c)' <=> OwnPending(c)
  BY DEF SilentStep, OwnPending, IsNews
<1>3. CASE OwnPending(c)
  <2>1. Stream(c) = <<>> /\ todo[c] # {}
    BY <1>1, <1>3, GreetedForm DEF OwnPending
  <2>2. ~Delivered(c)
    <3> SUFFICES ASSUME Delivered(c) PROVE FALSE
      OBVIOUS
    <3>1. PICK m \in Messages : Stream(c) = <<m>> \o Stream(c)'
      BY DEF Delivered
    <3>2. PICK t \in Seq(Messages) : t = Stream(c)'
      BY StreamTypeAfter
    <3>3. <<m>> \in Seq(Messages) /\ <<m>> # <<>>
      OBVIOUS
    <3>4. <<m>> \o t # <<>>
      BY <3>3, ConcatEqualIffEmpty
    <3>. QED
      BY <2>1, <3>1, <3>2, <3>4
  <2>. QED
    BY <1>1, <1>2, <1>3, <2>1, <2>2 DEF Kept
<1>4. CASE ~OwnPending(c)
  <2>1. Greets(c)
    BY <1>1, <1>4, GreetedForm
  <2>. QED
    BY <1>1, <1>2, <1>4, <2>1, GreetsKept, MessageTypes
<1>. QED
  BY <1>3, <1>4

LEMMA GreetedTrySend ==
    ASSUME TasksTypeOK, TasksTypeOK', Calm, OneTalks, OneNews, GreetedFirst,
           NEW e \in Conn, NEW x, SendStep(e, x)
    PROVE  GreetedFirst'
<1> SUFFICES ASSUME NEW c \in Conn, phase'[c] = "running"
             PROVE  (OwnPending(c)' /\ Stream(c)' = <<>>) \/ (~OwnPending(c)' /\ Greets(c)')
  BY GreetedFormAfter
<1>1. /\ phase[c] = "running" /\ x \in NextSends(e) /\ x \in todo[e] /\ x.msg \in Messages
      /\ todo'[e] = todo[e] \ {x} /\ \A d \in Conn : d # e => todo'[d] = todo[d]
  BY DEF SendStep
<1>2. CASE OwnPending(c) /\ x.to = c
  <2>1. PICK own \in todo[c] : own.msg.type = "connected"
    BY <1>2 DEF OwnPending
  <2>2. e = c
    BY <1>1, <2>1 DEF OneTalks
  <2>3. x.msg.type = "connected"
    BY <1>1, <2>1, <2>2 DEF NextSends
  <2>4. ~OwnPending(c)'
    <3> SUFFICES ASSUME NEW s \in todo'[c], s.msg.type = "connected" PROVE FALSE
      BY DEF OwnPending
    <3>1. s \in todo[c] /\ s # x /\ s.to = c
      BY <1>1, <2>2 DEF Calm
    <3>. QED
      BY <1>1, <1>2, <2>2, <2>3, <3>1 DEF OneNews, IsNews
  <2>5. Stream(c) = <<>>
    BY <1>1, <1>2, GreetedForm
  <2>6. Reached(c, x.msg)
    BY <1>1, <1>2, <2>5 DEF SendStep
  <2>7. Stream(c)' # <<>> /\ Head(Stream(c)') = x.msg
    <3>1. Append(<<>>, x.msg) # <<>> /\ Head(Append(<<>>, x.msg)) = x.msg
      OBVIOUS
    <3>. QED
      BY <2>5, <2>6, <3>1 DEF Reached
  <2>. QED
    BY <2>3, <2>4, <2>7 DEF Greets
<1>3. CASE OwnPending(c) /\ x.to # c
  <2>1. Kept(c) /\ Stream(c) = <<>>
    BY <1>1, <1>3, GreetedForm DEF SendStep
  <2>2. OwnPending(c)'
    <3>1. PICK own \in todo[c] : own.msg.type = "connected"
      BY <1>3 DEF OwnPending
    <3>2. own # x
      BY <1>3, <3>1 DEF Calm
    <3>3. own \in todo'[c]
      BY <1>1, <3>2
    <3>. QED
      BY <3>1, <3>3 DEF OwnPending
  <2>. QED
    BY <2>1, <2>2 DEF Kept
<1>4. CASE ~OwnPending(c)
  <2>1. Greets(c)
    BY <1>1, <1>4, GreetedForm
  <2>2. ~OwnPending(c)'
    BY <1>1, <1>4 DEF OwnPending
  <2>3. Kept(c) \/ Reached(c, x.msg)
    BY <1>1 DEF SendStep
  <2>. QED
    BY <1>1, <2>1, <2>2, <2>3, GreetsKept
<1>. QED
  BY <1>2, <1>3, <1>4

LEMMA GreetedRegister ==
    ASSUME Blank, GreetedFirst, NEW e \in Conn, NEW x, RegisterStep(e, x)
    PROVE  GreetedFirst'
<1> SUFFICES ASSUME NEW c \in Conn, phase'[c] = "running"
             PROVE  (OwnPending(c)' /\ Stream(c)' = <<>>) \/ (~OwnPending(c)' /\ Greets(c)')
  BY GreetedFormAfter
<1>1. Kept(c)
  BY DEF RegisterStep
<1>2. CASE c = e
  <2>1. Stream(c) = <<>>
    BY <1>2 DEF RegisterStep, Blank
  <2>2. OwnPending(c)'
    <3>1. PICK r : r = [to |-> e, msg |-> Connected(Roster(e)')]
      OBVIOUS
    <3>2. r \in todo'[e] /\ r.msg.type = "connected"
      BY <3>1, AnnounceTypes DEF RegisterStep
    <3>. QED
      BY <1>2, <3>2 DEF OwnPending
  <2>. QED
    BY <1>1, <2>1, <2>2 DEF Kept
<1>3. CASE c # e
  <2>1. phase[c] = "running" /\ todo'[c] = todo[c]
    BY <1>3 DEF RegisterStep
  <2>2. (OwnPending(c) /\ Stream(c) = <<>>) \/ (~OwnPending(c) /\ Greets(c))
    BY <2>1, GreetedForm
  <2>. QED
    BY <1>1, <2>1, <2>2 DEF OwnPending, Greets, Kept
<1>. QED
  BY <1>2, <1>3

LEMMA GreetedUnregister ==
    ASSUME GreetedFirst, NEW e \in Conn, UnregisterStep(e)
    PROVE  GreetedFirst'
<1> SUFFICES ASSUME NEW c \in Conn, phase'[c] = "running"
             PROVE  (OwnPending(c)' /\ Stream(c)' = <<>>) \/ (~OwnPending(c)' /\ Greets(c)')
  BY GreetedFormAfter
<1>1. Kept(c) /\ phase[c] = "running" /\ todo'[c] = todo[c]
  BY DEF UnregisterStep
<1>2. (OwnPending(c) /\ Stream(c) = <<>>) \/ (~OwnPending(c) /\ Greets(c))
  BY <1>1, GreetedForm
<1>. QED
  BY <1>1, <1>2 DEF OwnPending, Greets, Kept

\* The invariant of the announcements on the current-thread runtime.
OneThreadInv == OneTalks /\ OneNews /\ Synced /\ GreetedFirst

LEMMA OneThreadInit == Init => OneThreadInv
BY DEF Init, OneThreadInv, OneTalks, OneNews, Synced, GreetedFirst

LEMMA OneThreadSilent ==
    ASSUME TasksTypeOK, TasksTypeOK', RegistryInv, OneThreadInv, OneTalks', SilentStep, QuietRooms
    PROVE  OneThreadInv'
<1>1. \A d \in Conn : \A s \in todo'[d] : IsNews(s.msg) => s \in todo[d]
  BY DEF SilentStep
<1>2. OneNews'
  BY <1>1, OneNewsFewer DEF OneThreadInv
<1>. QED
  BY <1>2, SyncedSilent, GreetedSilent DEF OneThreadInv

LEMMA OneThreadRuntime ==
    ASSUME ~MultiThread, IInv, IInv', VInv, OneThreadInv, NEW c \in Conn, Runtime(c)
    PROVE  OneThreadInv'
<1>1. RegistryTypeOK /\ TasksTypeOK /\ RegistryInv /\ ReplyPending /\ TasksTypeOK'
  BY DEF IInv, TypeOK, TasksTypeOK
<1>2. \A d \in Conn : d # c => todo[d] = {} /\ todo'[d] = {}
  BY <1>1, ActorAlone
<1>3. OneTalks'
  BY <1>2 DEF OneTalks
<1>4. CASE Register(c)
  <2>1. PICK id : RegisterStep(c, id)
    BY <1>1, <1>4, RegisterEffect
  <2>2. OneNews'
    <3>1. PICK audience \in SUBSET (Conn \ {c}) :
            todo'[c] = {[to |-> c, msg |-> Connected(Roster(c)')]} \cup Announce(PeerJoined(id), audience)
      BY <2>1 DEF RegisterStep
    <3>2. \A s \in todo'[c] : \/ s = [to |-> c, msg |-> Connected(Roster(c)')]
                              \/ s = [to |-> s.to, msg |-> PeerJoined(id)] /\ s.to \in audience
      BY <3>1, AnnounceOnce
    <3>3. \A s, t \in todo'[c] : s.to = t.to => s = t
      BY <3>2
    <3>. QED
      BY <1>2, <3>3, OneNewsReplaced DEF OneThreadInv
  <2>. QED
    BY <1>1, <1>2, <1>3, <2>1, <2>2, SyncedRegister, GreetedRegister DEF OneThreadInv, VInv
<1>5. CASE Unregister(c)
  <2>1. UnregisterStep(c)
    BY <1>1, <1>5, UnregisterEffect
  <2>2. OneNews'
    <3>1. PICK audience : todo'[c] = Announce(PeerLeft(session[c].id), audience)
      BY <2>1 DEF UnregisterStep
    <3>2. \A s \in todo'[c] : s = [to |-> s.to, msg |-> PeerLeft(session[c].id)]
      BY <3>1, AnnounceOnce
    <3>3. \A s, t \in todo'[c] : s.to = t.to => s = t
      BY <3>2
    <3>. QED
      BY <1>2, <3>3, OneNewsReplaced DEF OneThreadInv
  <2>. QED
    BY <1>1, <1>2, <1>3, <2>1, <2>2, SyncedUnregister, GreetedUnregister DEF OneThreadInv, VInv
<1>6. CASE TrySend(c)
  <2>1. PICK s : SendStep(c, s)
    BY <1>1, <1>6, TrySendEffect
  <2>2. QuietRooms
    BY <1>6, LiveRoomsQuiet DEF TrySend, registry
  <2>3. \A d \in Conn : \A t \in todo'[d] : IsNews(t.msg) => t \in todo[d]
    BY <2>1 DEF SendStep
  <2>4. OneNews'
    BY <2>3, OneNewsFewer DEF OneThreadInv
  <2>. QED
    BY <1>1, <1>3, <2>1, <2>2, <2>4, SyncedTrySend, GreetedTrySend DEF OneThreadInv, VInv
<1>7. CASE ~Register(c) /\ ~Unregister(c) /\ ~TrySend(c)
  BY <1>1, <1>3, <1>7, SilentRuntime, QuietRuntime, OneThreadSilent
<1>. QED
  BY <1>4, <1>5, <1>6, <1>7

LEMMA OneThreadStep ==
    ASSUME ~MultiThread, IInv, IInv', VInv, OneThreadInv, [Next]_vars
    PROVE  OneThreadInv'
<1>1. RegistryTypeOK /\ TasksTypeOK /\ RegistryInv /\ ReplyPending /\ TasksTypeOK'
  BY DEF IInv, TypeOK, TasksTypeOK
<1>2. ASSUME NEW c \in Conn,
             \/ Handshake(c)
             \/ \E ip \in IPs : Accept(c, ip)
             \/ \E peer \in ClientIds : SignalFrame(c, peer)
      PROVE  OneTalks'
  <2>1. \A d \in Conn : d # c => todo[d] = {} /\ todo'[d] = {}
    BY <1>1, <1>2, ActorAlone
  <2>. QED
    BY <2>1 DEF OneTalks
<1>3. CASE UNCHANGED vars \/ TimePasses
  <2>1. UNCHANGED tasks /\ rooms' = rooms
    BY <1>3 DEF vars, registry, TimePasses, Tick
  <2>2. QuietRooms /\ OneTalks'
    BY <2>1, LiveRoomsQuiet DEF tasks, OneTalks, OneThreadInv
  <2>. QED
    BY <1>1, <2>1, <2>2, SilentUnchanged, OneThreadSilent
<1>4. ASSUME NEW c \in Conn, NEW ip \in IPs, Accept(c, ip)
      PROVE  OneThreadInv'
  BY <1>1, <1>2, <1>4, SilentAccept, QuietAccept, OneThreadSilent
<1>5. ASSUME NEW c \in Conn, Handshake(c)
      PROVE  OneThreadInv'
  BY <1>1, <1>2, <1>5, SilentHandshake, QuietHandshake, OneThreadSilent
<1>6. ASSUME NEW c \in Conn, Runtime(c)
      PROVE  OneThreadInv'
  BY <1>6, OneThreadRuntime
<1>7. ASSUME NEW c \in Conn, NEW peer \in ClientIds, SignalFrame(c, peer)
      PROVE  OneThreadInv'
  BY <1>1, <1>2, <1>7, SilentSignalFrame, QuietSignalFrame, OneThreadSilent
<1>. QED
  BY <1>3, <1>4, <1>5, <1>6, <1>7 DEF Next

LEMMA OneThreadCorrect ==
    ASSUME ~MultiThread
    PROVE  Spec => []OneThreadInv
<1>1. IInv /\ IInv' /\ VInv /\ [Next]_vars => VInv'
  BY ViewStep
<1>2. IInv /\ IInv' /\ VInv /\ OneThreadInv /\ [Next]_vars => OneThreadInv'
  BY OneThreadStep
<1>. QED
  BY <1>1, <1>2, InitInv, NextInv, ViewInit, OneThreadInit, PTL DEF Spec

\* On the current-thread runtime, which main.rs uses when asked for a single
\* worker, Connected is the first message every client gets: nothing can come
\* between register and its try_send.
THEOREM ConnectedComesFirst ==
    ASSUME ~MultiThread
    PROVE  Spec => []ConnectedFirst
<1>1. OneThreadInv => ConnectedFirst
  BY DEF OneThreadInv, GreetedFirst, ConnectedFirst
<1>. QED
  BY <1>1, OneThreadCorrect, PTL

\* And every client that did not overflow has the exact roster of its room
\* whenever no announcement is still to be made, aliases that come back
\* included.
THEOREM RosterKept ==
    ASSUME ~MultiThread
    PROVE  Spec => []RosterInSync
<1>1. OneThreadInv => RosterInSync
  BY DEF OneThreadInv, Synced, RosterInSync
<1>. QED
  BY <1>1, OneThreadCorrect, PTL

=============================================================================
