------------------------- MODULE NegotiationProofs --------------------------
(***************************************************************************)
(* Proofs about Negotiation.                                               *)
(***************************************************************************)
EXTENDS Negotiation, SequenceTheorems, FiniteSetTheorems, NaturalsInduction, WellFoundedInduction, TLAPS

(***************************************************************************)
(* Types.                                                                  *)
(***************************************************************************)
Offers == Clients \X Ids
Requests == (Clients \X Nat) \cup {<<>>}
Session == [logins : Nat, login_state : Nat, registration_state : BOOLEAN]

LoginWords == [type : {"error", "registration_required", "registration_response"}]
Candidates == [type : {"candidates"}, request : Requests]
Greetings == [type : {"connected"}, peers : SUBSET Ids]
News == [type : {"peer_joined", "peer_left"}, id : Ids]
Forwarded == [type : {"signal"}, from : Ids, payload : Offers]
ToClient == LoginWords \cup Candidates \cup Greetings \cup News \cup Forwarded

Demands == [type : {"registration_request"}]
Logins == [type : {"init", "registration_upload", "finalization"}, request : Requests]
Signals == [type : {"signal"}, to : Ids, payload : Offers]
ToServer == Demands \cup Logins \cup Signals

Connections == [offer : Offers \cup {<<>>}, answered : BOOLEAN]
AgentPeer == [state : {"none", "have-local-offer", "stable"}, answer : Offers \cup {<<>>}]

ServerTypes ==
    /\ to_server \in [Clients -> Seq(ToServer)]
    /\ to_client \in [Clients -> Seq(ToClient)]
    /\ open \in [Clients -> BOOLEAN]
    /\ phase \in [Clients -> {"none", "init", "registration", "upload", "finalization", "member", "gone"}]
    /\ login \in [Clients -> [request : Requests, created : BOOLEAN]]
    /\ ids \in [Clients -> Ids]
    /\ room \in BOOLEAN

PageTypes ==
    /\ socket \in 0..MaxSockets
    /\ ready \in [Sockets -> {"unused", "connecting", "open", "closing", "closed"}]
    /\ input_enabled \in BOOLEAN
    /\ bridge \in {"unloaded", "ready", "failed"}
    /\ begin \in [Sockets -> {"idle", "bridge", "derive", "done"}]
    /\ auth_state \in 0..MaxSockets
    /\ sessions \in [Sockets -> Session]
    /\ peers \subseteq Ids
    /\ connection \in [Ids -> Connections]

AgentTypes ==
    /\ agent \in {"sleep", "login", "session", "refused", "webrtc_error"}
    /\ session_no \in 0..MaxSessions
    /\ agent # "sleep" => session_no # 0
    /\ agent_session \in Session
    /\ agent_peers \in [Ids -> AgentPeer]

\* No two sockets: the secret can only be entered while there is none.
SocketInv ==
    /\ OneSocket
    /\ input_enabled => socket = 0

Typed == ServerTypes /\ PageTypes /\ AgentTypes /\ SocketInv

LEMMA Domains ==
    /\ MaxSockets \in Nat /\ MaxSessions \in Nat
    /\ \A k \in Sockets : PageClient(k) \in PageClients /\ PageClient(k) \in Clients /\ PageClient(k) \in Ids
    /\ PageClients \subseteq Clients /\ AgentClients \subseteq Clients /\ Clients \subseteq Ids
    /\ PageClients \cap AgentClients = {} /\ TheAlias \in Ids /\ TheAlias \notin Clients
    /\ \A n \in 1..MaxSessions : <<"agent", n>> \in AgentClients /\ <<"agent", n>> \in Clients
    /\ \A c \in PageClients : \E k \in Sockets : c = PageClient(k)
    /\ \A c \in AgentClients : \E n \in 1..MaxSessions : c = <<"agent", n>>
    /\ \A c \in Clients : c \in PageClients \/ c \in AgentClients
BY RelayAssumption DEF Sockets, PageClient, PageClients, AgentClients, Clients, Ids, TheAlias

LEMMA MessageKinds ==
    ASSUME NEW m \in ToClient
    PROVE  /\ m.type \in {"error", "registration_required", "registration_response"} => m \in LoginWords
           /\ m.type = "candidates" => m \in Candidates /\ m.request \in Requests
           /\ m.type = "connected" => m \in Greetings /\ m.peers \in SUBSET Ids
           /\ m.type \in {"peer_joined", "peer_left"} => m \in News /\ m.id \in Ids
           /\ m.type = "signal" => m \in Forwarded /\ m.from \in Ids /\ m.payload \in Offers
           /\ m.type \in {"error", "registration_required", "registration_response", "candidates",
                          "connected", "peer_joined", "peer_left", "signal"}
BY DEF ToClient, LoginWords, Candidates, Greetings, News, Forwarded

LEMMA RequestKinds ==
    ASSUME NEW m \in ToServer
    PROVE  /\ m.type \in {"init", "registration_upload", "finalization"} => m.request \in Requests
           /\ m.type = "signal" => m.to \in Ids /\ m.payload \in Offers
BY DEF ToServer, Demands, Logins, Signals

(***************************************************************************)
(* Queues.                                                                 *)
(***************************************************************************)
LEMMA DeliverType ==
    ASSUME NEW S, NEW q \in [Clients -> Seq(S)], NEW c \in Clients, NEW m \in S
    PROVE  /\ Deliver(q, c, m) \in [Clients -> Seq(S)]
           /\ Deliver(q, c, m)[c] = Append(q[c], m)
           /\ \A d \in Clients \ {c} : Deliver(q, c, m)[d] = q[d]
BY DEF Deliver

LEMMA AnnounceType ==
    ASSUME NEW q \in [Clients -> Seq(ToClient)], NEW C, NEW m \in ToClient
    PROVE  /\ Announce(q, C, m) \in [Clients -> Seq(ToClient)]
           /\ \A d \in Clients : Announce(q, C, m)[d] =
                IF d \in C \cap Members THEN Append(q[d], m) ELSE q[d]
BY DEF Announce

LEMMA TailType ==
    ASSUME NEW S, NEW q \in [Clients -> Seq(S)], NEW c \in Clients, q[c] # <<>>
    PROVE  /\ [q EXCEPT ![c] = Tail(@)] \in [Clients -> Seq(S)]
           /\ Head(q[c]) \in S
BY DEF Deliver

(***************************************************************************)
(* Sessions.                                                               *)
(***************************************************************************)
LEMMA SessionTypes ==
    ASSUME NEW s \in Session
    PROVE  /\ ClientSession \in Session /\ start_login(s) \in Session /\ finish_login(s) \in Session
           /\ start_registration(s) \in Session /\ finish_registration(s) \in Session
           /\ s.login_state \in Nat
<1>1. ClientSession \in Session
  BY DEF Session, ClientSession
<1>2. ASSUME NEW t \in Session PROVE start_login(t) \in Session
  <2>1. t.logins \in Nat
    BY DEF Session
  <2>2. PICK n \in Nat : n = t.logins + 1
    BY <2>1
  <2>3. start_login(t) = [t EXCEPT !.logins = n, !.login_state = n]
    BY <2>2 DEF start_login
  <2>. QED
    BY <2>3 DEF Session
<1>3. finish_login(s) \in Session /\ start_registration(s) \in Session
  BY DEF Session, finish_login, start_registration
<1>4. PICK t \in Session : t = [s EXCEPT !.registration_state = FALSE]
  BY DEF Session
<1>5. finish_registration(s) = start_login(t)
  BY <1>4 DEF finish_registration
<1>6. s.login_state \in Nat
  BY DEF Session
<1>. QED
  BY <1>1, <1>2, <1>3, <1>5, <1>6

LEMMA ReplyTypes ==
    ASSUME NEW owner \in Clients, NEW s \in Session, NEW m \in ToClient, NEW r \in AuthReply(owner, s, m)
    PROVE  r.session \in Session /\ r.send \in ToServer /\ r.send.type # "signal" /\ m.type \in LoginMessages
<1>1. CASE m.type = "registration_required"
  <2>1. r = [session |-> start_registration(s), send |-> [type |-> "registration_request"]]
    BY <1>1 DEF AuthReply
  <2>. QED
    BY <1>1, <2>1, SessionTypes DEF ToServer, Demands, LoginMessages
<1>2. CASE m.type = "registration_response"
  <2>1. PICK t \in Session : t = finish_registration(s)
    BY SessionTypes
  <2>2. r = [session |-> t, send |-> [type |-> "registration_upload", request |-> CredentialRequest(owner, t)]]
    BY <1>2, <2>1 DEF AuthReply
  <2>3. CredentialRequest(owner, t) \in Requests
    BY SessionTypes DEF CredentialRequest, Requests
  <2>. QED
    BY <1>2, <2>2, <2>3 DEF ToServer, Logins, LoginMessages
<1>3. CASE m.type = "candidates"
  <2>1. r = [session |-> finish_login(s), send |-> [type |-> "finalization", request |-> m.request]]
    BY <1>3 DEF AuthReply
  <2>. QED
    BY <1>3, <2>1, SessionTypes, MessageKinds DEF ToServer, Logins, LoginMessages
<1>. QED
  BY <1>1, <1>2, <1>3 DEF AuthReply

(***************************************************************************)
(* Types are kept, and there is one socket at a time.                      *)
(***************************************************************************)
LEMMA InitTyped ==
    ASSUME Init
    PROVE  Typed
<1>1. NoLogin \in [request : Requests, created : BOOLEAN] /\ NoConnection \in Connections /\ NoPeer \in AgentPeer
  BY DEF NoLogin, NoConnection, NoPeer, Requests, Connections, AgentPeer
<1>2. ClientSession \in Session
  BY DEF ClientSession, Session
<1>3. ServerTypes
  <2>1. /\ to_server \in [Clients -> Seq(ToServer)] /\ to_client \in [Clients -> Seq(ToClient)]
        /\ open \in [Clients -> BOOLEAN]
    BY DEF Init, RelayInit
  <2>2. /\ phase \in [Clients -> {"none", "init", "registration", "upload", "finalization", "member", "gone"}]
        /\ login \in [Clients -> [request : Requests, created : BOOLEAN]]
    BY <1>1 DEF Init, RelayInit
  <2>3. ids \in [Clients -> Ids]
    BY Domains DEF Init, RelayInit
  <2>4. room \in BOOLEAN
    BY DEF Init, RelayInit
  <2>. QED
    BY <2>1, <2>2, <2>3, <2>4 DEF ServerTypes
<1>4. PageTypes
  BY <1>1, <1>2, Domains DEF Init, PageInit, PageTypes
<1>5. AgentTypes
  BY <1>1, <1>2, Domains DEF Init, AgentInit, AgentTypes
<1>6. SocketInv
  BY DEF Init, PageInit, SocketInv, OneSocket, Alive
<1>. QED
  BY <1>3, <1>4, <1>5, <1>6 DEF Typed

LEMMA PageKept ==
    ASSUME Typed, UNCHANGED page_vars
    PROVE  PageTypes' /\ SocketInv'
BY DEF Typed, PageTypes, SocketInv, OneSocket, Alive, page_vars

LEMMA AgentKept ==
    ASSUME Typed, UNCHANGED agent_vars
    PROVE  AgentTypes'
BY DEF Typed, AgentTypes, agent_vars

LEMMA IdsTyped ==
    ASSUME ServerTypes, NEW C
    PROVE  IdsOf(C) \subseteq Ids
BY DEF ServerTypes, IdsOf, Members

\* What the server takes, and the end of a login.
LEMMA TakesTyped ==
    ASSUME ServerTypes, NEW c \in Clients, NEW p, Takes(c, p)
    PROVE  /\ to_server' \in [Clients -> Seq(ToServer)]
           /\ Head(to_server[c]) \in ToServer
           /\ phase[c] = p /\ to_server[c] # <<>>
           /\ to_server'[c] = Tail(to_server[c])
           /\ \A d \in Clients \ {c} : to_server'[d] = to_server[d]
BY TailType DEF Takes, ServerTypes

LEMMA WordsTyped ==
    /\ Error \in ToClient /\ [type |-> "registration_required"] \in ToClient
    /\ [type |-> "registration_response"] \in ToClient
    /\ \A r \in Requests : [type |-> "candidates", request |-> r] \in ToClient
    /\ \A P \in SUBSET Ids : [type |-> "connected", peers |-> P] \in ToClient
    /\ \A i \in Ids :
           /\ [type |-> "peer_joined", id |-> i] \in ToClient
           /\ [type |-> "peer_left", id |-> i] \in ToClient
    /\ \A i \in Ids, o \in Offers : [type |-> "signal", from |-> i, payload |-> o] \in ToClient
BY DEF Error, ToClient, LoginWords, Candidates, Greetings, News, Forwarded

LEMMA CloseTyped ==
    ASSUME ServerTypes, to_server' \in [Clients -> Seq(ToServer)], NEW c \in Clients,
           NEW last \in Seq(ToClient), Close(c, last)
    PROVE  /\ ServerTypes'
           /\ to_client'[c] = to_client[c] \o last
           /\ \A d \in Clients \ {c} : to_client'[d] = to_client[d]
<1>1. NoLogin \in [request : Requests, created : BOOLEAN]
  BY DEF NoLogin, Requests
<1>2. to_client[c] \o last \in Seq(ToClient)
  BY DEF ServerTypes
<1>3. to_client' \in [Clients -> Seq(ToClient)]
  BY <1>2 DEF ServerTypes, Close
<1>4. open' \in [Clients -> BOOLEAN] /\ login' \in [Clients -> [request : Requests, created : BOOLEAN]]
  BY <1>1 DEF ServerTypes, Close
<1>5. phase' \in [Clients -> {"none", "init", "registration", "upload", "finalization", "member", "gone"}]
  BY DEF ServerTypes, Close
<1>6. ids' \in [Clients -> Ids] /\ room' \in BOOLEAN
  BY DEF ServerTypes, Close
<1>7. to_client'[c] = to_client[c] \o last /\ \A d \in Clients \ {c} : to_client'[d] = to_client[d]
  BY DEF ServerTypes, Close
<1>. QED
  BY <1>3, <1>4, <1>5, <1>6, <1>7 DEF ServerTypes

LEMMA AnswerTyped ==
    ASSUME ServerTypes, to_server' \in [Clients -> Seq(ToServer)], NEW c \in Clients,
           login' \in [Clients -> [request : Requests, created : BOOLEAN]],
           NEW p \in {"registration", "upload", "finalization"}, NEW m \in ToClient, Answer(c, p, m)
    PROVE  /\ ServerTypes'
           /\ to_client'[c] = Append(to_client[c], m)
           /\ \A d \in Clients \ {c} : to_client'[d] = to_client[d]
<1>1. to_client \in [Clients -> Seq(ToClient)]
  BY DEF ServerTypes
<1>2. /\ to_client' \in [Clients -> Seq(ToClient)]
      /\ to_client'[c] = Append(to_client[c], m)
      /\ \A d \in Clients \ {c} : to_client'[d] = to_client[d]
  <2>1. to_client' = Deliver(to_client, c, m)
    BY DEF Answer
  <2>2. PICK q : q = to_client'
    OBVIOUS
  <2>3. Append(to_client[c], m) \in Seq(ToClient)
    BY <1>1
  <2>4. q = [to_client EXCEPT ![c] = Append(to_client[c], m)]
    BY <2>1, <2>2 DEF Deliver
  <2>5. q \in [Clients -> Seq(ToClient)] /\ q[c] = Append(to_client[c], m) /\ \A d \in Clients \ {c} : q[d] = to_client[d]
    BY <1>1, <2>3, <2>4
  <2>. QED
    BY <2>2, <2>5
<1>3. phase' \in [Clients -> {"none", "init", "registration", "upload", "finalization", "member", "gone"}]
  BY DEF ServerTypes, Answer
<1>4. open' = open /\ ids' = ids /\ room' = room
  BY DEF Answer
<1>. QED
  BY <1>2, <1>3, <1>4 DEF ServerTypes

\* A step of a login, all but the one that ends it well.
Entering == {"init", "registration", "upload", "finalization"}

Talks(c) ==
    \/ PakeInit(c) \/ PakeRegistrationRequest(c) \/ PakeRegistrationUpload(c)
    \/ PakeCredentialFinalization(c) /\ phase'[c] # "member"

OthersKept(c) ==
    \A d \in Clients \ {c} :
        phase'[d] = phase[d] /\ to_client'[d] = to_client[d] /\ to_server'[d] = to_server[d]

Said(c) ==
    \/ /\ phase'[c] \in Entering
       /\ \E m \in ToClient : m.type \in LoginMessages /\ to_client'[c] = Append(to_client[c], m)
    \/ /\ phase'[c] = "gone"
       /\ to_client'[c] \in {to_client[c], Append(to_client[c], Error)}

LEMMA CloseSays ==
    ASSUME ServerTypes, NEW c \in Clients, NEW p, Takes(c, p), NEW last \in {<<>>, <<Error>>}, Close(c, last)
    PROVE  ServerTypes' /\ OthersKept(c) /\ Said(c) /\ ids' = ids
<1>1. last \in Seq(ToClient)
  <2>1. Error \in ToClient
    BY WordsTyped
  <2>2. <<>> \in Seq(ToClient) /\ <<Error>> \in Seq(ToClient)
    BY <2>1
  <2>. QED
    BY <2>2
<1>2. to_server' \in [Clients -> Seq(ToServer)] /\ \A d \in Clients \ {c} : to_server'[d] = to_server[d]
  BY TakesTyped
<1>3. /\ ServerTypes' /\ to_client'[c] = to_client[c] \o last
      /\ \A d \in Clients \ {c} : to_client'[d] = to_client[d]
  BY <1>1, <1>2, CloseTyped
<1>4. PICK q \in Seq(ToClient) : q = to_client[c]
  BY DEF ServerTypes
<1>5. q \o <<>> = q /\ q \o <<Error>> = Append(q, Error)
  BY WordsTyped
<1>6. phase'[c] = "gone" /\ \A d \in Clients \ {c} : phase'[d] = phase[d]
  BY DEF Close, ServerTypes
<1>7. ids' = ids
  BY DEF Close
<1>8. to_client'[c] \in {to_client[c], Append(to_client[c], Error)}
  BY <1>3, <1>4, <1>5
<1>. QED
  BY <1>2, <1>3, <1>6, <1>7, <1>8 DEF OthersKept, Said

LEMMA AnswerSays ==
    ASSUME ServerTypes, NEW c \in Clients, NEW q, Takes(c, q),
           login' \in [Clients -> [request : Requests, created : BOOLEAN]],
           NEW p \in {"registration", "upload", "finalization"},
           NEW m \in ToClient, m.type \in LoginMessages, Answer(c, p, m)
    PROVE  ServerTypes' /\ OthersKept(c) /\ Said(c) /\ ids' = ids
<1>1. to_server' \in [Clients -> Seq(ToServer)] /\ \A d \in Clients \ {c} : to_server'[d] = to_server[d]
  BY TakesTyped
<1>2. /\ ServerTypes' /\ to_client'[c] = Append(to_client[c], m)
      /\ \A d \in Clients \ {c} : to_client'[d] = to_client[d]
  BY <1>1, AnswerTyped
<1>3. phase'[c] = p /\ \A d \in Clients \ {c} : phase'[d] = phase[d]
  BY DEF Answer, ServerTypes
<1>4. ids' = ids
  BY DEF Answer
<1>. QED
  BY <1>1, <1>2, <1>3, <1>4 DEF OthersKept, Said, Entering

LEMMA TalkEffect ==
    ASSUME ServerTypes, NEW c \in Clients, Talks(c)
    PROVE  /\ ServerTypes' /\ OthersKept(c) /\ Said(c) /\ ids' = ids
           /\ phase[c] \in Entering
           /\ to_server[c] # <<>> /\ to_server'[c] = Tail(to_server[c])
<1> DEFINE m == Head(to_server[c])
           Logged == [Clients -> [request : Requests, created : BOOLEAN]]
<1>1. login \in Logged
  BY DEF ServerTypes
<1>2. Error \in ToClient /\ <<>> \in {<<>>, <<Error>>} /\ <<Error>> \in {<<>>, <<Error>>}
  BY WordsTyped
<1>3. ASSUME NEW p, Takes(c, p), Refuse(c)
      PROVE  ServerTypes' /\ OthersKept(c) /\ Said(c) /\ ids' = ids
  BY <1>2, <1>3, CloseSays DEF Refuse
<1>4. CASE PakeInit(c)
  <2>1. Takes(c, "init") /\ m \in ToServer
    BY <1>4, TakesTyped DEF PakeInit
  <2>2. CASE m.type = "init" /\ room
    <3>1. m.request \in Requests
      BY <2>1, <2>2, RequestKinds
    <3>2. login' \in Logged
      <4>1. PICK l \in [request : Requests, created : BOOLEAN] :
                l = [request |-> m.request, created |-> FALSE]
        BY <3>1
      <4>2. login' = [login EXCEPT ![c] = l]
        BY <1>4, <2>2, <4>1 DEF PakeInit
      <4>. QED
        BY <1>1, <4>2
    <3>3. PICK w \in ToClient : w = [type |-> "candidates", request |-> m.request]
      BY <3>1, WordsTyped
    <3>4. Answer(c, "finalization", w)
      BY <1>4, <2>2, <3>3 DEF PakeInit
    <3>5. w.type \in LoginMessages
      BY <3>3 DEF LoginMessages
    <3>6. ServerTypes' /\ OthersKept(c) /\ Said(c) /\ ids' = ids
      BY <2>1, <3>2, <3>4, <3>5, AnswerSays
    <3>. QED
      BY <2>1, <3>6, TakesTyped DEF Entering
  <2>3. CASE m.type = "init" /\ ~room /\ c \in AgentClients
    <3>1. login' \in Logged
      BY <1>4, <1>1, <2>3 DEF PakeInit
    <3>2. PICK w \in ToClient : w = [type |-> "registration_required"]
      BY WordsTyped
    <3>3. Answer(c, "registration", w)
      BY <1>4, <2>3, <3>2 DEF PakeInit
    <3>4. w.type \in LoginMessages
      BY <3>2 DEF LoginMessages
    <3>5. ServerTypes' /\ OthersKept(c) /\ Said(c) /\ ids' = ids
      BY <2>1, <3>1, <3>3, <3>4, AnswerSays
    <3>. QED
      BY <2>1, <3>5, TakesTyped DEF Entering
  <2>4. CASE ~(m.type = "init" /\ room) /\ ~(m.type = "init" /\ c \in AgentClients)
    <3>1. Refuse(c)
      BY <1>4, <2>4 DEF PakeInit
    <3>. QED
      BY <2>1, <3>1, <1>3, TakesTyped DEF Entering
  <2>. QED
    BY <2>2, <2>3, <2>4
<1>5. CASE PakeRegistrationRequest(c)
  <2>1. Takes(c, "registration")
    BY <1>5 DEF PakeRegistrationRequest
  <2>2. CASE m.type = "registration_request"
    <3>1. login' \in Logged
      BY <1>5, <1>1, <2>2 DEF PakeRegistrationRequest
    <3>2. PICK w \in ToClient : w = [type |-> "registration_response"]
      BY WordsTyped
    <3>3. Answer(c, "upload", w)
      BY <1>5, <2>2, <3>2 DEF PakeRegistrationRequest
    <3>4. w.type \in LoginMessages
      BY <3>2 DEF LoginMessages
    <3>5. ServerTypes' /\ OthersKept(c) /\ Said(c) /\ ids' = ids
      BY <2>1, <3>1, <3>3, <3>4, AnswerSays
    <3>. QED
      BY <2>1, <3>5, TakesTyped DEF Entering
  <2>3. CASE m.type # "registration_request"
    <3>1. Refuse(c)
      BY <1>5, <2>3 DEF PakeRegistrationRequest
    <3>. QED
      BY <2>1, <3>1, <1>3, TakesTyped DEF Entering
  <2>. QED
    BY <2>2, <2>3
<1>6. CASE PakeRegistrationUpload(c)
  <2>1. Takes(c, "upload") /\ m \in ToServer
    BY <1>6, TakesTyped DEF PakeRegistrationUpload
  <2>2. CASE m.type = "registration_upload"
    <3>1. m.request \in Requests
      BY <2>1, <2>2, RequestKinds
    <3>2. login' \in Logged
      <4>1. PICK l \in [request : Requests, created : BOOLEAN] :
                l = [request |-> m.request, created |-> TRUE]
        BY <3>1
      <4>2. login' = [login EXCEPT ![c] = l]
        BY <1>6, <2>2, <4>1 DEF PakeRegistrationUpload
      <4>. QED
        BY <1>1, <4>2
    <3>3. PICK w \in ToClient : w = [type |-> "candidates", request |-> m.request]
      BY <3>1, WordsTyped
    <3>4. Answer(c, "finalization", w)
      BY <1>6, <2>2, <3>3 DEF PakeRegistrationUpload
    <3>5. w.type \in LoginMessages
      BY <3>3 DEF LoginMessages
    <3>6. ServerTypes' /\ OthersKept(c) /\ Said(c) /\ ids' = ids
      BY <2>1, <3>2, <3>4, <3>5, AnswerSays
    <3>. QED
      BY <2>1, <3>6, TakesTyped DEF Entering
  <2>3. CASE m.type # "registration_upload"
    <3>1. Refuse(c)
      BY <1>6, <2>3 DEF PakeRegistrationUpload
    <3>. QED
      BY <2>1, <3>1, <1>3, TakesTyped DEF Entering
  <2>. QED
    BY <2>2, <2>3
<1>7. CASE PakeCredentialFinalization(c) /\ phase'[c] # "member"
  <2>1. Takes(c, "finalization")
    BY <1>7 DEF PakeCredentialFinalization
  <2>2. Refuse(c) \/ Close(c, <<>>)
    <3>1. phase \in [Clients -> {"none", "init", "registration", "upload", "finalization", "member", "gone"}]
      BY DEF ServerTypes
    <3>. QED
      BY <1>7, <3>1 DEF PakeCredentialFinalization
  <2>3. ServerTypes' /\ OthersKept(c) /\ Said(c) /\ ids' = ids
    BY <1>2, <1>3, <2>1, <2>2, CloseSays
  <2>. QED
    BY <2>1, <2>3, TakesTyped DEF Entering
<1>. QED
  BY <1>4, <1>5, <1>6, <1>7 DEF Talks

\* The end of a login, with this id.
Joins(c, id) ==
    /\ id = c \/ (id = TheAlias /\ Aliased /\ c \in AgentClients /\ TheAlias \notin IdsOf(Clients))
    /\ phase[c] = "finalization" /\ phase' = [phase EXCEPT ![c] = "member"]
    /\ ids' = [ids EXCEPT ![c] = id]
    /\ to_client'[c] = Append(to_client[c], [type |-> "connected", peers |-> IdsOf(Opposite(c))])
    /\ \A d \in Clients \ {c} :
           to_client'[d] = IF d \in Opposite(c) /\ phase[d] = "member"
                           THEN Append(to_client[d], [type |-> "peer_joined", id |-> id]) ELSE to_client[d]
    /\ to_server'[c] = Tail(to_server[c]) /\ to_server[c] # <<>>
    /\ \A d \in Clients \ {c} : to_server'[d] = to_server[d]

LEMMA NotOpposite ==
    ASSUME NEW c \in Clients
    PROVE  /\ c \notin Opposite(c) /\ Opposite(c) \subseteq Clients
           /\ \A d \in Clients : d \in Opposite(c) <=> c \in Opposite(d)
           /\ c \in PageClients => Opposite(c) = AgentClients
           /\ c \in AgentClients => Opposite(c) = PageClients
BY Domains DEF Opposite

LEMMA JoinEffect ==
    ASSUME ServerTypes, NEW c \in Clients, PakeCredentialFinalization(c), phase'[c] = "member"
    PROVE  ServerTypes' /\ \E id \in Ids : Joins(c, id)
<1>1. Takes(c, "finalization")
  BY DEF PakeCredentialFinalization
<1>2. PICK id \in Ids : id = IF Aliased /\ c \in AgentClients /\ TheAlias \notin IdsOf(Clients)
                            THEN TheAlias ELSE c
  BY Domains
<1>3. PICK hello \in ToClient : hello = [type |-> "connected", peers |-> IdsOf(Opposite(c))]
  BY IdsTyped, WordsTyped
<1>4. PICK news \in ToClient : news = [type |-> "peer_joined", id |-> id]
  BY WordsTyped
<1>5. /\ phase' = [phase EXCEPT ![c] = "member"]
      /\ ids' = [ids EXCEPT ![c] = id]
      /\ room' = TRUE
      /\ to_client' = Announce(Deliver(to_client, c, hello), Opposite(c), news)
      /\ login' = [login EXCEPT ![c] = NoLogin]
      /\ open' = open
  <2>1. ~(\/ Head(to_server[c]).type # "finalization" \/ Head(to_server[c]).request # login[c].request
          \/ room /\ login[c].created) /\ ~(~room /\ ~login[c].created)
    <3>1. phase \in [Clients -> {"none", "init", "registration", "upload", "finalization", "member", "gone"}]
      BY DEF ServerTypes
    <3>. QED
      BY <3>1 DEF PakeCredentialFinalization, Refuse, Close
  <2>. QED
    BY <2>1, <1>2, <1>3, <1>4 DEF PakeCredentialFinalization
<1>. to_client \in [Clients -> Seq(ToClient)]
  BY DEF ServerTypes
<1>6. PICK q \in [Clients -> Seq(ToClient)] : q = Deliver(to_client, c, hello)
  BY DeliverType
<1>7. q[c] = Append(to_client[c], hello) /\ \A d \in Clients \ {c} : q[d] = to_client[d]
  BY <1>6 DEF Deliver
<1>8. /\ to_client' \in [Clients -> Seq(ToClient)]
      /\ \A d \in Clients : to_client'[d] = IF d \in Opposite(c) \cap Members THEN Append(q[d], news) ELSE q[d]
  <2>1. to_client' = Announce(q, Opposite(c), news)
    BY <1>5, <1>6
  <2>. QED
    BY <2>1 DEF Announce
<1>9. c \notin Opposite(c)
  BY NotOpposite
<1>10. to_client'[c] = Append(to_client[c], hello)
  BY <1>7, <1>8, <1>9
<1>11. \A d \in Clients \ {c} :
           to_client'[d] = IF d \in Opposite(c) /\ phase[d] = "member"
                           THEN Append(to_client[d], news) ELSE to_client[d]
  BY <1>7, <1>8 DEF Members
<1>12. /\ to_server' \in [Clients -> Seq(ToServer)] /\ phase[c] = "finalization" /\ to_server[c] # <<>>
       /\ to_server'[c] = Tail(to_server[c]) /\ \A d \in Clients \ {c} : to_server'[d] = to_server[d]
  BY <1>1, TakesTyped
<1>13. Joins(c, id)
  BY <1>2, <1>3, <1>4, <1>5, <1>10, <1>11, <1>12 DEF Joins
<1>14. ServerTypes'
  <2>1. NoLogin \in [request : Requests, created : BOOLEAN]
    BY DEF NoLogin, Requests
  <2>2. login' \in [Clients -> [request : Requests, created : BOOLEAN]] /\ ids' \in [Clients -> Ids]
    BY <1>5, <2>1 DEF ServerTypes
  <2>3. phase' \in [Clients -> {"none", "init", "registration", "upload", "finalization", "member", "gone"}]
    BY <1>5 DEF ServerTypes
  <2>. QED
    BY <1>5, <1>8, <1>12, <2>2, <2>3 DEF ServerTypes
<1>. QED
  BY <1>13, <1>14

\* A message of a member, forwarded or not.
Forwards(c) ==
    /\ phase[c] = "member" /\ phase' = phase /\ ids' = ids
    /\ to_server[c] # <<>> /\ to_server'[c] = Tail(to_server[c])
    /\ \A d \in Clients \ {c} : to_server'[d] = to_server[d]
    /\ \A d \in Clients :
           \/ to_client'[d] = to_client[d]
           \/ d = c /\ to_client'[d] = Append(to_client[d], Error)
           \/ /\ d \in Opposite(c) /\ phase[d] = "member"
              /\ Head(to_server[c]).type = "signal" /\ Head(to_server[c]).to = ids[d]
              /\ to_client'[d] = Append(to_client[d],
                     [type |-> "signal", from |-> ids[c], payload |-> Head(to_server[c]).payload])

LEMMA ForwardEffect ==
    ASSUME ServerTypes, NEW c \in Clients, HandleIncoming(c)
    PROVE  ServerTypes' /\ Forwards(c)
<1> DEFINE m == Head(to_server[c])
           target == {d \in Opposite(c) \cap Members : m.type = "signal" /\ ids[d] = m.to}
<1>0. to_client \in [Clients -> Seq(ToClient)]
  BY DEF ServerTypes
<1>1. Takes(c, "member")
  BY DEF HandleIncoming
<1>2. /\ to_server' \in [Clients -> Seq(ToServer)] /\ phase[c] = "member" /\ to_server[c] # <<>>
      /\ m \in ToServer
      /\ to_server'[c] = Tail(to_server[c]) /\ \A d \in Clients \ {c} : to_server'[d] = to_server[d]
  BY <1>1, TakesTyped
<1>3. open' = open /\ phase' = phase /\ login' = login /\ ids' = ids /\ room' = room
  BY DEF HandleIncoming
<1>4. CASE target = {}
  <2>1. to_client' = Deliver(to_client, c, Error)
    BY <1>4 DEF HandleIncoming
  <2>2. Error \in ToClient
    BY WordsTyped
  <2>3. /\ to_client' \in [Clients -> Seq(ToClient)] /\ to_client'[c] = Append(to_client[c], Error)
        /\ \A d \in Clients \ {c} : to_client'[d] = to_client[d]
    BY <1>0, <2>1, <2>2, DeliverType
  <2>4. ServerTypes'
    BY <1>2, <1>3, <2>3 DEF ServerTypes
  <2>. QED
    BY <1>2, <1>3, <2>3, <2>4 DEF Forwards
<1>5. CASE target # {}
  <2>1. m.type = "signal"
    BY <1>5
  <2>2. m.payload \in Offers /\ ids[c] \in Ids
    BY <1>2, <2>1, RequestKinds DEF ServerTypes
  <2>3. PICK w \in ToClient : w = [type |-> "signal", from |-> ids[c], payload |-> m.payload]
    BY <2>2, WordsTyped
  <2>4. to_client' = Announce(to_client, target, w)
    BY <1>5, <2>3 DEF HandleIncoming
  <2>5. /\ to_client' \in [Clients -> Seq(ToClient)]
        /\ \A d \in Clients : to_client'[d] = IF d \in target \cap Members THEN Append(to_client[d], w) ELSE to_client[d]
    BY <1>0, <2>4, AnnounceType
  <2>6. ServerTypes'
    BY <1>2, <1>3, <2>5 DEF ServerTypes
  <2>7. ASSUME NEW d \in Clients
        PROVE  \/ to_client'[d] = to_client[d]
               \/ /\ d \in Opposite(c) /\ phase[d] = "member" /\ m.type = "signal" /\ m.to = ids[d]
                  /\ to_client'[d] = Append(to_client[d], w)
    BY <2>5, <2>7 DEF Members
  <2>. QED
    BY <1>2, <1>3, <2>3, <2>6, <2>7 DEF Forwards
<1>. QED
  BY <1>4, <1>5

\* The server finds a connection closed.
Leaves(c) ==
    /\ phase[c] \in Entering \cup {"member"} /\ phase' = [phase EXCEPT ![c] = "gone"] /\ ids' = ids
    /\ to_server'[c] = <<>> /\ \A d \in Clients \ {c} : to_server'[d] = to_server[d]
    /\ \A d \in Clients :
           to_client'[d] = IF phase[c] = "member" /\ d \in Opposite(c) /\ phase[d] = "member"
                           THEN Append(to_client[d], [type |-> "peer_left", id |-> ids[c]]) ELSE to_client[d]

LEMMA LeaveEffect ==
    ASSUME ServerTypes, NEW c \in Clients, Disconnected(c)
    PROVE  ServerTypes' /\ Leaves(c)
<1>1. phase[c] \in Entering \cup {"member"} /\ phase' = [phase EXCEPT ![c] = "gone"] /\ ids' = ids
  BY DEF Disconnected, ServerTypes, Entering
<1>2. to_server' \in [Clients -> Seq(ToServer)] /\ to_server'[c] = <<>>
      /\ \A d \in Clients \ {c} : to_server'[d] = to_server[d]
  BY DEF Disconnected, ServerTypes
<1>3. PICK news \in ToClient : news = [type |-> "peer_left", id |-> ids[c]]
  BY WordsTyped DEF ServerTypes
<1>4. /\ to_client' \in [Clients -> Seq(ToClient)]
      /\ \A d \in Clients :
           to_client'[d] = IF phase[c] = "member" /\ d \in Opposite(c) /\ phase[d] = "member"
                           THEN Append(to_client[d], news) ELSE to_client[d]
  <2>1. CASE phase[c] = "member"
    <3>1. to_client' = Announce(to_client, Opposite(c), news)
      BY <2>1, <1>3 DEF Disconnected
    <3>2. to_client \in [Clients -> Seq(ToClient)]
      BY DEF ServerTypes
    <3>3. /\ to_client' \in [Clients -> Seq(ToClient)]
          /\ \A d \in Clients : to_client'[d] = IF d \in Opposite(c) \cap Members THEN Append(to_client[d], news) ELSE to_client[d]
      BY <3>1, <3>2, AnnounceType
    <3>. QED
      BY <2>1, <3>3 DEF Members
  <2>2. CASE phase[c] # "member"
    <3>1. to_client' = to_client
      BY <2>2 DEF Disconnected
    <3>. QED
      BY <2>2, <3>1 DEF ServerTypes
  <2>. QED
    BY <2>1, <2>2
<1>5. login' \in [Clients -> [request : Requests, created : BOOLEAN]]
  BY DEF Disconnected, ServerTypes, NoLogin, Requests
<1>6. phase' \in [Clients -> {"none", "init", "registration", "upload", "finalization", "member", "gone"}]
  BY <1>1 DEF ServerTypes
<1>7. open' = open /\ room' = room
  BY DEF Disconnected
<1>8. ServerTypes'
  BY <1>1, <1>2, <1>4, <1>5, <1>6, <1>7 DEF ServerTypes
<1>. QED
  BY <1>1, <1>2, <1>3, <1>4, <1>8 DEF Leaves

\* The page.
ReadyStates == {"unused", "connecting", "open", "closing", "closed"}

\* socket.close(): no other socket is open.
SocketCloses ==
    /\ ready' \in [Sockets -> ReadyStates] /\ open' \in [Clients -> BOOLEAN]
    /\ \A k \in Sockets :
           /\ ready'[k] = ready[k] \/ (Alive(k) /\ ready'[k] = "closing")
           /\ ready[k] = "open" => ready'[k] = "closing"
           /\ ready'[k] \in {"connecting", "open", "closing"} <=> Alive(k)

LEMMA CloseSocketEffect ==
    ASSUME Typed, CloseSocket
    PROVE  SocketCloses
<1>1. /\ ready \in [Sockets -> ReadyStates] /\ open \in [Clients -> BOOLEAN]
      /\ \A k \in Sockets : Alive(k) => socket = k
      /\ socket \in 0..MaxSockets
  BY DEF Typed, PageTypes, ServerTypes, SocketInv, OneSocket, ReadyStates
<1>2. \A k \in Sockets : k # 0
  BY Domains DEF Sockets
<1>3. CASE socket = 0 \/ ready[socket] \notin {"connecting", "open"}
  <2>1. ready' = ready /\ open' = open
    BY <1>3 DEF CloseSocket
  <2>2. \A k \in Sockets : ready[k] # "open"
    BY <1>1, <1>2, <1>3 DEF Alive
  <2>. QED
    BY <1>1, <2>1, <2>2 DEF Alive, SocketCloses
<1>4. CASE ~(socket = 0 \/ ready[socket] \notin {"connecting", "open"})
  <2>1. socket \in Sockets
    BY <1>1, <1>4, Domains DEF Sockets
  <2>2. /\ ready' = [ready EXCEPT ![socket] = "closing"]
        /\ open' = [open EXCEPT ![PageClient(socket)] = FALSE]
    BY <1>4 DEF CloseSocket
  <2>3. ready' \in [Sockets -> ReadyStates] /\ open' \in [Clients -> BOOLEAN]
    BY <1>1, <2>2 DEF ReadyStates
  <2>. QED
    BY <1>1, <1>4, <2>1, <2>2, <2>3 DEF Alive, SocketCloses
<1>. QED
  BY <1>3, <1>4

LEMMA SocketOpenTyped ==
    ASSUME Typed, NEW k \in Sockets, SocketOpen(k)
    PROVE  ServerTypes' /\ PageTypes' /\ SocketInv'
<1>1. PageClient(k) \in Clients
  BY Domains
<1>2. ServerTypes'
  BY <1>1 DEF Typed, ServerTypes, SocketOpen
<1>3. PageTypes'
  BY DEF Typed, PageTypes, SocketOpen
<1>4. SocketInv'
  BY DEF Typed, PageTypes, SocketInv, OneSocket, SocketOpen, Alive
<1>. QED
  BY <1>2, <1>3, <1>4

LEMMA getPakeBridgeTyped ==
    ASSUME Typed, NEW k \in Sockets, getPakeBridge(k)
    PROVE  ServerTypes' /\ PageTypes' /\ SocketInv'
<1>1. /\ ready' \in [Sockets -> ReadyStates] /\ open' \in [Clients -> BOOLEAN]
      /\ \A j \in Sockets : ready'[j] \in {"connecting", "open", "closing"} <=> Alive(j)
  <2>1. CASE bridge' = "ready"
    BY <2>1 DEF getPakeBridge, Typed, PageTypes, ServerTypes, ReadyStates, Alive
  <2>2. CASE bridge' # "ready"
    <3>1. CloseSocket
      BY <2>2 DEF getPakeBridge
    <3>2. SocketCloses
      BY <3>1, CloseSocketEffect
    <3>. QED
      BY <3>2 DEF SocketCloses, Alive
  <2>. QED
    BY <2>1, <2>2
<1>2. /\ bridge' \in {"unloaded", "ready", "failed"}
      /\ begin' \in [Sockets -> {"idle", "bridge", "derive", "done"}]
  BY DEF getPakeBridge, Typed, PageTypes
<1>3. ServerTypes'
  BY <1>1 DEF Typed, ServerTypes, getPakeBridge
<1>4. PageTypes'
  BY <1>1, <1>2 DEF Typed, PageTypes, getPakeBridge, ReadyStates
<1>5. SocketInv'
  BY <1>1 DEF Typed, SocketInv, OneSocket, getPakeBridge, Alive
<1>. QED
  BY <1>3, <1>4, <1>5

LEMMA StartLoginTyped ==
    ASSUME Typed, NEW k \in Sockets, StartLogin(k)
    PROVE  ServerTypes' /\ PageTypes' /\ SocketInv'
<1>1. PICK t \in Session : t = start_login(sessions[k])
  BY SessionTypes DEF Typed, PageTypes
<1>2. PICK w : w = [type |-> "init", request |-> CredentialRequest(PageClient(k), t)]
  OBVIOUS
<1>3. w \in ToServer
  <2>1. PageClient(k) \in Clients /\ t.login_state \in Nat
    BY SessionTypes, Domains
  <2>2. CredentialRequest(PageClient(k), t) \in Requests
    BY <2>1 DEF CredentialRequest, Requests
  <2>. QED
    BY <1>2, <2>2 DEF ToServer, Logins
<1>4. /\ ready' \in [Sockets -> ReadyStates] /\ open' \in [Clients -> BOOLEAN]
      /\ \A j \in Sockets : ready'[j] \in {"connecting", "open", "closing"} <=> Alive(j)
      /\ to_server' \in [Clients -> Seq(ToServer)]
  <2>1. CASE socket # 0 /\ ready[socket] = "open"
    <3>1. PageClient(socket) \in Clients
      BY <2>1, Domains DEF Typed, PageTypes, Sockets
    <3>2. ready' = ready /\ open' = open /\ to_server' = Deliver(to_server, PageClient(socket), w)
      BY <2>1, <1>1, <1>2 DEF StartLogin
    <3>3. to_server \in [Clients -> Seq(ToServer)]
      BY DEF Typed, ServerTypes
    <3>4. to_server' \in [Clients -> Seq(ToServer)]
      BY <3>1, <3>2, <3>3, <1>3, DeliverType
    <3>. QED
      BY <3>2, <3>4 DEF Typed, PageTypes, ServerTypes, ReadyStates, Alive
  <2>2. CASE ~(socket # 0 /\ ready[socket] = "open")
    <3>1. CloseSocket /\ to_server' = to_server
      BY <2>2 DEF StartLogin
    <3>2. to_server \in [Clients -> Seq(ToServer)]
      BY DEF Typed, ServerTypes
    <3>. QED
      <4>1. SocketCloses
        BY <3>1, CloseSocketEffect
      <4>. QED
        BY <3>1, <3>2, <4>1 DEF SocketCloses, Alive
  <2>. QED
    BY <2>1, <2>2
<1>5. /\ begin' \in [Sockets -> {"idle", "bridge", "derive", "done"}]
      /\ auth_state' \in 0..MaxSockets
      /\ sessions' \in [Sockets -> Session]
  <2>1. auth_state' = k /\ sessions' = [sessions EXCEPT ![k] = t]
    BY <1>1 DEF StartLogin
  <2>. QED
    BY <2>1, Domains DEF StartLogin, Typed, PageTypes, Sockets
<1>6. ServerTypes'
  BY <1>4 DEF Typed, ServerTypes, StartLogin
<1>7. PageTypes'
  BY <1>4, <1>5 DEF Typed, PageTypes, StartLogin, ReadyStates
<1>8. SocketInv'
  BY <1>4 DEF Typed, SocketInv, OneSocket, StartLogin, Alive
<1>. QED
  BY <1>6, <1>7, <1>8

\* The fields that a message event may change.
PageMessageTypes ==
    /\ to_server' \in [Clients -> Seq(ToServer)] /\ open' \in [Clients -> BOOLEAN]
    /\ ready' \in [Sockets -> ReadyStates]
    /\ \A k \in Sockets : ready'[k] \in {"connecting", "open", "closing"} <=> Alive(k)
    /\ auth_state' \in 0..MaxSockets
    /\ sessions' \in [Sockets -> Session]
    /\ peers' \subseteq Ids
    /\ connection' \in [Ids -> Connections]

LEMMA SessionsCleared ==
    ASSUME Typed, clearAuthState
    PROVE  auth_state' \in 0..MaxSockets /\ sessions' \in [Sockets -> Session]
<1>1. ClientSession \in Session /\ sessions \in [Sockets -> Session]
  BY DEF ClientSession, Session, Typed, PageTypes
<1>2. sessions' = [k \in Sockets |-> IF k = auth_state THEN ClientSession ELSE sessions[k]] /\ auth_state' = 0
  BY DEF clearAuthState
<1>. QED
  BY <1>1, <1>2, Domains

LEMMA AgentsForgotten ==
    ASSUME Typed, NEW gone, forgetAgents(gone)
    PROVE  peers' \subseteq Ids /\ connection' \in [Ids -> Connections]
BY DEF Typed, PageTypes, forgetAgents, NoConnection, Connections

LEMMA AuthMessageTyped ==
    ASSUME Typed, NEW m \in ToClient, auth_state # 0, socket # 0, handleAuthMessage(m)
    PROVE  PageMessageTypes
<1>1. /\ to_server \in [Clients -> Seq(ToServer)] /\ open \in [Clients -> BOOLEAN]
      /\ ready \in [Sockets -> ReadyStates]
      /\ auth_state \in 0..MaxSockets
      /\ sessions \in [Sockets -> Session]
      /\ peers \subseteq Ids
      /\ connection \in [Ids -> Connections]
      /\ auth_state \in Sockets /\ PageClient(auth_state) \in Clients
      /\ socket \in Sockets /\ PageClient(socket) \in Clients
  BY Domains DEF Typed, ServerTypes, PageTypes, ReadyStates, Sockets
<1>2. CASE m.type \in LoginMessages
  <2>1. peers' = peers /\ connection' = connection /\ auth_state' = auth_state /\ ready' = ready /\ open' = open
    BY <1>2 DEF handleAuthMessage
  <2>2. to_server' \in [Clients -> Seq(ToServer)] /\ sessions' \in [Sockets -> Session]
    <3>1. CASE AuthReply(PageClient(auth_state), sessions[auth_state], m) = {}
      BY <1>1, <1>2, <3>1 DEF handleAuthMessage
    <3>2. CASE AuthReply(PageClient(auth_state), sessions[auth_state], m) # {}
      <4>1. PICK r \in AuthReply(PageClient(auth_state), sessions[auth_state], m) :
                    /\ sessions' = [sessions EXCEPT ![auth_state] = r.session]
                    /\ to_server' = Deliver(to_server, PageClient(socket), r.send)
        BY <1>2, <3>2 DEF handleAuthMessage
      <4>2. sessions[auth_state] \in Session
        BY <1>1
      <4>3. r.session \in Session /\ r.send \in ToServer
        BY <1>1, <4>2, ReplyTypes
      <4>4. sessions' \in [Sockets -> Session]
        BY <1>1, <4>1, <4>3
      <4>. QED
        BY <1>1, <4>1, <4>3, <4>4, DeliverType
    <3>. QED
      BY <3>1, <3>2
  <2>. QED
    BY <1>1, <2>1, <2>2 DEF PageMessageTypes, Alive
<1>3. CASE m.type = "connected" /\ m.type \notin LoginMessages
  <2>1. clearAuthState /\ rememberAgents(m.peers) /\ ready' = ready /\ open' = open /\ to_server' = to_server
    BY <1>3 DEF handleAuthMessage
  <2>2. auth_state' \in 0..MaxSockets /\ sessions' \in [Sockets -> Session]
    BY <2>1, SessionsCleared
  <2>3. m.peers \in SUBSET Ids
    BY <1>3, MessageKinds
  <2>4. peers' = peers \cup m.peers /\ connection' = connection
    BY <2>1 DEF rememberAgents
  <2>. QED
    BY <1>1, <2>1, <2>2, <2>3, <2>4 DEF PageMessageTypes, Alive
<1>4. CASE m.type \notin LoginMessages /\ m.type # "connected"
  <2>1. /\ CloseSocket /\ auth_state' = auth_state /\ sessions' = sessions /\ peers' = peers
        /\ connection' = connection /\ to_server' = to_server
    BY <1>4 DEF handleAuthMessage
  <2>2. SocketCloses
    BY <2>1, CloseSocketEffect
  <2>. QED
    BY <1>1, <2>1, <2>2 DEF PageMessageTypes, SocketCloses, Alive
<1>. QED
  BY <1>2, <1>3, <1>4

LEMMA ServerMessageTyped ==
    ASSUME Typed, NEW m \in ToClient, handleServerMessage(m)
    PROVE  PageMessageTypes
<1>1. /\ to_server \in [Clients -> Seq(ToServer)] /\ open \in [Clients -> BOOLEAN]
      /\ ready \in [Sockets -> ReadyStates]
      /\ auth_state \in 0..MaxSockets
      /\ sessions \in [Sockets -> Session]
      /\ peers \subseteq Ids
      /\ connection \in [Ids -> Connections]
  BY DEF Typed, ServerTypes, PageTypes, ReadyStates
<1>2. auth_state' = auth_state /\ sessions' = sessions /\ ready' = ready /\ open' = open /\ to_server' = to_server
  BY DEF handleServerMessage
<1>3. peers' \subseteq Ids /\ connection' \in [Ids -> Connections]
  <2>1. CASE m.type = "connected"
    BY <1>1, <2>1, MessageKinds DEF handleServerMessage, rememberAgents
  <2>2. CASE m.type = "peer_joined"
    BY <1>1, <2>2, MessageKinds DEF handleServerMessage, rememberAgents
  <2>3. CASE m.type = "peer_left"
    BY <2>3, AgentsForgotten DEF handleServerMessage
  <2>4. CASE m.type = "signal"
    <3>1. m.from \in Ids /\ m.payload \in Offers
      BY <2>4, MessageKinds
    <3>2. PICK n \in Connections : n = [offer |-> m.payload, answered |-> FALSE]
      BY <3>1 DEF Connections
    <3>3. peers' = peers \cup {m.from} /\ connection' = [connection EXCEPT ![m.from] = n]
      BY <2>4, <3>2 DEF handleServerMessage
    <3>. QED
      BY <1>1, <3>1, <3>3
  <2>5. CASE m.type \notin {"connected", "peer_joined", "peer_left", "signal"}
    BY <1>1, <2>5 DEF handleServerMessage
  <2>. QED
    BY <2>1, <2>2, <2>3, <2>4, <2>5
<1>. QED
  BY <1>1, <1>2, <1>3 DEF PageMessageTypes, Alive

LEMMA PageMessageTyped ==
    ASSUME Typed, NEW k \in Sockets, PageMessage(k)
    PROVE  ServerTypes' /\ PageTypes' /\ SocketInv'
<1>1. PageClient(k) \in Clients /\ to_client \in [Clients -> Seq(ToClient)] /\ to_client[PageClient(k)] # <<>>
  BY Domains DEF PageMessage, Typed, ServerTypes
<1>2. Head(to_client[PageClient(k)]) \in ToClient /\ to_client' \in [Clients -> Seq(ToClient)]
  BY <1>1, TailType DEF PageMessage
<1>3. socket # 0
  BY Domains DEF PageMessage, Typed, SocketInv, OneSocket, Alive, Sockets
<1>4. PageMessageTypes
  BY <1>2, <1>3, AuthMessageTyped, ServerMessageTyped DEF PageMessage
<1>5. ServerTypes'
  BY <1>2, <1>4 DEF Typed, ServerTypes, PageMessage, PageMessageTypes
<1>6. PageTypes'
  BY <1>4 DEF Typed, PageTypes, PageMessage, PageMessageTypes, ReadyStates
<1>7. SocketInv'
  BY <1>4 DEF Typed, SocketInv, OneSocket, PageMessage, PageMessageTypes, Alive
<1>. QED
  BY <1>5, <1>6, <1>7

LEMMA SocketCloseTyped ==
    ASSUME Typed, NEW k \in Sockets, SocketClose(k)
    PROVE  ServerTypes' /\ PageTypes' /\ SocketInv'
<1>1. PageClient(k) \in Clients
  BY Domains
<1>2. auth_state' \in 0..MaxSockets /\ sessions' \in [Sockets -> Session]
  BY SessionsCleared DEF SocketClose
<1>3. peers' \subseteq Ids /\ connection' \in [Ids -> Connections]
  BY AgentsForgotten DEF SocketClose
<1>4. ServerTypes'
  BY <1>1 DEF Typed, ServerTypes, SocketClose
<1>5. PageTypes'
  <2>1. socket' \in 0..MaxSockets
    BY Domains DEF SocketClose
  <2>. QED
    BY <1>2, <1>3, <2>1 DEF Typed, PageTypes, SocketClose
<1>6. SocketInv'
  BY DEF Typed, PageTypes, SocketInv, OneSocket, SocketClose, Alive
<1>. QED
  BY <1>4, <1>5, <1>6

LEMMA SendAnswerTyped ==
    ASSUME Typed, NEW id \in Ids, SendAnswer(id)
    PROVE  ServerTypes' /\ PageTypes' /\ SocketInv'
<1>1. connection[id].offer \in Offers /\ connection \in [Ids -> Connections]
  BY DEF Typed, PageTypes, Connections, SendAnswer
<1>2. to_server' \in [Clients -> Seq(ToServer)]
  <2>1. PICK w \in ToServer : w = [type |-> "signal", to |-> id, payload |-> connection[id].offer]
    BY <1>1 DEF ToServer, Signals
  <2>2. to_server \in [Clients -> Seq(ToServer)]
    BY DEF Typed, ServerTypes
  <2>3. socket # 0 => PageClient(socket) \in Clients
    BY Domains DEF Typed, PageTypes, Sockets
  <2>4. to_server' = to_server \/ (socket # 0 /\ to_server' = Deliver(to_server, PageClient(socket), w))
    BY <2>1 DEF SendAnswer
  <2>. QED
    BY <2>2, <2>3, <2>4, DeliverType
<1>3. connection' \in [Ids -> Connections]
  BY <1>1 DEF SendAnswer, Connections
<1>4. ServerTypes'
  BY <1>2 DEF Typed, ServerTypes, SendAnswer
<1>5. PageTypes'
  BY <1>3 DEF Typed, PageTypes, SendAnswer
<1>6. SocketInv'
  BY DEF Typed, SocketInv, OneSocket, SendAnswer, Alive
<1>. QED
  BY <1>4, <1>5, <1>6

LEMMA LeastOf ==
    ASSUME NEW T, T \subseteq Nat, T # {}
    PROVE  \E x \in T : \A y \in T : x <= y
<1> DEFINE R == OpToRel(<, Nat)
<1>1. IsWellFoundedOn(R, Nat)
  BY NatLessThanWellFounded
<1> HIDE DEF R
<1>2. PICK x \in T : \A y \in T : ~(<<y, x>> \in R)
  BY <1>1, WFMin
<1>3. \A i, j \in Nat : j < i => <<j, i>> \in R
  BY DEF R, OpToRel
<1>4. ASSUME NEW y \in T PROVE x <= y
  <2>1. x \in Nat /\ y \in Nat
    OBVIOUS
  <2>2. ~(y < x)
    BY <1>2, <1>3, <2>1
  <2>. QED
    BY <2>1, <2>2
<1>. QED
  BY <1>4

\* connect takes the next socket, and there is none before it.
LEMMA ConnectEffect ==
    ASSUME Typed, connect
    PROVE  /\ socket = 0 /\ \A j \in Sockets : ~Alive(j)
           /\ open' = open
           /\ \E k \in Sockets : /\ ready[k] = "unused" /\ socket' = k
                                 /\ ready' = [ready EXCEPT ![k] = "connecting"]
<1>1. socket = 0
  BY DEF connect, MayEnterSecret, Typed, SocketInv
<1>2. \A j \in Sockets : ~Alive(j) /\ j # 0
  BY <1>1, Domains DEF Typed, SocketInv, OneSocket, Sockets
<1>3. PICK j \in Sockets : ready[j] = "unused"
  BY DEF connect
<1>4. \E k \in Sockets : ready[k] = "unused" /\ \A i \in 1..(k - 1) : ready[i] # "unused"
  <2>0. Sockets \subseteq Nat
    BY Domains DEF Sockets
  <2>1. PICK T \in SUBSET Nat : T = {i \in Sockets : ready[i] = "unused"}
    BY <2>0, Zenon
  <2>2. PICK x \in T : \A y \in T : x <= y
    BY <1>3, <2>1, LeastOf
  <2>3. x \in Sockets /\ ready[x] = "unused"
    BY <2>1, <2>2
  <2>4. ASSUME NEW i \in 1..(x - 1), ready[i] = "unused" PROVE FALSE
    <3>1. i \in Sockets /\ ~(x <= i)
      BY <2>3, Domains DEF Sockets
    <3>. QED
      BY <2>1, <2>2, <2>4, <3>1
  <2>. QED
    BY <2>3, <2>4
<1>5. PICK k : k = CHOOSE n \in Sockets : ready[n] = "unused" /\ \A i \in 1..(n - 1) : ready[i] # "unused"
  OBVIOUS
<1>6. k \in Sockets /\ ready[k] = "unused"
  BY <1>4, <1>5
<1>7. socket' = k /\ ready' = [n \in Sockets |-> IF n = k THEN "connecting" ELSE ready[n]]
  BY <1>1, <1>2, <1>5 DEF connect
<1>8. ready' = [ready EXCEPT ![k] = "connecting"]
  BY <1>6, <1>7 DEF Typed, PageTypes
<1>9. open' = open
  BY <1>1 DEF connect, Typed, ServerTypes
<1>. QED
  BY <1>1, <1>2, <1>6, <1>7, <1>8, <1>9

LEMMA UserTyped ==
    ASSUME Typed, UserStep
    PROVE  ServerTypes' /\ PageTypes' /\ SocketInv'
<1>1. CASE connect
  <2>1. /\ socket = 0 /\ \A j \in Sockets : ~Alive(j)
        /\ open' = open
    BY <1>1, ConnectEffect
  <2>2. PICK k \in Sockets : ready[k] = "unused" /\ socket' = k /\ ready' = [ready EXCEPT ![k] = "connecting"]
    BY <1>1, ConnectEffect
  <2>3. peers' \subseteq Ids /\ connection' \in [Ids -> Connections]
    BY <1>1, AgentsForgotten DEF connect
  <2>4. ServerTypes'
    BY <1>1, <2>1 DEF Typed, ServerTypes, connect
  <2>5. socket' \in 0..MaxSockets
    BY <2>2, Domains DEF Sockets
  <2>6. PageTypes'
    BY <1>1, <2>2, <2>3, <2>5 DEF Typed, PageTypes, connect
  <2>7. SocketInv'
    BY <1>1, <2>1, <2>2 DEF Typed, PageTypes, SocketInv, OneSocket, connect, Alive
  <2>. QED
    BY <2>4, <2>6, <2>7
<1>2. CASE Disconnect
  <2>1. SocketCloses
    BY <1>2, CloseSocketEffect DEF Disconnect
  <2>2. ServerTypes'
    BY <1>2, <2>1 DEF Typed, ServerTypes, Disconnect, SocketCloses
  <2>3. PageTypes'
    BY <1>2, <2>1 DEF Typed, PageTypes, Disconnect, SocketCloses, ReadyStates
  <2>4. SocketInv'
    BY <1>2, <2>1 DEF Typed, SocketInv, OneSocket, Disconnect, SocketCloses, Alive
  <2>. QED
    BY <2>2, <2>3, <2>4
<1>. QED
  BY <1>1, <1>2 DEF UserStep

LEMMA PageTyped ==
    ASSUME Typed, PageStep
    PROVE  ServerTypes' /\ PageTypes' /\ SocketInv'
BY SocketOpenTyped, getPakeBridgeTyped, StartLoginTyped, PageMessageTyped, SocketCloseTyped, SendAnswerTyped
   DEF PageStep

\* The agent.
LEMMA IdsFinite == IsFiniteSet(Ids)
<1>1. IsFiniteSet({"page"}) /\ IsFiniteSet({"agent"}) /\ IsFiniteSet({TheAlias})
  BY FS_Singleton
<1>2. IsFiniteSet(1..MaxSockets) /\ IsFiniteSet(1..MaxSessions)
  BY RelayAssumption, FS_Interval
<1>3. IsFiniteSet(PageClients) /\ IsFiniteSet(AgentClients)
  BY <1>1, <1>2, FS_Product DEF PageClients, AgentClients
<1>4. IsFiniteSet(Clients)
  BY <1>3, FS_Union DEF Clients
<1>. QED
  BY <1>1, <1>4, FS_Union DEF Ids

\* One offer for each of them.
OffersTo(new, s) ==
    /\ s \in Seq(ToServer)
    /\ \A i \in 1..Len(s) :
           /\ s[i].type = "signal" /\ s[i].to \in new /\ s[i].payload = Mine(s[i].to)
    /\ \A i, j \in 1..Len(s) : s[i].to = s[j].to => i = j

LEMMA EnsureEffect ==
    ASSUME NEW zs \in SUBSET Ids, session_no \in 1..MaxSessions, ensure_peer(zs)
    PROVE  \E s : /\ OffersTo({z \in zs : agent_peers[z].state = "none"}, s)
                  /\ to_server' = [to_server EXCEPT ![Me] = @ \o s]
<1>1. PICK new : new = {z \in zs : agent_peers[z].state = "none"}
  OBVIOUS
<1>2. new \in SUBSET Ids
  BY <1>1
<1>3. IsFiniteSet(new) /\ Cardinality(new) \in Nat /\ ExistsBijection(1..Cardinality(new), new)
  BY <1>2, IdsFinite, FS_Subset, FS_CardinalityType
<1>4. PICK N \in Nat : N = Cardinality(new)
  BY <1>3
<1>5. PICK f \in Bijection(1..N, new) : TRUE
  BY <1>3, <1>4 DEF ExistsBijection
<1>6. f \in [1..N -> new] /\ \A z \in new : \E i \in DOMAIN f : f[i] = z
  <2>1. f \in Surjection(1..N, new)
    BY <1>5 DEF Bijection
  <2>. QED
    BY <2>1 DEF Surjection
<1>7. PICK o : o = CHOOSE q \in [1..N -> new] : \A z \in new : \E i \in DOMAIN q : q[i] = z
  OBVIOUS
<1>8. o \in [1..N -> new] /\ \A z \in new : \E i \in DOMAIN o : o[i] = z
  BY <1>6, <1>7
<1>9. \A i, j \in 1..N : o[i] = o[j] => i = j
  <2>1. o \in Surjection(1..N, new)
    BY <1>8 DEF Surjection
  <2>2. IsFiniteSet(1..N) /\ Cardinality(1..N) = N
    BY FS_Interval
  <2>3. o \in Injection(1..N, new)
    BY <1>4, <2>1, <2>2, FS_SurjSameCardinalityImpliesInj
  <2>. QED
    BY <2>3 DEF Injection, IsInjective
<1>10. PICK s : s = [i \in 1..N |-> [type |-> "signal", to |-> o[i], payload |-> Mine(o[i])]]
  OBVIOUS
<1>11. Me \in Clients
  BY Domains DEF Me
<1>12. \A z \in Ids : [type |-> "signal", to |-> z, payload |-> Mine(z)] \in ToServer
  BY <1>11 DEF ToServer, Signals, Mine, Offers
<1>13. s \in Seq(ToServer) /\ Len(s) = N
  BY <1>2, <1>8, <1>10, <1>12
<1>14. OffersTo(new, s)
  <2>1. \A i \in 1..N : s[i].type = "signal" /\ s[i].to = o[i] /\ s[i].payload = Mine(o[i])
    BY <1>10
  <2>. QED
    BY <1>8, <1>9, <1>13, <2>1 DEF OffersTo
<1>15. to_server' = [to_server EXCEPT ![Me] = @ \o s]
  BY <1>1, <1>4, <1>7, <1>10 DEF ensure_peer
<1>. QED
  BY <1>1, <1>14, <1>15

LEMMA EnsureTyped ==
    ASSUME Typed, NEW zs \in SUBSET Ids, session_no \in 1..MaxSessions, ensure_peer(zs)
    PROVE  to_server' \in [Clients -> Seq(ToServer)] /\ agent_peers' \in [Ids -> AgentPeer]
<1>1. Me \in Clients /\ to_server \in [Clients -> Seq(ToServer)]
  BY Domains DEF Me, Typed, ServerTypes
<1>2. PICK s \in Seq(ToServer) : to_server' = [to_server EXCEPT ![Me] = @ \o s]
  BY EnsureEffect DEF OffersTo
<1>3. to_server[Me] \o s \in Seq(ToServer)
  BY <1>1
<1>4. to_server' \in [Clients -> Seq(ToServer)]
  BY <1>1, <1>2, <1>3
<1>5. Offered \in AgentPeer /\ agent_peers \in [Ids -> AgentPeer]
  BY DEF Offered, AgentPeer, Typed, AgentTypes
<1>6. agent_peers' \in [Ids -> AgentPeer]
  BY <1>5 DEF ensure_peer
<1>. QED
  BY <1>4, <1>6

AgentMessageTypes ==
    /\ to_server' \in [Clients -> Seq(ToServer)]
    /\ agent' \in {"login", "session", "refused", "webrtc_error"}
    /\ agent_session' \in Session
    /\ agent_peers' \in [Ids -> AgentPeer]

LEMMA AuthenticateTyped ==
    ASSUME Typed, NEW m \in ToClient, session_no \in 1..MaxSessions, agent = "login", authenticate_websocket(m)
    PROVE  AgentMessageTypes
<1>1. /\ Me \in Clients /\ to_server \in [Clients -> Seq(ToServer)]
      /\ agent_session \in Session /\ agent_peers \in [Ids -> AgentPeer]
  BY Domains DEF Me, Typed, ServerTypes, AgentTypes
<1>2. CASE m.type = "connected"
  <2>1. m.peers \in SUBSET Ids
    BY <1>2, MessageKinds
  <2>2. agent' = "session" /\ ensure_peer(m.peers) /\ agent_session' = agent_session
    BY <1>2 DEF authenticate_websocket
  <2>3. to_server' \in [Clients -> Seq(ToServer)] /\ agent_peers' \in [Ids -> AgentPeer]
    BY <2>1, <2>2, EnsureTyped
  <2>. QED
    BY <1>1, <2>2, <2>3 DEF AgentMessageTypes
<1>3. CASE m.type # "connected" /\ AuthReply(Me, agent_session, m) # {}
  <2>1. agent' = agent /\ agent_peers' = agent_peers
    BY <1>3 DEF authenticate_websocket
  <2>2. PICK r \in AuthReply(Me, agent_session, m) :
            agent_session' = r.session /\ to_server' = Deliver(to_server, Me, r.send)
    BY <1>3 DEF authenticate_websocket
  <2>3. r.session \in Session /\ r.send \in ToServer
    BY <1>1, ReplyTypes
  <2>4. to_server' \in [Clients -> Seq(ToServer)]
    BY <1>1, <2>2, <2>3, DeliverType
  <2>. QED
    BY <1>1, <2>1, <2>2, <2>3, <2>4 DEF AgentMessageTypes
<1>4. CASE m.type # "connected" /\ AuthReply(Me, agent_session, m) = {}
  BY <1>1, <1>4 DEF authenticate_websocket, AgentMessageTypes
<1>. QED
  BY <1>2, <1>3, <1>4

LEMMA AgentServerMessageTyped ==
    ASSUME Typed, NEW m \in ToClient, session_no \in 1..MaxSessions, agent = "session", handle_server_message(m)
    PROVE  AgentMessageTypes
<1>1. /\ Me \in Clients /\ to_server \in [Clients -> Seq(ToServer)]
      /\ agent_session \in Session /\ agent_peers \in [Ids -> AgentPeer]
  BY Domains DEF Me, Typed, ServerTypes, AgentTypes
<1>2. agent_session' = agent_session
  BY DEF handle_server_message
<1>3. CASE m.type = "peer_joined"
  <2>1. {m.id} \in SUBSET Ids
    BY <1>3, MessageKinds
  <2>2. agent' = agent /\ ensure_peer({m.id})
    BY <1>3 DEF handle_server_message
  <2>3. to_server' \in [Clients -> Seq(ToServer)] /\ agent_peers' \in [Ids -> AgentPeer]
    BY <2>1, <2>2, EnsureTyped
  <2>. QED
    BY <1>1, <1>2, <2>2, <2>3 DEF AgentMessageTypes
<1>4. CASE m.type = "peer_left"
  <2>1. NoPeer \in AgentPeer
    BY DEF NoPeer, AgentPeer
  <2>2. agent' = agent /\ to_server' = to_server /\ agent_peers' = [agent_peers EXCEPT ![m.id] = NoPeer]
    BY <1>4 DEF handle_server_message
  <2>. QED
    BY <1>1, <1>2, <2>1, <2>2 DEF AgentMessageTypes
<1>5. CASE m.type = "signal"
  <2>1. m.from \in Ids /\ m.payload \in Offers
    BY <1>5, MessageKinds
  <2>2. PICK p \in AgentPeer : p = [state |-> "stable", answer |-> m.payload]
    BY <2>1 DEF AgentPeer
  <2>3. /\ to_server' = to_server
        /\ \/ agent' = agent /\ agent_peers' = [agent_peers EXCEPT ![m.from] = p]
           \/ agent' = "webrtc_error" /\ agent_peers' = agent_peers
           \/ agent' = agent /\ agent_peers' = agent_peers
    BY <1>5, <2>2 DEF handle_server_message, handle_signal
  <2>4. agent_peers' \in [Ids -> AgentPeer]
    BY <1>1, <2>3
  <2>. QED
    BY <1>1, <1>2, <2>3, <2>4 DEF AgentMessageTypes
<1>6. CASE m.type \notin {"peer_joined", "peer_left", "signal"}
  BY <1>1, <1>2, <1>6 DEF handle_server_message, AgentMessageTypes
<1>. QED
  BY <1>3, <1>4, <1>5, <1>6

LEMMA AgentTyped ==
    ASSUME Typed, AgentStep
    PROVE  ServerTypes' /\ AgentTypes'
<1>1. NoPeer \in AgentPeer /\ ClientSession \in Session /\ FreshPeers \in [Ids -> AgentPeer]
  BY DEF NoPeer, AgentPeer, ClientSession, Session, FreshPeers
<1>2. CASE AgentConnects
  <2>1. PICK n \in 1..MaxSessions : n = session_no + 1
    BY <1>2, Domains DEF AgentConnects, Typed, AgentTypes
  <2>2. PICK c \in Clients : c = <<"agent", n>>
    BY <2>1, Domains
  <2>3. PICK t \in Session : t = start_login(ClientSession)
    BY <1>1, SessionTypes
  <2>4. PICK w \in ToServer : w = [type |-> "init", request |-> CredentialRequest(c, t)]
    <3>1. CredentialRequest(c, t) \in Requests
      BY SessionTypes DEF CredentialRequest, Requests
    <3>. QED
      BY <3>1 DEF ToServer, Logins
  <2>5. /\ agent' = "login" /\ session_no' = n /\ agent_session' = t /\ agent_peers' = FreshPeers
        /\ open' = [open EXCEPT ![c] = TRUE] /\ phase' = [phase EXCEPT ![c] = "init"]
        /\ to_server' = Deliver(to_server, c, w)
        /\ to_client' = to_client /\ login' = login /\ ids' = ids /\ room' = room
    BY <1>2, <2>1, <2>2, <2>3, <2>4 DEF AgentConnects
  <2>6. to_server \in [Clients -> Seq(ToServer)]
    BY DEF Typed, ServerTypes
  <2>7. to_server' \in [Clients -> Seq(ToServer)]
    BY <2>5, <2>6, DeliverType
  <2>8. ServerTypes'
    BY <2>5, <2>7 DEF Typed, ServerTypes
  <2>9. n \in 0..MaxSessions /\ n # 0
    BY Domains
  <2>. QED
    BY <1>1, <2>5, <2>8, <2>9 DEF AgentTypes
<1>3. CASE AgentMessage
  <2>1. session_no \in 1..MaxSessions
    BY <1>3, Domains DEF AgentMessage, Typed, AgentTypes
  <2>2. Me \in Clients /\ to_client \in [Clients -> Seq(ToClient)] /\ to_client[Me] # <<>>
    BY <1>3, <2>1, Domains DEF Me, Typed, ServerTypes, AgentMessage
  <2>3. Head(to_client[Me]) \in ToClient /\ to_client' \in [Clients -> Seq(ToClient)]
    BY <1>3, <2>2, TailType DEF AgentMessage
  <2>4. AgentMessageTypes
    BY <1>3, <2>1, <2>3, AuthenticateTyped, AgentServerMessageTyped DEF AgentMessage
  <2>5. open' \in [Clients -> BOOLEAN]
    BY <1>3, <2>2 DEF AgentMessage, Typed, ServerTypes
  <2>6. ServerTypes'
    BY <1>3, <2>3, <2>4, <2>5 DEF AgentMessage, Typed, ServerTypes, AgentMessageTypes
  <2>7. session_no' = session_no
    BY <1>3 DEF AgentMessage
  <2>8. session_no \in 0..MaxSessions /\ session_no # 0
    BY <2>1, Domains
  <2>. QED
    BY <2>4, <2>6, <2>7, <2>8 DEF AgentTypes, AgentMessageTypes
<1>4. CASE AgentLost
  <2>1. session_no \in 0..MaxSessions /\ session_no # 0 /\ session_no \in 1..MaxSessions
    BY <1>4, Domains DEF AgentLost, Typed, AgentTypes
  <2>2. Me \in Clients
    BY <2>1, Domains DEF Me
  <2>3. ServerTypes'
    BY <1>4, <2>2 DEF AgentLost, Typed, ServerTypes
  <2>4. agent' \in {"sleep", "refused"} /\ session_no' = session_no
    BY <1>4 DEF AgentLost
  <2>. QED
    BY <1>1, <1>4, <2>1, <2>3, <2>4 DEF AgentLost, AgentTypes
<1>. QED
  BY <1>2, <1>3, <1>4 DEF AgentStep

\* A step of the server is one of four.
LEMMA ServeCases ==
    ASSUME NEW c \in Clients, ServeClient(c)
    PROVE  \/ Talks(c) \/ HandleIncoming(c) \/ Disconnected(c)
           \/ PakeCredentialFinalization(c) /\ phase'[c] = "member"
BY DEF ServeClient, Talks

LEMMA ServeTyped ==
    ASSUME Typed, NEW c \in Clients, ServeClient(c)
    PROVE  ServerTypes'
BY ServeCases, TalkEffect, JoinEffect, ForwardEffect, LeaveEffect DEF Typed

LEMMA NextTyped ==
    ASSUME Typed, [Next]_vars
    PROVE  Typed'
<1>1. CASE \E c \in Clients : ServeClient(c) /\ UNCHANGED <<page_vars, agent_vars>>
  BY <1>1, ServeTyped, PageKept, AgentKept DEF Typed
<1>2. CASE (PageStep \/ UserStep) /\ UNCHANGED agent_vars
  BY <1>2, PageTyped, UserTyped, AgentKept DEF Typed
<1>3. CASE AgentStep /\ UNCHANGED page_vars
  BY <1>3, AgentTyped, PageKept DEF Typed
<1>4. CASE RoomExpires /\ UNCHANGED <<page_vars, agent_vars>>
  <2>1. ServerTypes'
    BY <1>4 DEF Typed, ServerTypes, RoomExpires
  <2>. QED
    BY <1>4, <2>1, PageKept, AgentKept DEF Typed
<1>5. CASE (\E c \in Clients : LinkLost(c)) /\ UNCHANGED <<page_vars, agent_vars>>
  <2>1. ServerTypes'
    BY <1>5 DEF Typed, ServerTypes, LinkLost
  <2>. QED
    BY <1>5, <2>1, PageKept, AgentKept DEF Typed
<1>6. CASE UNCHANGED vars
  <2>1. ServerTypes'
    BY <1>6 DEF Typed, ServerTypes, vars, server_vars
  <2>2. UNCHANGED page_vars /\ UNCHANGED agent_vars
    BY <1>6 DEF vars
  <2>. QED
    BY <2>1, <2>2, PageKept, AgentKept DEF Typed
<1>. QED
  BY <1>1, <1>2, <1>3, <1>4, <1>5, <1>6 DEF Next, SystemStep, Environment

\* However often the page connects and disconnects, no socket is alive but
\* the global one: the secret can be entered only while there is none, and
\* every close event but the global one's has been handled by then (connect,
\* the close handler in index.html).
THEOREM OneSocketKept == Spec => []OneSocket
<1>1. Init => Typed
  BY InitTyped
<1>2. Typed /\ [Next]_vars => Typed'
  BY NextTyped
<1>3. Typed => OneSocket
  BY DEF Typed, SocketInv
<1>. QED
  BY <1>1, <1>2, <1>3, PTL DEF Spec

(***************************************************************************)
(* What a queue will have told the page.                                   *)
(***************************************************************************)
Brings(m) ==
    IF m.type = "connected" THEN m.peers
    ELSE IF m.type = "peer_joined" THEN {m.id}
    ELSE IF m.type = "signal" THEN {m.from}
    ELSE {}

Drops(m) == IF m.type = "peer_left" THEN {m.id} ELSE {}

Learn(P, m) == (P \ Drops(m)) \cup Brings(m)

\* The agents that a page with these will show once it has handled the queue.
Shown(P, q) ==
    {x \in Ids : \/ x \in P /\ \A i \in 1..Len(q) : x \notin Drops(q[i])
                 \/ \E i \in 1..Len(q) : /\ x \in Brings(q[i])
                                         /\ \A j \in 1..Len(q) : j > i => x \notin Drops(q[j])}

LEMMA BringsTyped ==
    ASSUME NEW m \in ToClient
    PROVE  Brings(m) \subseteq Ids /\ Drops(m) \subseteq Ids
BY MessageKinds DEF Brings, Drops

LEMMA ShownEmpty ==
    ASSUME NEW P \in SUBSET Ids
    PROVE  Shown(P, <<>>) = P
BY DEF Shown

LEMMA ShownAppend ==
    ASSUME NEW P \in SUBSET Ids, NEW q \in Seq(ToClient), NEW m \in ToClient
    PROVE  Shown(P, Append(q, m)) = Learn(Shown(P, q), m)
<1>1. PICK n \in Nat : n = Len(q)
  OBVIOUS
<1>2. PICK r \in Seq(ToClient) : r = Append(q, m)
  BY AppendProperties
<1>3. Len(r) = n + 1 /\ r[n + 1] = m /\ \A i \in 1..n : r[i] = q[i]
  BY <1>1, <1>2
<1>4. ASSUME NEW x \in Ids, x \in Shown(P, r) PROVE x \in Learn(Shown(P, q), m)
  <2>1. CASE x \in P /\ \A i \in 1..Len(r) : x \notin Drops(r[i])
    <3>1. \A i \in 1..n : x \notin Drops(q[i])
      BY <1>3, <2>1
    <3>2. x \notin Drops(m)
      BY <1>3, <2>1
    <3>. QED
      BY <1>1, <2>1, <3>1, <3>2 DEF Shown, Learn
  <2>2. CASE \E i \in 1..Len(r) : x \in Brings(r[i]) /\ \A j \in 1..Len(r) : j > i => x \notin Drops(r[j])
    <3>1. PICK i \in 1..(n + 1) : x \in Brings(r[i]) /\ \A j \in 1..(n + 1) : j > i => x \notin Drops(r[j])
      BY <1>3, <2>2
    <3>2. CASE i = n + 1
      BY <1>3, <3>1, <3>2 DEF Learn
    <3>3. CASE i # n + 1
      <4>1. i \in 1..n /\ x \in Brings(q[i]) /\ \A j \in 1..n : j > i => x \notin Drops(q[j])
        BY <1>3, <3>1, <3>3
      <4>2. x \notin Drops(m)
        BY <1>3, <3>1, <3>3
      <4>. QED
        BY <1>1, <4>1, <4>2 DEF Shown, Learn
    <3>. QED
      BY <3>2, <3>3
  <2>. QED
    BY <1>4, <2>1, <2>2 DEF Shown
<1>5. ASSUME NEW x \in Ids, x \in Learn(Shown(P, q), m) PROVE x \in Shown(P, r)
  <2>1. CASE x \in Brings(m)
    <3>1. n + 1 \in 1..(n + 1) /\ x \in Brings(r[n + 1]) /\ \A j \in 1..(n + 1) : j > n + 1 => x \notin Drops(r[j])
      BY <1>3, <2>1
    <3>. QED
      BY <1>3, <3>1 DEF Shown
  <2>2. CASE x \notin Brings(m)
    <3>1. x \in Shown(P, q) /\ x \notin Drops(m)
      BY <1>5, <2>2 DEF Learn
    <3>2. CASE x \in P /\ \A i \in 1..n : x \notin Drops(q[i])
      <4>1. \A i \in 1..(n + 1) : x \notin Drops(r[i])
        BY <1>3, <3>1, <3>2
      <4>. QED
        BY <1>3, <3>2, <4>1 DEF Shown
    <3>3. CASE \E i \in 1..n : x \in Brings(q[i]) /\ \A j \in 1..n : j > i => x \notin Drops(q[j])
      <4>1. PICK i \in 1..n : x \in Brings(q[i]) /\ \A j \in 1..n : j > i => x \notin Drops(q[j])
        BY <3>3
      <4>2. i \in 1..(n + 1) /\ x \in Brings(r[i])
        BY <1>3, <4>1
      <4>3. \A j \in 1..(n + 1) : j > i => x \notin Drops(r[j])
        BY <1>3, <3>1, <4>1
      <4>. QED
        BY <1>3, <4>2, <4>3 DEF Shown
    <3>. QED
      BY <1>1, <3>1, <3>2, <3>3 DEF Shown
  <2>. QED
    BY <2>1, <2>2
<1>6. Shown(P, r) \subseteq Ids /\ Learn(Shown(P, q), m) \subseteq Ids
  BY BringsTyped DEF Shown, Learn
<1>7. Shown(P, r) = Learn(Shown(P, q), m)
  BY <1>4, <1>5, <1>6
<1>. QED
  BY <1>2, <1>7

LEMMA ShownHead ==
    ASSUME NEW P \in SUBSET Ids, NEW q \in Seq(ToClient), q # <<>>
    PROVE  Shown(P, q) = Shown(Learn(P, Head(q)), Tail(q))
<1>1. PICK m \in ToClient : m = Head(q)
  OBVIOUS
<1>2. PICK t \in Seq(ToClient) : t = Tail(q)
  BY HeadTailProperties
<1>3. PICK n \in Nat : n = Len(t)
  OBVIOUS
<1>4. Len(q) = n + 1 /\ q[1] = m /\ \A i \in 1..n : t[i] = q[i + 1]
  BY <1>1, <1>2, <1>3
<1>5. PICK L : L = Learn(P, m)
  OBVIOUS
<1>6. ASSUME NEW x \in Ids, x \in Shown(P, q) PROVE x \in Shown(L, t)
  <2>1. CASE x \in P /\ \A i \in 1..(n + 1) : x \notin Drops(q[i])
    <3>1. \A i \in 1..n : x \notin Drops(t[i])
      BY <1>4, <2>1
    <3>2. x \in L
      BY <1>4, <1>5, <2>1 DEF Learn
    <3>. QED
      BY <1>3, <3>1, <3>2 DEF Shown
  <2>2. CASE \E i \in 1..(n + 1) : x \in Brings(q[i]) /\ \A j \in 1..(n + 1) : j > i => x \notin Drops(q[j])
    <3>1. PICK i \in 1..(n + 1) : x \in Brings(q[i]) /\ \A j \in 1..(n + 1) : j > i => x \notin Drops(q[j])
      BY <2>2
    <3>2. CASE i = 1
      <4>1. x \in L
        BY <1>4, <1>5, <3>1, <3>2 DEF Learn
      <4>2. \A j \in 1..n : x \notin Drops(t[j])
        BY <1>4, <3>1, <3>2
      <4>. QED
        BY <1>3, <4>1, <4>2 DEF Shown
    <3>3. CASE i # 1
      <4>1. PICK h \in 1..n : i = h + 1
        BY <3>3
      <4>2. x \in Brings(t[h])
        BY <1>4, <3>1, <4>1
      <4>3. \A j \in 1..n : j > h => x \notin Drops(t[j])
        BY <1>4, <3>1, <4>1
      <4>. QED
        BY <1>3, <4>2, <4>3 DEF Shown
    <3>. QED
      BY <3>2, <3>3
  <2>. QED
    BY <1>4, <1>6, <2>1, <2>2 DEF Shown
<1>7. ASSUME NEW x \in Ids, x \in Shown(L, t) PROVE x \in Shown(P, q)
  <2>0. \A j \in 1..(n + 1) : j # 1 => \E h \in 1..n : j = h + 1 /\ q[j] = t[h]
    BY <1>4
  <2>1. CASE x \in L /\ \A i \in 1..n : x \notin Drops(t[i])
    <3>1. \A j \in 1..(n + 1) : j > 1 => x \notin Drops(q[j])
      BY <2>0, <2>1
    <3>2. CASE x \in Brings(m)
      BY <1>4, <3>1, <3>2 DEF Shown
    <3>3. CASE x \in P /\ x \notin Drops(m)
      <4>1. \A j \in 1..(n + 1) : x \notin Drops(q[j])
        BY <1>4, <3>1, <3>3
      <4>. QED
        BY <1>4, <3>3, <4>1 DEF Shown
    <3>. QED
      BY <1>5, <2>1, <3>2, <3>3 DEF Learn
  <2>2. CASE \E i \in 1..n : x \in Brings(t[i]) /\ \A j \in 1..n : j > i => x \notin Drops(t[j])
    <3>1. PICK i \in 1..n : x \in Brings(t[i]) /\ \A j \in 1..n : j > i => x \notin Drops(t[j])
      BY <2>2
    <3>2. i + 1 \in 1..(n + 1) /\ x \in Brings(q[i + 1])
      BY <1>4, <3>1
    <3>3. \A j \in 1..(n + 1) : j > i + 1 => x \notin Drops(q[j])
      BY <2>0, <3>1
    <3>. QED
      BY <1>4, <3>2, <3>3 DEF Shown
  <2>. QED
    BY <1>3, <1>7, <2>1, <2>2 DEF Shown
<1>8. Shown(P, q) \subseteq Ids /\ Shown(L, t) \subseteq Ids
  BY DEF Shown
<1>9. Shown(P, q) = Shown(L, t)
  BY <1>6, <1>7, <1>8
<1>. QED
  BY <1>1, <1>2, <1>5, <1>9

(***************************************************************************)
(* The page will show the agents of the room.                              *)
(***************************************************************************)
\* Members have ids of their own, and a session that is still to come has
\* not been seen.
Named ==
    /\ \A c \in Clients : ids[c] \in {c, TheAlias}
    /\ \A c \in PageClients : ids[c] = c
    /\ \A c, d \in Clients : phase[c] = "member" /\ phase[d] = "member" /\ ids[c] = ids[d] => c = d
    /\ \A n \in 1..MaxSessions : n > session_no => phase[<<"agent", n>>] = "none"

Met(c) == phase[c] \in {"member", "gone"}

OnlyLogin(q) == \A i \in 1..Len(q) : q[i].type \in LoginMessages

RosterAt(k, z) ==
    /\ ready[k] \in {"unused", "connecting"} => phase[z] = "none"
    /\ phase[z] = "none" => to_client[z] = <<>>
    /\ Alive(k) /\ ~Met(z) => peers = {} /\ OnlyLogin(to_client[z])
    /\ ready[k] = "open" /\ phase[z] = "member" => Shown(peers, to_client[z]) = IdsOf(AgentClients)

RosterInv == Named /\ \A k \in Sockets : RosterAt(k, PageClient(k))

LEMMA LoginBrings ==
    ASSUME NEW m, m.type \in LoginMessages \cup {"error"}
    PROVE  /\ Brings(m) = {} /\ Drops(m) = {}
           /\ \A P : Learn(P, m) = P
BY DEF LoginMessages, Brings, Drops, Learn

LEMMA ShownNothing ==
    ASSUME NEW q, OnlyLogin(q)
    PROVE  Shown({}, q) = {}
BY LoginBrings DEF OnlyLogin, Shown

LEMMA OnlyLoginAppend ==
    ASSUME NEW q \in Seq(ToClient), NEW m \in ToClient, OnlyLogin(q), m.type \in LoginMessages
    PROVE  OnlyLogin(Append(q, m))
<1>1. PICK n \in Nat : n = Len(q)
  OBVIOUS
<1>2. PICK r \in Seq(ToClient) : r = Append(q, m)
  BY AppendProperties
<1>3. Len(r) = n + 1 /\ r[n + 1] = m /\ \A i \in 1..n : r[i] = q[i]
  BY <1>1, <1>2
<1>4. \A i \in 1..(n + 1) : i = n + 1 \/ i \in 1..n
  OBVIOUS
<1>5. OnlyLogin(r)
  BY <1>1, <1>3, <1>4 DEF OnlyLogin
<1>. QED
  BY <1>2, <1>5

LEMMA OnlyLoginTail ==
    ASSUME NEW q \in Seq(ToClient), OnlyLogin(q), q # <<>>
    PROVE  OnlyLogin(Tail(q)) /\ Head(q).type \in LoginMessages
<1>1. PICK t \in Seq(ToClient) : t = Tail(q)
  BY HeadTailProperties
<1>2. PICK n \in Nat : n = Len(t)
  OBVIOUS
<1>3. Len(q) = n + 1 /\ q[1] = Head(q) /\ \A i \in 1..n : t[i] = q[i + 1]
  BY <1>1, <1>2
<1>4. \A i \in 1..n : i + 1 \in 1..(n + 1)
  OBVIOUS
<1>5. OnlyLogin(t)
  BY <1>2, <1>3, <1>4 DEF OnlyLogin
<1>6. Head(q).type \in LoginMessages
  BY <1>3 DEF OnlyLogin
<1>. QED
  BY <1>1, <1>5, <1>6

LEMMA SameRoom ==
    ASSUME \A a \in AgentClients : phase'[a] = "member" <=> phase[a] = "member",
           \A a \in AgentClients : phase[a] = "member" => ids'[a] = ids[a]
    PROVE  IdsOf(AgentClients)' = IdsOf(AgentClients)
<1>1. \A x : x \in IdsOf(AgentClients) <=> \E a \in AgentClients : phase[a] = "member" /\ x = ids[a]
  BY Domains DEF IdsOf, Members
<1>2. \A x : x \in IdsOf(AgentClients)' <=> \E a \in AgentClients : phase'[a] = "member" /\ x = ids'[a]
  BY Domains DEF IdsOf, Members
<1>. QED
  BY <1>1, <1>2

\* What changes neither queues, shown agents nor members, and opens nothing.
LEMMA RosterCalm ==
    ASSUME RosterInv, phase' = phase, ids' = ids, session_no' = session_no, peers' = peers,
           \A z \in PageClients : to_client'[z] = to_client[z],
           \A k \in Sockets : ready'[k] = ready[k] \/ (Alive(k) /\ ready'[k] = "closing")
    PROVE  RosterInv'
<1>1. Named'
  BY DEF RosterInv, Named
<1>2. IdsOf(AgentClients)' = IdsOf(AgentClients)
  BY SameRoom
<1>3. ASSUME NEW k \in Sockets PROVE RosterAt(k, PageClient(k))'
  <2>1. PICK z \in PageClients : z = PageClient(k)
    BY Domains
  <2>2. RosterAt(k, z)
    BY <2>1 DEF RosterInv
  <2>3. RosterAt(k, z)'
    BY <1>2, <2>2 DEF RosterAt, Alive, Met
  <2>. QED
    BY <2>1, <2>3
<1>. QED
  BY <1>1, <1>3 DEF RosterInv

LEMMA RosterTalks ==
    ASSUME RosterInv, ServerTypes, UNCHANGED <<page_vars, agent_vars>>, NEW c \in Clients, Talks(c)
    PROVE  RosterInv'
<1>1. /\ OthersKept(c) /\ Said(c) /\ ids' = ids /\ phase[c] \in Entering /\ ServerTypes'
  BY TalkEffect
<1>2. phase'[c] \in Entering \cup {"gone"} /\ \A d \in Clients \ {c} : phase'[d] = phase[d]
  BY <1>1 DEF OthersKept, Said
<1>3. \A d \in Clients : /\ phase'[d] = "member" <=> phase[d] = "member"
                         /\ phase[d] = "none" => phase'[d] = "none"
                         /\ phase'[d] = "none" => phase[d] = "none"
  BY <1>1, <1>2 DEF Entering
<1>4. ready' = ready /\ peers' = peers /\ session_no' = session_no
  BY DEF page_vars, agent_vars
<1>5. IdsOf(AgentClients)' = IdsOf(AgentClients)
  BY <1>1, <1>3, Domains, SameRoom
<1>6. Named'
  <2>1. \A n \in 1..MaxSessions : n > session_no' => phase'[<<"agent", n>>] = "none"
    BY <1>3, <1>4, Domains DEF RosterInv, Named
  <2>. QED
    BY <1>1, <1>3, <2>1 DEF RosterInv, Named
<1>7. ASSUME NEW k \in Sockets PROVE RosterAt(k, PageClient(k))'
  <2>1. PICK z \in Clients : z = PageClient(k)
    BY Domains
  <2>2. RosterAt(k, z)
    BY <2>1 DEF RosterInv
  <2>3. CASE z # c
    <3>1. phase'[z] = phase[z] /\ to_client'[z] = to_client[z]
      BY <1>1, <2>3 DEF OthersKept
    <3>2. RosterAt(k, z)'
      BY <1>4, <1>5, <2>2, <3>1 DEF RosterAt, Alive, Met
    <3>. QED
      BY <2>1, <3>2
  <2>4. CASE z = c
    <3>1. ready[k] \notin {"unused", "connecting"} /\ phase[z] \in Entering
      BY <1>1, <2>2, <2>4 DEF RosterAt, Entering
    <3>2. ~Met(z)
      BY <3>1 DEF Met, Entering
    <3>3. ASSUME Alive(k), phase'[z] \in Entering PROVE OnlyLogin(to_client'[z]) /\ peers = {}
      <4>1. PICK m \in ToClient : m.type \in LoginMessages /\ to_client'[z] = Append(to_client[z], m)
        BY <1>1, <2>4, <3>3 DEF Said, Entering
      <4>2. OnlyLogin(to_client[z]) /\ peers = {}
        BY <2>2, <3>2, <3>3 DEF RosterAt
      <4>3. to_client[z] \in Seq(ToClient)
        BY DEF ServerTypes
      <4>4. OnlyLogin(Append(to_client[z], m))
        BY <4>1, <4>2, <4>3, OnlyLoginAppend
      <4>. QED
        BY <4>1, <4>2, <4>4
    <3>4. phase'[z] \in Entering \cup {"gone"}
      BY <1>2, <2>4
    <3>5. RosterAt(k, z)'
      BY <1>4, <3>1, <3>3, <3>4 DEF RosterAt, Alive, Met, Entering
    <3>. QED
      BY <2>1, <3>5
  <2>. QED
    BY <2>3, <2>4
<1>. QED
  BY <1>6, <1>7 DEF RosterInv

LEMMA RosterJoins ==
    ASSUME RosterInv, ServerTypes, PageTypes, UNCHANGED <<page_vars, agent_vars>>,
           NEW c \in Clients, NEW id \in Ids, Joins(c, id)
    PROVE  RosterInv'
<1>1. /\ phase \in [Clients -> {"none", "init", "registration", "upload", "finalization", "member", "gone"}]
      /\ ids \in [Clients -> Ids] /\ to_client \in [Clients -> Seq(ToClient)] /\ peers \in SUBSET Ids
  BY DEF ServerTypes, PageTypes
<1>2. /\ phase[c] = "finalization" /\ phase'[c] = "member" /\ \A d \in Clients \ {c} : phase'[d] = phase[d]
      /\ ids'[c] = id /\ \A d \in Clients \ {c} : ids'[d] = ids[d]
  BY <1>1 DEF Joins
<1>3. id = c \/ (id = TheAlias /\ c \in AgentClients /\ \A d \in Clients : phase[d] = "member" => ids[d] # TheAlias)
  BY DEF Joins, IdsOf, Members
<1>4. ready' = ready /\ peers' = peers /\ session_no' = session_no
  BY DEF page_vars, agent_vars
<1>5. Named'
  <2>1. /\ \A d \in Clients : ids'[d] \in {d, TheAlias}
        /\ \A d \in PageClients : ids'[d] = d
    BY <1>2, <1>3, Domains DEF RosterInv, Named
  <2>2. ASSUME NEW d \in Clients, NEW e \in Clients, phase'[d] = "member", phase'[e] = "member", ids'[d] = ids'[e]
        PROVE  d = e
    <3>1. ASSUME NEW f \in Clients, f # c, phase[f] = "member" PROVE ids[f] # id
      <4>1. ids[f] \in {f, TheAlias}
        BY DEF RosterInv, Named
      <4>. QED
        BY <1>3, <3>1, <4>1, Domains
    <3>2. CASE d # c /\ e # c
      BY <1>2, <2>2, <3>2 DEF RosterInv, Named
    <3>3. CASE d = c /\ e # c
      BY <1>2, <2>2, <3>1, <3>3
    <3>4. CASE d # c /\ e = c
      BY <1>2, <2>2, <3>1, <3>4
    <3>. QED
      BY <3>2, <3>3, <3>4
  <2>3. ASSUME NEW n \in 1..MaxSessions, n > session_no' PROVE phase'[<<"agent", n>>] = "none"
    <3>1. phase[<<"agent", n>>] = "none" /\ <<"agent", n>> \in Clients
      BY <1>4, <2>3, Domains DEF RosterInv, Named
    <3>. QED
      BY <1>2, <3>1
  <2>. QED
    BY <2>1, <2>2, <2>3 DEF Named
<1>6. ASSUME NEW k \in Sockets PROVE RosterAt(k, PageClient(k))'
  <2>1. PICK z \in PageClients : z = PageClient(k) /\ z \in Clients
    BY Domains
  <2>2. RosterAt(k, z)
    BY <2>1 DEF RosterInv
  <2>3. CASE c \in PageClients
    <3>1. c \notin AgentClients /\ Opposite(c) = AgentClients /\ z \notin AgentClients
      BY <2>1, <2>3, Domains, NotOpposite
    <3>2. IdsOf(AgentClients)' = IdsOf(AgentClients)
      BY <1>2, <3>1, Domains, SameRoom
    <3>3. CASE z # c
      <4>1. phase'[z] = phase[z] /\ to_client'[z] = to_client[z]
        BY <1>2, <2>1, <3>1, <3>3 DEF Joins
      <4>2. RosterAt(k, z)'
        BY <1>4, <2>2, <3>2, <4>1 DEF RosterAt, Alive, Met
      <4>. QED
        BY <2>1, <4>2
    <3>4. CASE z = c
      <4>1. PICK m : m = [type |-> "connected", peers |-> IdsOf(AgentClients)]
        OBVIOUS
      <4>2. m \in ToClient
        BY <4>1, IdsTyped, WordsTyped
      <4>3. to_client'[z] = Append(to_client[z], m) /\ to_client[z] \in Seq(ToClient)
        BY <1>1, <2>1, <3>1, <3>4, <4>1 DEF Joins
      <4>4. ASSUME ready[k] = "open" PROVE Shown(peers, to_client'[z]) = IdsOf(AgentClients)
        <5>1. peers = {} /\ OnlyLogin(to_client[z])
          BY <1>2, <2>2, <3>4, <4>4 DEF RosterAt, Alive, Met
        <5>2. Shown(peers, to_client[z]) = {}
          BY <5>1, ShownNothing
        <5>3. Shown(peers, to_client'[z]) = Learn(Shown(peers, to_client[z]), m)
          BY <1>1, <4>2, <4>3, ShownAppend
        <5>4. Learn({}, m) = IdsOf(AgentClients)
          BY <4>1 DEF Learn, Brings, Drops
        <5>. QED
          BY <5>2, <5>3, <5>4
      <4>5. ready[k] \notin {"unused", "connecting"} /\ phase'[z] = "member"
        BY <1>2, <2>2, <3>4 DEF RosterAt
      <4>6. RosterAt(k, z)'
        BY <1>4, <3>2, <4>4, <4>5 DEF RosterAt, Met
      <4>. QED
        BY <2>1, <4>6
    <3>. QED
      BY <3>3, <3>4
  <2>4. CASE c \in AgentClients
    <3>1. z # c /\ Opposite(c) = PageClients /\ phase'[z] = phase[z]
      BY <1>2, <2>1, <2>4, Domains, NotOpposite
    <3>2. PICK m : m = [type |-> "peer_joined", id |-> id]
      OBVIOUS
    <3>3. m \in ToClient
      BY <3>2, WordsTyped
    <3>4. to_client'[z] = IF phase[z] = "member" THEN Append(to_client[z], m) ELSE to_client[z]
      BY <2>1, <3>1, <3>2 DEF Joins
    <3>5. IdsOf(AgentClients)' = IdsOf(AgentClients) \cup {id}
      <4>1. \A x : x \in IdsOf(AgentClients) <=> \E a \in AgentClients : phase[a] = "member" /\ x = ids[a]
        BY Domains DEF IdsOf, Members
      <4>2. \A x : x \in IdsOf(AgentClients)' <=> \E a \in AgentClients : phase'[a] = "member" /\ x = ids'[a]
        BY Domains DEF IdsOf, Members
      <4>3. \A a \in AgentClients : a # c => phase'[a] = phase[a] /\ ids'[a] = ids[a]
        BY <1>2, Domains
      <4>4. ASSUME NEW x PROVE x \in IdsOf(AgentClients)' <=> x \in IdsOf(AgentClients) \/ x = id
        BY <1>2, <2>4, <4>1, <4>2, <4>3
      <4>. QED
        BY <4>4
    <3>6. ASSUME ready[k] = "open", phase[z] = "member"
          PROVE  Shown(peers, to_client'[z]) = IdsOf(AgentClients) \cup {id}
      <4>1. Shown(peers, to_client[z]) = IdsOf(AgentClients)
        BY <2>2, <3>6 DEF RosterAt
      <4>2. Shown(peers, to_client'[z]) = Learn(Shown(peers, to_client[z]), m)
        BY <1>1, <2>1, <3>3, <3>4, <3>6, ShownAppend
      <4>3. \A P : Learn(P, m) = P \cup {id}
        BY <3>2 DEF Learn, Brings, Drops
      <4>. QED
        BY <4>1, <4>2, <4>3
    <3>7. RosterAt(k, z)'
      BY <1>4, <2>2, <3>1, <3>4, <3>5, <3>6 DEF RosterAt, Alive, Met
    <3>. QED
      BY <2>1, <3>7
  <2>. QED
    BY <2>3, <2>4, Domains
<1>. QED
  BY <1>5, <1>6 DEF RosterInv

LEMMA RosterForwards ==
    ASSUME RosterInv, ServerTypes, PageTypes, UNCHANGED <<page_vars, agent_vars>>,
           NEW c \in Clients, Forwards(c)
    PROVE  RosterInv'
<1>1. /\ phase' = phase /\ ids' = ids /\ ready' = ready /\ peers' = peers /\ session_no' = session_no
      /\ phase[c] = "member"
  BY DEF Forwards, page_vars, agent_vars
<1>2. Named'
  BY <1>1 DEF RosterInv, Named
<1>3. IdsOf(AgentClients)' = IdsOf(AgentClients)
  BY <1>1, SameRoom
<1>4. ASSUME NEW k \in Sockets PROVE RosterAt(k, PageClient(k))'
  <2>1. PICK z \in PageClients : z = PageClient(k) /\ z \in Clients
    BY Domains
  <2>2. RosterAt(k, z)
    BY <2>1 DEF RosterInv
  <2>3. to_client[z] \in Seq(ToClient) /\ peers \in SUBSET Ids
    BY <2>1 DEF ServerTypes, PageTypes
  <2>4. CASE to_client'[z] = to_client[z]
    <3>1. RosterAt(k, z)'
      BY <1>1, <1>3, <2>2, <2>4 DEF RosterAt, Alive, Met
    <3>. QED
      BY <2>1, <3>1
  <2>5. CASE z = c /\ to_client'[z] = Append(to_client[z], Error)
    <3>1. Error \in ToClient /\ \A P : Learn(P, Error) = P
      BY WordsTyped, LoginBrings DEF Error
    <3>2. Shown(peers, to_client'[z]) = Shown(peers, to_client[z])
      BY <2>3, <2>5, <3>1, ShownAppend
    <3>3. RosterAt(k, z)'
      BY <1>1, <1>3, <2>2, <2>5, <3>2 DEF RosterAt, Alive, Met
    <3>. QED
      BY <2>1, <3>3
  <2>6. CASE /\ z \in Opposite(c) /\ phase[z] = "member" /\ Head(to_server[c]).type = "signal"
             /\ to_client'[z] = Append(to_client[z],
                     [type |-> "signal", from |-> ids[c], payload |-> Head(to_server[c]).payload])
    <3>1. PICK m : m = [type |-> "signal", from |-> ids[c], payload |-> Head(to_server[c]).payload]
      OBVIOUS
    <3>2. Head(to_server[c]) \in ToServer
      BY TailType DEF Forwards, ServerTypes
    <3>3. Head(to_server[c]).payload \in Offers /\ ids[c] \in Ids
      BY <2>6, <3>2, RequestKinds DEF ServerTypes
    <3>4. m \in ToClient
      BY <3>1, <3>3, WordsTyped
    <3>5. c \in AgentClients
      BY <2>1, <2>6, Domains, NotOpposite
    <3>6. ids[c] \in IdsOf(AgentClients)
      BY <1>1, <3>5 DEF IdsOf, Members
    <3>7. \A P : Learn(P, m) = P \cup {ids[c]}
      BY <3>1 DEF Learn, Brings, Drops
    <3>8. Shown(peers, to_client'[z]) = Shown(peers, to_client[z]) \cup {ids[c]}
      BY <2>3, <2>6, <3>1, <3>4, <3>7, ShownAppend
    <3>9. ready[k] = "open" => Shown(peers, to_client'[z]) = IdsOf(AgentClients)
      BY <2>2, <2>6, <3>6, <3>8 DEF RosterAt
    <3>10. RosterAt(k, z)'
      BY <1>1, <1>3, <2>2, <2>6, <3>9 DEF RosterAt, Alive, Met
    <3>. QED
      BY <2>1, <3>10
  <2>. QED
    BY <2>1, <2>4, <2>5, <2>6 DEF Forwards
<1>. QED
  BY <1>2, <1>4 DEF RosterInv

LEMMA RosterLeaves ==
    ASSUME RosterInv, ServerTypes, PageTypes, UNCHANGED <<page_vars, agent_vars>>,
           NEW c \in Clients, Leaves(c)
    PROVE  RosterInv'
<1>1. /\ phase[c] \in Entering \cup {"member"} /\ phase'[c] = "gone" /\ ids' = ids
      /\ \A d \in Clients \ {c} : phase'[d] = phase[d]
  BY DEF Leaves, ServerTypes
<1>2. ready' = ready /\ peers' = peers /\ session_no' = session_no
  BY DEF page_vars, agent_vars
<1>3. \A d \in Clients : /\ phase'[d] = "member" <=> phase[d] = "member" /\ d # c
                         /\ phase[d] = "none" => phase'[d] = "none"
  BY <1>1 DEF Entering
<1>4. Named'
  <2>1. \A n \in 1..MaxSessions : n > session_no' => phase'[<<"agent", n>>] = "none"
    BY <1>2, <1>3, Domains DEF RosterInv, Named
  <2>. QED
    BY <1>1, <1>3, <2>1 DEF RosterInv, Named
<1>5. ASSUME NEW k \in Sockets PROVE RosterAt(k, PageClient(k))'
  <2>1. PICK z \in PageClients : z = PageClient(k) /\ z \in Clients
    BY Domains
  <2>2. RosterAt(k, z)
    BY <2>1 DEF RosterInv
  <2>3. CASE z = c
    <3>1. RosterAt(k, z)'
      BY <1>1, <1>2, <2>2, <2>3 DEF RosterAt, Alive, Met, Entering
    <3>. QED
      BY <2>1, <3>1
  <2>4. CASE z # c /\ ~(c \in AgentClients /\ phase[c] = "member")
    <3>1. \A a \in AgentClients : phase'[a] = "member" <=> phase[a] = "member"
      BY <1>3, <2>4, Domains
    <3>2. IdsOf(AgentClients)' = IdsOf(AgentClients)
      BY <1>1, <3>1, SameRoom
    <3>3. to_client'[z] = to_client[z]
      BY <2>1, <2>4, Domains, NotOpposite DEF Leaves
    <3>4. RosterAt(k, z)'
      BY <1>1, <1>2, <2>1, <2>2, <2>4, <3>2, <3>3 DEF RosterAt, Alive, Met
    <3>. QED
      BY <2>1, <3>4
  <2>5. CASE z # c /\ c \in AgentClients /\ phase[c] = "member"
    <3>1. PICK m : m = [type |-> "peer_left", id |-> ids[c]]
      OBVIOUS
    <3>2. m \in ToClient /\ to_client[z] \in Seq(ToClient) /\ peers \in SUBSET Ids
      BY <2>1, <3>1, WordsTyped DEF ServerTypes, PageTypes
    <3>3. to_client'[z] = IF phase[z] = "member" THEN Append(to_client[z], m) ELSE to_client[z]
      <4>1. z \in Opposite(c)
        BY <2>1, <2>5, NotOpposite
      <4>. QED
        BY <2>1, <2>5, <3>1, <4>1 DEF Leaves
    <3>4. IdsOf(AgentClients)' = IdsOf(AgentClients) \ {ids[c]}
      <4>1. \A x : x \in IdsOf(AgentClients) <=> \E a \in AgentClients : phase[a] = "member" /\ x = ids[a]
        BY Domains DEF IdsOf, Members
      <4>2. \A x : x \in IdsOf(AgentClients)' <=> \E a \in AgentClients : phase'[a] = "member" /\ x = ids'[a]
        BY Domains DEF IdsOf, Members
      <4>3. \A a \in AgentClients : phase'[a] = "member" <=> phase[a] = "member" /\ a # c
        BY <1>3, Domains
      <4>4. \A a \in AgentClients : phase[a] = "member" /\ ids[a] = ids[c] => a = c
        BY <2>5, Domains DEF RosterInv, Named
      <4>5. ASSUME NEW x PROVE x \in IdsOf(AgentClients)' <=> x \in IdsOf(AgentClients) /\ x # ids[c]
        BY <1>1, <4>1, <4>2, <4>3, <4>4
      <4>. QED
        BY <4>5
    <3>5. ASSUME ready[k] = "open", phase[z] = "member"
          PROVE  Shown(peers, to_client'[z]) = IdsOf(AgentClients) \ {ids[c]}
      <4>1. Shown(peers, to_client[z]) = IdsOf(AgentClients)
        BY <2>2, <3>5 DEF RosterAt
      <4>2. Shown(peers, to_client'[z]) = Learn(Shown(peers, to_client[z]), m)
        BY <3>2, <3>3, <3>5, ShownAppend
      <4>3. \A P : Learn(P, m) = P \ {ids[c]}
        BY <3>1 DEF Learn, Brings, Drops
      <4>. QED
        BY <4>1, <4>2, <4>3
    <3>6. RosterAt(k, z)'
      BY <1>1, <1>2, <2>1, <2>2, <2>5, <3>3, <3>4, <3>5 DEF RosterAt, Alive, Met
    <3>. QED
      BY <2>1, <3>6
  <2>. QED
    BY <2>3, <2>4, <2>5
<1>. QED
  BY <1>4, <1>5 DEF RosterInv

LEMMA RosterSocketOpen ==
    ASSUME RosterInv, Typed, UNCHANGED agent_vars, NEW k \in Sockets, SocketOpen(k)
    PROVE  RosterInv'
<1>1. PICK z \in PageClients : z = PageClient(k) /\ z \in Clients /\ z \notin AgentClients
  BY Domains
<1>2. /\ ready[k] = "connecting" /\ ready'[k] = "open" /\ \A j \in Sockets \ {k} : ready'[j] = ready[j]
      /\ phase'[z] = "init" /\ \A d \in Clients \ {z} : phase'[d] = phase[d]
      /\ ids' = ids /\ peers' = peers /\ to_client' = to_client /\ session_no' = session_no
  BY <1>1 DEF SocketOpen, Typed, PageTypes, ServerTypes, agent_vars
<1>3. RosterAt(k, z)
  BY <1>1 DEF RosterInv
<1>4. phase[z] = "none" /\ to_client[z] = <<>> /\ peers = {}
  BY <1>2, <1>3 DEF RosterAt, Alive, Met
<1>5. \A d \in Clients : phase'[d] = "member" <=> phase[d] = "member"
  BY <1>2, <1>4
<1>6. IdsOf(AgentClients)' = IdsOf(AgentClients)
  BY <1>2, <1>5, Domains, SameRoom
<1>7. Named'
  <2>1. \A n \in 1..MaxSessions : n > session_no' => phase'[<<"agent", n>>] = "none"
    BY <1>1, <1>2, Domains DEF RosterInv, Named
  <2>. QED
    BY <1>2, <1>5, <2>1 DEF RosterInv, Named
<1>8. RosterAt(k, z)'
  BY <1>2, <1>4 DEF RosterAt, Met, OnlyLogin
<1>9. ASSUME NEW j \in Sockets, j # k PROVE RosterAt(j, PageClient(j))'
  <2>1. PICK y \in Clients : y = PageClient(j) /\ y # z
    BY <1>1, <1>9, Domains DEF PageClient
  <2>2. RosterAt(j, y)
    BY <2>1 DEF RosterInv
  <2>3. RosterAt(j, y)'
    BY <1>2, <1>6, <1>9, <2>1, <2>2 DEF RosterAt, Alive, Met
  <2>. QED
    BY <2>1, <2>3
<1>10. RosterAt(k, PageClient(k))'
  BY <1>1, <1>8
<1>. QED
  BY <1>7, <1>9, <1>10 DEF RosterInv

\* What a message event does to the agents shown.
LEMMA PageLearns ==
    ASSUME Typed, NEW k \in Sockets, PageMessage(k)
    PROVE  \/ peers' = Learn(peers, Head(to_client[PageClient(k)])) /\ ready' = ready
           \/ /\ peers' = peers /\ SocketCloses
              /\ Head(to_client[PageClient(k)]).type \notin LoginMessages
<1>1. PICK m \in ToClient : m = Head(to_client[PageClient(k)])
  BY Domains, TailType DEF PageMessage, Typed, ServerTypes
<1>2. CASE auth_state # 0
  <2>1. handleAuthMessage(m)
    BY <1>1, <1>2 DEF PageMessage
  <2>2. CASE m.type \in LoginMessages
    <3>1. peers' = peers /\ ready' = ready
      BY <2>1, <2>2 DEF handleAuthMessage
    <3>2. Learn(peers, m) = peers
      BY <2>2, LoginBrings
    <3>. QED
      BY <1>1, <3>1, <3>2
  <2>3. CASE m.type = "connected"
    <3>1. peers' = peers \cup m.peers /\ ready' = ready
      BY <2>1, <2>3 DEF handleAuthMessage, rememberAgents, LoginMessages
    <3>2. Learn(peers, m) = peers \cup m.peers
      BY <2>3 DEF Learn, Brings, Drops
    <3>. QED
      BY <1>1, <3>1, <3>2
  <2>4. CASE m.type \notin LoginMessages /\ m.type # "connected"
    <3>1. peers' = peers /\ CloseSocket
      BY <2>1, <2>4 DEF handleAuthMessage
    <3>2. SocketCloses
      BY <3>1, CloseSocketEffect
    <3>. QED
      BY <1>1, <2>4, <3>1, <3>2
  <2>. QED
    BY <2>2, <2>3, <2>4
<1>3. CASE auth_state = 0
  <2>1. handleServerMessage(m)
    BY <1>1, <1>3 DEF PageMessage
  <2>2. ready' = ready
    BY <2>1 DEF handleServerMessage
  <2>3. peers' = Learn(peers, m)
    <3>1. CASE m.type = "connected"
      BY <2>1, <3>1 DEF handleServerMessage, rememberAgents, Learn, Brings, Drops
    <3>2. CASE m.type = "peer_joined"
      BY <2>1, <3>2 DEF handleServerMessage, rememberAgents, Learn, Brings, Drops
    <3>3. CASE m.type = "peer_left"
      BY <2>1, <3>3 DEF handleServerMessage, forgetAgents, Learn, Brings, Drops
    <3>4. CASE m.type = "signal"
      BY <2>1, <3>4 DEF handleServerMessage, Learn, Brings, Drops
    <3>5. CASE m.type \notin {"connected", "peer_joined", "peer_left", "signal"}
      BY <2>1, <3>5 DEF handleServerMessage, Learn, Brings, Drops
    <3>. QED
      BY <3>1, <3>2, <3>3, <3>4, <3>5
  <2>. QED
    BY <1>1, <2>2, <2>3
<1>. QED
  BY <1>2, <1>3

LEMMA RosterPageMessage ==
    ASSUME RosterInv, Typed, UNCHANGED agent_vars, NEW k \in Sockets, PageMessage(k)
    PROVE  RosterInv'
<1>1. PICK z \in PageClients : z = PageClient(k) /\ z \in Clients
  BY Domains
<1>2. /\ ready[k] = "open" /\ phase' = phase /\ ids' = ids /\ session_no' = session_no
      /\ to_client[z] # <<>> /\ to_client'[z] = Tail(to_client[z])
      /\ \A d \in Clients \ {z} : to_client'[d] = to_client[d]
      /\ to_client[z] \in Seq(ToClient) /\ peers \in SUBSET Ids
  BY <1>1 DEF PageMessage, Typed, ServerTypes, PageTypes, agent_vars
<1>3. RosterAt(k, z)
  BY <1>1 DEF RosterInv
<1>4. Named'
  BY <1>2 DEF RosterInv, Named
<1>5. IdsOf(AgentClients)' = IdsOf(AgentClients)
  BY <1>2, SameRoom
<1>6. \A j \in Sockets \ {k} : ~Alive(j)
  BY <1>2 DEF Typed, SocketInv, OneSocket, Alive
<1>7. ready' = ready \/ SocketCloses
  BY PageLearns
<1>8. /\ \A j \in Sockets : ready'[j] = ready[j] \/ (Alive(j) /\ ready'[j] = "closing")
      /\ \A j \in Sockets \ {k} : ready'[j] = ready[j]
  BY <1>6, <1>7 DEF SocketCloses
<1>9. ASSUME NEW j \in Sockets, j # k PROVE RosterAt(j, PageClient(j))'
  <2>1. PICK y \in Clients : y = PageClient(j) /\ y # z
    BY <1>1, <1>9, Domains DEF PageClient
  <2>2. RosterAt(j, y)
    BY <2>1 DEF RosterInv
  <2>3. RosterAt(j, y)'
    BY <1>2, <1>6, <1>8, <1>9, <2>1, <2>2 DEF RosterAt, Alive
  <2>. QED
    BY <2>1, <2>3
<1>10. PICK m : m = Head(to_client[z])
  OBVIOUS
<1>11. ASSUME ~Met(z) PROVE peers' = {} /\ OnlyLogin(to_client'[z])
  <2>1. peers = {} /\ OnlyLogin(to_client[z])
    BY <1>2, <1>3, <1>11 DEF RosterAt, Alive
  <2>2. OnlyLogin(to_client'[z]) /\ m.type \in LoginMessages
    BY <1>2, <1>10, <2>1, OnlyLoginTail
  <2>3. Learn(peers, m) = peers
    BY <2>2, LoginBrings
  <2>4. peers' = peers
    BY <1>1, <1>10, <2>2, <2>3, PageLearns
  <2>. QED
    BY <2>1, <2>2, <2>4
<1>12. ASSUME ready'[k] = "open", phase[z] = "member"
       PROVE  Shown(peers', to_client'[z]) = IdsOf(AgentClients)
  <2>1. peers' = Learn(peers, m)
    BY <1>1, <1>2, <1>10, <1>12, PageLearns DEF SocketCloses
  <2>2. Shown(peers, to_client[z]) = Shown(Learn(peers, m), Tail(to_client[z]))
    BY <1>2, <1>10, ShownHead
  <2>3. Shown(peers, to_client[z]) = IdsOf(AgentClients)
    BY <1>2, <1>3, <1>12 DEF RosterAt
  <2>. QED
    BY <1>2, <2>1, <2>2, <2>3
<1>13. ready'[k] \notin {"unused", "connecting"} /\ phase[z] # "none"
  BY <1>2, <1>3, <1>8 DEF RosterAt
<1>14. RosterAt(k, z)'
  BY <1>2, <1>5, <1>11, <1>12, <1>13 DEF RosterAt, Met
<1>15. RosterAt(k, PageClient(k))'
  BY <1>1, <1>14
<1>. QED
  BY <1>4, <1>9, <1>15 DEF RosterInv

LEMMA RosterSocketClose ==
    ASSUME RosterInv, Typed, UNCHANGED agent_vars, NEW k \in Sockets, SocketClose(k)
    PROVE  RosterInv'
<1>1. PICK z \in PageClients : z = PageClient(k) /\ z \in Clients
  BY Domains
<1>2. /\ Alive(k) /\ phase' = phase /\ ids' = ids /\ session_no' = session_no
      /\ ready'[k] = "closed" /\ \A j \in Sockets \ {k} : ready'[j] = ready[j]
      /\ to_client'[z] = <<>> /\ \A d \in Clients \ {z} : to_client'[d] = to_client[d]
  BY <1>1 DEF SocketClose, Typed, ServerTypes, PageTypes, agent_vars
<1>3. Named'
  BY <1>2 DEF RosterInv, Named
<1>4. \A j \in Sockets \ {k} : ~Alive(j)
  BY <1>2 DEF Typed, SocketInv, OneSocket
<1>5. ASSUME NEW j \in Sockets, j # k PROVE RosterAt(j, PageClient(j))'
  <2>1. PICK y \in Clients : y = PageClient(j) /\ y # z
    BY <1>1, <1>5, Domains DEF PageClient
  <2>2. RosterAt(j, y)
    BY <2>1 DEF RosterInv
  <2>3. RosterAt(j, y)'
    BY <1>2, <1>4, <1>5, <2>1, <2>2 DEF RosterAt, Alive
  <2>. QED
    BY <2>1, <2>3
<1>6. RosterAt(k, z)'
  BY <1>2 DEF RosterAt, Alive
<1>7. RosterAt(k, PageClient(k))'
  BY <1>1, <1>6
<1>. QED
  BY <1>3, <1>5, <1>7 DEF RosterInv

LEMMA RosterConnect ==
    ASSUME RosterInv, Typed, UNCHANGED agent_vars, connect
    PROVE  RosterInv'
<1>1. \A j \in Sockets : ~Alive(j)
  BY ConnectEffect
<1>2. PICK k \in Sockets : ready[k] = "unused" /\ ready' = [ready EXCEPT ![k] = "connecting"]
  BY ConnectEffect
<1>3. ready'[k] = "connecting" /\ \A j \in Sockets \ {k} : ready'[j] = ready[j]
  BY <1>2 DEF Typed, PageTypes
<1>4. phase' = phase /\ ids' = ids /\ to_client' = to_client /\ session_no' = session_no /\ peers' = {}
  BY DEF connect, forgetAgents, agent_vars
<1>5. Named'
  BY <1>4 DEF RosterInv, Named
<1>6. ASSUME NEW j \in Sockets PROVE RosterAt(j, PageClient(j))'
  <2>1. PICK y \in Clients : y = PageClient(j)
    BY Domains
  <2>2. RosterAt(j, y)
    BY <2>1 DEF RosterInv
  <2>3. CASE j # k
    <3>1. RosterAt(j, y)'
      BY <1>1, <1>3, <1>4, <2>2, <2>3 DEF RosterAt, Alive
    <3>. QED
      BY <2>1, <3>1
  <2>4. CASE j = k
    <3>1. phase[y] = "none" /\ to_client[y] = <<>>
      BY <1>2, <2>2, <2>4 DEF RosterAt
    <3>2. RosterAt(j, y)'
      BY <1>3, <1>4, <2>4, <3>1 DEF RosterAt, OnlyLogin
    <3>. QED
      BY <2>1, <3>2
  <2>. QED
    BY <2>3, <2>4
<1>. QED
  BY <1>5, <1>6 DEF RosterInv

LEMMA RosterAgentConnects ==
    ASSUME RosterInv, Typed, UNCHANGED page_vars, AgentConnects
    PROVE  RosterInv'
<1>1. PICK n \in 1..MaxSessions : n = session_no + 1 /\ n > session_no
  BY Domains DEF AgentConnects, Typed, AgentTypes
<1>2. PICK a \in AgentClients : a = <<"agent", n>> /\ a \in Clients /\ a \notin PageClients
  BY <1>1, Domains
<1>3. phase[a] = "none"
  BY <1>1, <1>2 DEF RosterInv, Named
<1>4. /\ phase'[a] = "init" /\ \A d \in Clients \ {a} : phase'[d] = phase[d]
      /\ session_no' = n /\ ids' = ids /\ to_client' = to_client /\ ready' = ready /\ peers' = peers
  BY <1>1, <1>2 DEF AgentConnects, page_vars, Typed, ServerTypes
<1>5. \A d \in Clients : phase'[d] = "member" <=> phase[d] = "member"
  BY <1>3, <1>4
<1>6. IdsOf(AgentClients)' = IdsOf(AgentClients)
  BY <1>4, <1>5, Domains, SameRoom
<1>7. Named'
  <2>1. ASSUME NEW i \in 1..MaxSessions, i > session_no' PROVE phase'[<<"agent", i>>] = "none"
    <3>1. i > session_no /\ i # n
      BY <1>1, <1>4, <2>1 DEF Typed, AgentTypes
    <3>2. <<"agent", i>> \in Clients /\ <<"agent", i>> # a
      BY <1>2, <3>1, Domains
    <3>. QED
      BY <1>4, <3>1, <3>2 DEF RosterInv, Named
  <2>. QED
    BY <1>4, <1>5, <2>1 DEF RosterInv, Named
<1>8. ASSUME NEW k \in Sockets PROVE RosterAt(k, PageClient(k))'
  <2>1. PICK z \in Clients : z = PageClient(k) /\ z # a
    BY <1>2, Domains
  <2>2. RosterAt(k, z)
    BY <2>1 DEF RosterInv
  <2>3. RosterAt(k, z)'
    BY <1>4, <1>6, <2>1, <2>2 DEF RosterAt, Alive, Met
  <2>. QED
    BY <2>1, <2>3
<1>. QED
  BY <1>7, <1>8 DEF RosterInv

LEMMA RosterNext ==
    ASSUME RosterInv, Typed, [Next]_vars
    PROVE  RosterInv'
<1>0. ServerTypes /\ PageTypes
  BY DEF Typed
<1>1. ASSUME NEW c \in Clients, ServeClient(c), UNCHANGED <<page_vars, agent_vars>> PROVE RosterInv'
  <2>1. CASE Talks(c)
    BY <1>0, <1>1, <2>1, RosterTalks
  <2>2. CASE HandleIncoming(c)
    BY <1>0, <1>1, <2>2, ForwardEffect, RosterForwards
  <2>3. CASE Disconnected(c)
    BY <1>0, <1>1, <2>3, LeaveEffect, RosterLeaves
  <2>4. CASE PakeCredentialFinalization(c) /\ phase'[c] = "member"
    BY <1>0, <1>1, <2>4, JoinEffect, RosterJoins
  <2>. QED
    BY <1>1, <2>1, <2>2, <2>3, <2>4, ServeCases
<1>2. ASSUME UNCHANGED agent_vars, NEW k \in Sockets, getPakeBridge(k) \/ StartLogin(k) PROVE RosterInv'
  <2>1. /\ phase' = phase /\ ids' = ids /\ to_client' = to_client /\ peers' = peers /\ session_no' = session_no
        /\ ready' = ready \/ CloseSocket
    BY <1>2 DEF getPakeBridge, StartLogin, agent_vars
  <2>2. ready' = ready \/ SocketCloses
    BY <2>1, CloseSocketEffect
  <2>3. \A j \in Sockets : ready'[j] = ready[j] \/ (Alive(j) /\ ready'[j] = "closing")
    BY <2>2 DEF SocketCloses
  <2>. QED
    BY <2>1, <2>3, RosterCalm
<1>3. ASSUME UNCHANGED agent_vars, NEW id \in Ids, SendAnswer(id) PROVE RosterInv'
  BY <1>3, RosterCalm DEF SendAnswer, agent_vars
<1>4. CASE PageStep /\ UNCHANGED agent_vars
  BY <1>2, <1>3, <1>4, RosterSocketOpen, RosterPageMessage, RosterSocketClose DEF PageStep
<1>5. CASE UserStep /\ UNCHANGED agent_vars
  <2>1. CASE Disconnect
    <3>1. phase' = phase /\ ids' = ids /\ to_client' = to_client /\ peers' = peers /\ session_no' = session_no
      BY <1>5, <2>1 DEF Disconnect, agent_vars
    <3>2. SocketCloses
      BY <2>1, CloseSocketEffect DEF Disconnect
    <3>3. \A j \in Sockets : ready'[j] = ready[j] \/ (Alive(j) /\ ready'[j] = "closing")
      BY <3>2 DEF SocketCloses
    <3>. QED
      BY <3>1, <3>3, RosterCalm
  <2>. QED
    BY <1>5, <2>1, RosterConnect DEF UserStep
<1>6. CASE (AgentMessage \/ AgentLost) /\ UNCHANGED page_vars
  <2>1. phase' = phase /\ ids' = ids /\ peers' = peers /\ session_no' = session_no /\ ready' = ready
    BY <1>6 DEF AgentMessage, AgentLost, page_vars
  <2>2. session_no \in 1..MaxSessions
    BY <1>6, Domains DEF AgentMessage, AgentLost, Typed, AgentTypes
  <2>3. Me \in AgentClients
    BY <2>2, Domains DEF Me
  <2>4. \A z \in PageClients : to_client'[z] = to_client[z]
    BY <1>6, <2>3, Domains DEF AgentMessage, AgentLost, Typed, ServerTypes
  <2>. QED
    BY <2>1, <2>4, RosterCalm
<1>7. CASE (RoomExpires \/ \E c \in Clients : LinkLost(c)) /\ UNCHANGED <<page_vars, agent_vars>>
  <2>1. phase' = phase /\ ids' = ids /\ to_client' = to_client /\ peers' = peers /\ session_no' = session_no /\ ready' = ready
    BY <1>7 DEF RoomExpires, LinkLost, page_vars, agent_vars
  <2>. QED
    BY <2>1, RosterCalm
<1>8. CASE UNCHANGED vars
  <2>1. phase' = phase /\ ids' = ids /\ to_client' = to_client /\ peers' = peers /\ session_no' = session_no /\ ready' = ready
    BY <1>8 DEF vars, server_vars, page_vars, agent_vars
  <2>. QED
    BY <2>1, RosterCalm
<1>9. CASE AgentStep /\ UNCHANGED page_vars
  BY <1>6, <1>9, RosterAgentConnects DEF AgentStep
<1>. QED
  BY <1>1, <1>4, <1>5, <1>7, <1>8, <1>9 DEF Next, SystemStep, Environment

LEMMA InitRoster ==
    ASSUME Init
    PROVE  RosterInv
<1>1. Named
  BY Domains DEF Init, RelayInit, AgentInit, Named
<1>2. \A k \in Sockets : RosterAt(k, PageClient(k))
  BY Domains DEF Init, RelayInit, PageInit, RosterAt, Alive
<1>. QED
  BY <1>1, <1>2 DEF RosterInv

\* A page that is logged in and has handled what it was sent shows exactly
\* the agents of the room, with and without aliases, across every loss of a
\* connection and every re-login of the agent: Connected carries the agents
\* there are, and every later join and leave follows it in the same queue
\* (register and unregister; rememberAgent, forgetAgent in index.html).
THEOREM AgentsAreShown == Spec => []AgentsShown
<1>1. Init => Typed /\ RosterInv
  BY InitTyped, InitRoster
<1>2. Typed /\ RosterInv /\ [Next]_vars => Typed' /\ RosterInv'
  BY NextTyped, RosterNext
<1>3. Typed /\ RosterInv => AgentsShown
  <2> SUFFICES ASSUME Typed, RosterInv, NEW k \in Sockets, ready[k] = "open",
                      phase[PageClient(k)] = "member", to_client[PageClient(k)] = <<>>
               PROVE  peers = IdsOf(AgentClients)
    BY DEF AgentsShown
  <2>1. RosterAt(k, PageClient(k))
    BY DEF RosterInv
  <2>2. Shown(peers, <<>>) = IdsOf(AgentClients)
    BY <2>1 DEF RosterAt
  <2>. QED
    BY <2>2, ShownEmpty DEF Typed, PageTypes
<1>. QED
  BY <1>1, <1>2, <1>3, PTL DEF Spec

(***************************************************************************)
(* Without aliases a signal says what it is about: the offer of one        *)
(* session to one page, or the answer to it.                               *)
(***************************************************************************)
Sendable(c) ==
    {m \in ToServer : m.type = "signal" =>
        IF c \in AgentClients THEN m.payload = <<c, m.to>>
        ELSE m.to \in AgentClients /\ m.payload = <<m.to, c>>}

Receivable(c) ==
    {m \in ToClient : m.type = "signal" =>
        IF c \in AgentClients THEN m.from \in PageClients /\ m.payload = <<c, m.from>>
        ELSE m.from \in AgentClients /\ m.payload = <<m.from, c>>}

QueueShapes ==
    \A c \in Clients : to_server[c] \in Seq(Sendable(c)) /\ to_client[c] \in Seq(Receivable(c))

ConnectionShape ==
    \A i \in Ids : connection[i].offer # <<>> =>
        /\ i \in AgentClients /\ i \in peers
        /\ socket # 0 /\ connection[i].offer = <<i, PageClient(socket)>>

AnswerShape == \A z \in Ids : agent_peers[z].state = "stable" => agent_peers[z].answer = Mine(z)

OwnIds == \A c \in Clients : ids[c] = c

Shapes == OwnIds /\ QueueShapes /\ ConnectionShape /\ AnswerShape

LEMMA PlainMessages ==
    ASSUME NEW c \in Clients
    PROVE  /\ \A m \in ToClient : m.type # "signal" => m \in Receivable(c)
           /\ \A m \in ToServer : m.type # "signal" => m \in Sendable(c)
           /\ <<>> \in Seq(Sendable(c)) /\ <<>> \in Seq(Receivable(c))
BY DEF Receivable, Sendable

LEMMA PlainAppend ==
    ASSUME NEW S, NEW q \in Seq(S), NEW m \in S
    PROVE  Append(q, m) \in Seq(S)
BY AppendProperties

LEMMA PlainTail ==
    ASSUME NEW S, NEW q \in Seq(S), q # <<>>
    PROVE  Tail(q) \in Seq(S) /\ Head(q) \in S
BY HeadTailProperties

LEMMA ShapesKept ==
    ASSUME Shapes, UNCHANGED <<socket, peers, connection>>
    PROVE  ConnectionShape'
BY DEF Shapes, ConnectionShape

LEMMA AnswersKept ==
    ASSUME Shapes, UNCHANGED agent_vars
    PROVE  AnswerShape'
BY DEF Shapes, AnswerShape, Mine, Me, agent_vars

LEMMA ShapesTalks ==
    ASSUME Shapes, ServerTypes, NEW c \in Clients, Talks(c)
    PROVE  OwnIds' /\ QueueShapes'
<1>1. /\ OthersKept(c) /\ Said(c) /\ ids' = ids
      /\ to_server[c] # <<>> /\ to_server'[c] = Tail(to_server[c])
  BY TalkEffect
<1>2. to_server[c] \in Seq(Sendable(c)) /\ to_client[c] \in Seq(Receivable(c))
  BY DEF Shapes, QueueShapes
<1>3. to_server'[c] \in Seq(Sendable(c))
  BY <1>1, <1>2, PlainTail
<1>4. \/ to_client'[c] = to_client[c]
      \/ \E m \in ToClient : m.type # "signal" /\ to_client'[c] = Append(to_client[c], m)
  BY <1>1, WordsTyped DEF Said, Error, LoginMessages
<1>5. to_client'[c] \in Seq(Receivable(c))
  BY <1>2, <1>4, PlainMessages, PlainAppend
<1>6. QueueShapes'
  BY <1>1, <1>3, <1>5 DEF Shapes, QueueShapes, OthersKept
<1>. QED
  BY <1>1, <1>6 DEF Shapes, OwnIds

LEMMA ShapesJoins ==
    ASSUME ~Aliased, Shapes, ServerTypes, NEW c \in Clients, NEW id \in Ids, Joins(c, id)
    PROVE  OwnIds' /\ QueueShapes'
<1>1. id = c /\ ids' = [ids EXCEPT ![c] = c]
  BY DEF Joins
<1>2. OwnIds'
  BY <1>1 DEF Shapes, OwnIds, ServerTypes
<1>3. /\ [type |-> "connected", peers |-> IdsOf(Opposite(c))] \in ToClient
      /\ [type |-> "peer_joined", id |-> id] \in ToClient
  BY WordsTyped, IdsTyped
<1>4. ASSUME NEW d \in Clients PROVE to_client'[d] \in Seq(Receivable(d)) /\ to_server'[d] \in Seq(Sendable(d))
  <2>1. to_client[d] \in Seq(Receivable(d)) /\ to_server[d] \in Seq(Sendable(d))
    BY DEF Shapes, QueueShapes
  <2>2. to_server'[d] \in Seq(Sendable(d))
    <3>1. to_server'[d] = to_server[d] \/ (to_server[d] # <<>> /\ to_server'[d] = Tail(to_server[d]))
      BY DEF Joins
    <3>. QED
      BY <2>1, <3>1, PlainTail
  <2>3. \/ to_client'[d] = to_client[d]
        \/ \E m \in ToClient : m.type # "signal" /\ to_client'[d] = Append(to_client[d], m)
    BY <1>3 DEF Joins
  <2>4. to_client'[d] \in Seq(Receivable(d))
    BY <2>1, <2>3, PlainMessages, PlainAppend
  <2>. QED
    BY <2>2, <2>4
<1>. QED
  BY <1>2, <1>4 DEF QueueShapes

LEMMA ShapesForwards ==
    ASSUME Shapes, ServerTypes, NEW c \in Clients, Forwards(c)
    PROVE  OwnIds' /\ QueueShapes'
<1>1. ASSUME NEW d \in Clients PROVE to_client'[d] \in Seq(Receivable(d)) /\ to_server'[d] \in Seq(Sendable(d))
  <2>1. to_client[d] \in Seq(Receivable(d)) /\ to_server[d] \in Seq(Sendable(d))
    BY DEF Shapes, QueueShapes
  <2>2. to_server'[d] \in Seq(Sendable(d))
    <3>1. to_server'[d] = to_server[d] \/ (to_server[d] # <<>> /\ to_server'[d] = Tail(to_server[d]))
      BY DEF Forwards
    <3>. QED
      BY <2>1, <3>1, PlainTail
  <2>3. CASE to_client'[d] = to_client[d]
    BY <2>1, <2>2, <2>3
  <2>4. CASE to_client'[d] = Append(to_client[d], Error)
    <3>1. Error \in ToClient /\ Error.type # "signal"
      BY WordsTyped DEF Error
    <3>. QED
      BY <2>1, <2>2, <2>4, <3>1, PlainMessages, PlainAppend
  <2>5. CASE /\ d \in Opposite(c)
             /\ Head(to_server[c]).type = "signal" /\ Head(to_server[c]).to = ids[d]
             /\ to_client'[d] = Append(to_client[d],
                    [type |-> "signal", from |-> ids[c], payload |-> Head(to_server[c]).payload])
    <3>1. PICK m : m = Head(to_server[c])
      OBVIOUS
    <3>2. PICK w : w = [type |-> "signal", from |-> c, payload |-> m.payload]
      OBVIOUS
    <3>3. to_server[c] \in Seq(Sendable(c)) /\ to_server[c] # <<>>
      BY DEF Shapes, QueueShapes, Forwards
    <3>4. m \in Sendable(c)
      BY <3>1, <3>3, PlainTail
    <3>5. ids[c] = c /\ ids[d] = d
      BY DEF Shapes, OwnIds
    <3>6. m \in ToServer /\ m.type = "signal" /\ m.to = d
      BY <2>5, <3>1, <3>4, <3>5 DEF Sendable
    <3>7. w \in ToClient
      BY <3>2, <3>6, RequestKinds, Domains, WordsTyped
    <3>8. w \in Receivable(d)
      <4>1. CASE c \in AgentClients
        <5>1. d \notin AgentClients /\ m.payload = <<c, d>>
          BY <2>5, <3>4, <3>6, <4>1, Domains, NotOpposite DEF Sendable
        <5>. QED
          BY <3>2, <3>7, <4>1, <5>1 DEF Receivable
      <4>2. CASE c \in PageClients
        <5>1. d \in AgentClients /\ m.payload = <<d, c>>
          BY <2>5, <3>4, <3>6, <4>2, Domains, NotOpposite DEF Sendable
        <5>. QED
          BY <3>2, <3>7, <4>2, <5>1 DEF Receivable
      <4>. QED
        BY <4>1, <4>2, Domains
    <3>9. to_client'[d] = Append(to_client[d], w)
      BY <2>5, <3>1, <3>2, <3>5
    <3>. QED
      BY <2>1, <2>2, <3>8, <3>9, PlainAppend
  <2>. QED
    BY <2>3, <2>4, <2>5 DEF Forwards
<1>2. OwnIds'
  BY DEF Forwards, Shapes, OwnIds
<1>. QED
  BY <1>1, <1>2 DEF QueueShapes

LEMMA ShapesLeaves ==
    ASSUME Shapes, ServerTypes, NEW c \in Clients, Leaves(c)
    PROVE  OwnIds' /\ QueueShapes'
<1>1. [type |-> "peer_left", id |-> ids[c]] \in ToClient
  BY WordsTyped DEF ServerTypes
<1>2. ASSUME NEW d \in Clients PROVE to_client'[d] \in Seq(Receivable(d)) /\ to_server'[d] \in Seq(Sendable(d))
  <2>1. to_client[d] \in Seq(Receivable(d)) /\ to_server[d] \in Seq(Sendable(d))
    BY DEF Shapes, QueueShapes
  <2>2. to_server'[d] \in Seq(Sendable(d))
    BY <2>1, PlainMessages DEF Leaves
  <2>3. \/ to_client'[d] = to_client[d]
        \/ \E m \in ToClient : m.type # "signal" /\ to_client'[d] = Append(to_client[d], m)
    BY <1>1 DEF Leaves
  <2>4. to_client'[d] \in Seq(Receivable(d))
    BY <2>1, <2>3, PlainMessages, PlainAppend
  <2>. QED
    BY <2>2, <2>4
<1>3. OwnIds'
  BY DEF Leaves, Shapes, OwnIds
<1>. QED
  BY <1>2, <1>3 DEF QueueShapes

LEMMA ShapesServe ==
    ASSUME ~Aliased, Shapes, Typed, NEW c \in Clients, ServeClient(c), UNCHANGED <<page_vars, agent_vars>>
    PROVE  Shapes'
<1>1. ServerTypes
  BY DEF Typed
<1>2. OwnIds' /\ QueueShapes'
  <2>1. CASE Talks(c)
    BY <1>1, <2>1, ShapesTalks
  <2>2. CASE HandleIncoming(c)
    BY <1>1, <2>2, ForwardEffect, ShapesForwards
  <2>3. CASE Disconnected(c)
    BY <1>1, <2>3, LeaveEffect, ShapesLeaves
  <2>4. CASE PakeCredentialFinalization(c) /\ phase'[c] = "member"
    BY <1>1, <2>4, JoinEffect, ShapesJoins
  <2>. QED
    BY <2>1, <2>2, <2>3, <2>4, ServeCases
<1>3. ConnectionShape'
  BY ShapesKept DEF page_vars
<1>4. AnswerShape'
  BY AnswersKept
<1>. QED
  BY <1>2, <1>3, <1>4 DEF Shapes

\* One more message of a client, of the shape of its messages.
LEMMA ShapesDeliver ==
    ASSUME Shapes, Typed, to_client' = to_client, ids' = ids, NEW c \in Clients,
           NEW m \in ToServer, m \in Sendable(c), to_server' = Deliver(to_server, c, m)
    PROVE  OwnIds' /\ QueueShapes'
<1>1. to_server'[c] = Append(to_server[c], m) /\ \A d \in Clients \ {c} : to_server'[d] = to_server[d]
  BY DEF Deliver, Typed, ServerTypes
<1>2. to_server'[c] \in Seq(Sendable(c))
  BY <1>1, PlainAppend DEF Shapes, QueueShapes
<1>. QED
  BY <1>1, <1>2 DEF Shapes, QueueShapes, OwnIds

LEMMA QueuesKept ==
    ASSUME Shapes, to_client' = to_client, to_server' = to_server, ids' = ids
    PROVE  OwnIds' /\ QueueShapes'
BY DEF Shapes, QueueShapes, OwnIds

LEMMA AuthSends ==
    ASSUME Typed, NEW m \in ToClient, auth_state # 0, socket # 0, handleAuthMessage(m)
    PROVE  /\ connection' = connection /\ peers \subseteq peers'
           /\ \/ to_server' = to_server
              \/ \E w \in ToServer : w.type # "signal" /\ to_server' = Deliver(to_server, PageClient(socket), w)
<1>1. auth_state \in Sockets /\ PageClient(auth_state) \in Clients /\ sessions[auth_state] \in Session
  BY Domains DEF Typed, PageTypes, Sockets
<1>2. CASE m.type \in LoginMessages
  <2>1. connection' = connection /\ peers' = peers
    BY <1>2 DEF handleAuthMessage
  <2>2. \/ to_server' = to_server
        \/ \E r \in AuthReply(PageClient(auth_state), sessions[auth_state], m) :
               to_server' = Deliver(to_server, PageClient(socket), r.send)
    BY <1>2 DEF handleAuthMessage
  <2>3. \A r \in AuthReply(PageClient(auth_state), sessions[auth_state], m) :
               r.send \in ToServer /\ r.send.type # "signal"
    BY <1>1, ReplyTypes
  <2>. QED
    BY <2>1, <2>2, <2>3
<1>3. CASE m.type = "connected" /\ m.type \notin LoginMessages
  BY <1>3 DEF handleAuthMessage, rememberAgents
<1>4. CASE m.type \notin LoginMessages /\ m.type # "connected"
  BY <1>4 DEF handleAuthMessage
<1>. QED
  BY <1>2, <1>3, <1>4

\* The agents a message event forgets, and the connection it starts.
LEMMA ServerMessageConnection ==
    ASSUME Typed, NEW m \in ToClient, handleServerMessage(m)
    PROVE  /\ to_server' = to_server
           /\ \A i \in Ids : \/ /\ m.type = "signal" /\ m.from = i /\ i \in peers'
                                /\ connection'[i] = [offer |-> m.payload, answered |-> FALSE]
                             \/ connection'[i] = NoConnection
                             \/ connection'[i] = connection[i] /\ (i \in peers => i \in peers')
<1>1. to_server' = to_server /\ connection \in [Ids -> Connections]
  BY DEF handleServerMessage, Typed, PageTypes
<1>2. CASE m.type = "signal"
  <2>1. m.from \in Ids
    BY <1>2, MessageKinds
  <2>2. /\ peers' = peers \cup {m.from}
        /\ connection' = [connection EXCEPT ![m.from] = [offer |-> m.payload, answered |-> FALSE]]
    BY <1>2 DEF handleServerMessage
  <2>. QED
    BY <1>1, <1>2, <2>1, <2>2
<1>3. CASE m.type = "peer_left"
  <2>1. /\ peers' = peers \ {m.id}
        /\ connection' = [i \in Ids |-> IF i \in {m.id} THEN NoConnection ELSE connection[i]]
    BY <1>3 DEF handleServerMessage, forgetAgents
  <2>. QED
    BY <1>1, <2>1
<1>4. CASE m.type \notin {"signal", "peer_left"}
  <2>1. connection' = connection /\ peers \subseteq peers'
    BY <1>4 DEF handleServerMessage, rememberAgents
  <2>. QED
    BY <1>1, <2>1
<1>. QED
  BY <1>2, <1>3, <1>4

LEMMA ShapesPageMessage ==
    ASSUME Shapes, Typed, NEW k \in Sockets, PageMessage(k)
    PROVE  OwnIds' /\ QueueShapes' /\ ConnectionShape'
<1>1. PICK z \in PageClients : z = PageClient(k) /\ z \in Clients /\ z \notin AgentClients
  BY Domains
<1>2. /\ ids' = ids /\ to_client[z] # <<>> /\ to_client'[z] = Tail(to_client[z])
      /\ \A d \in Clients \ {z} : to_client'[d] = to_client[d]
      /\ socket' = socket /\ socket = k /\ socket # 0
  BY <1>1, Domains DEF PageMessage, Typed, ServerTypes, SocketInv, OneSocket, Alive, Sockets
<1>3. PICK m : m = Head(to_client[z])
  OBVIOUS
<1>4. to_client[z] \in Seq(Receivable(z)) /\ to_server[z] \in Seq(Sendable(z))
  BY <1>1 DEF Shapes, QueueShapes
<1>5. to_client'[z] \in Seq(Receivable(z)) /\ m \in Receivable(z) /\ m \in ToClient
  BY <1>2, <1>3, <1>4, PlainTail DEF Receivable
<1>6. ASSUME \A d \in Clients \ {z} : to_server'[d] = to_server[d], to_server'[z] \in Seq(Sendable(z))
      PROVE  OwnIds' /\ QueueShapes'
  BY <1>2, <1>5, <1>6 DEF Shapes, QueueShapes, OwnIds
<1>7. CASE auth_state # 0
  <2>1. handleAuthMessage(m)
    BY <1>1, <1>3, <1>7 DEF PageMessage
  <2>2. /\ connection' = connection /\ peers \subseteq peers'
        /\ \/ to_server' = to_server
           \/ \E w \in ToServer : w.type # "signal" /\ to_server' = Deliver(to_server, PageClient(socket), w)
    BY <1>2, <1>5, <1>7, <2>1, AuthSends
  <2>3. ConnectionShape'
    BY <1>2, <2>2 DEF Shapes, ConnectionShape
  <2>4. CASE to_server' = to_server
    BY <1>4, <1>6, <2>3, <2>4
  <2>5. CASE \E w \in ToServer : w.type # "signal" /\ to_server' = Deliver(to_server, PageClient(socket), w)
    <3>1. PICK w \in ToServer : w.type # "signal" /\ to_server' = Deliver(to_server, z, w)
      BY <1>1, <1>2, <2>5
    <3>2. to_server'[z] = Append(to_server[z], w) /\ \A d \in Clients \ {z} : to_server'[d] = to_server[d]
      BY <1>1, <3>1 DEF Deliver, Typed, ServerTypes
    <3>3. w \in Sendable(z)
      BY <1>1, <3>1, PlainMessages
    <3>4. to_server'[z] \in Seq(Sendable(z))
      BY <1>4, <3>2, <3>3, PlainAppend
    <3>. QED
      BY <1>6, <2>3, <3>2, <3>4
  <2>. QED
    BY <2>2, <2>4, <2>5
<1>8. CASE auth_state = 0
  <2>1. handleServerMessage(m)
    BY <1>1, <1>3, <1>8 DEF PageMessage
  <2>2. /\ to_server' = to_server
        /\ \A i \in Ids : \/ /\ m.type = "signal" /\ m.from = i /\ i \in peers'
                             /\ connection'[i] = [offer |-> m.payload, answered |-> FALSE]
                          \/ connection'[i] = NoConnection
                          \/ connection'[i] = connection[i] /\ (i \in peers => i \in peers')
    BY <1>5, <2>1, ServerMessageConnection
  <2>3. OwnIds' /\ QueueShapes'
    BY <1>4, <1>6, <2>2
  <2>4. m.type = "signal" => m.from \in AgentClients /\ m.payload = <<m.from, z>>
    BY <1>1, <1>5 DEF Receivable
  <2>5. ASSUME NEW i \in Ids, connection'[i].offer # <<>>
        PROVE  i \in AgentClients /\ i \in peers' /\ connection'[i].offer = <<i, z>>
    <3>1. CASE /\ m.type = "signal" /\ m.from = i /\ i \in peers'
               /\ connection'[i] = [offer |-> m.payload, answered |-> FALSE]
      BY <2>4, <3>1
    <3>2. CASE connection'[i] = NoConnection
      BY <2>5, <3>2 DEF NoConnection
    <3>3. CASE connection'[i] = connection[i] /\ (i \in peers => i \in peers')
      BY <1>1, <1>2, <2>5, <3>3 DEF Shapes, ConnectionShape
    <3>. QED
      BY <2>2, <3>1, <3>2, <3>3
  <2>6. ConnectionShape'
    BY <1>1, <1>2, <2>5 DEF ConnectionShape
  <2>. QED
    BY <2>3, <2>6
<1>. QED
  BY <1>7, <1>8

\* Nothing is left when the page forgets all it shows.
LEMMA AllForgotten ==
    ASSUME ConnectionShape, forgetAgents(peers)
    PROVE  ConnectionShape' /\ \A i \in Ids : connection'[i].offer = <<>>
<1>1. \A i \in Ids : connection'[i] = IF i \in peers THEN NoConnection ELSE connection[i]
  BY DEF forgetAgents
<1>2. \A i \in Ids : connection'[i].offer = <<>>
  BY <1>1 DEF ConnectionShape, NoConnection
<1>. QED
  BY <1>2 DEF ConnectionShape

LEMMA ShapesPage ==
    ASSUME Shapes, Typed, PageStep \/ UserStep, UNCHANGED agent_vars
    PROVE  Shapes'
<1>1. AnswerShape'
  BY AnswersKept
<1>2. ASSUME NEW k \in Sockets, SocketOpen(k) \/ getPakeBridge(k) PROVE Shapes'
  <2>1. /\ to_client' = to_client /\ to_server' = to_server /\ ids' = ids
        /\ socket' = socket /\ peers' = peers /\ connection' = connection
    BY <1>2 DEF SocketOpen, getPakeBridge
  <2>. QED
    BY <1>1, <2>1, QueuesKept, ShapesKept DEF Shapes
<1>3. ASSUME NEW k \in Sockets, StartLogin(k) PROVE Shapes'
  <2>1. /\ to_client' = to_client /\ ids' = ids
        /\ socket' = socket /\ peers' = peers /\ connection' = connection
    BY <1>3 DEF StartLogin
  <2>2. ConnectionShape'
    BY <2>1, ShapesKept
  <2>3. CASE to_server' = to_server
    BY <1>1, <2>1, <2>2, <2>3, QueuesKept DEF Shapes
  <2>4. CASE to_server' # to_server
    <3>1. socket # 0 /\ PageClient(socket) \in Clients
      BY <1>3, <2>4, Domains DEF StartLogin, Typed, PageTypes, Sockets
    <3>2. PICK r : r = CredentialRequest(PageClient(k), start_login(sessions[k]))
      OBVIOUS
    <3>3. start_login(sessions[k]) \in Session
      BY SessionTypes DEF Typed, PageTypes
    <3>4. r \in Requests
      BY <3>2, <3>3, SessionTypes, Domains DEF CredentialRequest, Requests
    <3>5. PICK w \in ToServer : w = [type |-> "init", request |-> r]
      BY <3>4 DEF ToServer, Logins
    <3>6. to_server' = Deliver(to_server, PageClient(socket), w)
      BY <1>3, <2>4, <3>2, <3>5 DEF StartLogin
    <3>7. w \in Sendable(PageClient(socket))
      BY <3>1, <3>5, PlainMessages
    <3>8. OwnIds' /\ QueueShapes'
      BY <2>1, <3>1, <3>6, <3>7, ShapesDeliver
    <3>. QED
      BY <1>1, <2>2, <3>8 DEF Shapes
  <2>. QED
    BY <2>3, <2>4
<1>4. ASSUME NEW k \in Sockets, PageMessage(k) PROVE Shapes'
  BY <1>1, <1>4, ShapesPageMessage DEF Shapes
<1>5. ASSUME NEW k \in Sockets, SocketClose(k) PROVE Shapes'
  <2>1. ids' = ids /\ to_server' = to_server /\ forgetAgents(peers)
    BY <1>5 DEF SocketClose
  <2>2. ConnectionShape'
    BY <2>1, AllForgotten DEF Shapes
  <2>3. \A d \in Clients : to_client'[d] = to_client[d] \/ to_client'[d] = <<>>
    BY <1>5 DEF SocketClose, Typed, ServerTypes
  <2>4. QueueShapes'
    BY <2>1, <2>3, PlainMessages DEF Shapes, QueueShapes
  <2>5. OwnIds'
    BY <2>1 DEF Shapes, OwnIds
  <2>. QED
    BY <1>1, <2>2, <2>4, <2>5 DEF Shapes
<1>6. ASSUME NEW id \in Ids, SendAnswer(id) PROVE Shapes'
  <2>1. /\ to_client' = to_client /\ ids' = ids /\ socket' = socket /\ peers' = peers
        /\ connection' = [connection EXCEPT ![id].answered = TRUE] /\ connection[id].offer # <<>>
    BY <1>6 DEF SendAnswer
  <2>2. connection \in [Ids -> Connections]
    BY DEF Typed, PageTypes
  <2>3. \A i \in Ids : connection'[i].offer = connection[i].offer
    BY <2>1, <2>2 DEF Connections
  <2>4. ConnectionShape'
    BY <2>1, <2>3 DEF Shapes, ConnectionShape
  <2>5. /\ id \in AgentClients /\ socket # 0 /\ connection[id].offer = <<id, PageClient(socket)>>
    BY <2>1 DEF Shapes, ConnectionShape
  <2>6. PageClient(socket) \in PageClients /\ PageClient(socket) \in Clients
    BY <2>5, Domains DEF Typed, PageTypes, Sockets
  <2>7. PICK w : w = [type |-> "signal", to |-> id, payload |-> connection[id].offer]
    OBVIOUS
  <2>8. w \in ToServer
    BY <2>5, <2>6, <2>7, Domains DEF ToServer, Signals, Offers
  <2>9. w \in Sendable(PageClient(socket))
    BY <2>5, <2>6, <2>7, <2>8, Domains DEF Sendable
  <2>10. to_server' = to_server \/ to_server' = Deliver(to_server, PageClient(socket), w)
    BY <1>6, <2>7 DEF SendAnswer
  <2>11. OwnIds' /\ QueueShapes'
    BY <2>1, <2>6, <2>8, <2>9, <2>10, QueuesKept, ShapesDeliver
  <2>. QED
    BY <1>1, <2>4, <2>11 DEF Shapes
<1>7. ASSUME connect PROVE Shapes'
  <2>1. to_client' = to_client /\ to_server' = to_server /\ ids' = ids /\ forgetAgents(peers)
    BY <1>7 DEF connect
  <2>2. ConnectionShape'
    BY <2>1, AllForgotten DEF Shapes
  <2>. QED
    BY <1>1, <2>1, <2>2, QueuesKept DEF Shapes
<1>8. ASSUME Disconnect PROVE Shapes'
  <2>1. /\ to_client' = to_client /\ to_server' = to_server /\ ids' = ids
        /\ socket' = socket /\ peers' = peers /\ connection' = connection
    BY <1>8 DEF Disconnect
  <2>. QED
    BY <1>1, <2>1, QueuesKept, ShapesKept DEF Shapes
<1>. QED
  BY <1>2, <1>3, <1>4, <1>5, <1>6, <1>7, <1>8 DEF PageStep, UserStep

\* The agent's messages: what it takes from its queue, what it adds to the
\* other, and the one way to make a connection stable.
LEMMA AgentSends ==
    ASSUME Typed, Shapes, AgentMessage
    PROVE  \E m \in Receivable(Me), s \in Seq(Sendable(Me)) :
               /\ m = Head(to_client[Me])
               /\ to_server' = [to_server EXCEPT ![Me] = @ \o s]
               /\ \A z \in Ids : \/ agent_peers'[z] = agent_peers[z]
                                 \/ agent_peers'[z].state # "stable"
                                 \/ /\ m.type = "signal" /\ m.from = z /\ agent_peers[z].state = "have-local-offer"
                                    /\ agent_peers'[z] = [state |-> "stable", answer |-> m.payload]
               /\ \A i \in 1..Len(s) : s[i].type = "signal" =>
                      /\ s[i].to \in Brings(m) /\ m.type \in {"connected", "peer_joined"}
                      /\ agent_peers'[s[i].to].state # "stable"
               /\ \A i, j \in 1..Len(s) : s[i].type = "signal" /\ s[j].type = "signal" /\ s[i].to = s[j].to => i = j
               /\ agent' = "webrtc_error" => m.type = "signal" /\ m.from \in Ids /\ agent_peers[m.from].state = "stable"
<1>1. session_no \in 1..MaxSessions
  BY Domains DEF AgentMessage, Typed, AgentTypes
<1>2. /\ Me \in AgentClients /\ Me \in Clients /\ to_client[Me] # <<>>
      /\ to_client[Me] \in Seq(Receivable(Me)) /\ to_server[Me] \in Seq(ToServer)
      /\ agent_session \in Session /\ agent_peers \in [Ids -> AgentPeer]
      /\ to_server \in [Clients -> Seq(ToServer)]
  BY <1>1, Domains DEF Me, AgentMessage, Shapes, QueueShapes, Typed, ServerTypes, AgentTypes
<1>3. PICK m \in Receivable(Me) : m = Head(to_client[Me])
  BY <1>2, PlainTail
<1>4. m \in ToClient
  BY <1>3 DEF Receivable
<1> DEFINE Changes(s) ==
               /\ to_server' = [to_server EXCEPT ![Me] = @ \o s]
               /\ \A z \in Ids : \/ agent_peers'[z] = agent_peers[z]
                                 \/ agent_peers'[z].state # "stable"
                                 \/ /\ m.type = "signal" /\ m.from = z /\ agent_peers[z].state = "have-local-offer"
                                    /\ agent_peers'[z] = [state |-> "stable", answer |-> m.payload]
               /\ \A i \in 1..Len(s) : s[i].type = "signal" =>
                      /\ s[i].to \in Brings(m) /\ m.type \in {"connected", "peer_joined"}
                      /\ agent_peers'[s[i].to].state # "stable"
               /\ \A i, j \in 1..Len(s) : s[i].type = "signal" /\ s[j].type = "signal" /\ s[i].to = s[j].to => i = j
               /\ agent' = "webrtc_error" => m.type = "signal" /\ m.from \in Ids /\ agent_peers[m.from].state = "stable"
<1>5. ASSUME NEW zs \in SUBSET Ids, zs = Brings(m), m.type \in {"connected", "peer_joined"}, ensure_peer(zs),
             agent' # "webrtc_error"
      PROVE  \E s \in Seq(Sendable(Me)) : Changes(s)
  <2>1. PICK new : new = {z \in zs : agent_peers[z].state = "none"}
    OBVIOUS
  <2>2. PICK s : OffersTo(new, s) /\ to_server' = [to_server EXCEPT ![Me] = @ \o s]
    BY <1>1, <1>5, <2>1, EnsureEffect
  <2>3. agent_peers' = [i \in Ids |-> IF i \in new THEN Offered ELSE agent_peers[i]]
    BY <1>5, <2>1 DEF ensure_peer
  <2>4. \A z \in Ids : agent_peers'[z] = agent_peers[z] \/ agent_peers'[z].state # "stable"
    BY <2>3 DEF Offered
  <2>5. \A z \in new : z \in Ids /\ z \in Brings(m) /\ agent_peers'[z].state # "stable"
    BY <1>5, <2>1, <2>3 DEF Offered
  <2>6. s \in Seq(ToServer) /\ \A i \in 1..Len(s) : s[i] \in Sendable(Me)
    BY <1>2, <2>2 DEF OffersTo, Sendable, Mine
  <2>7. s \in Seq(Sendable(Me))
    BY <2>6
  <2>8. \A i \in 1..Len(s) : s[i].to \in new
    BY <2>2 DEF OffersTo
  <2>9. \A i, j \in 1..Len(s) : s[i].to = s[j].to => i = j
    BY <2>2 DEF OffersTo
  <2>. QED
    BY <1>5, <2>2, <2>4, <2>5, <2>7, <2>8, <2>9
<1>6. ASSUME agent_peers' = agent_peers, agent' # "webrtc_error",
             NEW w \in ToServer, w.type # "signal", to_server' = Deliver(to_server, Me, w)
      PROVE  \E s \in Seq(Sendable(Me)) : Changes(s)
  <2>1. w \in Sendable(Me)
    BY <1>2, <1>6, PlainMessages
  <2>2. PICK s \in Seq(Sendable(Me)) : s = <<w>> /\ Len(s) = 1 /\ s[1] = w
    <3>1. PICK S : S = Sendable(Me)
      OBVIOUS
    <3>2. w \in S
      BY <2>1, <3>1
    <3>3. <<w>> \in Seq(S) /\ Len(<<w>>) = 1 /\ <<w>>[1] = w
      BY <3>2
    <3>. QED
      BY <3>1, <3>3
  <2>3. to_server[Me] \o s = Append(to_server[Me], w)
    BY <1>2, <2>2
  <2>4. to_server' = [to_server EXCEPT ![Me] = @ \o s]
    BY <1>6, <2>3 DEF Deliver
  <2>5. \A i \in 1..Len(s) : s[i].type # "signal"
    BY <1>6, <2>2
  <2>6. Changes(s)
    BY <1>6, <2>4, <2>5
  <2>. QED
    BY <2>6
<1>7. ASSUME to_server' = to_server,
             \A z \in Ids : \/ agent_peers'[z] = agent_peers[z]
                            \/ agent_peers'[z].state # "stable"
                            \/ /\ m.type = "signal" /\ m.from = z /\ agent_peers[z].state = "have-local-offer"
                               /\ agent_peers'[z] = [state |-> "stable", answer |-> m.payload],
             agent' = "webrtc_error" => m.type = "signal" /\ m.from \in Ids /\ agent_peers[m.from].state = "stable"
      PROVE  \E s \in Seq(Sendable(Me)) : Changes(s)
  <2>1. PICK s \in Seq(Sendable(Me)) : s = <<>> /\ Len(s) = 0
    BY <1>2, PlainMessages
  <2>2. to_server[Me] \o s = to_server[Me]
    BY <1>2, <2>1
  <2>3. to_server' = [to_server EXCEPT ![Me] = @ \o s]
    BY <1>2, <1>7, <2>2
  <2>4. \A i \in 1..Len(s) : FALSE
    BY <2>1
  <2>5. Changes(s)
    BY <1>7, <2>3, <2>4
  <2>. QED
    BY <2>5
<1>8. \E s \in Seq(Sendable(Me)) : Changes(s)
  <2>1. CASE agent = "login"
    <3>1. authenticate_websocket(m)
      BY <1>3, <2>1 DEF AgentMessage
    <3>2. CASE m.type = "connected"
      <4>1. ensure_peer(m.peers) /\ agent' = "session"
        BY <3>1, <3>2 DEF authenticate_websocket
      <4>2. m.peers \in SUBSET Ids /\ m.peers = Brings(m)
        BY <1>4, <3>2, MessageKinds DEF Brings
      <4>. QED
        BY <1>5, <3>2, <4>1, <4>2
    <3>3. CASE m.type # "connected" /\ AuthReply(Me, agent_session, m) # {}
      <4>1. PICK r \in AuthReply(Me, agent_session, m) : to_server' = Deliver(to_server, Me, r.send)
        BY <3>1, <3>3 DEF authenticate_websocket
      <4>2. agent_peers' = agent_peers /\ agent' = agent
        BY <3>1, <3>3 DEF authenticate_websocket
      <4>3. r.send \in ToServer /\ r.send.type # "signal"
        BY <1>2, <1>4, <4>1, ReplyTypes
      <4>. QED
        BY <1>6, <2>1, <4>1, <4>2, <4>3
    <3>4. CASE m.type # "connected" /\ AuthReply(Me, agent_session, m) = {}
      <4>1. to_server' = to_server /\ agent_peers' = agent_peers /\ agent' = "refused"
        BY <3>1, <3>4 DEF authenticate_websocket
      <4>. QED
        BY <1>7, <4>1
    <3>. QED
      BY <3>2, <3>3, <3>4
  <2>2. CASE agent = "session"
    <3>1. handle_server_message(m)
      BY <1>3, <2>2 DEF AgentMessage
    <3>2. CASE m.type = "peer_joined"
      <4>1. ensure_peer({m.id}) /\ agent' = "session"
        BY <2>2, <3>1, <3>2 DEF handle_server_message
      <4>2. {m.id} \in SUBSET Ids /\ {m.id} = Brings(m)
        BY <1>4, <3>2, MessageKinds DEF Brings
      <4>. QED
        BY <1>5, <3>2, <4>1, <4>2
    <3>3. CASE m.type = "peer_left"
      <4>1. to_server' = to_server /\ agent' = "session" /\ agent_peers' = [agent_peers EXCEPT ![m.id] = NoPeer]
        BY <2>2, <3>1, <3>3 DEF handle_server_message
      <4>2. \A z \in Ids : agent_peers'[z] = agent_peers[z] \/ agent_peers'[z].state # "stable"
        BY <1>2, <4>1 DEF NoPeer
      <4>. QED
        BY <1>7, <4>1, <4>2
    <3>4. CASE m.type = "signal"
      <4>1. m.from \in Ids
        BY <1>4, <3>4, MessageKinds
      <4>2. handle_signal(m.from, m.payload)
        BY <3>1, <3>4 DEF handle_server_message
      <4>3. CASE agent_peers[m.from].state = "have-local-offer"
        <5>1. /\ to_server' = to_server /\ agent' = agent
              /\ agent_peers' = [agent_peers EXCEPT ![m.from] = [state |-> "stable", answer |-> m.payload]]
          BY <4>2, <4>3 DEF handle_signal
        <5>2. \A z \in Ids : \/ agent_peers'[z] = agent_peers[z]
                             \/ /\ m.type = "signal" /\ m.from = z /\ agent_peers[z].state = "have-local-offer"
                                /\ agent_peers'[z] = [state |-> "stable", answer |-> m.payload]
          BY <1>2, <3>4, <4>1, <4>3, <5>1
        <5>. QED
          BY <1>7, <2>2, <5>1, <5>2
      <4>4. CASE agent_peers[m.from].state # "have-local-offer"
        <5>1. /\ to_server' = to_server /\ agent_peers' = agent_peers
              /\ agent' = "webrtc_error" => agent_peers[m.from].state = "stable"
          BY <2>2, <4>2, <4>4 DEF handle_signal
        <5>. QED
          BY <1>7, <3>4, <4>1, <5>1
      <4>. QED
        BY <4>3, <4>4
    <3>5. CASE m.type \notin {"peer_joined", "peer_left", "signal"}
      <4>1. to_server' = to_server /\ agent_peers' = agent_peers /\ agent' = "session"
        BY <2>2, <3>1, <3>5 DEF handle_server_message
      <4>. QED
        BY <1>7, <4>1
    <3>. QED
      BY <3>2, <3>3, <3>4, <3>5
  <2>. QED
    BY <2>1, <2>2 DEF AgentMessage
<1>. QED
  BY <1>3, <1>8

LEMMA ShapesAgent ==
    ASSUME Shapes, Typed, AgentStep, UNCHANGED page_vars
    PROVE  Shapes'
<1>1. ConnectionShape'
  BY ShapesKept DEF page_vars
<1>2. CASE AgentConnects
  <2>1. PICK n \in 1..MaxSessions : n = session_no + 1
    BY <1>2, Domains DEF AgentConnects, Typed, AgentTypes
  <2>2. PICK c \in Clients : c = <<"agent", n>>
    BY <2>1, Domains
  <2>3. start_login(ClientSession) \in Session
    <3>1. ClientSession \in Session
      BY DEF ClientSession, Session
    <3>. QED
      BY <3>1, SessionTypes
  <2>4. PICK r \in Requests : r = CredentialRequest(c, start_login(ClientSession))
    BY <2>3, SessionTypes DEF CredentialRequest, Requests
  <2>5. PICK w \in ToServer : w = [type |-> "init", request |-> r]
    BY DEF ToServer, Logins
  <2>6. /\ to_server' = Deliver(to_server, c, w) /\ to_client' = to_client /\ ids' = ids
        /\ agent_peers' = FreshPeers
    BY <1>2, <2>1, <2>2, <2>4, <2>5 DEF AgentConnects
  <2>7. w \in Sendable(c)
    BY <2>5, PlainMessages
  <2>8. OwnIds' /\ QueueShapes'
    BY <2>6, <2>7, ShapesDeliver
  <2>9. AnswerShape'
    BY <2>6 DEF AnswerShape, FreshPeers, NoPeer
  <2>. QED
    BY <1>1, <2>8, <2>9 DEF Shapes
<1>3. CASE AgentMessage
  <2>1. Me \in AgentClients /\ Me \in Clients /\ session_no' = session_no /\ ids' = ids
    BY <1>3, Domains DEF Me, AgentMessage, Typed, AgentTypes
  <2>2. PICK m \in Receivable(Me), s \in Seq(Sendable(Me)) :
            /\ to_server' = [to_server EXCEPT ![Me] = @ \o s]
            /\ \A z \in Ids : \/ agent_peers'[z] = agent_peers[z]
                              \/ agent_peers'[z].state # "stable"
                              \/ /\ m.type = "signal" /\ m.from = z
                                 /\ agent_peers'[z] = [state |-> "stable", answer |-> m.payload]
    BY <1>3, AgentSends
  <2>3. /\ to_client[Me] # <<>> /\ to_client'[Me] = Tail(to_client[Me])
        /\ \A d \in Clients \ {Me} : to_client'[d] = to_client[d]
        /\ to_server'[Me] = to_server[Me] \o s /\ \A d \in Clients \ {Me} : to_server'[d] = to_server[d]
    BY <1>3, <2>1, <2>2 DEF AgentMessage, Typed, ServerTypes
  <2>4. to_client[Me] \in Seq(Receivable(Me)) /\ to_server[Me] \in Seq(Sendable(Me))
    BY <2>1 DEF Shapes, QueueShapes
  <2>5. to_client'[Me] \in Seq(Receivable(Me)) /\ to_server'[Me] \in Seq(Sendable(Me))
    BY <2>3, <2>4, PlainTail, ConcatProperties
  <2>6. QueueShapes'
    BY <2>3, <2>5 DEF Shapes, QueueShapes
  <2>7. OwnIds'
    BY <2>1 DEF Shapes, OwnIds
  <2>8. m.type = "signal" => m.payload = Mine(m.from)
    BY <2>1 DEF Receivable, Mine
  <2>9. ASSUME NEW z \in Ids, agent_peers'[z].state = "stable" PROVE agent_peers'[z].answer = Mine(z)
    <3>1. CASE agent_peers'[z] = agent_peers[z]
      BY <2>9, <3>1 DEF Shapes, AnswerShape
    <3>2. CASE m.type = "signal" /\ m.from = z /\ agent_peers'[z] = [state |-> "stable", answer |-> m.payload]
      BY <2>8, <3>2
    <3>. QED
      BY <2>2, <2>9, <3>1, <3>2
  <2>10. AnswerShape'
    BY <2>1, <2>9 DEF AnswerShape, Mine, Me
  <2>. QED
    BY <1>1, <2>6, <2>7, <2>10 DEF Shapes
<1>4. CASE AgentLost
  <2>1. to_server' = to_server /\ ids' = ids /\ agent_peers' = FreshPeers
    BY <1>4 DEF AgentLost
  <2>2. \A d \in Clients : to_client'[d] = to_client[d] \/ to_client'[d] = <<>>
    BY <1>4 DEF AgentLost, Typed, ServerTypes
  <2>3. QueueShapes' /\ OwnIds'
    BY <2>1, <2>2, PlainMessages DEF Shapes, QueueShapes, OwnIds
  <2>4. AnswerShape'
    BY <2>1 DEF AnswerShape, FreshPeers, NoPeer
  <2>. QED
    BY <1>1, <2>3, <2>4 DEF Shapes
<1>. QED
  BY <1>2, <1>3, <1>4 DEF AgentStep

LEMMA ShapesNext ==
    ASSUME ~Aliased, Shapes, Typed, [Next]_vars
    PROVE  Shapes'
<1>1. CASE (RoomExpires \/ \E c \in Clients : LinkLost(c)) /\ UNCHANGED <<page_vars, agent_vars>>
  <2>1. to_client' = to_client /\ to_server' = to_server /\ ids' = ids
    BY <1>1 DEF RoomExpires, LinkLost
  <2>2. UNCHANGED agent_vars /\ UNCHANGED <<socket, peers, connection>>
    BY <1>1 DEF page_vars
  <2>. QED
    BY <2>1, <2>2, QueuesKept, ShapesKept, AnswersKept DEF Shapes
<1>2. CASE UNCHANGED vars
  <2>1. to_client' = to_client /\ to_server' = to_server /\ ids' = ids
    BY <1>2 DEF vars, server_vars
  <2>2. UNCHANGED agent_vars /\ UNCHANGED <<socket, peers, connection>>
    BY <1>2 DEF vars, page_vars
  <2>. QED
    BY <2>1, <2>2, QueuesKept, ShapesKept, AnswersKept DEF Shapes
<1>. QED
  BY <1>1, <1>2, ShapesServe, ShapesPage, ShapesAgent DEF Next, SystemStep, Environment

(***************************************************************************)
(* A queue with at most one message of a kind.                             *)
(***************************************************************************)
Has(q, S) == \E i \in 1..Len(q) : q[i] \in S
Single(q, S) == \A i, j \in 1..Len(q) : q[i] \in S /\ q[j] \in S => i = j
Shrinks(r, q, S) == (Has(r, S) => Has(q, S)) /\ (Single(q, S) => Single(r, S))

LEMMA ShrinksSame ==
    ASSUME NEW q, NEW S
    PROVE  Shrinks(q, q, S) /\ Shrinks(<<>>, q, S) /\ ~Has(<<>>, S)
BY DEF Shrinks, Has, Single

LEMMA ShrinksConcat ==
    ASSUME NEW M, NEW q \in Seq(M), NEW t \in Seq(M), NEW S
    PROVE  /\ ~Has(t, S) => Shrinks(q \o t, q, S)
           /\ ~Has(q, S) /\ Single(t, S) => Single(q \o t, S)
<1>1. PICK n \in Nat, l \in Nat : n = Len(q) /\ l = Len(t)
  OBVIOUS
<1>2. PICK r : r = q \o t
  OBVIOUS
<1>3. /\ Len(r) = n + l /\ \A i \in 1..n : r[i] = q[i]
      /\ \A i \in 1..(n + l) : i > n => i - n \in 1..l /\ r[i] = t[i - n]
  BY <1>1, <1>2, ConcatProperties
<1>4. \A i \in 1..(n + l) : i \in 1..n \/ i > n
  OBVIOUS
<1>5. ASSUME ~Has(t, S) PROVE Shrinks(r, q, S)
  <2>1. \A i \in 1..(n + l) : r[i] \in S => i \in 1..n /\ q[i] \in S
    BY <1>1, <1>3, <1>4, <1>5 DEF Has
  <2>2. Has(r, S) => Has(q, S)
    BY <1>1, <1>3, <2>1 DEF Has
  <2>3. Single(q, S) => Single(r, S)
    BY <1>1, <1>3, <2>1 DEF Single
  <2>. QED
    BY <2>2, <2>3 DEF Shrinks
<1>6. ASSUME ~Has(q, S), Single(t, S) PROVE Single(r, S)
  <2>1. \A i \in 1..(n + l) : r[i] \in S => i - n \in 1..l /\ t[i - n] \in S
    BY <1>1, <1>3, <1>4, <1>6 DEF Has
  <2>2. ASSUME NEW i \in 1..(n + l), NEW j \in 1..(n + l), r[i] \in S, r[j] \in S PROVE i = j
    <3>1. i - n = j - n
      BY <1>1, <1>6, <2>1, <2>2 DEF Single
    <3>. QED
      BY <3>1
  <2>. QED
    BY <1>3, <2>2 DEF Single
<1>. QED
  BY <1>2, <1>5, <1>6

LEMMA ShrinksAppend ==
    ASSUME NEW M, NEW q \in Seq(M), NEW m \in M, NEW S
    PROVE  /\ m \notin S => Shrinks(Append(q, m), q, S)
           /\ ~Has(q, S) => Single(Append(q, m), S)
<1>0. <<m>> \in Seq(M) /\ Len(<<m>>) = 1 /\ <<m>>[1] = m
  OBVIOUS
<1>1. PICK t \in Seq(M) : t = <<m>> /\ Len(t) = 1 /\ t[1] = m
  BY <1>0
<1>2. q \o t = Append(q, m)
  BY <1>1
<1>3. Single(t, S) /\ (m \notin S => ~Has(t, S))
  BY <1>1 DEF Single, Has
<1>. QED
  BY <1>2, <1>3, ShrinksConcat

LEMMA ShrinksTail ==
    ASSUME NEW M, NEW q \in Seq(M), q # <<>>, NEW S
    PROVE  /\ Shrinks(Tail(q), q, S)
           /\ Head(q) \in S => Has(q, S)
           /\ Head(q) \in S /\ Single(q, S) => ~Has(Tail(q), S)
<1>1. PICK t \in Seq(M) : t = Tail(q)
  BY HeadTailProperties
<1>2. PICK n \in Nat : n = Len(t)
  OBVIOUS
<1>3. Len(q) = n + 1 /\ q[1] = Head(q) /\ \A i \in 1..n : t[i] = q[i + 1] /\ i + 1 \in 1..(n + 1)
  BY <1>1, <1>2
<1>4. Has(t, S) => Has(q, S)
  BY <1>2, <1>3 DEF Has
<1>5. ASSUME Single(q, S) PROVE Single(t, S)
  <2>1. ASSUME NEW i \in 1..n, NEW j \in 1..n, t[i] \in S, t[j] \in S PROVE i = j
    <3>1. i + 1 = j + 1
      BY <1>3, <1>5, <2>1 DEF Single
    <3>. QED
      BY <3>1
  <2>. QED
    BY <1>2, <2>1 DEF Single
<1>6. Head(q) \in S => Has(q, S)
  BY <1>3 DEF Has
<1>7. ASSUME Head(q) \in S, Single(q, S), Has(t, S) PROVE FALSE
  <2>1. PICK i \in 1..n : t[i] \in S
    BY <1>2, <1>7 DEF Has
  <2>2. 1 \in 1..Len(q) /\ i + 1 \in 1..Len(q) /\ q[1] \in S /\ q[i + 1] \in S
    BY <1>3, <1>7, <2>1
  <2>3. 1 = i + 1
    BY <1>7, <2>2 DEF Single
  <2>. QED
    BY <2>3
<1>. QED
  BY <1>1, <1>4, <1>5, <1>6, <1>7 DEF Shrinks

(***************************************************************************)
(* The offer of a session to a page and the answer to it are in one place. *)
(***************************************************************************)
TellsOf(z) == {m \in ToClient : m.type # "signal" /\ z \in Brings(m)}
FromOf(c) == {m \in ToClient : m.type = "signal" /\ m.from = c}
ToOf(c) == {m \in ToServer : m.type = "signal" /\ m.to = c}

Answering(a, z) ==
    /\ connection[a].offer # <<>> /\ ~connection[a].answered
    /\ socket # 0 /\ PageClient(socket) = z

Stable(a, z) == Me = a /\ agent_peers[z].state = "stable"

\* News of the page, the offer to the server and to the page, the page at its
\* answer, the answer to the server and to the agent, and its use.
Places(a, z) ==
    {p \in {"news", "offered", "offer", "answering", "answered", "answer", "stable"} :
        \/ p = "news" /\ Has(to_client[a], TellsOf(z))
        \/ p = "offered" /\ Has(to_server[a], ToOf(z))
        \/ p = "offer" /\ Has(to_client[z], FromOf(a))
        \/ p = "answering" /\ Answering(a, z)
        \/ p = "answered" /\ Has(to_server[z], ToOf(a))
        \/ p = "answer" /\ Has(to_client[a], FromOf(z))
        \/ p = "stable" /\ Stable(a, z)}

Unique(a, z) ==
    /\ Single(to_client[a], TellsOf(z)) /\ Single(to_server[a], ToOf(z)) /\ Single(to_client[z], FromOf(a))
    /\ Single(to_server[z], ToOf(a)) /\ Single(to_client[a], FromOf(z))

PairInv(a, z) ==
    /\ Unique(a, z)
    /\ \A p, q \in Places(a, z) : p = q
    /\ Places(a, z) # {} => Met(a) /\ Met(z)

PairsInv == \A a \in AgentClients, z \in PageClients : PairInv(a, z)

\* No message more.
Thins(a, z) ==
    /\ Shrinks(to_client'[a], to_client[a], TellsOf(z)) /\ Shrinks(to_server'[a], to_server[a], ToOf(z))
    /\ Shrinks(to_client'[z], to_client[z], FromOf(a)) /\ Shrinks(to_server'[z], to_server[z], ToOf(a))
    /\ Shrinks(to_client'[a], to_client[a], FromOf(z))

LEMMA PairThins ==
    ASSUME NEW a, NEW z, PairInv(a, z), Thins(a, z), Answering(a, z)' => Answering(a, z),
           Stable(a, z)' => Stable(a, z), Met(a) => Met(a)', Met(z) => Met(z)'
    PROVE  PairInv(a, z)'
<1>1. Unique(a, z)'
  BY DEF PairInv, Unique, Thins, Shrinks
<1>2. Places(a, z)' \subseteq Places(a, z)
  BY DEF Places, Thins, Shrinks
<1>. QED
  BY <1>1, <1>2 DEF PairInv

\* A pair that is in one place is nowhere else, and what moves it on makes it
\* be in another place only.
LEMMA PairMoves ==
    ASSUME NEW a, NEW z, PairInv(a, z), NEW p \in Places(a, z), NEW r,
           Unique(a, z)', \A q \in Places(a, z)' : q = r, Met(a) => Met(a)', Met(z) => Met(z)'
    PROVE  PairInv(a, z)'
BY DEF PairInv

LEMMA OnePlace ==
    ASSUME NEW a, NEW z, PairInv(a, z)
    PROVE  /\ Has(to_client[a], TellsOf(z)) =>
                  /\ "news" \in Places(a, z) /\ ~Has(to_server[a], ToOf(z)) /\ ~Has(to_client[z], FromOf(a)) /\ ~Answering(a, z)
                  /\ ~Has(to_server[z], ToOf(a)) /\ ~Has(to_client[a], FromOf(z)) /\ ~Stable(a, z)
           /\ Has(to_server[a], ToOf(z)) =>
                  /\ "offered" \in Places(a, z) /\ ~Has(to_client[a], TellsOf(z)) /\ ~Has(to_client[z], FromOf(a)) /\ ~Answering(a, z)
                  /\ ~Has(to_server[z], ToOf(a)) /\ ~Has(to_client[a], FromOf(z)) /\ ~Stable(a, z)
           /\ Has(to_client[z], FromOf(a)) =>
                  /\ "offer" \in Places(a, z) /\ ~Has(to_client[a], TellsOf(z)) /\ ~Has(to_server[a], ToOf(z)) /\ ~Answering(a, z)
                  /\ ~Has(to_server[z], ToOf(a)) /\ ~Has(to_client[a], FromOf(z)) /\ ~Stable(a, z)
           /\ Answering(a, z) =>
                  /\ "answering" \in Places(a, z) /\ ~Has(to_client[a], TellsOf(z)) /\ ~Has(to_server[a], ToOf(z)) /\ ~Has(to_client[z], FromOf(a))
                  /\ ~Has(to_server[z], ToOf(a)) /\ ~Has(to_client[a], FromOf(z)) /\ ~Stable(a, z)
           /\ Has(to_server[z], ToOf(a)) =>
                  /\ "answered" \in Places(a, z) /\ ~Has(to_client[a], TellsOf(z)) /\ ~Has(to_server[a], ToOf(z)) /\ ~Has(to_client[z], FromOf(a))
                  /\ ~Answering(a, z) /\ ~Has(to_client[a], FromOf(z)) /\ ~Stable(a, z)
           /\ Has(to_client[a], FromOf(z)) =>
                  /\ "answer" \in Places(a, z) /\ ~Has(to_client[a], TellsOf(z)) /\ ~Has(to_server[a], ToOf(z)) /\ ~Has(to_client[z], FromOf(a))
                  /\ ~Answering(a, z) /\ ~Has(to_server[z], ToOf(a)) /\ ~Stable(a, z)
<1>1. \A p, q \in Places(a, z) : p = q
  BY DEF PairInv
<1>2. /\ "news" \in Places(a, z) <=> Has(to_client[a], TellsOf(z))
      /\ "offered" \in Places(a, z) <=> Has(to_server[a], ToOf(z))
      /\ "offer" \in Places(a, z) <=> Has(to_client[z], FromOf(a))
      /\ "answering" \in Places(a, z) <=> Answering(a, z)
      /\ "answered" \in Places(a, z) <=> Has(to_server[z], ToOf(a))
      /\ "answer" \in Places(a, z) <=> Has(to_client[a], FromOf(z))
      /\ "stable" \in Places(a, z) <=> Stable(a, z)
  BY DEF Places, Answering, Stable, Has
<1>. QED
  BY <1>1, <1>2

LEMMA NoPlace ==
    ASSUME NEW a, NEW z, PairInv(a, z), ~Met(a) \/ ~Met(z)
    PROVE  /\ ~Has(to_client[a], TellsOf(z)) /\ ~Has(to_server[a], ToOf(z)) /\ ~Has(to_client[z], FromOf(a)) /\ ~Answering(a, z)
           /\ ~Has(to_server[z], ToOf(a)) /\ ~Has(to_client[a], FromOf(z)) /\ ~Stable(a, z)
<1>1. Places(a, z) = {}
  BY DEF PairInv
<1>. QED
  BY <1>1 DEF Places

LEMMA MetStays ==
    ASSUME Typed, RosterInv, [Next]_vars, NEW d \in Clients, Met(d)
    PROVE  Met(d)'
<1>0. ServerTypes
  BY DEF Typed
<1>1. ASSUME NEW c \in Clients, ServeClient(c) PROVE Met(d)'
  <2>1. CASE Talks(c)
    <3>1. phase[c] \in Entering /\ OthersKept(c)
      BY <1>0, <2>1, TalkEffect
    <3>. QED
      BY <3>1 DEF Met, Entering, OthersKept
  <2>2. CASE HandleIncoming(c)
    BY <2>2 DEF HandleIncoming, Met
  <2>3. CASE Disconnected(c)
    BY <1>0, <2>3 DEF Disconnected, Met, ServerTypes
  <2>4. CASE PakeCredentialFinalization(c) /\ phase'[c] = "member"
    <3>1. PICK id \in Ids : Joins(c, id)
      BY <1>0, <2>4, JoinEffect
    <3>. QED
      BY <1>0, <3>1 DEF Joins, Met, ServerTypes
  <2>. QED
    BY <1>1, <2>1, <2>2, <2>3, <2>4, ServeCases
<1>2. ASSUME NEW k \in Sockets, SocketOpen(k) PROVE Met(d)'
  <2>1. PageClient(k) \in Clients /\ RosterAt(k, PageClient(k))
    BY Domains DEF RosterInv
  <2>2. phase[PageClient(k)] = "none"
    BY <1>2, <2>1 DEF RosterAt, SocketOpen
  <2>. QED
    BY <1>0, <1>2, <2>2 DEF SocketOpen, Met, ServerTypes
<1>3. CASE AgentConnects
  <2>1. PICK n \in 1..MaxSessions : n = session_no + 1 /\ n > session_no
    BY <1>3, Domains DEF AgentConnects, Typed, AgentTypes
  <2>2. phase[<<"agent", n>>] = "none"
    BY <2>1 DEF RosterInv, Named
  <2>3. phase' = [phase EXCEPT ![<<"agent", n>>] = "init"]
    BY <1>3, <2>1 DEF AgentConnects
  <2>. QED
    BY <1>0, <2>2, <2>3 DEF Met, ServerTypes
<1>4. CASE phase' = phase
  BY <1>4 DEF Met
<1>5. CASE PageStep
  BY <1>2, <1>4, <1>5 DEF PageStep, getPakeBridge, StartLogin, PageMessage, SocketClose, SendAnswer
<1>6. CASE UserStep
  BY <1>4, <1>6 DEF UserStep, connect, Disconnect
<1>7. CASE AgentStep
  BY <1>3, <1>4, <1>7 DEF AgentStep, AgentMessage, AgentLost
<1>8. CASE RoomExpires \/ \E c \in Clients : LinkLost(c)
  BY <1>4, <1>8 DEF RoomExpires, LinkLost
<1>9. CASE UNCHANGED vars
  BY <1>4, <1>9 DEF vars, server_vars
<1>. QED
  BY <1>1, <1>5, <1>6, <1>7, <1>8, <1>9 DEF Next, SystemStep, Environment

\* Messages that are of no kind that counts.
LEMMA Uncounted ==
    ASSUME NEW c
    PROVE  /\ \A m : m.type \notin {"connected", "peer_joined", "signal"} => m \notin TellsOf(c) /\ m \notin FromOf(c)
           /\ \A m : m.type # "signal" => m \notin ToOf(c) /\ m \notin FromOf(c)
           /\ \A m : m.type = "signal" => m \notin TellsOf(c)
BY DEF TellsOf, FromOf, ToOf, Brings

\* What the pairs are about, for a step that leaves pages and agent alone.
LEMMA PairThinsServer ==
    ASSUME NEW a, NEW z, PairInv(a, z), Thins(a, z), UNCHANGED <<page_vars, agent_vars>>,
           Met(a) => Met(a)', Met(z) => Met(z)'
    PROVE  PairInv(a, z)'
<1>1. Answering(a, z)' => Answering(a, z)
  BY DEF Answering, page_vars
<1>2. Stable(a, z)' => Stable(a, z)
  BY DEF Stable, Me, agent_vars
<1>. QED
  BY <1>1, <1>2, PairThins

LEMMA PairTalks ==
    ASSUME ServerTypes, UNCHANGED <<page_vars, agent_vars>>, NEW c \in Clients, Talks(c),
           NEW a \in AgentClients, NEW z \in PageClients, PairInv(a, z), Met(a) => Met(a)', Met(z) => Met(z)'
    PROVE  PairInv(a, z)'
<1>1. /\ OthersKept(c) /\ Said(c) /\ to_server[c] # <<>> /\ to_server'[c] = Tail(to_server[c])
  BY TalkEffect
<1>2. ASSUME NEW d \in Clients, NEW S PROVE Shrinks(to_server'[d], to_server[d], S)
  <2>1. to_server[d] \in Seq(ToServer)
    BY DEF ServerTypes
  <2>2. to_server'[d] = to_server[d] \/ (to_server[d] # <<>> /\ to_server'[d] = Tail(to_server[d]))
    BY <1>1 DEF OthersKept
  <2>. QED
    BY <2>1, <2>2, ShrinksTail, ShrinksSame
<1>3. ASSUME NEW d \in Clients, NEW x PROVE /\ Shrinks(to_client'[d], to_client[d], TellsOf(x))
                                             /\ Shrinks(to_client'[d], to_client[d], FromOf(x))
  <2>1. to_client[d] \in Seq(ToClient)
    BY DEF ServerTypes
  <2>2. \/ to_client'[d] = to_client[d]
        \/ \E m \in ToClient : m.type \in LoginMessages \cup {"error"} /\ to_client'[d] = Append(to_client[d], m)
    BY <1>1, WordsTyped DEF OthersKept, Said, Error
  <2>3. \A m \in ToClient : m.type \in LoginMessages \cup {"error"} => m \notin TellsOf(x) /\ m \notin FromOf(x)
    BY Uncounted DEF LoginMessages
  <2>. QED
    BY <2>1, <2>2, <2>3, ShrinksAppend, ShrinksSame
<1>4. Thins(a, z)
  BY <1>2, <1>3, Domains DEF Thins
<1>. QED
  BY <1>4, PairThinsServer

LEMMA PairLeaves ==
    ASSUME ServerTypes, UNCHANGED <<page_vars, agent_vars>>, NEW c \in Clients, Leaves(c),
           NEW a \in AgentClients, NEW z \in PageClients, PairInv(a, z), Met(a) => Met(a)', Met(z) => Met(z)'
    PROVE  PairInv(a, z)'
<1>1. ASSUME NEW d \in Clients, NEW S PROVE Shrinks(to_server'[d], to_server[d], S)
  <2>1. to_server'[d] = to_server[d] \/ to_server'[d] = <<>>
    BY DEF Leaves
  <2>. QED
    BY <2>1, ShrinksSame
<1>2. ASSUME NEW d \in Clients, NEW x PROVE /\ Shrinks(to_client'[d], to_client[d], TellsOf(x))
                                             /\ Shrinks(to_client'[d], to_client[d], FromOf(x))
  <2>1. to_client[d] \in Seq(ToClient)
    BY DEF ServerTypes
  <2>2. PICK m \in ToClient : m = [type |-> "peer_left", id |-> ids[c]]
    BY WordsTyped DEF ServerTypes
  <2>3. to_client'[d] = to_client[d] \/ to_client'[d] = Append(to_client[d], m)
    BY <2>2 DEF Leaves
  <2>4. m \notin TellsOf(x) /\ m \notin FromOf(x)
    BY <2>2, Uncounted
  <2>. QED
    BY <2>1, <2>3, <2>4, ShrinksAppend, ShrinksSame
<1>3. Thins(a, z)
  BY <1>1, <1>2, Domains DEF Thins
<1>. QED
  BY <1>3, PairThinsServer

LEMMA PairJoins ==
    ASSUME ServerTypes, OwnIds, UNCHANGED <<page_vars, agent_vars>>, NEW c \in Clients, Joins(c, c),
           NEW a \in AgentClients, NEW z \in PageClients, PairInv(a, z), Met(a) => Met(a)', Met(z) => Met(z)'
    PROVE  PairInv(a, z)'
<1>1. ASSUME NEW d \in Clients, NEW S PROVE Shrinks(to_server'[d], to_server[d], S)
  <2>1. to_server[d] \in Seq(ToServer)
    BY DEF ServerTypes
  <2>2. to_server'[d] = to_server[d] \/ (to_server[d] # <<>> /\ to_server'[d] = Tail(to_server[d]))
    BY DEF Joins
  <2>. QED
    BY <2>1, <2>2, ShrinksTail, ShrinksSame
<1>2. PICK hello \in ToClient : hello = [type |-> "connected", peers |-> IdsOf(Opposite(c))]
  BY WordsTyped, IdsTyped
<1>3. PICK news \in ToClient : news = [type |-> "peer_joined", id |-> c]
  BY WordsTyped, Domains
<1>4. \A d \in Clients : to_client[d] \in Seq(ToClient)
  BY DEF ServerTypes
<1>5. /\ to_client'[c] = Append(to_client[c], hello)
      /\ \A d \in Clients \ {c} : to_client'[d] = IF d \in Opposite(c) /\ phase[d] = "member"
                                                 THEN Append(to_client[d], news) ELSE to_client[d]
      /\ phase[c] = "finalization"
  BY <1>2, <1>3 DEF Joins
<1>6. ASSUME NEW d \in Clients, NEW x PROVE Shrinks(to_client'[d], to_client[d], FromOf(x))
  <2>1. hello \notin FromOf(x) /\ news \notin FromOf(x)
    BY <1>2, <1>3, Uncounted
  <2>2. to_client'[d] = to_client[d] \/ to_client'[d] = Append(to_client[d], hello) \/ to_client'[d] = Append(to_client[d], news)
    BY <1>5
  <2>. QED
    BY <1>4, <2>1, <2>2, ShrinksAppend, ShrinksSame
<1>7. a \in Clients /\ z \in Clients
  BY Domains
<1>8. CASE c # a /\ c # z
  <2>1. news \notin TellsOf(z)
    BY <1>3, <1>8 DEF TellsOf, Brings
  <2>2. to_client'[a] = to_client[a] \/ to_client'[a] = Append(to_client[a], news)
    BY <1>5, <1>7, <1>8
  <2>3. Shrinks(to_client'[a], to_client[a], TellsOf(z))
    BY <1>4, <1>7, <2>1, <2>2, ShrinksAppend, ShrinksSame
  <2>4. Thins(a, z)
    BY <1>1, <1>6, <1>7, <2>3 DEF Thins
  <2>. QED
    BY <2>4, PairThinsServer
<1>9. CASE c = a \/ c = z
  <2>1. ~Met(a) \/ ~Met(z)
    BY <1>5, <1>9 DEF Met
  <2>2. /\ ~Has(to_client[a], TellsOf(z)) /\ ~Has(to_server[a], ToOf(z)) /\ ~Has(to_client[z], FromOf(a)) /\ ~Answering(a, z)
        /\ ~Has(to_server[z], ToOf(a)) /\ ~Has(to_client[a], FromOf(z)) /\ ~Stable(a, z)
    BY <2>1, NoPlace
  <2>3. \/ to_client'[a] = to_client[a] \/ to_client'[a] = Append(to_client[a], hello)
        \/ to_client'[a] = Append(to_client[a], news)
    BY <1>5, <1>7
  <2>4. Single(to_client'[a], TellsOf(z))
    BY <1>4, <1>7, <2>2, <2>3, ShrinksAppend DEF PairInv, Unique
  <2>5. /\ Shrinks(to_server'[a], to_server[a], ToOf(z)) /\ Shrinks(to_client'[z], to_client[z], FromOf(a))
        /\ Shrinks(to_server'[z], to_server[z], ToOf(a)) /\ Shrinks(to_client'[a], to_client[a], FromOf(z))
    BY <1>1, <1>6, <1>7
  <2>6. Unique(a, z)'
    BY <2>4, <2>5 DEF PairInv, Unique, Shrinks
  <2>7. /\ ~Has(to_server'[a], ToOf(z)) /\ ~Has(to_client'[z], FromOf(a))
        /\ ~Has(to_server'[z], ToOf(a)) /\ ~Has(to_client'[a], FromOf(z))
    BY <2>2, <2>5 DEF Shrinks
  <2>8. ~Answering(a, z)' /\ ~Stable(a, z)'
    BY <2>2 DEF Answering, Stable, Me, page_vars, agent_vars
  <2>9. \A p \in Places(a, z)' : p = "news" /\ Has(to_client'[a], TellsOf(z))
    BY <2>7, <2>8 DEF Places
  <2>10. CASE to_client'[a] = to_client[a]
    <3>1. Places(a, z)' = {}
      BY <2>2, <2>9, <2>10
    <3>. QED
      BY <2>6, <3>1 DEF PairInv
  <2>11. CASE to_client'[a] # to_client[a] /\ Has(to_client'[a], TellsOf(z))
    <3>1. Met(a)' /\ Met(z)'
      <4>1. phase'[c] = "member"
        BY DEF Joins, ServerTypes
      <4>2. CASE c = z
        <5>1. phase[a] = "member"
          BY <1>5, <1>7, <2>11, <4>2, Domains
        <5>. QED
          BY <4>1, <4>2, <5>1 DEF Met
      <4>3. CASE c = a
        <5>1. to_client'[a] = Append(to_client[a], hello) /\ ~Has(to_client[a], TellsOf(z))
          BY <1>5, <2>2, <4>3
        <5>2. hello \in TellsOf(z)
          BY <1>4, <1>7, <2>11, <5>1, ShrinksAppend DEF Shrinks
        <5>3. z \in IdsOf(Opposite(c))
          BY <1>2, <5>2 DEF TellsOf, Brings
        <5>4. PICK y \in Clients : phase[y] = "member" /\ z = ids[y]
          BY <5>3 DEF IdsOf, Members
        <5>5. phase[z] = "member"
          BY <5>4 DEF OwnIds
        <5>. QED
          BY <4>1, <4>3, <5>5 DEF Met
      <4>. QED
        BY <1>9, <4>2, <4>3
    <3>. QED
      BY <2>6, <2>9, <3>1 DEF PairInv
  <2>12. CASE ~Has(to_client'[a], TellsOf(z))
    <3>1. Places(a, z)' = {}
      BY <2>9, <2>12
    <3>. QED
      BY <2>6, <3>1 DEF PairInv
  <2>. QED
    BY <2>10, <2>11, <2>12
<1>. QED
  BY <1>8, <1>9

\* The server forwards the offer or the answer, or not.
LEMMA PairForwards ==
    ASSUME ServerTypes, OwnIds, UNCHANGED <<page_vars, agent_vars>>, NEW c \in Clients, Forwards(c),
           NEW a \in AgentClients, NEW z \in PageClients, PairInv(a, z), Met(a) => Met(a)', Met(z) => Met(z)'
    PROVE  PairInv(a, z)'
<1>0. a \in Clients /\ z \in Clients /\ a # z /\ ids[a] = a /\ ids[z] = z
  BY Domains DEF OwnIds
<1>1. ASSUME NEW d \in Clients, NEW S PROVE Shrinks(to_server'[d], to_server[d], S)
  <2>1. to_server[d] \in Seq(ToServer)
    BY DEF ServerTypes
  <2>2. to_server'[d] = to_server[d] \/ (to_server[d] # <<>> /\ to_server'[d] = Tail(to_server[d]))
    BY DEF Forwards
  <2>. QED
    BY <2>1, <2>2, ShrinksTail, ShrinksSame
<1>2. \A d \in Clients : to_client[d] \in Seq(ToClient)
  BY DEF ServerTypes
<1>3. PICK m \in ToServer : m = Head(to_server[c])
  BY PlainTail DEF Forwards, ServerTypes
<1>4. ids[c] = c
  BY DEF OwnIds
<1>5. PICK w : w = [type |-> "signal", from |-> c, payload |-> m.payload]
  OBVIOUS
<1>6. m.type = "signal" => w \in ToClient
  BY <1>3, <1>5, RequestKinds, WordsTyped, Domains
<1>7. Error \in ToClient
  BY WordsTyped
<1>8. ASSUME NEW d \in Clients
      PROVE  \/ to_client'[d] = to_client[d]
             \/ to_client'[d] = Append(to_client[d], Error)
             \/ /\ d \in Opposite(c) /\ m.type = "signal" /\ m.to = d
                /\ to_client'[d] = Append(to_client[d], w)
  <2>1. ids[d] = d
    BY DEF OwnIds
  <2>. QED
    BY <1>3, <1>4, <1>5, <2>1 DEF Forwards
<1>9. \A x : Error \notin TellsOf(x) /\ Error \notin FromOf(x) /\ w \notin TellsOf(x)
  BY <1>5, Uncounted DEF Error
<1>10. Shrinks(to_client'[a], to_client[a], TellsOf(z))
  BY <1>0, <1>2, <1>6, <1>7, <1>8, <1>9, ShrinksAppend, ShrinksSame
<1>11. ~Answering(a, z) => ~Answering(a, z)'
  BY DEF Answering, page_vars
<1>12. ~Stable(a, z) => ~Stable(a, z)'
  BY DEF Stable, Me, agent_vars
<1>13. /\ to_server[c] # <<>> /\ to_server'[c] = Tail(to_server[c]) /\ to_server[c] \in Seq(ToServer)
       /\ \A S : Head(to_server[c]) \in S => Has(to_server[c], S)
       /\ \A S : Head(to_server[c]) \in S /\ Single(to_server[c], S) => ~Has(to_server'[c], S)
  <2>1. to_server[c] # <<>> /\ to_server'[c] = Tail(to_server[c]) /\ to_server[c] \in Seq(ToServer)
    BY DEF Forwards, ServerTypes
  <2>. QED
    BY <2>1, ShrinksTail
<1>14. CASE c = a /\ m.type = "signal" /\ m.to = z /\ to_client'[z] = Append(to_client[z], w)
  <2>1. m \in ToOf(z)
    BY <1>14 DEF ToOf
  <2>2. Has(to_server[a], ToOf(z)) /\ ~Has(to_server'[a], ToOf(z))
    BY <1>3, <1>13, <1>14, <2>1 DEF PairInv, Unique
  <2>3. /\ "offered" \in Places(a, z) /\ ~Has(to_client[a], TellsOf(z)) /\ ~Has(to_client[z], FromOf(a)) /\ ~Answering(a, z)
        /\ ~Has(to_server[z], ToOf(a)) /\ ~Has(to_client[a], FromOf(z)) /\ ~Stable(a, z)
    BY <2>2, OnePlace
  <2>4. Single(to_client'[z], FromOf(a))
    BY <1>0, <1>2, <1>6, <1>14, <2>3, ShrinksAppend
  <2>5. Shrinks(to_client'[a], to_client[a], FromOf(z))
    <3>1. a \notin Opposite(c)
      BY <1>0, <1>14, NotOpposite
    <3>. QED
      BY <1>0, <1>2, <1>7, <1>8, <1>9, <3>1, ShrinksAppend, ShrinksSame
  <2>6. Unique(a, z)'
    BY <1>0, <1>1, <1>10, <2>4, <2>5 DEF PairInv, Unique, Shrinks
  <2>7. /\ ~Has(to_client'[a], TellsOf(z)) /\ ~Has(to_server'[z], ToOf(a)) /\ ~Has(to_client'[a], FromOf(z))
    BY <1>0, <1>1, <1>10, <2>3, <2>5 DEF Shrinks
  <2>8. \A q \in Places(a, z)' : q = "offer"
    BY <1>11, <1>12, <2>2, <2>3, <2>7 DEF Places
  <2>. QED
    BY <2>3, <2>6, <2>8, PairMoves
<1>15. CASE c = z /\ m.type = "signal" /\ m.to = a /\ to_client'[a] = Append(to_client[a], w)
  <2>1. m \in ToOf(a)
    BY <1>15 DEF ToOf
  <2>2. Has(to_server[z], ToOf(a)) /\ ~Has(to_server'[z], ToOf(a))
    BY <1>3, <1>13, <1>15, <2>1 DEF PairInv, Unique
  <2>3. /\ "answered" \in Places(a, z) /\ ~Has(to_client[a], TellsOf(z)) /\ ~Has(to_server[a], ToOf(z)) /\ ~Has(to_client[z], FromOf(a))
        /\ ~Answering(a, z) /\ ~Has(to_client[a], FromOf(z)) /\ ~Stable(a, z)
    BY <2>2, OnePlace
  <2>4. Single(to_client'[a], FromOf(z))
    BY <1>0, <1>2, <1>6, <1>15, <2>3, ShrinksAppend
  <2>5. Shrinks(to_client'[z], to_client[z], FromOf(a))
    <3>1. z \notin Opposite(c)
      BY <1>0, <1>15, NotOpposite
    <3>. QED
      BY <1>0, <1>2, <1>7, <1>8, <1>9, <3>1, ShrinksAppend, ShrinksSame
  <2>6. Unique(a, z)'
    BY <1>0, <1>1, <1>10, <2>4, <2>5 DEF PairInv, Unique, Shrinks
  <2>7. /\ ~Has(to_client'[a], TellsOf(z)) /\ ~Has(to_server'[a], ToOf(z)) /\ ~Has(to_client'[z], FromOf(a))
    BY <1>0, <1>1, <1>10, <2>3, <2>5 DEF Shrinks
  <2>8. \A q \in Places(a, z)' : q = "answer"
    BY <1>11, <1>12, <2>2, <2>3, <2>7 DEF Places
  <2>. QED
    BY <2>3, <2>6, <2>8, PairMoves
<1>16. CASE /\ ~(c = a /\ m.type = "signal" /\ m.to = z /\ to_client'[z] = Append(to_client[z], w))
            /\ ~(c = z /\ m.type = "signal" /\ m.to = a /\ to_client'[a] = Append(to_client[a], w))
  <2>1. Shrinks(to_client'[z], to_client[z], FromOf(a))
    <3>1. c # a => w \notin FromOf(a)
      BY <1>5 DEF FromOf
    <3>. QED
      BY <1>0, <1>2, <1>6, <1>7, <1>8, <1>9, <1>16, <3>1, ShrinksAppend, ShrinksSame
  <2>2. Shrinks(to_client'[a], to_client[a], FromOf(z))
    <3>1. c # z => w \notin FromOf(z)
      BY <1>5 DEF FromOf
    <3>. QED
      BY <1>0, <1>2, <1>6, <1>7, <1>8, <1>9, <1>16, <3>1, ShrinksAppend, ShrinksSame
  <2>3. Thins(a, z)
    BY <1>0, <1>1, <1>10, <2>1, <2>2 DEF Thins
  <2>. QED
    BY <2>3, PairThinsServer
<1>. QED
  BY <1>14, <1>15, <1>16

LEMMA PairServe ==
    ASSUME ~Aliased, Typed, OwnIds, UNCHANGED <<page_vars, agent_vars>>, NEW c \in Clients, ServeClient(c),
           NEW a \in AgentClients, NEW z \in PageClients, PairInv(a, z), Met(a) => Met(a)', Met(z) => Met(z)'
    PROVE  PairInv(a, z)'
<1>1. ServerTypes
  BY DEF Typed
<1>2. CASE Talks(c)
  BY <1>1, <1>2, PairTalks
<1>3. CASE HandleIncoming(c)
  BY <1>1, <1>3, ForwardEffect, PairForwards
<1>4. CASE Disconnected(c)
  BY <1>1, <1>4, LeaveEffect, PairLeaves
<1>5. CASE PakeCredentialFinalization(c) /\ phase'[c] = "member"
  <2>1. PICK id \in Ids : Joins(c, id)
    BY <1>1, <1>5, JoinEffect
  <2>2. id = c
    BY <2>1 DEF Joins
  <2>3. Joins(c, c)
    BY <2>1, <2>2
  <2>. QED
    BY <1>1, <2>3, PairJoins
<1>. QED
  BY <1>2, <1>3, <1>4, <1>5, ServeCases

\* The page.
LEMMA PairPlain ==
    ASSUME Typed, UNCHANGED agent_vars, NEW a \in AgentClients, NEW z \in PageClients, PairInv(a, z),
           to_client' = to_client, Answering(a, z)' => Answering(a, z),
           \/ to_server' = to_server
           \/ \E c \in Clients, w \in ToServer : w.type # "signal" /\ to_server' = Deliver(to_server, c, w),
           Met(a) => Met(a)', Met(z) => Met(z)'
    PROVE  PairInv(a, z)'
<1>0. a \in Clients /\ z \in Clients
  BY Domains
<1>1. ASSUME NEW d \in Clients, NEW x PROVE Shrinks(to_server'[d], to_server[d], ToOf(x))
  <2>1. to_server[d] \in Seq(ToServer)
    BY DEF Typed, ServerTypes
  <2>2. \/ to_server'[d] = to_server[d]
        \/ \E w \in ToServer : w.type # "signal" /\ to_server'[d] = Append(to_server[d], w)
    BY DEF Deliver, Typed, ServerTypes
  <2>. QED
    BY <2>1, <2>2, Uncounted, ShrinksAppend, ShrinksSame
<1>2. Thins(a, z)
  BY <1>0, <1>1, ShrinksSame DEF Thins
<1>3. Stable(a, z)' => Stable(a, z)
  BY DEF Stable, Me, agent_vars
<1>. QED
  BY <1>2, <1>3, PairThins

LEMMA PairPageMessage ==
    ASSUME Typed, Shapes, UNCHANGED agent_vars, NEW k \in Sockets, PageMessage(k),
           NEW a \in AgentClients, NEW z \in PageClients, PairInv(a, z), Met(a) => Met(a)', Met(z) => Met(z)'
    PROVE  PairInv(a, z)'
<1>0. a \in Clients /\ z \in Clients /\ a \in Ids
  BY Domains
<1>1. PICK y \in PageClients : y = PageClient(k) /\ y \in Clients /\ y \notin AgentClients
  BY Domains
<1>2. /\ to_client[y] # <<>> /\ to_client'[y] = Tail(to_client[y])
      /\ \A d \in Clients \ {y} : to_client'[d] = to_client[d]
      /\ to_client[y] \in Seq(ToClient) /\ to_client[y] \in Seq(Receivable(y))
      /\ socket' = socket /\ socket = k /\ socket # 0
  BY <1>1, Domains DEF PageMessage, Typed, ServerTypes, SocketInv, OneSocket, Alive, Sockets, Shapes, QueueShapes
<1>3. PICK m \in Receivable(y) : m = Head(to_client[y])
  BY <1>2, PlainTail
<1>4. m \in ToClient
  BY <1>3 DEF Receivable
<1>5. ASSUME NEW d \in Clients, NEW S PROVE Shrinks(to_client'[d], to_client[d], S)
  BY <1>2, ShrinksTail, ShrinksSame
<1>6. Stable(a, z)' => Stable(a, z)
  BY DEF Stable, Me, agent_vars
<1>7. CASE auth_state # 0
  <2>1. handleAuthMessage(m)
    BY <1>1, <1>3, <1>7 DEF PageMessage
  <2>2. /\ connection' = connection
        /\ \/ to_server' = to_server
           \/ \E w \in ToServer : w.type # "signal" /\ to_server' = Deliver(to_server, PageClient(socket), w)
    BY <1>2, <1>4, <1>7, <2>1, AuthSends
  <2>3. ASSUME NEW d \in Clients, NEW x PROVE Shrinks(to_server'[d], to_server[d], ToOf(x))
    <3>1. to_server[d] \in Seq(ToServer)
      BY DEF Typed, ServerTypes
    <3>2. \/ to_server'[d] = to_server[d]
          \/ \E w \in ToServer : w.type # "signal" /\ to_server'[d] = Append(to_server[d], w)
      BY <2>2 DEF Deliver, Typed, ServerTypes
    <3>. QED
      BY <3>1, <3>2, Uncounted, ShrinksAppend, ShrinksSame
  <2>4. Thins(a, z)
    BY <1>0, <1>5, <2>3 DEF Thins
  <2>5. Answering(a, z)' => Answering(a, z)
    BY <1>2, <2>2 DEF Answering
  <2>. QED
    BY <1>6, <2>4, <2>5, PairThins
<1>8. CASE auth_state = 0
  <2>1. handleServerMessage(m)
    BY <1>1, <1>3, <1>8 DEF PageMessage
  <2>2. /\ to_server' = to_server
        /\ \/ /\ m.type = "signal" /\ m.from = a
              /\ connection'[a] = [offer |-> m.payload, answered |-> FALSE]
           \/ connection'[a] = NoConnection
           \/ connection'[a] = connection[a]
    BY <1>0, <1>4, <2>1, ServerMessageConnection
  <2>3. Thins(a, z)
    BY <1>0, <1>5, <2>2, ShrinksSame DEF Thins
  <2>4. CASE connection'[a] = NoConnection \/ connection'[a] = connection[a] \/ y # z
    <3>1. Answering(a, z)' => Answering(a, z)
      BY <1>1, <1>2, <2>4 DEF Answering, NoConnection
    <3>. QED
      BY <1>6, <2>3, <3>1, PairThins
  <2>5. CASE m.type = "signal" /\ m.from = a /\ y = z
    <3>1. m \in FromOf(a)
      BY <1>4, <2>5 DEF FromOf
    <3>2. Has(to_client[z], FromOf(a)) /\ ~Has(to_client'[z], FromOf(a))
      BY <1>2, <1>3, <2>5, <3>1, ShrinksTail DEF PairInv, Unique
    <3>3. /\ "offer" \in Places(a, z) /\ ~Has(to_client[a], TellsOf(z)) /\ ~Has(to_server[a], ToOf(z)) /\ ~Answering(a, z)
          /\ ~Has(to_server[z], ToOf(a)) /\ ~Has(to_client[a], FromOf(z)) /\ ~Stable(a, z)
      BY <3>2, OnePlace
    <3>4. Unique(a, z)'
      BY <2>3 DEF PairInv, Unique, Thins, Shrinks
    <3>5. /\ ~Has(to_client'[a], TellsOf(z)) /\ ~Has(to_server'[a], ToOf(z))
          /\ ~Has(to_server'[z], ToOf(a)) /\ ~Has(to_client'[a], FromOf(z)) /\ ~Stable(a, z)'
      BY <1>6, <2>3, <3>3 DEF Thins, Shrinks
    <3>6. \A q \in Places(a, z)' : q = "answering"
      BY <3>2, <3>5 DEF Places
    <3>. QED
      BY <3>3, <3>4, <3>6, PairMoves
  <2>. QED
    BY <2>2, <2>4, <2>5
<1>. QED
  BY <1>7, <1>8

LEMMA PairSendAnswer ==
    ASSUME Typed, Shapes, UNCHANGED agent_vars, NEW id \in Ids, SendAnswer(id),
           NEW a \in AgentClients, NEW z \in PageClients, PairInv(a, z), Met(a) => Met(a)', Met(z) => Met(z)'
    PROVE  PairInv(a, z)'
<1>0. a \in Clients /\ z \in Clients /\ a \in Ids
  BY Domains
<1>1. /\ to_client' = to_client /\ socket' = socket
      /\ connection[id].offer # <<>> /\ ~connection[id].answered
      /\ connection' = [connection EXCEPT ![id].answered = TRUE]
  BY DEF SendAnswer
<1>2. /\ id \in AgentClients /\ socket # 0
  BY <1>1 DEF Shapes, ConnectionShape
<1>3. PICK y \in PageClients : y = PageClient(socket) /\ y \in Clients
  BY <1>2, Domains DEF Typed, PageTypes, Sockets
<1>4. PICK w \in ToServer : w = [type |-> "signal", to |-> id, payload |-> connection[id].offer]
  <2>1. connection[id].offer \in Offers
    BY <1>1 DEF Typed, PageTypes, Connections
  <2>. QED
    BY <2>1 DEF ToServer, Signals
<1>5. to_server' = to_server \/ to_server' = Deliver(to_server, y, w)
  BY <1>3, <1>4 DEF SendAnswer
<1>6. /\ to_server[y] \in Seq(ToServer) /\ to_server[a] \in Seq(ToServer) /\ to_server[z] \in Seq(ToServer)
      /\ \A d \in Clients \ {y} : to_server'[d] = to_server[d]
      /\ to_server'[y] = to_server[y] \/ to_server'[y] = Append(to_server[y], w)
  BY <1>0, <1>3, <1>5 DEF Deliver, Typed, ServerTypes
<1>7. a # y /\ to_server'[a] = to_server[a]
  BY <1>0, <1>3, <1>6, Domains
<1>8. connection \in [Ids -> Connections]
  BY DEF Typed, PageTypes
<1>9. Stable(a, z)' => Stable(a, z)
  BY DEF Stable, Me, agent_vars
<1>10. CASE a = id /\ y = z
  <2>1. Answering(a, z)
    BY <1>1, <1>2, <1>3, <1>10 DEF Answering
  <2>2. /\ "answering" \in Places(a, z) /\ ~Has(to_client[a], TellsOf(z)) /\ ~Has(to_server[a], ToOf(z)) /\ ~Has(to_client[z], FromOf(a))
        /\ ~Has(to_server[z], ToOf(a)) /\ ~Has(to_client[a], FromOf(z)) /\ ~Stable(a, z)
    BY <2>1, OnePlace
  <2>3. ~Answering(a, z)'
    BY <1>0, <1>1, <1>8, <1>10 DEF Answering, Connections
  <2>4. Single(to_server'[z], ToOf(a))
    <3>1. Single(to_server[z], ToOf(a))
      BY DEF PairInv, Unique
    <3>2. Single(Append(to_server[z], w), ToOf(a))
      BY <1>6, <2>2, ShrinksAppend
    <3>3. to_server'[z] = to_server[z] \/ to_server'[z] = Append(to_server[z], w)
      BY <1>6, <1>10
    <3>. QED
      BY <3>1, <3>2, <3>3
  <2>5. Unique(a, z)'
    BY <1>1, <1>7, <2>4 DEF PairInv, Unique
  <2>6. \A q \in Places(a, z)' : q = "answered"
    BY <1>1, <1>7, <1>9, <2>2, <2>3 DEF Places
  <2>. QED
    BY <2>2, <2>5, <2>6, PairMoves
<1>11. CASE a # id \/ y # z
  <2>1. w \in ToOf(a) => y # z
    BY <1>4, <1>11 DEF ToOf
  <2>2. Shrinks(to_server'[z], to_server[z], ToOf(a))
    BY <1>0, <1>6, <2>1, ShrinksAppend, ShrinksSame
  <2>3. Thins(a, z)
    BY <1>1, <1>7, <2>2, ShrinksSame DEF Thins
  <2>4. connection'[a].offer = connection[a].offer /\ (connection[a].answered => connection'[a].answered)
    BY <1>0, <1>1, <1>8 DEF Connections
  <2>5. Answering(a, z)' => Answering(a, z)
    BY <1>1, <2>4 DEF Answering
  <2>. QED
    BY <1>9, <2>3, <2>5, PairThins
<1>. QED
  BY <1>10, <1>11

LEMMA PairPage ==
    ASSUME Typed, Shapes, UNCHANGED agent_vars, PageStep \/ UserStep,
           NEW a \in AgentClients, NEW z \in PageClients, PairInv(a, z), Met(a) => Met(a)', Met(z) => Met(z)'
    PROVE  PairInv(a, z)'
<1>0. a \in Clients /\ z \in Clients /\ a \in Ids
  BY Domains
<1>1. ASSUME NEW k \in Sockets, SocketOpen(k) \/ getPakeBridge(k) PROVE PairInv(a, z)'
  <2>1. to_client' = to_client /\ to_server' = to_server /\ socket' = socket /\ connection' = connection
    BY <1>1 DEF SocketOpen, getPakeBridge
  <2>2. Answering(a, z)' => Answering(a, z)
    BY <2>1 DEF Answering
  <2>. QED
    BY <2>1, <2>2, PairPlain
<1>2. ASSUME NEW k \in Sockets, StartLogin(k) PROVE PairInv(a, z)'
  <2>1. to_client' = to_client /\ socket' = socket /\ connection' = connection
    BY <1>2 DEF StartLogin
  <2>2. Answering(a, z)' => Answering(a, z)
    BY <2>1 DEF Answering
  <2>3. CASE to_server' = to_server
    BY <2>1, <2>2, <2>3, PairPlain
  <2>4. CASE to_server' # to_server
    <3>1. socket # 0 /\ PageClient(socket) \in Clients
      BY <1>2, <2>4, Domains DEF StartLogin, Typed, PageTypes, Sockets
    <3>2. PICK r : r = CredentialRequest(PageClient(k), start_login(sessions[k]))
      OBVIOUS
    <3>3. start_login(sessions[k]) \in Session
      BY SessionTypes DEF Typed, PageTypes
    <3>4. r \in Requests
      BY <3>2, <3>3, SessionTypes, Domains DEF CredentialRequest, Requests
    <3>5. PICK w \in ToServer : w = [type |-> "init", request |-> r]
      BY <3>4 DEF ToServer, Logins
    <3>6. to_server' = Deliver(to_server, PageClient(socket), w) /\ w.type # "signal"
      BY <1>2, <2>4, <3>2, <3>5 DEF StartLogin
    <3>. QED
      BY <2>1, <2>2, <3>1, <3>6, PairPlain
  <2>. QED
    BY <2>3, <2>4
<1>3. ASSUME NEW k \in Sockets, SocketClose(k) PROVE PairInv(a, z)'
  <2>1. to_server' = to_server /\ socket' = 0
    BY <1>3 DEF SocketClose
  <2>2. \A d \in Clients : to_client'[d] = to_client[d] \/ to_client'[d] = <<>>
    BY <1>3 DEF SocketClose, Typed, ServerTypes
  <2>3. Thins(a, z)
    BY <1>0, <2>1, <2>2, ShrinksSame DEF Thins
  <2>4. ~Answering(a, z)'
    BY <2>1 DEF Answering
  <2>5. Stable(a, z)' => Stable(a, z)
    BY DEF Stable, Me, agent_vars
  <2>. QED
    BY <2>3, <2>4, <2>5, PairThins
<1>4. ASSUME connect PROVE PairInv(a, z)'
  <2>1. to_client' = to_client /\ to_server' = to_server /\ forgetAgents(peers)
    BY <1>4 DEF connect
  <2>2. ~Answering(a, z)'
    BY <1>0, <2>1, AllForgotten DEF Shapes, Answering
  <2>. QED
    BY <2>1, <2>2, PairPlain
<1>5. ASSUME Disconnect PROVE PairInv(a, z)'
  <2>1. to_client' = to_client /\ to_server' = to_server /\ socket' = socket /\ connection' = connection
    BY <1>5 DEF Disconnect
  <2>2. Answering(a, z)' => Answering(a, z)
    BY <2>1 DEF Answering
  <2>. QED
    BY <2>1, <2>2, PairPlain
<1>6. CASE PageStep
  BY <1>1, <1>2, <1>3, <1>6, PairPageMessage, PairSendAnswer DEF PageStep
<1>7. CASE UserStep
  BY <1>4, <1>5, <1>7 DEF UserStep
<1>. QED
  BY <1>6, <1>7

\* The agent.
LEMMA PairConnects ==
    ASSUME Typed, AgentConnects, UNCHANGED page_vars,
           NEW a \in AgentClients, NEW z \in PageClients, PairInv(a, z), Met(a) => Met(a)', Met(z) => Met(z)'
    PROVE  PairInv(a, z)'
<1>0. a \in Clients /\ z \in Clients /\ z \in Ids
  BY Domains
<1>1. PICK n \in 1..MaxSessions : n = session_no + 1
  BY Domains DEF AgentConnects, Typed, AgentTypes
<1>2. PICK c \in Clients : c = <<"agent", n>>
  BY <1>1, Domains
<1>3. start_login(ClientSession) \in Session
  <2>1. ClientSession \in Session
    BY DEF ClientSession, Session
  <2>. QED
    BY <2>1, SessionTypes
<1>4. PICK r \in Requests : r = CredentialRequest(c, start_login(ClientSession))
  BY <1>3, SessionTypes DEF CredentialRequest, Requests
<1>5. PICK w \in ToServer : w = [type |-> "init", request |-> r]
  BY DEF ToServer, Logins
<1>6. /\ to_server' = Deliver(to_server, c, w) /\ to_client' = to_client
      /\ agent_peers' = FreshPeers
  BY <1>1, <1>2, <1>4, <1>5 DEF AgentConnects
<1>7. ASSUME NEW d \in Clients, NEW x PROVE Shrinks(to_server'[d], to_server[d], ToOf(x))
  <2>1. to_server[d] \in Seq(ToServer)
    BY DEF Typed, ServerTypes
  <2>2. to_server'[d] = to_server[d] \/ to_server'[d] = Append(to_server[d], w)
    BY <1>6 DEF Deliver, Typed, ServerTypes
  <2>3. w \notin ToOf(x)
    BY <1>5, Uncounted
  <2>. QED
    BY <2>1, <2>2, <2>3, ShrinksAppend, ShrinksSame
<1>8. Thins(a, z)
  BY <1>0, <1>6, <1>7, ShrinksSame DEF Thins
<1>9. ~Stable(a, z)'
  BY <1>0, <1>6 DEF Stable, FreshPeers, NoPeer
<1>10. Answering(a, z)' => Answering(a, z)
  BY DEF Answering, page_vars
<1>. QED
  BY <1>8, <1>9, <1>10, PairThins

LEMMA PairLost ==
    ASSUME Typed, AgentLost, UNCHANGED page_vars,
           NEW a \in AgentClients, NEW z \in PageClients, PairInv(a, z), Met(a) => Met(a)', Met(z) => Met(z)'
    PROVE  PairInv(a, z)'
<1>0. a \in Clients /\ z \in Clients /\ z \in Ids
  BY Domains
<1>1. to_server' = to_server /\ agent_peers' = FreshPeers
  BY DEF AgentLost
<1>2. \A d \in Clients : to_client'[d] = to_client[d] \/ to_client'[d] = <<>>
  BY DEF AgentLost, Typed, ServerTypes
<1>3. Thins(a, z)
  BY <1>0, <1>1, <1>2, ShrinksSame DEF Thins
<1>4. ~Stable(a, z)'
  BY <1>0, <1>1 DEF Stable, FreshPeers, NoPeer
<1>5. Answering(a, z)' => Answering(a, z)
  BY DEF Answering, page_vars
<1>. QED
  BY <1>3, <1>4, <1>5, PairThins

\* A message makes a pair stable if it is the answer, and an offer of it only
\* if it brings the news of the page; then no other message of the pair is
\* anywhere.
LEMMA PairAgentMessage ==
    ASSUME Typed, Shapes, AgentMessage, UNCHANGED page_vars,
           NEW a \in AgentClients, NEW z \in PageClients, PairInv(a, z), Met(a) => Met(a)', Met(z) => Met(z)'
    PROVE  PairInv(a, z)'
<1>0. a \in Clients /\ z \in Clients /\ z \in Ids /\ a # z
  BY Domains
<1>1. Me \in AgentClients /\ Me \in Clients /\ session_no' = session_no
  BY Domains DEF Me, AgentMessage, Typed, AgentTypes
<1>2. z # Me /\ Me' = Me
  BY <1>1, Domains DEF Me
<1>3. PICK m \in Receivable(Me), s \in Seq(Sendable(Me)) :
          /\ m = Head(to_client[Me])
          /\ to_server' = [to_server EXCEPT ![Me] = @ \o s]
          /\ \/ agent_peers'[z] = agent_peers[z]
             \/ agent_peers'[z].state # "stable"
             \/ m.type = "signal" /\ m.from = z
          /\ \A i \in 1..Len(s) : s[i].type = "signal" =>
                 /\ s[i].to \in Brings(m) /\ m.type \in {"connected", "peer_joined"}
                 /\ agent_peers'[s[i].to].state # "stable"
          /\ \A i, j \in 1..Len(s) : s[i].type = "signal" /\ s[j].type = "signal" /\ s[i].to = s[j].to => i = j
  BY <1>0, AgentSends
<1>4. m \in ToClient
  BY <1>3 DEF Receivable
<1>5. /\ to_client[Me] # <<>> /\ to_client'[Me] = Tail(to_client[Me])
      /\ \A d \in Clients \ {Me} : to_client'[d] = to_client[d]
      /\ to_server'[Me] = to_server[Me] \o s /\ \A d \in Clients \ {Me} : to_server'[d] = to_server[d]
  BY <1>1, <1>3 DEF AgentMessage, Typed, ServerTypes
<1>6. to_client[Me] \in Seq(Receivable(Me)) /\ to_server[Me] \in Seq(Sendable(Me))
  BY <1>1 DEF Shapes, QueueShapes
<1>7. ASSUME NEW d \in Clients, NEW S PROVE Shrinks(to_client'[d], to_client[d], S)
  <2>1. CASE d = Me
    BY <1>5, <1>6, <2>1, ShrinksTail
  <2>2. CASE d # Me
    BY <1>5, <2>2, ShrinksSame
  <2>. QED
    BY <2>1, <2>2
<1>8. Answering(a, z)' => Answering(a, z)
  BY DEF Answering, page_vars
<1>9. to_client'[z] = to_client[z] /\ to_server'[z] = to_server[z]
  BY <1>0, <1>2, <1>5
<1>10. CASE a # Me
  <2>1. to_server'[a] = to_server[a]
    BY <1>0, <1>5, <1>10
  <2>2. Thins(a, z)
    BY <1>0, <1>7, <1>9, <2>1, ShrinksSame DEF Thins
  <2>3. ~Stable(a, z)'
    BY <1>2, <1>10 DEF Stable
  <2>. QED
    BY <1>8, <2>2, <2>3, PairThins
<1>11. CASE a = Me /\ ~Has(s, ToOf(z))
  <2>1. Shrinks(to_server'[a], to_server[a], ToOf(z))
    BY <1>5, <1>6, <1>11, ShrinksConcat
  <2>2. Thins(a, z)
    BY <1>0, <1>7, <1>9, <2>1, ShrinksSame DEF Thins
  <2>3. CASE Stable(a, z)' => Stable(a, z)
    BY <1>8, <2>2, <2>3, PairThins
  <2>4. CASE Stable(a, z)' /\ ~Stable(a, z)
    <3>1. m.type = "signal" /\ m.from = z
      BY <1>2, <1>3, <2>4 DEF Stable
    <3>2. m \in FromOf(z)
      BY <1>4, <3>1 DEF FromOf
    <3>3. Has(to_client[a], FromOf(z))
      BY <1>3, <1>5, <1>6, <1>11, <3>2, ShrinksTail
    <3>4. Single(to_client[a], FromOf(z))
      BY DEF PairInv, Unique
    <3>5. ~Has(to_client'[a], FromOf(z))
      BY <1>3, <1>5, <1>6, <1>11, <3>2, <3>4, ShrinksTail
    <3>6. /\ "answer" \in Places(a, z) /\ ~Has(to_client[a], TellsOf(z)) /\ ~Has(to_server[a], ToOf(z)) /\ ~Has(to_client[z], FromOf(a))
          /\ ~Answering(a, z) /\ ~Has(to_server[z], ToOf(a))
      BY <3>3, OnePlace
    <3>7. Unique(a, z)'
      BY <2>2 DEF PairInv, Unique, Thins, Shrinks
    <3>8. /\ ~Has(to_client'[a], TellsOf(z)) /\ ~Has(to_server'[a], ToOf(z)) /\ ~Has(to_client'[z], FromOf(a))
          /\ ~Has(to_server'[z], ToOf(a)) /\ ~Answering(a, z)'
      BY <1>8, <2>2, <3>6 DEF Thins, Shrinks
    <3>9. \A q \in Places(a, z)' : q = "stable"
      BY <3>5, <3>8 DEF Places
    <3>. QED
      BY <3>6, <3>7, <3>9, PairMoves
  <2>. QED
    BY <2>3, <2>4
<1>12. CASE a = Me /\ Has(s, ToOf(z))
  <2>1. PICK i \in 1..Len(s) : s[i].type = "signal" /\ s[i].to = z
    BY <1>12 DEF Has, ToOf
  <2>2. z \in Brings(m) /\ m.type # "signal" /\ agent_peers'[z].state # "stable"
    BY <1>3, <2>1
  <2>3. m \in TellsOf(z)
    BY <1>4, <2>2 DEF TellsOf
  <2>4. Has(to_client[a], TellsOf(z))
    BY <1>3, <1>5, <1>6, <1>12, <2>3, ShrinksTail
  <2>5. Single(to_client[a], TellsOf(z))
    BY DEF PairInv, Unique
  <2>6. ~Has(to_client'[a], TellsOf(z))
    BY <1>3, <1>5, <1>6, <1>12, <2>3, <2>5, ShrinksTail
  <2>7. /\ "news" \in Places(a, z) /\ ~Has(to_server[a], ToOf(z)) /\ ~Has(to_client[z], FromOf(a)) /\ ~Answering(a, z)
        /\ ~Has(to_server[z], ToOf(a)) /\ ~Has(to_client[a], FromOf(z))
    BY <2>4, OnePlace
  <2>8. Single(s, ToOf(z))
    BY <1>3 DEF Single, ToOf
  <2>9. Single(to_server'[a], ToOf(z))
    BY <1>5, <1>6, <1>12, <2>7, <2>8, ShrinksConcat
  <2>10. /\ Shrinks(to_client'[a], to_client[a], TellsOf(z)) /\ Shrinks(to_client'[a], to_client[a], FromOf(z))
    BY <1>0, <1>7
  <2>11. Unique(a, z)'
    BY <1>9, <2>9, <2>10 DEF PairInv, Unique, Shrinks
  <2>12. /\ ~Has(to_client'[z], FromOf(a)) /\ ~Has(to_server'[z], ToOf(a)) /\ ~Has(to_client'[a], FromOf(z))
         /\ ~Answering(a, z)' /\ ~Stable(a, z)'
    BY <1>8, <1>9, <2>2, <2>7, <2>10 DEF Shrinks, Stable
  <2>13. \A q \in Places(a, z)' : q = "offered"
    BY <2>6, <2>12 DEF Places
  <2>. QED
    BY <2>7, <2>11, <2>13, PairMoves
<1>. QED
  BY <1>10, <1>11, <1>12

LEMMA PairsNext ==
    ASSUME ~Aliased, Typed, RosterInv, Shapes, PairsInv, [Next]_vars
    PROVE  PairsInv'
<1> SUFFICES ASSUME NEW a \in AgentClients, NEW z \in PageClients
             PROVE  PairInv(a, z)'
  BY DEF PairsInv
<1>0. PairInv(a, z) /\ OwnIds
  BY DEF PairsInv, Shapes
<1>1. (Met(a) => Met(a)') /\ (Met(z) => Met(z)')
  BY MetStays, Domains
<1>2. CASE (\E c \in Clients : ServeClient(c)) /\ UNCHANGED <<page_vars, agent_vars>>
  BY <1>0, <1>1, <1>2, PairServe
<1>3. CASE (PageStep \/ UserStep) /\ UNCHANGED agent_vars
  BY <1>0, <1>1, <1>3, PairPage
<1>4. CASE AgentStep /\ UNCHANGED page_vars
  BY <1>0, <1>1, <1>4, PairConnects, PairLost, PairAgentMessage DEF AgentStep
<1>5. ASSUME UNCHANGED <<page_vars, agent_vars>>, to_client' = to_client, to_server' = to_server
      PROVE  PairInv(a, z)'
  <2>1. Thins(a, z)
    BY <1>5, ShrinksSame DEF Thins
  <2>. QED
    BY <1>0, <1>1, <1>5, <2>1, PairThinsServer
<1>6. CASE (RoomExpires \/ \E c \in Clients : LinkLost(c)) /\ UNCHANGED <<page_vars, agent_vars>>
  BY <1>5, <1>6 DEF RoomExpires, LinkLost
<1>7. CASE UNCHANGED vars
  BY <1>5, <1>7 DEF vars, server_vars
<1>. QED
  BY <1>2, <1>3, <1>4, <1>6, <1>7 DEF Next, SystemStep, Environment

\* An answer to a connection that is stable would be a second one.
LEMMA NoErrorNext ==
    ASSUME Typed, Shapes, PairsInv, agent # "webrtc_error", [Next]_vars
    PROVE  agent' # "webrtc_error"
<1>1. CASE AgentMessage
  <2> SUFFICES ASSUME agent' = "webrtc_error" PROVE FALSE
    OBVIOUS
  <2>1. Me \in AgentClients /\ Me \in Clients
    BY <1>1, Domains DEF Me, AgentMessage, Typed, AgentTypes
  <2>2. PICK m \in Receivable(Me) :
            m = Head(to_client[Me]) /\ m.type = "signal" /\ agent_peers[m.from].state = "stable"
    BY <1>1, AgentSends
  <2>3. PICK z \in PageClients : z = m.from /\ m \in FromOf(z)
    BY <2>1, <2>2 DEF Receivable, FromOf
  <2>4. to_client[Me] # <<>> /\ to_client[Me] \in Seq(Receivable(Me))
    BY <1>1, <2>1 DEF AgentMessage, Shapes, QueueShapes
  <2>5. Has(to_client[Me], FromOf(z))
    BY <2>2, <2>3, <2>4, ShrinksTail
  <2>6. PairInv(Me, z)
    BY <2>1 DEF PairsInv
  <2>7. ~Stable(Me, z)
    BY <2>5, <2>6, OnePlace
  <2>. QED
    BY <2>2, <2>3, <2>7 DEF Stable
<1>2. CASE AgentConnects
  BY <1>2 DEF AgentConnects
<1>3. CASE AgentLost
  BY <1>3 DEF AgentLost
<1>4. CASE UNCHANGED agent_vars
  BY <1>4 DEF agent_vars
<1>. QED
  BY <1>1, <1>2, <1>3, <1>4 DEF Next, SystemStep, Environment, AgentStep, vars

LEMMA InitShapes ==
    ASSUME Init
    PROVE  Shapes
<1>1. OwnIds /\ QueueShapes
  BY PlainMessages DEF Init, RelayInit, OwnIds, QueueShapes
<1>2. ConnectionShape /\ AnswerShape
  BY DEF Init, PageInit, AgentInit, ConnectionShape, AnswerShape, NoConnection, NoPeer
<1>. QED
  BY <1>1, <1>2 DEF Shapes

LEMMA InitPairs ==
    ASSUME Init
    PROVE  PairsInv
<1> SUFFICES ASSUME NEW a \in AgentClients, NEW z \in PageClients
             PROVE  PairInv(a, z)
  BY DEF PairsInv
<1>0. a \in Clients /\ z \in Clients /\ a \in Ids /\ z \in Ids
  BY Domains
<1>1. to_client[a] = <<>> /\ to_client[z] = <<>> /\ to_server[a] = <<>> /\ to_server[z] = <<>>
  BY <1>0 DEF Init, RelayInit
<1>2. ~Answering(a, z) /\ ~Stable(a, z)
  BY <1>0 DEF Init, PageInit, AgentInit, Answering, Stable, NoConnection, NoPeer
<1>3. \A S : ~Has(<<>>, S) /\ Single(<<>>, S)
  BY DEF Has, Single
<1>4. Unique(a, z)
  BY <1>1, <1>3 DEF Unique
<1>5. Places(a, z) = {}
  BY <1>1, <1>2, <1>3 DEF Places
<1>. QED
  BY <1>4, <1>5 DEF PairInv

\* An agent that asks for no id of its own survives every loss of a
\* connection, its own and its zookeepers': whatever is still under way then,
\* handle_signal never gets an answer for a connection that has one, which
\* would end the agent, and every answer that it uses is one to the offer of
\* this session.  The reason is that a session of the agent and a connection
\* of the page have one exchange between them, and that its next message is
\* in one place at a time.
THEOREM LossSurvived ==
    ASSUME ~Aliased
    PROVE  Spec => []SurvivesLoss
<1> DEFINE Inv == Typed /\ RosterInv /\ Shapes /\ PairsInv /\ agent # "webrtc_error"
<1>1. Init => Inv
  BY InitTyped, InitRoster, InitShapes, InitPairs DEF Init, AgentInit
<1>2. Inv /\ [Next]_vars => Inv'
  BY NextTyped, RosterNext, ShapesNext, PairsNext, NoErrorNext
<1>3. Inv => SurvivesLoss
  BY DEF Shapes, AnswerShape, SurvivesLoss
<1>. QED
  BY <1>1, <1>2, <1>3, PTL DEF Spec

=============================================================================
