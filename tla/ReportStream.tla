---------------------------- MODULE ReportStream ----------------------------
(***************************************************************************)
(* How rewards reach the zookeepers (mitb-host/src/agent.rs and            *)
(* agent/signaling.rs, agent/signaling_handlers.rs).  A published report   *)
(* goes to the history and to a bounded broadcast ring.  The signaling     *)
(* session takes reports from the ring and sends each to the peers whose   *)
(* data channel is open; a channel that opens replays the history, in a    *)
(* callback of its own.  All of them are tasks of one current-thread       *)
(* runtime and interleave at their awaits, that is between two sends.      *)
(*                                                                         *)
(* Reports are numbered in the order they were published.  A channel is    *)
(* one data channel of one peer connection; a zookeeper that comes back    *)
(* gets another one.                                                       *)
(***************************************************************************)
EXTENDS Integers

CONSTANTS Channels,     \* the data channels that may be created
          Capacity,     \* REPORT_BUFFER_CAPACITY, the size of the ring
          MaxReports    \* bound: reports published in a behaviour

ASSUME ReportAssumption ==
    /\ Capacity \in Nat \ {0}
    /\ MaxReports \in Nat

VARIABLES
    published,   \* number of reports in the history
    session,     \* is a signaling session up
    rx,          \* the report its broadcast receiver takes next
    peers,       \* the channels of the peers the session knows
    sending,     \* the report being broadcast, 0 if none
    todo,        \* the channels broadcast_report has still to visit
    chan,        \* the state of each channel
    replay,      \* the report the channel's on_open callback sends next
    snap,        \* the length of the snapshot it took
    got,         \* how often each report was sent over each channel
    missed       \* the reports the session's receiver lagged behind

sessionVars == <<session, rx, peers, sending, todo, missed>>
vars == <<published, sessionVars, chan, replay, snap, got>>

Reports == 1..MaxReports

Init ==
    /\ published = 0
    /\ session = FALSE
    /\ rx = 1
    /\ peers = {}
    /\ sending = 0
    /\ todo = {}
    /\ chan = [c \in Channels |-> "unused"]
    /\ replay = [c \in Channels |-> 0]
    /\ snap = [c \in Channels |-> 0]
    /\ got = [c \in Channels |-> [r \in Reports |-> 0]]
    /\ missed = {}

(* ReportStore::publish of a valid reward: no await between the push and   *)
(* the send, so a report is in the history exactly when it is in the ring. *)
publish ==
    /\ published < MaxReports
    /\ published' = published + 1
    /\ UNCHANGED <<sessionVars, chan, replay, snap, got>>

(* The oldest report the ring still holds.                                 *)
Oldest == IF published > Capacity THEN published - Capacity + 1 ELSE 1

Deliver(c, r) == got' = [got EXCEPT ![c][r] = @ + 1]

(***************************************************************************)
(* The session.                                                            *)
(***************************************************************************)
(* Authenticated: subscribe, with no peers.                                *)
StartSession ==
    /\ ~session
    /\ session' = TRUE
    /\ rx' = published + 1
    /\ peers' = {}
    /\ missed' = {}
    /\ UNCHANGED <<published, sending, todo, chan, replay, snap, got>>

(* The session task is in its select!, not in a handler.                   *)
Idle == session /\ sending = 0

(* For a zookeeper that is not a peer yet.                                 *)
ensure_peer(c) ==
    /\ Idle
    /\ chan[c] = "unused"
    /\ peers' = peers \cup {c}
    /\ chan' = [chan EXCEPT ![c] = "connecting"]
    /\ UNCHANGED <<published, session, rx, sending, todo, missed, replay, snap, got>>

(* PeerLeft: the peer is removed and its connection closed.                *)
handle_peer_left(c) ==
    /\ Idle
    /\ c \in peers
    /\ peers' = peers \ {c}
    /\ chan' = [chan EXCEPT ![c] = "closed"]
    /\ UNCHANGED <<published, session, rx, sending, todo, missed, replay, snap, got>>

(* report_rx.recv() is Lagged: the receiver goes to the oldest report.     *)
Lagged ==
    /\ Idle
    /\ rx < Oldest
    /\ rx' = Oldest
    /\ missed' = missed \cup rx..(Oldest - 1)
    /\ UNCHANGED <<published, session, peers, sending, todo, chan, replay, snap, got>>

(* report_rx.recv() is a report: broadcast_report begins.                  *)
handle_report_event ==
    /\ Idle
    /\ Oldest <= rx
    /\ rx <= published
    /\ rx' = rx + 1
    /\ sending' = IF peers = {} THEN 0 ELSE rx
    /\ todo' = peers
    /\ UNCHANGED <<published, session, peers, missed, chan, replay, snap, got>>

(* Mutant: a channel that has not finished its replay is passed over.      *)
BroadcastAfterReplay(c) ==
    /\ c \in todo
    /\ todo' = todo \ {c}
    /\ sending' = IF todo' = {} THEN 0 ELSE sending
    /\ IF chan[c] = "open" /\ replay[c] > snap[c]
         THEN Deliver(c, sending)
         ELSE UNCHANGED got
    /\ UNCHANGED <<published, session, rx, peers, missed, chan, replay, snap>>

(* broadcast_report: one turn of its loop.                                 *)
broadcast_report(c) ==
    /\ c \in todo
    /\ todo' = todo \ {c}
    /\ sending' = IF todo' = {} THEN 0 ELSE sending
    /\ IF chan[c] = "open"
         THEN Deliver(c, sending)
         ELSE UNCHANGED got
    /\ UNCHANGED <<published, session, rx, peers, missed, chan, replay, snap>>

(* The session ends: closed by the server or by a shutdown, it closes its  *)
(* peers; broken, it drops them and their channels stay as they are.       *)
EndSession(closing) ==
    /\ Idle
    /\ session' = FALSE
    /\ peers' = {}
    /\ chan' = [c \in Channels |->
                  IF closing /\ c \in peers THEN "closed" ELSE chan[c]]
    /\ UNCHANGED <<published, rx, sending, todo, missed, replay, snap, got>>

(***************************************************************************)
(* The data channels.                                                      *)
(***************************************************************************)
(* A zookeeper opens a channel of its own over its connection: it gets the *)
(* callbacks, but no peer is made of it.                                   *)
on_data_channel(c) ==
    /\ chan[c] = "unused"
    /\ \E d \in Channels : chan[d] = "open"
    /\ chan' = [chan EXCEPT ![c] = "connecting"]
    /\ UNCHANGED <<published, sessionVars, replay, snap, got>>

ChannelOpens(c) ==
    /\ chan[c] = "connecting"
    /\ chan' = [chan EXCEPT ![c] = "open"]
    /\ UNCHANGED <<published, sessionVars, replay, snap, got>>

ChannelCloses(c) ==
    /\ chan[c] \in {"connecting", "open"}
    /\ chan' = [chan EXCEPT ![c] = "closed"]
    /\ UNCHANGED <<published, sessionVars, replay, snap, got>>

(* Mutant: the callback runs again while the channel is open.              *)
OnOpenAgain(c) ==
    /\ chan[c] = "open"
    /\ replay' = [replay EXCEPT ![c] = 1]
    /\ snap' = [snap EXCEPT ![c] = published]
    /\ UNCHANGED <<published, sessionVars, chan, got>>

(* on_open: take the snapshot of the history.                              *)
on_open(c) ==
    /\ chan[c] = "open"
    /\ replay[c] = 0
    /\ replay' = [replay EXCEPT ![c] = 1]
    /\ snap' = [snap EXCEPT ![c] = published]
    /\ UNCHANGED <<published, sessionVars, chan, got>>

(* Mutant: the replay leaves out the last report of the snapshot.          *)
ReplayShort(c) ==
    /\ chan[c] = "open"
    /\ replay[c] \in 1..(snap[c] - 1)
    /\ Deliver(c, replay[c])
    /\ replay' = [replay EXCEPT ![c] = @ + 1]
    /\ UNCHANGED <<published, sessionVars, chan, snap>>

(* on_open: send the next report of the snapshot.  Over a channel that has *)
(* closed meanwhile the send fails and the replay stops.                   *)
send_report(c) ==
    /\ chan[c] = "open"
    /\ replay[c] \in 1..snap[c]
    /\ Deliver(c, replay[c])
    /\ replay' = [replay EXCEPT ![c] = @ + 1]
    /\ UNCHANGED <<published, sessionVars, chan, snap>>

Next ==
    \/ publish
    \/ StartSession
    \/ Lagged
    \/ handle_report_event
    \/ \E closing \in BOOLEAN : EndSession(closing)
    \/ \E c \in Channels :
          \/ ensure_peer(c) \/ handle_peer_left(c) \/ broadcast_report(c)
          \/ on_data_channel(c) \/ ChannelOpens(c) \/ ChannelCloses(c)
          \/ on_open(c) \/ send_report(c)

Spec == Init /\ [][Next]_vars

(* The session task and the callbacks go on.                               *)
Fairness ==
    /\ WF_vars(Lagged)
    /\ WF_vars(handle_report_event)
    /\ \A c \in Channels : /\ WF_vars(broadcast_report(c))
                           /\ WF_vars(on_open(c))
                           /\ WF_vars(send_report(c))

FairSpec == Spec /\ Fairness

-----------------------------------------------------------------------------
(***************************************************************************)
(* Properties.                                                             *)
(***************************************************************************)
TypeOK ==
    /\ published \in 0..MaxReports
    /\ session \in BOOLEAN
    /\ rx \in 1..(MaxReports + 1)
    /\ peers \subseteq Channels
    /\ sending \in 0..MaxReports
    /\ todo \subseteq peers
    /\ chan \in [Channels -> {"unused", "connecting", "open", "closed"}]
    /\ replay \in [Channels -> 0..(MaxReports + 1)]
    /\ snap \in [Channels -> 0..MaxReports]
    /\ got \in [Channels -> [Reports -> Nat]]
    /\ missed \subseteq Reports

(* The session is done with report r for channel c.                        *)
Past(c, r) == r < rx /\ ~(r = sending /\ c \in todo)

(* No report falls between the replay and the live stream: once the        *)
(* callback has taken its snapshot, each report the replay has passed and  *)
(* each later one the session has passed has been sent over the channel,   *)
(* unless the receiver missed it and a whole ring was published after it   *)
(* (install_data_channel_callbacks, broadcast_report, handle_report_event, *)
(* REPORT_BUFFER_CAPACITY).                                                *)
NoneLost ==
    \A c \in peers, r \in Reports :
        /\ chan[c] = "open"
        /\ replay[c] > 0
        /\ IF r <= snap[c] THEN r < replay[c] ELSE Past(c, r)
        => got[c][r] > 0 \/ (r \in missed /\ r + Capacity <= published)

(* A report is sent over a channel at most twice, and twice only when it   *)
(* was already published when the channel's replay began: it came live     *)
(* between the channel's opening and the callback's snapshot, or while it  *)
(* waited in the ring.                                                     *)
AtMostTwice ==
    \A c \in Channels, r \in Reports :
        /\ got[c][r] <= 2
        /\ got[c][r] = 2 => r <= snap[c]

(* Whatever is published reaches every channel that is open and stays one  *)
(* of a peer of the session, unless the ring drops it.                     *)
Reaches ==
    \A c \in Channels, r \in Reports :
        (r <= published /\ c \in peers /\ chan[c] = "open")
            ~> (got[c][r] > 0 \/ r \in missed \/ c \notin peers
                \/ chan[c] # "open")
=============================================================================
