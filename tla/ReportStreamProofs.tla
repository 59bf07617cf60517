------------------------- MODULE ReportStreamProofs -------------------------
(* Proofs of the safety properties of ReportStream, for every set of       *)
(* channels, every capacity of the ring and every number of reports.       *)
EXTENDS ReportStream, TLAPS

(* Where the receiver, the broadcast and the replays stand.                *)
Positions ==
    /\ rx <= published + 1
    /\ sending # 0 => session /\ sending = rx - 1
    /\ todo = {} <=> sending = 0
    /\ \A c \in Channels :
          /\ snap[c] <= published
          /\ replay[c] <= snap[c] + 1
          /\ chan[c] \in {"unused", "connecting"} => replay[c] = 0

(* What the replay has passed was sent.                                    *)
Replayed ==
    \A c \in Channels, r \in Reports : r < replay[c] => got[c][r] > 0

(* What the session has passed since the snapshot was sent or missed.      *)
Streamed ==
    \A c \in peers, r \in Reports :
        /\ chan[c] = "open"
        /\ replay[c] > 0
        /\ snap[c] < r
        /\ Past(c, r)
        => got[c][r] > 0 \/ r \in missed

Count(b) == IF b THEN 1 ELSE 0

(* Each report was sent at most once by each of the two.                   *)
Counted ==
    \A c \in Channels, r \in Reports :
        got[c][r] <= Count(r < replay[c]) + Count(Past(c, r))

(* The receiver misses only reports that are a whole ring behind.          *)
MissedOnlyBehind == \A r \in missed : r + Capacity <= published

IInv == TypeOK /\ Positions /\ Replayed /\ Streamed /\ Counted /\ MissedOnlyBehind

-----------------------------------------------------------------------------
(* Sending a report over a channel changes one counter.                    *)
LEMMA DeliverOnce ==
    ASSUME TypeOK, NEW c \in Channels, NEW r \in Reports, Deliver(c, r)
    PROVE  /\ got' \in [Channels -> [Reports -> Nat]]
           /\ got'[c][r] = got[c][r] + 1
           /\ \A d \in Channels, q \in Reports :
                 (d # c \/ q # r) => got'[d][q] = got[d][q]
BY DEF TypeOK, Deliver

(* The invariant holds initially.                                          *)
LEMMA InvInit == Init => IInv
<1> SUFFICES ASSUME Init PROVE IInv
  OBVIOUS
<1> USE ReportAssumption
<1>1. TypeOK
  <2>1. got \in [Channels -> [Reports -> Nat]]
    BY DEF Init
  <2>2. replay \in [Channels -> 0..(MaxReports + 1)] /\ snap \in [Channels -> 0..MaxReports]
    BY DEF Init
  <2>3. chan \in [Channels -> {"unused", "connecting", "open", "closed"}]
    BY DEF Init
  <2>4. published \in 0..MaxReports /\ rx \in 1..(MaxReports + 1) /\ sending \in 0..MaxReports
    BY DEF Init
  <2>5. session \in BOOLEAN /\ peers \subseteq Channels /\ todo \subseteq peers /\ missed \subseteq Reports
    BY DEF Init
  <2> QED BY <2>1, <2>2, <2>3, <2>4, <2>5, Zenon DEF TypeOK
<1>2. Positions
  BY DEF Init, Positions
<1>3. Replayed /\ Streamed /\ MissedOnlyBehind
  BY DEF Init, Replayed, Streamed, MissedOnlyBehind, Reports
<1>4. Counted
  BY DEF Init, Counted, Count, Past, Reports
<1> QED BY <1>1, <1>2, <1>3, <1>4 DEF IInv

(* Types and positions are kept by every step.                             *)
LEMMA BaseStep == TypeOK /\ Positions /\ [Next]_vars => TypeOK' /\ Positions'
<1> SUFFICES ASSUME TypeOK, Positions, [Next]_vars PROVE TypeOK' /\ Positions'
  OBVIOUS
<1> USE ReportAssumption DEF sessionVars
<1>1. CASE publish
  BY <1>1 DEF publish, TypeOK, Positions
<1>2. CASE StartSession
  BY <1>2 DEF StartSession, TypeOK, Positions
<1>3. CASE Lagged
  BY <1>3 DEF Lagged, Idle, Oldest, TypeOK, Positions, Reports
<1>4. CASE handle_report_event
  BY <1>4 DEF handle_report_event, Idle, Oldest, TypeOK, Positions
<1>5. ASSUME NEW k \in BOOLEAN, EndSession(k) PROVE TypeOK' /\ Positions'
  BY <1>5 DEF EndSession, Idle, TypeOK, Positions
<1>6. ASSUME NEW c \in Channels,
             ensure_peer(c) \/ handle_peer_left(c) \/ on_data_channel(c)
      PROVE  TypeOK' /\ Positions'
  BY <1>6 DEF ensure_peer, handle_peer_left, on_data_channel, Idle, TypeOK, Positions
<1>7. ASSUME NEW c \in Channels, ChannelOpens(c) \/ ChannelCloses(c)
      PROVE  TypeOK' /\ Positions'
  BY <1>7 DEF ChannelOpens, ChannelCloses, TypeOK, Positions
<1>8. ASSUME NEW c \in Channels, on_open(c)
       PROVE  TypeOK' /\ Positions'
  <2>1. TypeOK'
    BY <1>8 DEF on_open, TypeOK
  <2>2. Positions'
    BY <1>8 DEF on_open, TypeOK, Positions
  <2> QED BY <2>1, <2>2
<1>9. ASSUME NEW c \in Channels, broadcast_report(c) PROVE TypeOK' /\ Positions'
  <2>1. sending \in Reports
    BY <1>9 DEF broadcast_report, TypeOK, Positions, Reports
  <2>2. got' \in [Channels -> [Reports -> Nat]]
    BY <1>9, <2>1, DeliverOnce DEF broadcast_report, TypeOK
  <2> QED BY <1>9, <2>1, <2>2 DEF broadcast_report, TypeOK, Positions
<1>10. ASSUME NEW c \in Channels, send_report(c) PROVE TypeOK' /\ Positions'
  <2>1. replay[c] \in Reports
    BY <1>10 DEF send_report, TypeOK, Reports
  <2>2. got' \in [Channels -> [Reports -> Nat]]
    BY <1>10, <2>1, DeliverOnce DEF send_report
  <2>3. replay' \in [Channels -> 0..(MaxReports + 1)]
    BY <1>10, <2>1 DEF send_report, TypeOK, Reports
  <2>4. TypeOK'
    BY <1>10, <2>2, <2>3 DEF send_report, TypeOK
  <2>5. Positions'
    BY <1>10 DEF send_report, TypeOK, Positions
  <2> QED BY <2>4, <2>5
<1>11. CASE UNCHANGED vars
  BY <1>11 DEF vars, TypeOK, Positions
<1> QED BY <1>1, <1>2, <1>3, <1>4, <1>5, <1>6, <1>7, <1>8, <1>9,
            <1>10, <1>11 DEF Next

(* What the session has passed stays passed.                               *)
LEMMA PastStays ==
    ASSUME TypeOK, Positions, [Next]_vars,
           NEW c \in Channels, NEW r \in Reports, Past(c, r)
    PROVE  Past(c, r)'
<1> USE ReportAssumption DEF sessionVars, Past, TypeOK, Positions, Reports
<1>1. CASE publish
  BY <1>1 DEF publish
<1>2. CASE StartSession
  BY <1>2 DEF StartSession
<1>3. CASE Lagged
  BY <1>3 DEF Lagged, Idle, Oldest
<1>4. CASE handle_report_event
  BY <1>4 DEF handle_report_event, Idle, Oldest
<1>5. ASSUME NEW k \in BOOLEAN, EndSession(k) PROVE Past(c, r)'
  BY <1>5 DEF EndSession
<1>6. ASSUME NEW d \in Channels,
             ensure_peer(d) \/ handle_peer_left(d) \/ on_data_channel(d)
      PROVE  Past(c, r)'
  BY <1>6 DEF ensure_peer, handle_peer_left, on_data_channel
<1>7. ASSUME NEW d \in Channels,
             ChannelOpens(d) \/ ChannelCloses(d) \/ on_open(d) \/ send_report(d)
      PROVE  Past(c, r)'
  BY <1>7 DEF ChannelOpens, ChannelCloses, on_open, send_report
<1>8. ASSUME NEW d \in Channels, broadcast_report(d) PROVE Past(c, r)'
  BY <1>8 DEF broadcast_report
<1>9. CASE UNCHANGED vars
  BY <1>9 DEF vars
<1> QED BY <1>1, <1>2, <1>3, <1>4, <1>5, <1>6, <1>7, <1>8, <1>9 DEF Next

(* A replay that has passed a report has sent it.                          *)
LEMMA ReplayedStep ==
    TypeOK /\ Positions /\ Replayed /\ [Next]_vars => Replayed'
<1> SUFFICES ASSUME TypeOK, Positions, Replayed, [Next]_vars,
                    NEW c \in Channels, NEW r \in Reports, (r < replay[c])'
             PROVE  (got[c][r] > 0)'
  BY DEF Replayed
<1> USE ReportAssumption DEF sessionVars
<1>1. CASE UNCHANGED <<replay, got>>
  BY <1>1 DEF Replayed
<1>2. ASSUME NEW d \in Channels, on_open(d) PROVE (got[c][r] > 0)'
  BY <1>2 DEF on_open, Replayed, TypeOK, Reports
<1>3. ASSUME NEW d \in Channels, broadcast_report(d) PROVE (got[c][r] > 0)'
  <2>1. sending \in Reports
    BY <1>3 DEF broadcast_report, TypeOK, Positions, Reports
  <2>2. got[c][r] > 0 /\ got[c][r] \in Nat
    BY <1>3 DEF broadcast_report, Replayed, TypeOK
  <2>3. CASE Deliver(d, sending)
    BY <2>1, <2>2, <2>3, DeliverOnce
  <2> QED BY <1>3, <2>2, <2>3 DEF broadcast_report
<1>4. ASSUME NEW d \in Channels, send_report(d) PROVE (got[c][r] > 0)'
  <2>1. replay[d] \in Reports /\ Deliver(d, replay[d])
    BY <1>4 DEF send_report, TypeOK, Reports
  <2>2. got[c][r] \in Nat /\ got[d][replay[d]] \in Nat
    BY <2>1 DEF TypeOK
  <2>3. CASE c = d /\ r = replay[d]
    BY <2>1, <2>2, <2>3, DeliverOnce
  <2>4. CASE ~(c = d /\ r = replay[d])
    <3>1. r < replay[c]
      BY <1>4, <2>4 DEF send_report, TypeOK, Reports
    <3>2. got[c][r] > 0
      BY <3>1 DEF Replayed
    <3> QED BY <2>1, <2>4, <3>2, DeliverOnce
  <2> QED BY <2>3, <2>4
<1> QED BY <1>1, <1>2, <1>3, <1>4
        DEF Next, vars, publish, StartSession, Lagged, handle_report_event,
            EndSession, ensure_peer, handle_peer_left, on_data_channel,
            ChannelOpens, ChannelCloses

(* Each of the two streams adds at most one to a counter.                  *)
LEMMA CountedStep == TypeOK /\ Positions /\ Counted /\ [Next]_vars => Counted'
<1> SUFFICES ASSUME TypeOK, Positions, Counted, [Next]_vars,
                    NEW c \in Channels, NEW r \in Reports
             PROVE  (got[c][r] <= Count(r < replay[c]) + Count(Past(c, r)))'
  BY DEF Counted
<1> USE ReportAssumption DEF sessionVars
<1>1. Count(Past(c, r)) <= Count(Past(c, r)')
  BY PastStays DEF Count
<1>2. got[c][r] <= Count(r < replay[c]) + Count(Past(c, r)) /\ got[c][r] \in Nat
  BY DEF Counted, TypeOK
<1>3. CASE UNCHANGED <<replay, got>>
  BY <1>1, <1>2, <1>3 DEF Count
<1>4. ASSUME NEW d \in Channels, on_open(d)
      PROVE  (got[c][r] <= Count(r < replay[c]) + Count(Past(c, r)))'
  BY <1>1, <1>2, <1>4 DEF on_open, Count, TypeOK, Reports
<1>5. ASSUME NEW d \in Channels, broadcast_report(d)
      PROVE  (got[c][r] <= Count(r < replay[c]) + Count(Past(c, r)))'
  <2>1. sending \in Reports /\ replay' = replay
    BY <1>5 DEF broadcast_report, TypeOK, Positions, Reports
  <2>2. CASE UNCHANGED got
    BY <1>1, <1>2, <2>1, <2>2 DEF Count
  <2>3. CASE Deliver(d, sending) /\ ~(c = d /\ r = sending)
    <3>1. got'[c][r] = got[c][r]
      BY <2>1, <2>3, DeliverOnce
    <3> QED BY <1>1, <1>2, <2>1, <3>1 DEF Count
  <2>4. CASE Deliver(d, sending) /\ c = d /\ r = sending
    <3>1. got'[c][r] = got[c][r] + 1
      BY <2>1, <2>4, DeliverOnce
    <3>2. ~Past(c, r)
      BY <1>5, <2>4 DEF broadcast_report, Past
    <3>3. Past(c, r)'
      BY <1>5, <2>1, <2>4 DEF broadcast_report, Past, Positions, TypeOK
    <3> QED BY <1>2, <2>1, <3>1, <3>2, <3>3 DEF Count
  <2> QED BY <1>5, <2>2, <2>3, <2>4 DEF broadcast_report
<1>6. ASSUME NEW d \in Channels, send_report(d)
      PROVE  (got[c][r] <= Count(r < replay[c]) + Count(Past(c, r)))'
  <2>1. replay[d] \in Reports /\ Deliver(d, replay[d])
    BY <1>6 DEF send_report, TypeOK, Reports
  <2>2. CASE c = d /\ r = replay[d]
    <3>1. got'[c][r] = got[c][r] + 1
      BY <2>1, <2>2, DeliverOnce
    <3>2. ~(r < replay[c]) /\ (r < replay[c])'
      BY <1>6, <2>1, <2>2 DEF send_report, TypeOK, Reports
    <3> QED BY <1>1, <1>2, <3>1, <3>2 DEF Count
  <2>3. CASE ~(c = d /\ r = replay[d])
    <3>1. got'[c][r] = got[c][r]
      BY <2>1, <2>3, DeliverOnce
    <3>2. r < replay[c] => (r < replay[c])'
      BY <1>6 DEF send_report, TypeOK, Reports
    <3> QED BY <1>1, <1>2, <3>1, <3>2 DEF Count
  <2> QED BY <2>2, <2>3
<1> QED BY <1>3, <1>4, <1>5, <1>6
        DEF Next, vars, publish, StartSession, Lagged, handle_report_event,
            EndSession, ensure_peer, handle_peer_left, on_data_channel,
            ChannelOpens, ChannelCloses

(* What is missed stays a ring behind.                                     *)
LEMMA MissedStep ==
    TypeOK /\ MissedOnlyBehind /\ [Next]_vars => MissedOnlyBehind'
<1> SUFFICES ASSUME TypeOK, MissedOnlyBehind, [Next]_vars PROVE MissedOnlyBehind'
  OBVIOUS
<1> USE ReportAssumption DEF sessionVars, MissedOnlyBehind, TypeOK, Reports
<1>1. CASE publish
  BY <1>1 DEF publish
<1>2. CASE StartSession
  BY <1>2 DEF StartSession
<1>3. CASE Lagged
  BY <1>3 DEF Lagged, Oldest
<1>4. CASE UNCHANGED <<published, missed>>
  BY <1>4
<1> QED BY <1>1, <1>2, <1>3, <1>4
        DEF Next, vars, handle_report_event, EndSession, ensure_peer,
            handle_peer_left, broadcast_report, on_data_channel, ChannelOpens,
            ChannelCloses, on_open, send_report

(* Nothing falls between the snapshot and the live stream.                 *)
LEMMA StreamedStep ==
    TypeOK /\ Positions /\ Streamed /\ [Next]_vars => Streamed'
<1> SUFFICES ASSUME TypeOK, Positions, Streamed, [Next]_vars,
                    NEW c \in peers', NEW r \in Reports,
                    (chan[c] = "open")', (replay[c] > 0)', (snap[c] < r)',
                    Past(c, r)'
             PROVE  (got[c][r] > 0 \/ r \in missed)'
  BY DEF Streamed
<1> USE ReportAssumption DEF sessionVars
<1> DEFINE Goal == (got[c][r] > 0 \/ r \in missed)'
<1>0. c \in Channels
  BY BaseStep DEF TypeOK
<1>1. ASSUME c \in peers, chan[c] = "open", replay[c] > 0, snap[c] < r, Past(c, r)
      PROVE  got[c][r] > 0 \/ r \in missed
  BY <1>1 DEF Streamed
<1>2. CASE publish
  BY <1>1, <1>2 DEF publish, Past
<1>3. CASE StartSession
  BY <1>3 DEF StartSession
<1>4. CASE Lagged
  <2>1. CASE r < rx
    BY <1>1, <1>4, <2>1 DEF Lagged, Idle, Past, TypeOK, Positions
  <2>2. CASE ~(r < rx)
    BY <1>4, <2>2 DEF Lagged, Oldest, Past, TypeOK, Reports
  <2> QED BY <2>1, <2>2
<1>5. CASE handle_report_event
  <2>1. c \in todo' /\ sending' = rx /\ rx' = rx + 1
    BY <1>5 DEF handle_report_event
  <2>2. r < rx
    BY <2>1 DEF Past, TypeOK, Reports
  <2>3. Past(c, r)
    BY <1>5, <2>2 DEF handle_report_event, Idle, Past, Reports
  <2> QED BY <1>1, <1>5, <2>3 DEF handle_report_event
<1>6. ASSUME NEW k \in BOOLEAN, EndSession(k) PROVE Goal
  BY <1>6 DEF EndSession
<1>7. ASSUME NEW d \in Channels,
             ensure_peer(d) \/ handle_peer_left(d) \/ on_data_channel(d)
      PROVE  Goal
  BY <1>0, <1>1, <1>7
     DEF ensure_peer, handle_peer_left, on_data_channel, Past, TypeOK
<1>8. ASSUME NEW d \in Channels, ChannelOpens(d) \/ ChannelCloses(d) PROVE Goal
  BY <1>0, <1>1, <1>8 DEF ChannelOpens, ChannelCloses, Past, TypeOK, Positions
<1>9. ASSUME NEW d \in Channels, on_open(d) PROVE Goal
  <2>1. CASE c = d
    <3>1. snap'[c] = published
      BY <1>0, <1>9, <2>1 DEF on_open, TypeOK
    <3>2. r < rx
      BY <1>9 DEF on_open, Past
    <3> QED BY <3>1, <3>2 DEF TypeOK, Positions, Reports
  <2>2. CASE c # d
    BY <1>0, <1>1, <1>9, <2>2 DEF on_open, Past, TypeOK
  <2> QED BY <2>1, <2>2
<1>10. ASSUME NEW d \in Channels, broadcast_report(d) PROVE Goal
  <2>1. sending \in Reports
    BY <1>10 DEF broadcast_report, TypeOK, Positions, Reports
  <2>2. got[c][r] \in Nat
    BY <1>0 DEF TypeOK
  <2>3. CASE c = d /\ r = sending
    <3>1. Deliver(d, sending)
      BY <1>10, <2>3 DEF broadcast_report
    <3> QED BY <2>1, <2>2, <2>3, <3>1, DeliverOnce
  <2>4. CASE ~(c = d /\ r = sending)
    <3>1. Past(c, r)
      BY <1>10, <2>1, <2>4 DEF broadcast_report, Past, Positions, TypeOK, Reports
    <3>2. got[c][r] > 0 \/ r \in missed
      BY <1>1, <1>10, <3>1 DEF broadcast_report
    <3>3. got'[c][r] = got[c][r]
      BY <1>0, <1>10, <2>1, <2>4, DeliverOnce DEF broadcast_report
    <3> QED BY <1>10, <3>2, <3>3 DEF broadcast_report
  <2> QED BY <2>3, <2>4
<1>11. ASSUME NEW d \in Channels, send_report(d) PROVE Goal
  <2>1. replay[d] \in Reports /\ Deliver(d, replay[d])
    BY <1>11 DEF send_report, TypeOK, Reports
  <2>2. got[c][r] \in Nat /\ got[d][replay[d]] \in Nat
    BY <1>0, <2>1 DEF TypeOK
  <2>3. CASE c = d /\ r = replay[d]
    BY <2>1, <2>2, <2>3, DeliverOnce
  <2>4. CASE ~(c = d /\ r = replay[d])
    <3>1. replay[c] > 0
      BY <1>0, <1>11 DEF send_report, TypeOK
    <3>2. got[c][r] > 0 \/ r \in missed
      BY <1>1, <1>11, <3>1 DEF send_report, Past
    <3>3. got'[c][r] = got[c][r]
      BY <1>0, <2>1, <2>4, DeliverOnce
    <3> QED BY <1>11, <3>2, <3>3 DEF send_report
  <2> QED BY <2>3, <2>4
<1>12. CASE UNCHANGED vars
  BY <1>1, <1>12 DEF vars, Past
<1> QED BY <1>2, <1>3, <1>4, <1>5, <1>6, <1>7, <1>8, <1>9, <1>10, <1>11,
            <1>12 DEF Next

-----------------------------------------------------------------------------
(* The invariant holds in every reachable state.                           *)
THEOREM Invariance == Spec => []IInv
<1>1. IInv /\ [Next]_vars => IInv'
  BY BaseStep, ReplayedStep, StreamedStep, CountedStep, MissedStep DEF IInv
<1> QED BY InvInit, <1>1, PTL DEF Spec

(* Every variable keeps its type, and a broadcast visits only peers the    *)
(* session still has.                                                      *)
THEOREM StreamTyped == Spec => []TypeOK
<1>1. IInv => TypeOK
  BY DEF IInv
<1> QED BY Invariance, <1>1, PTL

(* No report falls between a channel's replay and the live stream, and the *)
(* ring drops only what it has gone all around.                            *)
THEOREM ReportsNotLost == Spec => []NoneLost
<1>1. IInv => NoneLost
  <2> SUFFICES ASSUME IInv, NEW c \in peers, NEW r \in Reports,
                      chan[c] = "open", replay[c] > 0,
                      IF r <= snap[c] THEN r < replay[c] ELSE Past(c, r)
               PROVE  got[c][r] > 0 \/ (r \in missed /\ r + Capacity <= published)
    BY DEF NoneLost
  <2>1. c \in Channels /\ snap[c] \in Int /\ r \in Int
    BY DEF IInv, TypeOK, Reports
  <2>2. CASE r <= snap[c]
    BY <2>1, <2>2 DEF IInv, Replayed, MissedOnlyBehind
  <2>3. CASE snap[c] < r
    BY <2>1, <2>3 DEF IInv, Streamed, MissedOnlyBehind
  <2> QED BY <2>1, <2>2, <2>3
<1> QED BY Invariance, <1>1, PTL

(* No channel gets a report a third time, nor a later report twice.        *)
THEOREM NotThrice == Spec => []AtMostTwice
<1>1. IInv => AtMostTwice
  <2> SUFFICES ASSUME IInv, NEW c \in Channels, NEW r \in Reports
               PROVE  got[c][r] <= 2 /\ (got[c][r] = 2 => r <= snap[c])
    BY DEF AtMostTwice
  <2>0. got[c][r] \in Nat /\ r \in Int
    <3>1. got[c][r] \in Nat
      BY DEF IInv, TypeOK
    <3> QED BY <3>1 DEF Reports
  <2>1. replay[c] \in Int /\ snap[c] \in Int /\ replay[c] <= snap[c] + 1
    BY ReportAssumption DEF IInv, TypeOK, Positions
  <2>2. got[c][r] <= Count(r < replay[c]) + Count(Past(c, r))
    BY DEF IInv, Counted
  <2>3. Count(r < replay[c]) + Count(Past(c, r)) <= 2
    BY DEF Count
  <2>4. r >= replay[c] => Count(r < replay[c]) + Count(Past(c, r)) <= 1
    BY <2>0, <2>1 DEF Count
  <2>5. Count(r < replay[c]) \in Int /\ Count(Past(c, r)) \in Int
    BY DEF Count
  <2> QED BY <2>0, <2>1, <2>2, <2>3, <2>4, <2>5
<1> QED BY Invariance, <1>1, PTL
=============================================================================
