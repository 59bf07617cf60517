# Man-in-the-Box in TLA+

TLA+ modules for the parts of Man-in-the-Box in which the order of events
matters, the TLC runs that check them on small instances, and TLAPS proofs of
the properties that hold for every instance.

## The system and its components

A *policy* (a WebAssembly component) watches a process in a pseudo-terminal
and decides what to type; `mitb` hosts it. Its progress can be watched from a
browser: the host runs an *agent* that meets *zookeepers* (browsers) in a room
of a *signaling server*, opens a WebRTC data channel to each, and sends its
reports over it. Both prove to the server that they know the room's secret
with OPAQUE, a password-authenticated key exchange.

| component | code | state | operations | interacts with |
|---|---|---|---|---|
| registry | `mitb-server/src/app_state.rs`, `lib.rs` | rooms with their members, id counter, two kinds of sliding windows, all behind one mutex | register, unregister, store_room, ensure_room_capacity, candidate_login_for_room, check_auth_rate_limit, forward_signal, pruning | called by every connection task |
| connection task | `mitb-server/src/ws_auth.rs`, `ws_runtime.rs` | handshake progress, bounded outbound queue, penalty flag | handshake messages, select loop (tick, outbound, inbound) | registry; the queues and flags of other tasks; the client |
| agent | `mitb-host/src/agent.rs`, `agent/*.rs` | connection loop with back-off, peers, data channels, report history | authenticate, handle server messages, publish reports, reconnect | server, WebRTC, host |
| PAKE | `mitb-pake/src/lib.rs` | client session, server login session | registration, login | agent, browser, server |
| browser page | `mitb-server/static/index.html` | socket, auth state, peers | connect, handle messages, handle signals | server, WebRTC |
| policy host | `mitb-host/src/runtime.rs`, `lib.rs`, `transcript.rs`, `pty_io.rs`, `terminal_state.rs`, `policy_log.rs`, `stream_bridge.rs` | transcript with a cursor, terminal, processes and their pipes, log | tick loop, input and output of the PTY, process API | policy, agent, operating system |
| SDK | `mitb-sdk/src/*.rs` | search tree of the Monte Carlo tree search, files | one search iteration per tick, file and git helpers | policy host |
| viewer | `mitb-box/src/*.rs`, `mitb-av/src/*.rs`, `src/main.rs` | terminal widget, eye animation, video frames | GUI events | policy host |

### What is hard

* The server's tasks run in parallel by default; messages are queued after
  the mutex is released, so that two announcements may swap.
* Queues are bounded. A message that does not fit is dropped and the receiver
  is marked; the mark is read by a loop that may be stuck in a write.
* Checks and the actions they guard are in different critical sections, with
  round trips to the client in between (quota, room lookup).
* Ids may be chosen by clients and come back after a reconnect.
* Rooms and rate-limit windows depend on the clock and are pruned lazily by
  whoever comes next.
* A `mitb` process can be ended by its child, its policy, its window, its
  agent and a remote zookeeper, at the same time.
* A report may be published between the moment a data channel opens, the
  moment its history is copied and the moment it is broadcast.
* Waits, timeouts, kills and the drop of one child process overlap, and its
  output goes through three bounded buffers.
* A policy's cursor into the transcript may be older than what is retained.
* The search tree is written over its own file after every change.
* The page keeps one global socket, login and table of agents, used by the
  handlers of every socket it ever opened and by code that goes on after an
  await.
* Page and agent lose their connections and come back while offers and
  answers of the lost ones are still under way; one answer that does not fit
  ends the agent, and the host with it.
* A child writes any control sequence it likes; two emulators of different
  size follow the same bytes, and each indexes by what the sequences say.

`PROJECT.json` lists these as hazards, each at its line, with the properties
that would catch it.

### What makes each part correct

| part | property |
|---|---|
| registry and tasks | every member is a live connection and every live connection a member, ids are unambiguous, quotas and rates hold, a room outlives its last member by the time to live |
| announcements | a client hears `Connected` first, and the messages it gets add up to the roster |
| transcript | it implements one endless log of which the newest bytes can be asked for; following a cursor loses only what was trimmed |
| page and agent | a page shows the agents of the room, two that stay in a room get connected, every login ends, and no lost connection ends the agent |
| terminal | no output takes an index out of the grid, every line fills its columns, the main screen comes back, and cursor answers are where the viewer draws |
| `mitb` process | whoever ends it, everything ends, and nothing is left behind |
| reports | every channel that stays open gets every report, none more than twice |
| process API | all calls agree on how the child ended; its output is complete; its input arrives in order; a call returns when the child is gone, a run reads while it waits, and no child outlives its policy |
| search tree | the tree stays a tree, is loaded as an earlier state of itself however a write was cut off, and a selection can always be rewarded |

## Modules

| module | models |
|---|---|
| `AppState` | `StateInner` and what each method of `AppState` does to it, as operators. One method is one critical section: none awaits while it holds the mutex. |
| `SignalingServer` | the connection tasks: `authenticate_socket`, then `handle_socket`. Extends `AppState`. |
| `SignalingViews` | what the clients come to believe, from the messages delivered and queued. |
| `SignalingHistory` | history variables for the promises about time. |
| `HostRuntime` | one `mitb` process: the policy host's loop, the PTY child and its reader thread, the agent task, the window and `main`. |
| `Transcript` | the reader thread of the PTY and the policy's terminal interface. |
| `ReportStream` | the report history, the broadcast ring, the agent's session and the data channels. |
| `TerminalLog` | what the `terminal` interface promises, without a buffer. `Transcript` refines it. |
| `ChildProcess` | the process API, the output streams, and `run_process_with_timeout` at the other end. |
| `ChildStdin` | `write_stdin`, the stream consumer and the writer task. Extends `ChildProcess`. |
| `Pake` | the client's side of OPAQUE, as operators shared by page and agent. |
| `Relay` | the signaling server as one connection sees it: the login, announcements and forwarding, without threads, bounds and quotas. |
| `BrowserPage` | the page: sockets, events, the login across its awaits, agents and answers. Extends `Relay`. |
| `AgentPeers` | the agent's sessions: login, offers, answers, reconnects. Extends `Relay`. |
| `Negotiation` | page, server and agent together. Extends `BrowserPage` and `AgentPeers`. |
| `Terminal` | the viewer's emulator: grid, cursor, region, alternate screen. |
| `PtyTerminalState` | the host's cursor tracker, which answers cursor requests. |
| `PtyScreens` | the two emulators fed with the same bytes. Extends `Terminal`, instantiates `PtyTerminalState`. |
| `SearchTree` | `Mcts`, `PendingTreeSearch` and the file between two runs of a policy. |
| `MCSignaling`, `MCSignalingHistory`, `MCHost`, `MCTranscript`, `MCReports`, `MCProcess`, `MCNegotiation`, `MCTerminal`, `MCSearch` | instances for TLC |
| `SignalingServerProofs`, `HostRuntimeProofs`, `TranscriptProofs`, `ReportStreamProofs`, `ChildProcessProofs`, `TerminalProofs`, `SearchTreeProofs`, `NegotiationProofs` | TLAPS proofs |

A definition marked *Mutant* is a plausible slip in the definition after it;
`PROJECT.json` pairs each with the property it must break.

### `SignalingServer`

`phase[c]` is the point at which the task of connection `c` waits. From
`init` to `finalization` it is inside `authenticate_socket`;
`authenticated` waits for `register`; `running` is the select loop;
`closing` has left the loop and waits for `unregister`; `leaving` still has
`PeerLeft`s to send; `closed` is a free slot.

`todo[c]` holds the `try_send`s a task still has to make with what a critical
section returned to it. On the multi-threaded runtime every other task may
run before they are made. On the current-thread runtime there is no await
between the section and the last `try_send`, so no other task does: the
guard `MayRun` says exactly this, and `MultiThread` selects the runtime as
`main` does.

`sending[c]` is the message `sender.send(..).await` is writing: while it is
not empty the select loop does nothing else. `view[c]` is the far end: what
the client has learnt from the messages that arrived. `Stream(c)` is what is
on its way there, and `FinalView(c)` what the client will know once all of it
has arrived. It is defined in closed form (the last news of an id decides),
since every property about it is about positions in that stream.

`SignalingHistory` adds the times at which authentications were admitted and
signals forwarded, and when a room was last occupied. The record of a room's
signals starts anew with the room: `forward_signal` keeps its window in the
`Room`, and a room that is pruned and stored again is a new one.

OPAQUE's verdict, the client's messages and its disappearance are inputs: a
handshake may be aborted at every step (`AuthAbort`), a registered connection
may disconnect whenever its loop is idle, and a client in `Talkers` sends
any frame.

### `HostRuntime`

`host` and `agent` are the awaits at which the two tasks stand; they share
the current-thread runtime, so a step is what happens between two awaits.
`shutdown` is the flag everyone shares, `fatal` the one message of the
agent's channel that matters, `events` the channel to the window. What the
policy answers, what the server does and when the child ends are inputs.
Dropping the runtime waits for the blocking thread that reads the PTY, as
tokio does. `channel` tells the data channels of the agent's session from the
ones that an earlier session left behind when it ended in an error: those are
not closed and can still deliver a terminate message.

### `Transcript`

The reader thread reads a chunk, sends it to the viewer and appends it to
the buffer, in three steps; the policy calls between any two. `output` is all
the child has printed, `base`, `cursor` and `taken` are what a policy that
follows its cursor knows and has been given. Positions are `u64`s with
saturating arithmetic, `U64Max` being their largest.

`TerminalLog` is the abstract specification: `log` only grows, and `Head_`,
`Snapshot` and `ReadSince` are answered from it. In the refinement (`Log` in
`Transcript`) the log is what has reached the buffer, `output` without the
chunk in hand, so that a read, and handing the chunk to the viewer, are
invisible and the append is `Grow`. Trimming is invisible too: the oldest
place follows from the length of the log.

### `ReportStream`

A report is its number. `rx` is the session's place in the broadcast ring of
`Capacity` reports, `sending` and `todo` the broadcast under way. For each
channel, `snap` and `replay` are the history its `on_open` has copied and how
far it has sent it, and `got` counts how often each report was sent.

### `ChildProcess`

`pc[c]` is where a call on the child stands between its two locks: `first`
and `second` are the policy's, `drop` is the task that dropping the child
spawns. `todo`, `pipe`, `chunk`, `channel` and `got` count the output on its
way from the child to the policy. `policy` says what kind of policy it is:
`helper` runs `run_process_with_timeout`, `patient` does so with a limit that
is longer than the child needs, `calls` calls whatever it likes two at a time,
`reads` takes and drops the streams, `writes` writes. `StoreDropped` is the end
of the session, or a trap, while the policy holds the child: the calls and the
streams go, and `kill_on_drop` kills what still runs.

`ChildStdin` follows single bytes, named by stream and place: `pending` is
what a `poll_consume` could not pass on, `in_channel`, `in_buffer` and
`in_pipe` are the three places on the way to the child.

### `Negotiation`

A client is one WebSocket: `<<"page", k>>` is the page's k-th, `<<"agent", n>>`
the agent's n-th session. `to_server` and `to_client` are ordered and lose
nothing while a connection is `open`; `LinkLost` ends one at any time, with
what is on its way. `Relay` takes one message at a time. That is coarser than
`SignalingServer`, which has the server's own hazards; here the server is what
the two clients rely on.

An action of `BrowserPage` is one event handler or the code between two
awaits, and it reads and writes the globals as the code does: `begin[k]` is
the await at which `beginAuthentication` of socket `k` stands, and it goes on
with whatever `socket` is then. `connection[i]` is the WebRTC connection to
agent `i`, reduced to the offer it belongs to and whether it was answered.
`agent_peers[z]` is the agent's end: `none`, `have-local-offer` or `stable`.
WebRTC's verdict on a description is external: an answer is accepted in
`have-local-offer` and refused otherwise. Offers are named by session and
zookeeper, so that an answer to another offer can be told apart.

A login can be finished only with the response to the request it started
with; that, and that both know the secret, is what is left of OPAQUE.

### `Terminal`, `PtyTerminalState`, `PtyScreens`

One action for each call that the `vte` parser makes: a character, a control,
a sequence. The parser itself is external, so its states are not modelled: any
call may follow any. Characters are reduced to their classes (ASCII, other
narrow, wide, combining), since width is all the grid depends on. `styled`
cells are left out; the current style is kept because the alternate screen
saves it.

`PtyScreens` makes each call in both emulators. `in_step` is a history
variable: the stream so far used only functions and characters that both
treat alike and stayed off the last row and column of either, where they wrap
and scroll differently. `main_seen` is the main screen as it last was.

### `SearchTree`

The tree is kept as in the code: a vector of nodes that name each other by
index, and an index by key. UCB scores are reals; which child they single out
is reduced to what the code's comparison can settle on
(`select_best_child_by_ucb`). Floats are small integers that overflow to
infinity. JSON turns infinity, in a sum or in the `MctsConfig` that is written
with the tree, into a null that is not read back; and `serde_json` is built
without `float_roundtrip`, so that each restart may read a finite float as its
neighbour (`Rereads`, one rounding for all floats of a file, symmetric in the
sign). Of a config only what is infinite matters (`Configs`): it decides
whether a node is widened, how children compare and whether the file can be
read. The config of a file is replaced by the builder's. A
write leaves the old file, a torn one or the new one; a policy may end at any
moment, and the next one builds its tree from what it finds. A foreign file is
anything `serde` reads as a `PersistedMcts`, whatever its indices say
(`ForeignFiles \subseteq PersistedMcts`). `CountsFlowDown` counts the visits of
a node's children as a set, `VisitsBelow`, because their sum has no definition
without recursion; `pure` excludes foreign files and paths that were rewarded
through `tree_mut` and do not begin at the root.

## Runs

| run | instance | what it shows |
|---|---|---|
| `server_threads` | multi-threaded, two connections to one room, an alias that looks like the first generated zookeeper id, queues of two, windows and time to live of two; 1.3 million states | registry and tasks agree (`RegistryInv`), announcements that overtake each other hide nobody (`NoPeerMissed`), rates hold in every window (`RatesBounded`), an empty room lives for its time (`RoomGrace`) |
| `server_live` | current-thread, two connections, queues of one, two handles for a quota of one room, the clock moving so that a room expires between login and `register` | `Connected` comes first, the messages add up to the roster, the quota is kept; handshakes end, penalized clients leave, ghosts vanish |
| `server_connected_first` | multi-threaded | violation, see below |
| `server_stalled_socket` | multi-threaded, writes that need not end | violation, see below |
| `transcript` | a buffer of two bytes, chunks of up to three, four bytes of output, cursors that are stale or made up | the buffer implements `TerminalLog` (`IsALog`), followers lose only what was trimmed and catch up |
| `host_end` | with and without agent and window, delays 1, 2, 3, one terminate message | everything ends together |
| `host_remote_kill` | the same | violation, see below |
| `reports` | two channels, a ring of one, three reports | no report is lost between replay and live stream, or comes a third time |
| `process` | two streams, buffers of one byte, up to four bytes on a stream, one more than the buffers hold; two input streams of one and two bytes through a channel of one; 312 thousand states | calls agree, output is complete, input arrives in order, waits return, a run reads while it waits, no child outlives its policy |
| `negotiation` | two sockets of the page, two sessions of the agent, three connections in all, any of them lost at any time, a room that may expire | one socket at a time, the right agents are shown, losses do not end the agent, two that stay get connected, logins end |
| `terminal` | a viewer of four columns and three rows, a host of five columns, streams of five calls with parameters 0, 1 and 2 | no index outside the grid, every drawn line is full, the main screen is kept, answers are true |
| `search` | three keys, builders with two roots and with a finite or an infinite config, two rounds, sums that overflow at two, three foreign files; 276 thousand states | the tree is sound and can be rewarded; just what is finite is loaded again, to a rounding, and as an earlier state |

The bounds are small, but each case the properties are about happens within
them. Two connections suffice for an alias to collide with a generated id and
for every pair of critical sections to interleave. `AuthRateLimit` bounds the
number of connections ever accepted while the clock stands still, and
`MaxClientId` is large enough for each to get an id. A chunk longer than the
buffer, a ring that is overrun twice, three buffers of one byte that are all
full while a fourth byte is still to be printed, a tree of depth three with a second
branch and a sum that overflows are all reached. Three connections are enough
for the page or the agent to reconnect while the other stays, and five calls
to cut a wide character in half on either side, in both screens. The mutants
confirm it: every property is violated when the code it is about is broken.

`RosterInSync` is not checked on the multi-threaded runtime: there it does
not hold when queues have room for two messages, because a `PeerLeft` may be
queued before the `Connected` that still lists the peer, and an alias that
leaves and comes back may be announced in the wrong order. What remains true
there is `NoPeerMissed`, for the ids the server generates.

Deadlock is checked where the system never stops by design (the server; a
`mitb` process stutters in `Done`). A transcript at its bound, a child that
is gone, a policy with its rounds used up, a session with all reports
published, a page and an agent with their connections used up and a stream at
its bound may stop.

### Fairness

* Server. tokio polls every task that can go on, and the waits of the
  handshake end by their timeouts (weak fairness of `TaskStep`); `select!`
  picks at random among ready branches, so that a branch that is ready again
  and again is taken (strong fairness of the penalty tick and of the outbound
  branch). No frame from a client is ever assumed: `FairSpec` is about clients
  that send none (`SilentNext`); `server_threads` has a client that sends any. `SocketFairness`, a write
  to the socket ends, is not something the code ensures;
  `server_stalled_socket` shows what happens without it.
* `HostRuntime`. The two tasks go on; `poll` and the child's reading of its
  input return; a child whose terminal hangs up when everything else is gone
  dies of it; the reader sees the end of its file.
* `Transcript`. The reader finishes the chunk in hand; the policy reads on,
  and at some point stops going back.
* `ReportStream`. The session's loop and the callbacks go on. Nothing
  is assumed of the reports or the peers.
* `Negotiation`. Weak fairness of everything the three programs do by
  themselves; nothing is assumed of the user, of the network or of the room's
  expiry. A close event follows a close. The timeouts of the server's
  handshake are not needed: a login that goes wrong is closed by one side.
* `ChildProcess`. Tasks go on, time passes, a signal kills, and
  `run_process_with_timeout` reads on. The child of a `patient` policy prints
  what it has to print when there is room, and exits: that is what a limit
  longer than the child needs means, and such a run has no timeout. Nothing is
  assumed of the other children.
  `RunReturns` asks of both kinds that the run returns. For `patient` this
  holds only because streams and exit are joined: if the run read after the
  exit, the child would wait for room in the pipe and the run for the child.
  Nothing is assumed of descendants either. The kill after a timeout hits the
  child alone, the streams end only when the last descendant closes them, and
  `run_process_with_timeout` joins the streams (`mitb-sdk/src/lib.rs:967`): it
  hangs as long as a descendant holds a pipe. `RunReturns` therefore has the
  premise `[]<>~heir`.

### Where the code and what is said of it differ

* `server_connected_first`. `register` makes a client visible before its
  `Connected` is queued. On several threads another task's message may come
  first, and both kinds of client then give up the login.
* `server_stalled_socket`. A client that does not read fills its queue, is
  penalized, and is never disconnected, because its loop is in the write.
* `host_remote_kill`. A terminate message does not end the child if the
  agent's session fails before the host's next tick.

More things the models brought up, which nothing in the repository
contradicts:

* With an alias, a second session of the agent has the id of the first. An
  answer that a page sent to the first may then be forwarded to the second,
  and `set_remote_description` refuses it, which ends the agent. `negotiation`
  therefore runs without an alias (`Aliased = FALSE`), where `SurvivesLoss`
  holds: ids are never reused.
* The host's tracker is created with 80 columns and 24 rows, the PTY and the
  viewer have 72 and 27; the tracker counts every character outside ASCII as
  two columns. Beyond what both share, an answer to a cursor request need not
  be where the viewer draws; `AnswersTrue` is about the shared part.
* `sanitize_row` restores a wide character whose right half was erased and
  may overwrite its right neighbour. A line feed on the last row below the
  region scrolls the whole grid. `ESC c` does not leave the alternate screen.
* The writer task closes the child's standard input only when the last sender
  is gone, and the resource holds one: a child that reads to the end of its
  input ends only by a kill. Bytes of two `write_stdin` streams of one child
  may interleave; each by itself stays in order.
* A best-effort write that is cut off loses the whole tree, since
  `build` starts anew over a file it cannot read.
* So does an infinite field of `MctsConfig`: nothing checks it, it is written
  as null, and the next start cannot parse it, although it would not use it.
  Rewards that add up to an infinite sum have the same effect.
* The test of the file format compares sums to within 1e-9
  (`mitb-sdk/src/search/mcts.rs:765`). That is needed: a float may come back as
  its neighbour.
* A run with a timeout does not return while a descendant of the child holds
  its output open.
* A server that refuses a login ends the agent for good, and the host with it,
  and a data channel that a failed session left behind can still end the host.
* The pending path is not persisted, so that after a restart
  `backpropagate_and_select` refuses a key that hangs deeper in the tree than
  under the root.

## Proofs

Each proof module proves its theorems for all constants that satisfy the
named assumptions of the module it extends.

**`SignalingServerProofs`** (`ConfigAssumption`: the ranges
`SecurityConfig::from_env` enforces; `NoAliasAssumption`: an alias is not
empty; `FiniteAssumption`: finitely many handles; `ServerAssumption`: a queue
has room for at least one message): `TypeCorrect`, with it the bound on every
queue; `NothingStale`, `NobodyLost`, `IdsUnambiguous`, the three parts of
`RegistryInv`; `QuotaKept`. The inductive invariant is
`TypeOK /\ RegistryInv /\ ReplyPending`. The parts of `RegistryInv` need each
other: a connection that leaves removes its own entry only if the entry under
its id is its own (`NoLostMember`), and nobody else's entry becomes stale only
if that entry names no other connection (`NoStaleHandle`). Types are part of
it because a signal carries the sender's id, which is an id only because the
sender is a member. `ReplyPending` rules out that a task that has unregistered
finds an undelivered reply and goes back to `closing`. Most actions are
*quiet*: they change no occupied room's members and register nobody
(`QuietRooms`, `QuietTasks`), and one lemma, `QuietStep`, covers them all;
`InvRegister` and `InvUnregister` do the rest.

Three more invariants build on that one.

* Time. `RatesKept` and `GraceKept` say that `RatesBounded` and `RoomGrace`
  hold for any limits, windows and time to live (`HIInv`). `RateBooks` relates
  each `SlidingWindow` to the history: what the code still keeps is the end of
  what happened, and what it has dropped is a whole window old, so that a call
  it admits is a window away from the one that lies its limit before it.
  `OccupationBooks` bounds when a room was last occupied by the time the room
  itself remembers, which is what pruning compares.
* Announcements, on either runtime. `NobodyMissed` proves `NoPeerMissed`
  (`VInv`). The core is `Told`: whoever shares a room with a client under a
  generated id is known to the client, or some task still has the message that
  says so. It is inductive because nothing takes a peer back: a generated id
  is handed out once (`FreshIds`), and a `PeerLeft` still to be sent is about
  an id that nobody has any more (`GoneIds`). For aliases this is false, and
  so is the property.
* Announcements, on the current-thread runtime (`ASSUME ~MultiThread`).
  `ConnectedComesFirst` proves `ConnectedFirst`, `RosterKept` proves
  `RosterInSync` (`OneThreadInv`). One task at a time has messages to make
  (`OneTalks`), and it has one for each client (`OneNews`); `Synced` says that
  a client's final view is its roster, or becomes so with that message. This
  is also the reason that the hypothesis is needed: on the multi-threaded
  runtime two tasks may both have news.

**`TranscriptProofs`** (`TranscriptAssumption`): `TranscriptTyped`,
`WindowKept`, `ViewerNotBehind` (the viewer is never behind the policy),
`RepliesFaithful`, `NoneSkipped` and the refinement `BufferIsALog`, for every
buffer and chunk size. `Window` is inductive only
with `Bounds` (a chunk is in hand exactly between a read and its append, and
is the end of the output) and `Shown`; the follower's cursor never passes the
head. `trim_transcript`, `transcript_bytes_since` and
`transcript_snapshot_bytes` have lemmas of their own. `BufferIsALog` shows
that every step of `Transcript` is a step of `TerminalLog` or leaves its
variables alone (`IsALog` itself is the abstract `LogSpec`, which is a safety
specification; that a follower catches up is `CatchesUp`, model-checked). `Window` is what makes it work: the buffer holds the end of
the log, so its start is the log's oldest place whenever it is full, and the
clamping of a cursor to start and head is the log's `Nearest`.

**`HostRuntimeProofs`** (`HostAssumption`): `HostTyped`, `EndsClean`,
`EndsOnPurpose`. `CleanEnd` speaks of the end only; `Ending` says what is
known on the way there, at each of the joins.

**`ReportStreamProofs`** (`ReportAssumption`): `StreamTyped`,
`ReportsNotLost` (what is missed is a whole ring behind, nothing else is) and
`NotThrice`, for any number of channels and any ring. The invariant has `Positions` (where receiver, broadcast and
replays stand), `Replayed` (what a replay has passed was sent), `Streamed`
(what the session has passed since a channel's snapshot was sent or missed)
and `Counted` (each report was sent at most once by each of the two). A report
is either in a channel's snapshot or after it: the first two parts cover the
one case, the third the other.

**`ChildProcessProofs`** (`ProcessAssumption`): `ProcessTyped`, `StatusTrue`,
`CollectedAll`, `KillsOnlyOwn`, for any sizes of the buffers and any amount
of output. `Books` is the balance of every stream: printed = collected + in
the channel + in the reader's buffer + in the pipe. `Ends` empties the last
three by the time the policy sees the end of a stream; `Lives` ties the calls
to the state of the child; `Helper` is what `run_process_with_timeout` has
done at each of its awaits.

`StdinInOrder` (`StdinAssumption`) proves `InputInOrder` of `ChildStdin`. It
compares places: the `n`-th byte of a stream that has gone some of the way is
byte `n` of what its caller wrote (`InOrder`), and all bytes are somewhere on
the way (`Complete`). Each of the handlers moves bytes from the end of one of
the five stages to the next, which leaves their concatenation as it is.

**`TerminalProofs`** (`SizeAssumption`: a grid of two columns and a row at
least; `TabAssumption`, `ParamAssumption`, `StyleAssumption`,
`HostSizeAssumption`): `NeverOutside`, `MainScreenComesBack`,
`AnswersAreTrue`, `RowsDrawnAligned`, for every size of either emulator and streams of any
length. `Grid` needs the saved screen to be in the grid as well, since leaving
the alternate screen makes it current (`MainInv`); `Agree` is what `in_step`
means: equal cursors and saved cursors, and a region that nobody has set.
`DrawnAligned` speaks of two recursive functions over a row, the pass of
`sanitize_row` and the columns at which `lines` draws. The invariant is about
neighbours instead: in each row on display or saved, a cell is a continuation
just if a wide character is to its left, and none is in the last column
(`Lines`, `Drawable`). `Sanitized` shows this of every row that the pass
returns, `WrittenLine` of every row a character is written into, and `Drawn`
that such a row is drawn as it should be. `CleanExists` is what makes the
first of these say anything: a recursive function is defined only if some
function satisfies its equation, and there is no first column at which the
pass could get stuck.

**`SearchTreeProofs`** (`SearchAssumption`): `TreeKept`, `TripKept`,
`PathStays`, `DiskStaysBehind`, `CountsKept`, for any keys, rewards, depths
and foreign files. The invariant `SInv` has one part for each.

* `Sound` is local: the index names every node, and parents and children name
  each other. That a walk down from the root ends follows from it, without an
  induction over paths: if a walk came back to a node, take the first place of
  the walk to which it comes back; the node has one parent, so the walk came
  back to the place before as well, or that first place is the root, which has
  no parent. A walk without repetition is no longer than there are nodes, by the
  pigeonhole principle. Where an induction would be needed, the least element
  of a set of places stands for it (`LeastOf`).
* `TripKept`: what is written for a sound tree is `Accepted` just if its config
  and its sums are finite (`StoreAccepted`, `AcceptedStored`), and reading it
  gives back keys, links, visits and index as they were and each float at most
  one step off, for every rounding that keeps zero and the sign (`StoreBack`,
  from `NodeReread` for each node).
* `DiskStaysBehind`: the file, if it would be accepted for this root, has a
  prefix of the nodes with no more visits and children, and floats that are at
  most one step off where the visits are the same (`Behind`). Each step
  either leaves the file, tears it, or writes the tree as it now is.
* `CountsKept`: a reward goes to every node of a path once, so of the children
  of a node on the path at most one is counted, and the node with it (`Flows`,
  also of the file, from which the next tree is made). A call through
  `tree_mut` may be refused in the middle of its path; what it has counted by
  then is the beginning of a path from the root, which is one as well
  (`PrefixPath`, `PrefixFlows`).

**`NegotiationProofs`** (`RelayAssumption`: the bounds are numbers), for any
number of sockets of the page and sessions of the agent.

* `OneSocketKept`: the types, and that the secret can be entered only while
  there is no socket (`SocketInv`).
* `AgentsAreShown`, with and without an alias. The page's table and its queue
  are seen as one: `Shown(P, q)` is what a page that shows `P` will show after
  the queue `q`, in closed form, and it is the agents of the room for every
  page that is a member (`RosterAt`). A `Connected` carries the agents there
  are, and each join or leave appends one message. The part about names
  (`Named`) is what makes a `PeerLeft` be about one agent only: at any time at
  most one member has the alias.
* `LossSurvived`, under `~Aliased`. `Shapes` says that a signal is about the
  two clients it is sent between, so that an answer which reaches the agent is
  to an offer of this session. `PairInv` is the argument: between a session of
  the agent and a socket of the page there is one exchange, and it is in one
  place at a time: the news of the page on its way to the agent, the offer on
  its way to the server, then to the page, the page at its answer, the answer
  on its way to the server, then to the agent, or the stable connection
  (`Places`), and in each queue at most once (`Unique`). It starts only when
  the two first meet, which the phases of the server say happens once
  (`Met`). An answer for a connection that is stable would be a second place.
  With an alias the ids are not the clients', and the property is false.

Type invariants, `Window`, `ReplyFaithful` and `KillsOwnChild` are proved and
not checked again by the runs.

Only model-checked:

* liveness (`PairsUp`, `LoginEnds`, `RunReturns`, `WaitReturns`, `CatchesUp`
  and the others), which needs fairness and `ENABLED` and is out of the
  prover's reach;
* that `server_connected_first`, `server_stalled_socket` and
  `host_remote_kill` are violated: these are single behaviours.

Every safety property of the passing runs is a theorem, every action property
and the refinement among them.

## Not modelled

The cryptography of OPAQUE; WebRTC's own protocol; the parser of terminal
sequences; the buffers of the PTY, so that a child which neither reads nor
lets the host write is an assumption of `HostRuntime` instead of a state; the
policy log, a line filter without any actor but its caller; the viewer's
painting, mouse, keyboard and eye, video and audio; argument parsing; the
HTTP, file, git, idle and text helpers of the SDK, which are sequential
wrappers around host calls; the example policies. `PROJECT.json` has the
reason for each.

## Plan

Done in this order: the server, since everything else meets there; the life
of a `mitb` process; transcript and reports, its two outputs; the process API;
the search tree; the abstract terminal log and its refinement; standard input;
the page, the agent and the server together; the two terminal emulators.
Next:

1. The PTY: the writer lock shared by the reader thread and the loop, and the
   terminal's two buffers; the abstract version of it is what `HostRuntime`
   assumes of the child.
2. An abstract room (who is in it, what they are told) that
   `SignalingServer` implements on the current-thread runtime and `Relay`
   implements by its construction.
3. The SDK's idle detection on top of `Transcript`.

Runs answer one question each; new questions about a module are added to its
run.
