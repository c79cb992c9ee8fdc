# webrtc-mcp-server in TLA+

TLA+ specifications of `webrtc-mcp-server`, the TLC runs that check them on small
instances, and TLAPS proofs of their safety properties for instances of every size. Source
paths below are relative to the TypeScript sources, `src/src/` of this checkout (the agent worker is
`src/scripts/agent-worker.mjs`); `PROJECT.json` maps every definition to the lines it models.

| part of the system | module | checked by | proved in |
|---|---|---|---|
| rooms and their principals | `Rooms`, abstractly `Seniority` | `MCRooms` | `RoomsProofs` |
| signaling hub, room tools | `WsSignaling` (instance of `Rooms`) | `MCWsSafety`, `MCWsLiveness`, `MCWsRejoin` | `WsSignalingProofs` |
| video streams | `StreamBridge` | `MCStream`, `MCStreamKillAfterTerm` | `StreamBridgeProofs` |
| cutting frames from ffmpeg's output | `JpegSplitter` | `MCSplitter` | `JpegSplitterProofs` |
| WebRTC connections, their signals | `PeerSession` | `MCSession` | `PeerSessionProofs` |
| task messages, agent workers | `TaskFlow` (instance of `Rooms`) | `MCTasks`, `MCTasksAnswered` | `TaskFlowProofs`, `TaskOutcomeProofs` |
| worker thread pool | `WorkerPool` | `MCPool`, `MCPoolStop` | `WorkerPoolProofs` |

## 1. The system

One Node process. An MCP client (an AI agent) talks to it over stdio; WebSocket peers —
agent workers, or leads that assign work themselves — connect to its signaling hub; WebRTC
connections and ffmpeg child processes hang off it. Everything runs on one event loop,
except the threads of the worker pool, the ffmpeg processes and the remote agents. A
handler therefore runs to completion unless it awaits: **a handler is one action**, and what
interleaves is handlers, timers, events of sockets and processes, and the two sides of an
`await`. MCP requests are processed one at a time, so that the tools do not overlap
with each other.

### Components, their state and their operations

* **RoomManager** (`signaling/room.ts`). State: the map of rooms (members in the order of
  joining, principal) and, kept by hand beside it, the index from a peer to its rooms.
  Operations: `join` (creates the room, throws at either limit), `leave` of one room,
  `leave` of all. Correct when the two structures agree, the principal is the oldest
  member, a room without members is gone, the limits hold, and nobody replaces a principal
  that is still there.
* **WebSocket hub** (`signaling/ws-server.ts`). State: per connection a closure variable
  `peer` and a join timeout, and the map of registered peers, each with its socket and
  the set of its rooms. Handlers: connection, join, leave, signal, command, close, timeout.
  It shares the RoomManager with the MCP tools. Correct when a registered id
  belongs to a connection whose close event will free it, when rooms hold no peer that is
  gone, and when the notices a member receives add up to the membership.
* **SignalingServer** (`signaling/server.ts`). Emits room signals, which `index.ts` turns
  into broadcasts of the hub; queues signals for peers that are not on the hub.
* **MCP handler** (`mcp-handler.ts`). Room tools, `webrtc_send`, `webrtc_broadcast`,
  `webrtc_poll`, `webrtc_connect`, `webrtc_disconnect`, `webrtc_signal_relay`, stream
  tools. State: the inbox, the task entries, the table of peers. Correct when
  each result is seen once and the status of a task says what became of it.
* **Agent worker** (`scripts/agent-worker.mjs`). Joins a room, runs each task it gets in a
  child process at once, reports the outcome, exits when its connection closes.
* **Video bridge** (`video/`). Per stream: an ffmpeg process that is replaced on failure
  (with backoff, at most five times), timers for the reconnect and the forced
  kill, a byte scanner that cuts JPEG frames from the output, a ring of recent frames.
  Correct when there is one process, failures are retried within the limit, a
  stopped stream stays stopped, the cache holds the latest frames, and a frame is a frame.
* **WorkerPool** (`workers/`). A fixed number of worker threads, peers assigned to the least
  loaded, replacement of threads that exit, an asynchronous `start` and `stop`. Correct
  when loads count the peers that are assigned, no peer is assigned to a thread
  that is gone, `start` and `stop` end with all threads up, respectively down.
* **WebRTC sessions** (`webrtc/manager.ts`, `transports/webrtc.ts`). State: the map from a peer to
  its transport; per transport the native connection and the candidates that wait for the
  remote description. Operations: `connect` (offer), `signal` (answer or candidate),
  `disconnect`. Correct when no candidate is lost whatever it overtakes, an open
  connection is always the one in the map, and no order of signals and tools leaves a
  negotiation or a tool waiting.
* **Shell**: stdio loop and dispatch, configuration, logging, health endpoint.

### Interactions

```
 MCP client --stdio--> mcp-handler --join/leave--> RoomManager <--join/leave-- ws-server <--ws-- peers
                          |   ^                                                 |   ^
                          |   +---- onInboundMessage (results for the host) ----+   |
                          +-- SignalingServer --event (index.ts)--> broadcastToRoom |
                          +-- deliver(): DataChannel, else relayToPeer -------------+
                          +-- StreamManager -> FfmpegBridge -> ffmpeg;  FrameCache
                          +-- WorkerPool (release on disconnect)
```

### What is hard

Joins, timeouts, close events and the room tools interleave on shared maps; a closure
variable outlives what it was set for; frames are accepted by a socket whose other end is
gone; results arrive between polls; an agent takes its queue down with it; timers
and exit events of a replaced ffmpeg process act on its successor; thread exits are
handled while `start()` or `stop()` is suspended; signals of one WebRTC connection arrive when
another has taken its place, or while a handler of it awaits the native library. `PROJECT.json` lists each hazard at its line
with the properties that address it.

## 2. The modules

### Rooms, Seniority

`Rooms` has the state of `RoomManager` as total functions: `rooms` (the keys),
`peers[r]`, `principal[r]`, `peerToRooms[p]`. `Join` is `join` with both throws — the second
comes after the room was put in the map, and the model puts it there too; that it leaves no
empty room behind is a consequence of the limit being positive, which `RoomsAssumption`
states (with `maxPeersPerRoom: 0` every join would leak a room). `Leave(S, p)` takes a set of
rooms because `_handleDisconnect` leaves all rooms in one turn.

`Seniority` is what a room promises without the bookkeeping: members in an order of
arrival, and as chief the one nobody precedes, recomputed from scratch. `Rooms` implements
it (`ImplementsSeniority`), with the order read off the member list.

### WsSignaling

Instantiates `Rooms` on its own variables and adds per connection `sock`, `bound` (the closure
variable), `joinTimer`, and per id `wsPeers`. `HandleJoin`, `HandleLeave`, `SocketClosed`
(with `_handleDisconnect`) and `JoinTimeout` are the handlers; `McpCreateRoom`, `McpJoinRoom`,
`McpLeaveRoom` the room tools with the notices `index.ts` sends for them, for any peer. Three
variables observe: `told` is what the notices sent to a connection add up to, `moved` the
rooms a tool moved a peer into or out of since it last joined or left them itself, `refused` the
joins a tool announced and the RoomManager then refused. Only the properties read the last two, which
are their exceptions (section 3).

Inputs the model takes for granted, each a constant or a definition one can see: WebSocket clients do not
call themselves `host` (`WsId`); a client sends no second join after an accepted
one (`ClientsRejoin = FALSE`, as `agent-worker.mjs` does; `MCWsRejoin` drops this). The
room tools take any id: `ToolPeer` is all of `Peer` in the passing runs.
`stop()` is not an action: the shipped wiring reaches it only in the mode without a hub.

### StreamBridge

One stream: its entry in `StreamManager`, its bridge and its cache. Streams share
nothing else. Processes are numbered; `alive` are those whose exit event is still due. A
spawn error is emitted in the next tick, before anything else can run, and is part of
the spawning action. `retryTimers` counts pending reconnect timers, because a timer
that is overwritten is lost, not cancelled. A chunk of output is the head or the tail of a
frame; pipes may deliver after the exit event. `NewProc` is the spawning, `SpawnFfmpeg` that and
the status it ends with. The status `reconnecting` is set and overwritten within one call, so
that no step may end with it (`TypeOK`). `StreamManager.reconnect` has no caller
today; `ManualReconnect` models it, bounded by `MaxManual`, and the two properties that
do not survive it (`OneProcess`, `ReleasedStaysDown`) say so by their condition `manual = 0`.

### JpegSplitter

`_onData` byte by byte: `Frames` is its loop, the recursive function `Cut` on buffers, `EndOf` its search for the end marker from behind
the start marker. `WriteFrame` is ffmpeg, `OnData(n)` delivers the next n bytes of the pipe
as a chunk, `ProcessReplaced` ends a process wherever it is and keeps the buffer, as the
bridge does. A byte is one of the four values the scanner can tell apart, and says which
frame it was written for; a body has none of the two markers in it, which JPEG
guarantees for entropy-coded data and ffmpeg's encoder, which writes no embedded
thumbnails, keeps to. The pipes of two processes do not overlap: `OneProcess` of
`StreamBridge` says when that is so.

### PeerSession

The connections of the host to one peer. Transports are numbered in the order they are made,
and `n` is also the name of the offer made with transport `n`. `ConnectStarts`, `OfferCreated`,
`LocalDescribed` are the pieces of `webrtc_connect` between its awaits, `ConnectThrows` and
`OfferFails` its two ways to fail; `AcceptAnswer`, `SetRemoteDescription`, `AnswerSettled` are
`acceptAnswer` before its await, the native library, and the rest of it. `answering[n]` is a
list because two answers may be under way. `tool` is the await the stdio loop
is in: the other tools wait for it, the frames of the hub do not. `HandleSignal` is the way of a
signal through the hub (`_handleSignal`, `onInboundMessage`), `SignalRelay` the tool
`webrtc_signal_relay`. The peer answers the last offer it has read and trickles
candidates before or after; its link to the hub may break with everything on it. A closed native
connection may settle what was asked of it, or never. `received` only observes.

The answer given to `webrtc_signal_relay` is a description. The schema of the tool calls it a string,
which the native constructor refuses: a client that keeps to the schema gets `relayed: false`.
Offers and ice_restarts sent by a peer are no inputs either: the host always calls
(`manager.ts:60`) and takes every description it gets for an answer.
A frame with both a description and a candidate is not an input of the model.

### TaskFlow

Tasks and results as numbers of calls that handed them out, `handed[n]` being what the call
addressed. `down[w]` and `up[p]` are the two directions of a connection, lost with it
(`Gone` then `SocketClosed`; in between the hub still relays to the dying peer). `Send`,
`Broadcast`, `Poll` are MCP tools, `HandleCommand` is the hub's relay with its two fallbacks to
the host, `RunTask` and `JobEnds` the agent worker; a spawn failure is reported by two
handlers and so twice. `taken`, `reports`, `lost` only observe. The registry is reduced to
`conn`, and joining to accepted joins: `WsSignaling` has the rest.

A task is given an id or `NoId`. Without one the handler keeps its entry under an id
it makes up and does not send (`OrMadeUp`), and each worker that runs the task makes up another
(`named[w][n]`), which is the one its results name; each reads its own clock, so that the two ids
agree or differ. The entry a result settles is found by that id, as in the code
(`OnInboundMessage`). A given id is given once (`ReuseIds = FALSE`), is a string — the handler
stores a number under its string, which no result then names — and looks like none that is made
up. `MaxNameless` bounds the tasks without an id. Agent workers have no DataChannel and no peer is ever assigned
to the pool, so delivery is the relay alone.

### WorkerPool

`Start`, `ReadyMessage` (which resumes `start()` if it awaits that thread), `CheckReady`
(the 50 ms interval), `Dies`, `Exit` (the exit handler, then `stop()` if it awaits that thread), `Stop`,
`Assign`, `Release`. `original` tells the thread start() spawned from its replacements, whose
ready message nobody awaits. `assign` has no caller today: the model checks what it
promises to one that assigns a peer once, to a started pool. With `EarlyDeath = TRUE`
`StartEnds` does not hold: a thread that dies before its ready message is replaced, but
`start()` waits for the dead one for ever. The passing run states the condition under which it ends.
`DeadAreReplaced` demands nothing once `stop()` was called: a comment at `pool.ts:167` says that
workers ended on purpose stay down, and `pool_stop` is about those.

## 3. What the runs check

| run | question | states | result |
|---|---|---|---|
| `rooms` | do all orders of joins and leaves keep the maps consistent and the oldest member in charge? | 4 900 | holds |
| `hub_safety` | do registry, rooms and notices agree when connections, timeouts and tools that move any peer interleave? | 1 130 000 (up to symmetry) | holds |
| `hub_liveness` | does a departing peer get out of the registry and its rooms, and a silent connection end? | 38 500 | holds |
| `stream` | one process, retries within the limit, stopped is stopped, latest frames cached? | 230 000 | holds |
| `tasks` | is any task or result forgotten, duplicated, reordered? is done really done? | 910 000 (up to symmetry) | holds |
| `tasks_answered` | is a task that was sent with an id answered unless its worker drops? | 770 000 | holds |
| `pool` | do loads, assignments and readiness agree with the threads? | 24 000 | holds |
| `session` | is any candidate, connection or negotiation lost, whatever signals, tools and broken links do? | 62 000 | holds |
| `splitter` | are frames whole and in order for every division into chunks? | 58 000 | holds |
| `hub_rejoin` | can an id stay registered without a connection? | | **yes** |
| `stream_kill` | can the forced kill hit a process nobody asked to end? | | **yes** |
| `pool_stop` | can a stopped pool go on running threads? | | **yes** |

Every property of a passing run is broken by at least one mutant of the code (a definition
marked `Mutant`, substituted for the one after it), so none of them holds for want of
behaviour.

### The three disagreements

1. `ws-server.ts:55` — each join frame overwrites the closure variable with the result. A second
   join on a joined connection is refused as "already connected", the variable
   becomes null, and the close handler forgets to deregister the peer: the id can never join again.
2. `ffmpeg-bridge.ts:252` — the kill timer reads `this.proc` when it fires: by then, after a
   reconnect, the new process.
3. `pool.ts:168` — the exit handler respawns the workers `stop()` terminates.

### Observed, without a run of its own

* `mcp-handler.ts:510` — `webrtc_join_room` puts a WebSocket peer into a room the hub does not
  list for it. When it disconnects it stays a member, even principal, of that room; nor does it
  get the list of the members that a join frame is answered with. `webrtc_leave_room` does the
  converse. `MembersConnected`, `DepartedForgotten` and `NoticesAccurate` name these rooms (`moved`) as
  the exception.
* `mcp-handler.ts:509` — `webrtc_join_room` announces a peer before it joins it: if the room is full,
  its members are told of a peer that is not there. `NoticesAccurate` names this (`refused`) as
  the one exception.
* `mcp-handler.ts:271` and `:340` — a task whose data has no id, as in the example at line 177 of the
  repository's `README.md`, gets one for its entry that the message does not carry;
  `agent-worker.mjs:65` makes up another. The entry stays `sent` though the worker answered, unless the two clocks
  happened to agree, and may then be that of a different task. The result itself reaches the
  inbox. `DoneWasDone`, `DoneStaysDone` and `SentIsAnswered` are therefore about ids that were given.
* `mcp-handler.ts:87` — one task entry per broadcast: the first result marks it done for
  every recipient that `webrtc_room_info` lists it for.
* `ffmpeg-bridge.ts:199` — a start marker divided over two chunks is dropped with the garbage
  before it, and its frame is lost. `LostOnlyWhenSplit` names this as the one exception.
* `ffmpeg-bridge.ts:192` — the beginning of a frame its process did not finish is reported as
  part of the next process's first frame. `FramesWhole` names this as the one exception.
* `manager.ts:66` — signals name the peer only. A late answer to a previous offer is accepted by
  the connection that replaced it, which then refuses the right one.
* `manager.ts:53` — a connection whose offer fails leaves the map without being closed.
* `mcp-handler.ts:193` — a peer stays listed when its connect throws.
* `config.ts:7` — nobody reads `connectionTimeoutMs`: an offer nobody answers, like a
  connection the network broke, stays in the map, and the next `webrtc_connect` to that
  peer throws until `webrtc_disconnect`.
* `mcp-handler.ts:548` — `webrtc_signal_relay` is described as passing a signal on to a peer; it
  applies the signal to the host's own connection with that peer.

### Bounds, and why they suffice

* `rooms`: four peers, three rooms of which two may exist, three per room: both limits are
  reached, rooms die and are created again, a principal leaves with two members waiting.
* `hub_safety`: three connections for two ids, so that an id is contended and reused after a
  disconnect; two joins per connection, one refused and one accepted; a room with two places for three
  peers, so that each excludes another and an announced join is refused. All peers are moved by tools.
  One room is enough: the properties speak of each room by itself, and the limit of rooms is
  `rooms`' subject.
* `hub_liveness`: a peer in none, one or both of two rooms when it goes, by itself or by a tool, and a
  second connection that takes or is refused its id meanwhile.
* `stream`: two automatic reconnects and one from outside need four processes;
  three frames overflow a cache of two.
* `tasks*`: two tasks (`MaxHanded`), one of which may be a broadcast (`MaxFanOuts`) and one without an
  id (`MaxNameless`); a lead that is or is not principal. `tasks` has two workers, two arrivals and
  one reading of the clocks, under which the ids made up for a task sent agree and those for one
  broadcast differ (their prefixes do). `tasks_answered` has one worker, since a second one only offers
  another answer, but two readings, so that the ids for a task sent differ too, and three arrivals, so that the
  worker or the lead can come back under its id.
* `session`: two transports, so that the signals of one meet the other; two candidates, one on either side
  of the answer; one broken link, after which the peer starts over.
* `splitter`: three frames, so that one chunk holds the end of one, a whole one and the beginning of
  another; two replacements, so that two beginnings of frames meet in the buffer; bodies with
  and without an FF in them, which is the first byte of either marker.
* `pool`: two slots, three peers (so that loads differ), two unasked deaths.

Each bound is a constant, tested in a guard. Deadlock checking is off for the streams, the scanner and the pool
only: a stream ends when it was released and its processes are gone, the scanner when all is delivered, and the pool when it was stopped
or its deaths are used up. The symmetry used is that of identical ids; no liveness
property is checked under symmetry.

### Fairness

* `WsSignaling`: timers fire; a socket that is going down gets its close event, as the `ws`
  library has a timeout of its own for it. Nothing is assumed of clients or tools.
* `StreamBridge`: timers fire; SIGKILL ends a process. A process may ignore SIGTERM and run for ever.
* `TaskFlow`: frames in flight arrive, close events come, and the commands that workers run
  end. The code has no timeout for commands, so without that assumption nothing is answered.
* `PeerSession`: the event loop resumes what was awaited, frames that arrived are handled, the native
  library settles what was asked of an open connection, and the peer answers what it reads. Nothing
  is assumed of a closed connection, of the client, nor of the link: `NegotiationEnds` is
  about a link that no longer breaks.
* `WorkerPool`: a thread that is not dead becomes ready, events are delivered, the interval
  fires, a thread asked to end ends.

## 4. What is proved

Every safety property of a passing run, state invariants and action properties; and that
`Rooms` implements `Seniority`, and `WsSignaling` `Rooms`. The theorems hold for all sets of peers, rooms, connections and tasks and all limits. The
assumptions on the constants (`RoomsAssumption`, `WsAssumption`, ...) say that limits are
natural numbers, `maxPeersPerRoom` and `CacheSize` positive, that names like `NoPeer` name no peer, that the
host is a peer, that nobody gives a task an id that looks made up. Two of them are worth a word. `maxPeersPerRoom` is positive
because with 0 every join would leave an empty room behind. `PoolAssumption` has finitely many
peers, because a load is a number. TLC evaluates all of them in the runs.

Some theorems have a hypothesis beyond that, the one the run makes too; each is something the
clients do, and the code does not enforce:

* `~ClientsRejoin`: no client sends a second join on a joined connection. `agent-worker.mjs`
  does not; `hub_rejoin` shows what happens if one does.
* `~ReuseIds`: no task id is given twice. Ids that are made up from a clock may repeat.

### Rooms (`RoomsProofs`)

| theorem | states |
|---|---|
| `TypeCorrect` | `Spec => []TypeOK`: no peer is ever listed twice |
| `IndexCorrect` | `Spec => []IndexAgrees` |
| `PrincipalCorrect` | `Spec => []PrincipalIsSenior` |
| `LimitsKept` | `Spec => []WithinLimits` |
| `PrincipalNeverUsurped` | `Spec => PrincipalStays` |
| `RoomsImplementSeniority` | `Spec => ImplementsSeniority` |

The conjunction of the four state properties is inductive, and none of them is
alone. The index can only be cleaned up correctly by a `leave` that returns early
for rooms not in the map because such rooms have no members (`PrincipalIsSenior`); that the
filter removes one entry, and the head of what is left is the next oldest, needs lists without
repetitions (`TypeOK`); that a join that throws for a full room does not leave a new empty one
behind needs the limit to be positive. The lemmas state, of sequences without repetitions, what appending
a member and removing one do to length, range, head and injectivity, and are cited by the
two action steps (`Join`, `Leave`). `PrincipalStays` follows from the invariant at each step.
The refinement maps a member list to the set of its members and the order of their positions:
appending a member adds it behind all others, removing one takes its pairs out of the order,
and the principal is the one nobody precedes because it is the head of the list.

### The hub (`WsSignalingProofs`)

| theorem | states |
|---|---|
| `TypeCorrect` | `Spec => []TypeOK` |
| `HubImplementsRooms` | `Spec => RM!Spec`: every handler takes a step of `Rooms`, or none |
| `HubRoomsCorrect` | the index and the principals are right in the hub too |
| `RegistryCorrect` | `Spec => []RegistryLive`, if `~ClientsRejoin` |
| `MembersCorrect` | `Spec => []MembersConnected`, whomever the tools move |
| `NoticesCorrect` | `Spec => []NoticesAccurate`, if `~ClientsRejoin` |

Handlers combine a step of the rooms with changes of the registry, so the room theorems are
not proved again but carried over by the refinement. `RegistryLive` goes from the registry to
the connection; a close event frees an id by the way back, that a connection bound to an id is
the one registered for it (`BoundRegistered`), and the two are inductive together.
`MembersConnected` needs in addition that an id nobody holds lists no rooms. The notices
then add up because every handler or tool that changes the members tells all of them; a member that a tool
put there (`moved`) is told too, but never got the list the notices add to, which is why the
property is not about what it knows.

### The video bridge (`StreamBridgeProofs`)

| theorem | states |
|---|---|
| `TypeCorrect` | `Spec => []TypeOK` |
| `OneProcessOnly` | `Spec => []OneProcess` |
| `FailuresRetried` | `Spec => []FailureIsRetried` |
| `ActiveRuns` | `Spec => []ActiveHasProcess` |
| `AttemptsLimited` | `Spec => []AttemptsBounded` |
| `CacheCorrect` | `Spec => []CacheIsLatest` |
| `ReleasedForGood` | `Spec => ReleasedStaysDown` |

All rests on an account of who may start a process: running processes and pending retries
together never exceed one and the reconnects from outside (`Accounted`), because a retry is
scheduled by the exit of a process only, and a process is spawned by a retry that fires. Bounds
on the attempts come from the same kind of account (`Budget`).

### Cutting frames (`JpegSplitterProofs`)

| theorem | states |
|---|---|
| `TypeCorrect` | `Spec => []TypeOK` |
| `OnlyWholeFrames` | `Spec => []FramesWhole` |
| `NoOtherLoss` | `Spec => []LostOnlyWhenSplit` |

`SplitterAssumption`, that two bounds are natural numbers, is all that is assumed. The proof has three parts.

First, that `Cut` satisfies the equation it is defined by (`CutEquation`): a recursive function
is a `CHOOSE`, so that one has to exist. Functions on the buffers shorter than n that obey the
equation exist for every n and agree where both are defined, each by a least counterexample, and
together they are one on all buffers.

Second, what the loop returns. `Stream(W, at)` describes all bytes that the bridge has not lost with a
process: frame k is placed behind `at[k]`, frames follow each other, what is there of one has its
beginning (`Begun`) and, unless it was broken off, all of it (`Complete`). On a part of such a stream
one turn cuts from a start marker to the first end marker behind it; that marker ends a
frame that is there as a whole, anything before it is of broken frames (`CutIsWhole`), and the next frame
that was not broken begins after the cut, if it is not the one cut (`CutIsNext`). The loop is an
induction on the number of bytes left (`ScanPart`), on sets of such numbers.

Third, the invariant. `buffer` is the stream from `lo` to `mid`, `pipe` is the rest. `FramesWhole` needs to know
that the buffer holds no start marker with an end marker behind it (`NoPair`), and that what was
reported is about frames before those left; `LostOnlyWhenSplit`, that whatever is before `lo` was
reported, or is broken or split: only a start marker divided between two chunks lets the
loop empty a buffer that has the first byte of a good frame. The end of a process takes a tail off
the stream, and a new frame is written behind what is left of the broken ones.
The type of the sequence numbers follows from the order: each event is about a later frame.

### Tasks (`TaskFlowProofs`, `TaskOutcomeProofs`)

| theorem | states |
|---|---|
| `TypeCorrect` | `Spec => []TypeOK` |
| `NoneForgotten` | `Spec => []NoTaskForgotten` |
| `SeenOnceInOrder` | `Spec => []ResultsSeenOnce` |
| `DoneIsTrue` | `Spec => []DoneWasDone`, of ids that are given, if `~ReuseIds` |
| `DoneForGood` | `Spec => DoneStaysDone`, of ids that are given, if `~ReuseIds` |

`Addressed` says where a task number can be found at all: with the workers it was addressed
to, and nowhere before it was handed out. A new task is therefore in no place yet, and each action moves a task from one place to the
next; that reading a task takes it out of the queue for good needs that it was in it once (`OnceDown`). `ResultsSeenOnce` says of a worker's
results that those in the log come first, then those under way, by their places in the sequence of
what it sent: appending to the log or cutting off the frames of a lost connection shifts
places, which the lemmas on `Place` work out. A done
entry has a result in the log that says so (`Logged`); with ids used once, that result is about the
task of the entry (`Ids`), and what a worker says of a task of the host it says throughout
(`OneOutcome`): it reports a task when it takes it out of `running`, and none that it reported is there.
Results whose task has no id settle none of these entries: a worker keeps an id it was given,
and none it makes up looks like one (`Named`).

### The pool (`WorkerPoolProofs`)

| theorem | states |
|---|---|
| `TypeCorrect` | `Spec => []TypeOK` |
| `CountsCorrect` | `Spec => []CountsMatch` |
| `AssignmentsCorrect` | `Spec => []AssignmentsCurrent` |
| `ReadyIsUp` | `Spec => []ReadyWorkerIsUp` |

The counts are right because a peer is assigned once and released with its slot, and the type of
a count follows from that (a count is the size of a set of peers), so that the two are one
invariant. It needs in addition that nobody is assigned before `start()` has ended (`StartedFirst`), and that
slots are filled from the first one on (`SlotsInOrder`). That `assign` finds a worker with the least load is a lemma on
least elements. `CountsMatch` ends when `stop()` has returned: that clears the assignments and keeps the counts.

### Sessions (`PeerSessionProofs`)

| theorem | states |
|---|---|
| `SessionTypes` | `Spec => []TypeOK` |
| `NoConnectionOrphaned` | `Spec => []OpenIsMapped` |
| `NoCandidateLost` | `Spec => []CandidatesKept` |

`OpenIsMapped` is not inductive: `OfferFails` takes a connection out of the map and leaves it open.
That it was not offered yet is `UnderWay`, which starts with every transport being new
when `ConnectStarts` takes it (`Unmade`) and lasts because the tools wait for each other
(`TypeOK` has that an offer being made belongs to the connection in the map).
`CandidatesKept` claims that no candidate both waits and was taken, which a second delivery of it
would break: `Delivery` says that each is sent once and is in one place on its way.
`KeptFor` says why nothing is left behind: whatever waits on a connection with a remote description
is drained by the handler of the answer, which is still to come (`HasDone`).

### Model-checked only

* Liveness (`DepartedForgotten`, `UnjoinedClosed`, `FailuresRecover`, `SentIsAnswered`, `StartEnds`,
  `DeadAreReplaced`, `NegotiationEnds`, `ToolsEnd`): the prover has neither fairness nor ENABLED.
* That the three disagreements of section 3 are reachable: a run shows it by an example.

## 5. Not modelled

* Messages on data channels and the reports of connection states: they pass through. `acceptOffer`,
  `iceRestart` and `closeAll` have no caller. The host's own candidates are relayed and change no state.
* The queue `pendingSignals`: `createOffer` fills it only without a connection manager, which
  `index.ts` always sets, and nobody empties it.
* Signals between two WebSocket peers: `_handleSignal` passes them on and changes no state.
* A connection that is half open: there is no heartbeat, and departure in the models begins
  with the socket going down.
* The stdio loop, tool dispatch, configuration, logging and health: reads, formatting
  and a serial loop. The limits they read are constants here. (A `config.json` that
  overrides part of `limits` replaces the object, leaving the others undefined.)
* The messages of pool threads after ready: errors and pongs, which change no state.
* The worker's `status` command: it answers from constants. A note on its log: it says
  "reconexión automática ON" while the close handler exits the process; the model exits.

## 6. Plan

Done, in this order, most important first: `Rooms` and `Seniority`; `RoomsProofs`; `WsSignaling`;
`StreamBridge`; `TaskFlow`; `WorkerPool`; `PeerSession` and `PeerSessionProofs`; `JpegSplitter`; then the
proofs: the refinement of `Seniority`, `WsSignalingProofs`, `StreamBridgeProofs`, `WorkerPoolProofs`,
`CandidatesKept`, `TaskFlowProofs`, `TaskOutcomeProofs`, `JpegSplitterProofs`.

Left: the properties that section 4 lists as model-checked only, for a prover with fairness.

## 7. Running

    tlc -config MCRooms.cfg MCRooms.tla        # and so on: one .cfg per run, PROJECT.json has the module
    tlapm RoomsProofs.tla                      # and so on: the modules named *Proofs
