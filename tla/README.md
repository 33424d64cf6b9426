# BugIT (Deterministic Replay Engine): TLA+ models and proofs

BugIT records what a distributed program reads and writes, keeps the last
seconds of it, packs them into an archive when something goes wrong, and replays
that archive against the program under a debugger. This directory holds TLA+
models of the parts of it that keep state and run concurrently, the TLC
configurations that check them on small instances, and TLAPS proofs of their
safety properties for every instance. Paths below are relative to the repository.

## 1. Inventory

| Component | State | Operations | Talks to |
|---|---|---|---|
| **eBPF probes** `dre-agent/bpf` | ring buffer `dre_events`, map `dre_bypass` | tracepoints submit records | loader reads the ring, writes the map |
| **Agent loader, bypass monitor** `dre-agent/internal/probe` | `Loader.bypass`, counters, baseline of the drop window | `Run` (read, marker handler, send), `SetBypass`, `MonitorBypass` every 10 s | channel of 1024 to the forwarder; HTTP trigger to the collector |
| **Forwarder** `dre-agent/internal/forward` | stream in use, event in hand | open a stream, take, inject the vector header, send, give up and reopen | gRPC to the collector |
| **Collector ingest, buffer, trigger** `dre-collector/internal/{ingest,buffer,trigger}` | rolling buffer of 30 s, cooldown (`lastFire`), trigger lock | `ingestEvent` = parse header, add, observe, evaluate; `Manual`, `fire` | one goroutine per stream, one per trigger request |
| **Snapshot pipeline and registry** `dre-collector/internal/{server,snapshot}` | list of snapshots, exporter's incident field, archives on disk, latest link | copy, incident, graph, export, upload, register, publish, list, answer | called from `fire` with the trigger lock held |
| **Vector graph** `dre-collector/internal/vector`, `pkg/vectorclock` | sequence per node, nodes, edges | `Observe`, `MergeRemote`, `Graph` | collector ingest |
| **Replay proxy** `dre-replay-cli/internal/proxy` | proxy cursor, consumed responses | `SetCursor`, `handle`/`matchResponse` | asks the session for its cursor |
| **Replay session, debugger API, time freeze** `dre-replay-cli/internal/{orchestrator,debugger,timefreeze}` | cursor, breakpoints, frozen clock | step, seek, run to event, breakpoints, state | `Seek` pushes the cursor to proxy and clock under the session's lock |
| **Local capture daemon** `dre-collector/pkg/localcapture`, **record proxy** `pkg/recordproxy` | in-process collector, its two ports, the proxies' port, debug bridge, latest link | start, post event, trigger, stop; `bugit record` (attach or spawn) and `bugit snapshot` around them | whichever process's collector has the HTTP port |
| **CDP session and tap** `pkg/captureattach` | chosen target, pending calls, connection, handlers, hook in the backend | resolve, enable, look, dial, the calls of `setup`, pump, close | Node inspector over a web socket; sink of the daemon |
| **Debug bridge** `pkg/debugbridge` | connection under one lock | connect, top frame, close | Node inspector; `Daemon.Stop` waits for its lock |
| **VS Code extension** `extensions/vscode/src` | capture process, buffers, status | start, stop, force stop, exit and error handlers; load, replay, step | CLI processes, debugger API |
| **Leader election, object storage, archive format, redaction, other CLIs, project discovery, API types** | little or none of their own | one call each | see `PROJECT.json` for why each is left out or only partly covered |

What is hard to test here, and is what the properties are about:

* **Interleavings.** Ingest streams and trigger handlers meet at three locks; the
  trigger lock is held across a capture with file I/O and an upload. In the
  replayer the session's lock and the proxy's lock nest one way, and the proxy
  reads the cursor, applies it and matches in three critical sections. The CDP
  session is closed by any of three goroutines while a fourth sends. Two commands
  start collectors of their own on the same ports and write the same link.
* **State that outlives its step.** `Exporter.incident` is set by one call and
  consumed by another; `TriggerSnapshot` reads the list after it gave the lock
  back; the latest link is written after the archive was listed. A hook that one
  recording put into the backend is still there for the next.
* **Failures.** Exports and uploads fail, streams break with messages in flight,
  the metrics read of the bypass monitor fails, processes restart, inspectors do
  not answer, clients give up while the handler goes on.
* **Limits.** Ring buffer, channel, payload length, cursor one past the last event.
* **Progress.** Waiting for a lock behind captures; a marker handler that makes an
  HTTP request from the loop that drains the ring buffer; an interrupt that must
  end a recording whatever its goroutines wait for.

`PROJECT.json` lists every hazard at its line with the properties that cover it.

## 2. Modules

| Module | Models | Used by |
|---|---|---|
| `Collector` | collector process: ingest, buffer, trigger engine, snapshot pipeline, registry, restart | `MCCollector`, `CollectorProofs` |
| `SnapshotService` | abstract: what users of the archives may rely on | `Collector` (`Service`, `ImplementsService`) |
| `Replay` | replay session: debugger connections, session, time freeze, proxy connections | `MCReplay`, `ReplayProofs` |
| `Agent` | probes, `Loader.Run`, forwarder, streams, bypass monitor, restart | `MCAgent`, `AgentProofs` |
| `Inspector` | `bugit record` attaching to a Node backend: choice of the target, CDP session, tap, hooks in the backend | `MCInspector`, `InspectorProofs` |
| `LocalCapture` | `bugit record` and `bugit snapshot` as processes: daemon, its collector and ports, proxies, debug bridge, trigger and latest link | `MCLocalCapture`, `LocalCaptureProofs` |
| `CollectorProofs`, `AgentProofs`, `ReplayProofs`, `InspectorProofs`, `LocalCaptureProofs` | inductive invariant and theorems about the module each is named after | - |

Common conventions. An action is what one goroutine does between two points where
another may run: a region under one mutex, or one blocking call. A mutex that is
only held inside single actions is not a variable; `trigger.mu` and `Session.mu`,
which are held across several, are the variables `mu` (in `LocalCapture` the
trigger lock is held while `cap` is not `Idle`). Payloads are abstracted to
what the code tells apart: the kind of event for `Evaluate`, request key and host
for the proxy, the length for the forwarder. Variables after the word *history* in
a declaration are not state of the program; no guard reads them. Definitions that
begin with the comment "Mutant" are wrong on purpose: each is a plausible slip in
the definition below it, and shows that a property notices it.

### Collector

`Recv`, `Add`, `Observe`, `Evaluate` are the calls of `ingestEvent`, in its order;
`RequestTrigger` and `Respond` the two ends of `TriggerSnapshot`; `Fire` and
`FireSuppressed` the two outcomes of `Engine.fire`; `CopyBuffer` ... `Publish`
the steps of `captureSnapshot` and `postProcessSnapshot`, during which the caller
holds `mu`. `Add` evicts exactly the prefix that is not after the cutoff. An
ordinary read also takes the trigger lock (to look at `trigger4xx`), so `Evaluate`
waits for `mu = Free` too, and a 5xx does not. `Tick` lets time pass between any
two steps. `Restart` empties memory and keeps the disk, as `server.New` does.
Redaction keeps the length and the status line of a payload and is left out.

`SnapshotService` says the same without goroutines: archives are written one at a
time, each is listed before the next is written or never, and the latest link moves
forward to the archive listed last. The refinement mapping takes the number of
archives on disk for `written`, the archive exported by the holder of `mu` and not
yet registered for `pending`, and the list for `listed`. `ImplementsService` checks
that every step of `Collector` is one of its steps or changes nothing it has.

### Replay

`Ask` is a debugger request; `ChangeBreakpoints`, `ReadCursor`, `RunTurn`,
`RunEnd`, `SeekLock`, `SeekProxy`, `SeekTime`, `StoppedReason`, `Stamp` are the
critical sections of `dispatch` in order, per method. `Request`, `CursorFn`,
`MoveProxy`, `Match` are `MultiServer.handle` and `matchResponse`.
`timestampForCursor` and `Timeline` are the time-freeze engine and the timeline
the exporter wrote. Recordings are constants: the MC module enumerates families of
them (all sequences of exchanges over two keys, overlapping requests, out-of-order
time stamps, markers and clock events). Recorded time stamps are positive: every
recorder stamps its events and the collector's HTTP handler replaces a zero.

### Agent

`Probe` is a tracepoint program: bypassed, finding the ring buffer full, or
writing a record whose `payload_len` is computed the way the C code does.
`ReadRecord`, `ReadError`, `HandleMarker`, `SendToChannel` are `Loader.Run`;
`OpenStream`, `TakeEvent`, `SendOK`, `SendError` the forwarder; `TickBypassed`,
`TickPressure`, `TickDrops` one pass of `MonitorBypass`, with the counters read as
zeros when the metrics request fails. `BreakStream` and `Deliver` are the network:
a broken stream loses a suffix, and what already reached the collector's transport
may still be read after the next stream was opened.

### Inspector

A recording is `main`, which goes through `Resolve`, `Enable`, `LookFinds` or
`LookTimesOut` (`PrepareBackendInspector`), `Dial`, and for each call of `setup`
`CallCheck`, `CallSend`, `CallReturns`; then `WaitPing`, and it waits attached (or,
without an inspector, for the preload hook's posts) until the interrupt. The pump
(`PumpCheck` ... `Handle`) and the watcher run beside it. `Close` is two steps,
`CloseBegin` (the swap of `closed`) and `CloseEnd` (closing the connection and
setting it to nil under the lock); `pump` and `Call` may read the nil connection in
between, and the process panics. `ScoreTarget` adds up what an entry of `/json/list`
shows; entries are sets of facts instead of strings. A frontend that
`isDisqualifiedTarget` recognises has the fact "next"; one that it does not is scored
like any other process, and so is a tool that opens an inspector meanwhile
(`ToolStarts`). Either may be chosen: the scores are guesses, and no property says that
they are right. `SyncDevScript` patches the dev
script, which takes effect when the backend is restarted (`BackendRestarts`,
`Started`); `preloadActive` is computed once, from the process found at the start.
Node is the environment: it answers calls in order, runs the server hook
(`Subscribe`, once per process), sends the binding's and the Network domain's
messages, restarts, and obliges itself to nothing. Each scenario fixes who listens on
the two ports, what their entries show, what this Node and the dev script allow, and
whether the preload hook was loaded.

### LocalCapture

Each process has a `main` (`Launch` ... `Join`: `runRecord` with `RunAttachRecord` or
`RunCapture`, or `runSnapshot`) and a collector goroutine (`ListenGRPC` ...
`Drained`: `Collector.Run`). A recorder attaches a tap, is left with the preload hook, or
spawns the application behind its proxies (`mode`). `waitReady` is content with any
process's collector, and events and triggers go to whoever has the HTTP port.
`TriggerSnapshot`, the handler (`TriggerFires`, `Export`, `ExportFails`),
`TriggerTimesOut` and `Check` are one `triggerSnapshot`; a client that gives up leaves an
orphaned handler that still captures (`OrphanFires`). `Check` takes the latest link, or
the path in the answer when the link could not be written.

An event is posted (`Emit`, by `PostRequest` or `PostResponse`), added to the buffer
(`Ingest`), and for a response evaluated under the trigger lock (`PostAnswered` or
`RuleFires`), after which its poster goes on, as it does when its 30 s are over
(`PostTimesOut`); an HTTP error is followed by `TopFrame` under the bridge's lock.
`InTurn` says who may post when. The proxies post from one goroutine per exchange, the
response after the request was answered. The tap's pump posts one message at a time,
but in the order in which the hook sends them: the request when its body has ended, the
response when it is finished, so an early reply comes first. The preload hook posts
from inside the backend and waits for nothing. `Age` lets the oldest event leave the 30 s
window, and `Add` drops what has left it, as `RollingBuffer.Add` does; between two posts
nothing is dropped. `Connect` and `ConnectReturns` are the two ends of `connectWS`, which
holds the bridge's lock across a dial and a call. `Exit` frees ports, cuts handlers off
and breaks the connections of waiting clients.

Two things of the code leave no trace in this state. `TopFrame` looks for the value of
`Runtime.evaluate` one level too high and always returns nil, so the source map stays
empty. The recorders write requests with `is_write` 1 and responses with 0, while the
replay proxy takes reads for requests; in the model an event carries what it is.

## 3. Runs

Passing runs:

| Run | Shows | Bounds |
|---|---|---|
| `collector_safety` | nothing younger than the window leaves the buffer, and the buffer spans no more than the window; an archive has the event that set it off, in events and graph, and an incident of its own; cooldown holds; archives are listed once and in order; answers are not older than the own capture; the latest link does not go back; all of it implements `SnapshotService` | two streams, one trigger handler, window and cooldown 2, three ticks, two events, one restart |
| `collector_liveness` | every event and every trigger request is processed in the end | the same callers, 5xx and 4xx, exports that fail |
| `replay_proxy` | no response given twice between rewinds; a program that repeats the recording's requests in order gets its responses in order | two connections, one seek, three requests, all recordings of three exchanges over two keys and two irregular ones |
| `replay_debug` | a run never passes a breakpoint that was set all along; one connection is answered from at or after the cursor; the frozen clock does not go back while the cursor goes forward; debugger and program are always answered | two debugger clients with two requests, one connection with one, host filter, recordings with markers, clock events and times out of order |
| `agent_pipeline` | at most once, in order per stream, loss only with a stream or a restart, payloads within their maximum | ring 1, channel 2, three records, two outages, one restart |
| `agent_monitor` | bypass for drops only after a drop rate that was exceeded; everything captured leaves the agent although trigger requests may hang | ring 1, channel 1, two records, one read error, one outage |
| `inspector_attach` | an attached tap has hook, binding and Network domain in force; every message is delivered once and in order, across recordings; none is lost while attached; the panic of `pump` ends an attached recording only after the interrupt; an interrupt ends the recording unless the dial never returns | two recordings, two HTTP messages, one restart of the backend or start of a tool, five scenarios (a process with a weak entry listed all along, a recognised frontend on the default port beside weak entries that are new, Node without the Network domain beside a frontend that is not recognised, Node without `diagnostics_channel`, a process that passes for the backend) |
| `record` | a reported snapshot holds what its collector had acknowledged when it was asked and what was still in the window when it was copied; a proxy's request is archived before its response; an interrupted recorder and `bugit snapshot` end unless someone outside keeps them for ever | one recorder, in seven workloads: attaching or spawning with two exchanges; attaching with two, or left with the preload hook or spawning with one, longer than the window; each mode with an exchange that fails, with an inspector for the bridge and a fault, or with an open gRPC stream; with a `bugit snapshot` beside it, with an exchange, or in each mode with a fault |

The bounds are the smallest at which every case happens: a second stream to race
with the first, time enough for an event to leave the window and for a cooldown to
end, a channel that is full with a record still waiting, a second stream opened
while the first still delivers, a recording in which a wrong match shifts the next
one, a second recording that finds the first one's hook, a second command that meets
the first one's ports at every stage of its start and end. A fault is a failed export
or a time limit that passes. Every action of the modules fires in them.

Runs that end in a violation, each against a sentence of the repository:

| Run | Sentence | What the code does |
|---|---|---|
| `replay_stale_cursor` | `multi_test.go`: "cursor past events should not match"; PRD-v2: "Cursor stepping changes proxy output" | with two connections, one that read the cursor before a seek sets the proxy back after it, and the other is answered from before the cursor |
| `agent_payload` | PRD-v2: "payload detail (up to 2KB per event)" | the length is masked with 2048, one bit, so shorter payloads arrive empty |
| `inspector_preload` | `attach_tap.go`: "disable preload capture" | the flag is set in the running backend, but the preload hook reads it only when it is loaded: what the tap records is posted by the hook too |
| `record_saved_on_exit` | local-quickstart: Stop & save by "Ctrl+C in record terminal"; flag: "save snapshot when recording stops" | the interrupt also stops the collector, whose port is closed when the trigger is posted; the recording ends without a snapshot |

Three more sentences of the repository do not hold, as the models show without a run
of their own. The replay proxy gives a repeated or reordered request the next response
not served yet, whichever request it belongs to (`matchResponse`; demo-walkthrough:
"the **same responses** that were recorded"). A record that finds the ring buffer full
is not counted (`Probe`; `metrics.go`: "Ring buffer drops due to congestion"). The
monitor does nothing once bypass is on (`TickBypassed`; runbook: "Bypass clears when
pressure subsides").

## 4. Fairness

* Collector: weak fairness of each step of a handler (Go runs goroutines that can
  run; file I/O ends, the upload by its 60 s context) and strong fairness of the
  steps that wait for `trigger.mu`, because `sync.Mutex` hands the lock to a waiter
  it has kept waiting for a millisecond. Nothing obliges events to arrive, time to
  pass or a process to restart.
* Replay: weak fairness of one step of any goroutine: as long as some goroutine can
  run, one does. Requests are finitely many, so that is enough.
* Agent: weak fairness of `Run`, of the forwarder, of the ticker and of delivery:
  the collector can be reached again after an outage. Nothing is assumed about
  memory pressure or about answers to trigger requests; it is the client's 10 s
  timeout that lets `Run` go on.
* Inspector: weak fairness of main except while it dials, of the pump, of the watcher
  and of `CloseEnd`: the searches and `waitPing` have time limits, and an
  interrupt ends a call whose answer does not come.
  `ConnectCDPURL` calls `websocket.Dial` without context or limit (`cdp_session.go:405`),
  so nothing obliges the dial to end, and `InterruptEnds` excepts the recording that
  dials for ever. Two things are assumed to end: `node -e` of `EnableNodeInspect`, and the
  write of a call to the local socket. Nothing is assumed of Node.
* LocalCapture: weak fairness of one step of any goroutine, as for Replay, among those
  that nothing outside can put off for ever (`Progress`). Some waits have no limit in the
  code, and none of them is assumed to end: the dials of tap and bridge, a call of the
  bridge (`callLocked` looks at its 15 s only between two messages), the `Get` of
  `waitReady` while another process has the port, and `GracefulStop` while a client keeps
  a stream open. `InterruptedExits` and `SnapshotCommandEnds` say that the process ends
  or is in one of these for ever (`Stuck`). Users, the application and failures are free.

## 5. Proofs

Every invariant and every action property that a passing run checks is also a theorem,
for all values of the constants: TLC looks at the bounds of section 3, the proofs at
none. Each module of proofs extends the module it is about. The argument is the same
everywhere: a part of the state is grouped with the actions that change it, a step
lemma per group goes through the actions, the groups are put together to
`Init => IInv` and `IInv /\ [Next]_vars => IInv'`, and the theorems follow from `IInv`
by `PTL`. No property below except the types is inductive as it stands; what had to be
added, and why, is said for each.

### CollectorProofs

Assumptions: streams and handlers are different and none is the value `Free`
(`CallerAssumption`); the window is a positive natural, the others are naturals or
Booleans (`ParameterAssumption`).

| Theorem | States |
|---|---|
| `TypeCorrect`, `Invariance` | `TypeOK`; the inductive invariant |
| `BufferKeepsRecent`, `BufferBounded` | `RecentEventsBuffered`, `BufferSpansWindow` |
| `CooldownCorrect` | `CooldownRespected` |
| `ArchiveHoldsCause`, `GraphHoldsCause` | `CauseCaptured`, `CauseInGraph` |
| `IncidentCorrect` | `IncidentOwn` |
| `RegistryCorrect` | `ExportedIsListed` |
| `AnswerCorrect` | `AnswerNotOlder` |
| `LatestCorrect` | `LatestNeverRegresses` (an action property) |
| `CollectorImplementsService` | `ImplementsService`: every step is a step of `SnapshotService` or a stutter |

* `LockInv`: a goroutine inside a capture holds `mu`, so there is at most one. This is
  what makes the unsynchronised incident field, the numbering of archives and the
  latest link safe;
* `BufferInv`: the buffer is in time order, no entry is from the future, all of it is
  within the window of the newest entry, and every added event that is missing is as
  old as the window. Time order is why dropping a prefix is enough;
* `CooldownInv`: no trigger fired later than `lastFire`, which is not in the future, so
  that the distance the code checks bounds the distance from all of them;
* `ArchiveInv`: what a stream holds at each place (the event it will fire for was added
  and observed), what its copy of the buffer has, that a buffer which had events once is
  never empty again, and that the incident field is either empty or built from the
  copy in hand;
* `RegistryInv`: archive numbers in list, link, locals and answers are those of archives
  on disk; the archive being registered is newer than all that are listed.

The refinement rests on `LockInv` and `RegistryInv`: the archive that is registered, linked
or answered is one on disk, and is the one the holder of the lock has just written.

### AgentProofs

Assumption: sizes, ratio and window are positive (`AgentAssumption`).

| Theorem | States |
|---|---|
| `TypeCorrect`, `Invariance` | `TypeOK`; the inductive invariant |
| `EventsArriveAtMostOnce` | `AtMostOnce` |
| `StreamsKeepOrder` | `StreamInOrder` |
| `OnlyOutagesLose` | `NothingElseLost` |
| `PayloadStaysBounded` | `PayloadBounded` |
| `BypassIsJustified` | `BypassJustified` |

* `QueueInv`, `WireInv`, `ArrivalInv`: one order of identities along the whole path,
  from the probes through ring buffer, reader, channel and forwarder to the streams and
  the collector, older streams before newer ones. Neither "at most once" nor "in order" is
  inductive without it: a duplicate at the collector is first an identity in two places;
* `LossInv`: a captured event is in the agent, on a stream, at the collector, or counted as
  lost; markers are not captured events; before the first outage or restart no stream is
  down;
* `MonitorInv`: the monitor's baseline is a pair of counters it saw, or the zeros the
  agent started with.

### ReplayProofs

Assumptions: debuggers and connections are different and none is `Free`; recordings are
sequences of events with positive times (`ReplayAssumption`).

| Theorem | States |
|---|---|
| `TypeCorrect`, `Invariance` | `TypeOK`; the inductive invariant |
| `ResponsesServedOnce` | `ServedOnce` |
| `RunsStopAtBreakpoints` | `RunStopsAtBreakpoint` |
| `ClockMonotone` | `ClockNeverGoesBack` (an action property) |
| `ReplayIsFaithful` | `InOrderFaithful` |
| `OneConnectionServedFromCursor` | `ServedFromCursor`, if there is one connection at a time |

* `ServeInv`: a response that is not marked as served was not given since the rewind;
* `RunInv`: a run in progress has passed no breakpoint that was set since it began;
* `ClockInv`: the frozen clock is that of the cursor it was last set for;
* `StillInv` and `AnsweredInv`, for `ReplayIsFaithful`: until a debugger moves the cursor
  everyone's cursor is 0, and then the responses marked as served are those of the first
  requests of the recording (by rank), so that the next one found is the next one recorded;
* `CursorInv`, for `OneConnectionServedFromCursor`: the cursor a connection has read is
  one the session had during the request. Its hypothesis (`Conns` has one element at most)
  is the case of `replay_debug`; with two connections the property is false, which is the
  finding of `replay_stale_cursor`.

### InspectorProofs

Assumption: `InspectorAssumption` (scenarios are scenarios, bounds are naturals).

| Theorem | States |
|---|---|
| `TypeCorrect`, `Invariance` | `TypeOK`; the inductive invariant |
| `AttachedIsHooked` | `AttachedMeansHooked` |
| `DeliveredInOrder` | `TappedOnceInOrder` |
| `AttachedLosesNothing` | `NothingLostAttached` |
| `OnlyStoppedRecordingsPanic` | `PanicOnlyWhenStopped` (an action property) |

* `StageInv`, `CallInv`: no identifier on the socket is larger than the last one given
  out, the one about to be sent is not there yet, and an answer main waits for is to the
  call of the present stage. This is what matching answers by number relies on;
* `SetupInv`: as long as the Node that was dialled lives, the calls of the stages that
  are over are in force in it, and an answer on the way that is not a refusal means the
  same of the present stage;
* `SocketInv`, `HandInv`, `OrderInv`: delivered, in the pump's hand, on the socket: the
  numbers go up, because the hook is in a backend once at most (a second recording finds
  the first one's);
* `DueInv`: what is owed to the sink has been delivered, is in the pump's hand or is on
  the socket;
* `CloseInv`, for `OnlyStoppedRecordingsPanic`: the connection is set until a `Close` has
  begun, and a session that is closed without an interrupt, while main is neither over nor
  closing it itself, was closed by the pump, which reads no connection after that.

### LocalCaptureProofs

Assumption: recorders and askers are different processes and none is the value that
stands for nobody (`LocalCaptureAssumption`). Any number of each may run.

| Theorem | States |
|---|---|
| `TypeCorrect`, `Invariance` | `TypeOK`; the inductive invariant |
| `ArchivesOrdered` | `ExchangeOrdered` |
| `ReportedSnapshotCovers` | `ReportedCovers` |

* `TryInv`, `AskInv`: how often main has tried follows from where it is, a trigger is
  posted exactly while main waits for its answer, and a capture made for a process is at
  the collector it asked. Even the types need these: the second try is the last one only
  because of where main goes after it;
* `AgeInv`: what has left the window is the front of a buffer, so that dropping a prefix
  drops nothing else;
* `SequenceInv`, `BufInv`, for `ArchivesOrdered`: in an exchange of a proxy the response is
  neither posted nor in a buffer before the request's post is over, and buffers are
  ordered; dropping a prefix keeps them so. Nothing is claimed of the hooks' exchanges;
* `OverInv`: at a process that has ended nothing is handled, and it does not have the
  port. Without it a collector could copy an emptied buffer for someone;
* `CoverInv`: what a trigger had to cover and has not left the window is in the buffer of
  the collector it was posted to, then in the copy made for it, and, once exported, in
  the link as long as the link is that collector's. What of it had left the window by the
  time of the copy is remembered with the copy and with the link. It must also be in what
  that collector copies and exports next, since a later archive of the same collector
  replaces the link.

### Only model-checked

The liveness properties (`EventsProcessed`, `TriggersAnswered`, `DebuggerAnswered`,
`RequestServed`, `EventsLeave`, `InterruptEnds`, `InterruptedExits`,
`SnapshotCommandEnds`): fairness and `ENABLED` are out of the prover's reach. The four
runs of section 3 that end in a violation are counterexamples, which TLC finds.

## 6. Plan

Done: `Collector` with its abstract specification, `Replay`, `Agent`, `Inspector`,
`LocalCapture`, and the proofs of all their invariants and action properties.

Theorems that would say more: `ServedFromCursor` for any number of connections while no
debugger moves the cursor; that a trigger of `LocalCapture` is handled by at most one
capture; that the steps of `Agent` implement an abstract channel that may lose with a
stream and never reorders.

Modules that would come next: `CaptureManager` (the VS Code extension's start, stop,
force stop and exit handlers across awaits), `VectorGraph` (edges and sequence numbers
of `vector.Engine`), `SessionLifecycle` (`Session.Start` and `Stop` with target, proxy,
debugger and Delve), and a composition of `Agent` and `Collector` for markers that
overtake events.

## 7. Not modelled

* The lease protocol of leader election is client-go's; the local daemon runs without
  election, which is the path in `LocalCapture`. Object store SDK calls are one step
  that may fail.
* Archive packing and encryption, redaction, replay configuration, project templates,
  command line parsing, generated protobuf code: pure encoding or sequential file I/O.
* HTTP plumbing of the record proxy and tunnels of the outbound proxy, which record
  nothing; the parsing of stack traces.
* `bugit capture` with a command of its own runs the same `RunCapture` as `bugit record`
  without a backend.
* The older single-port proxy `proxy.Server`, `NetworkTap` and `ServerTap`, the agent's
  `SendEvent` and its mock forwarder are not used by the programs that run.
* In `RunAttachRecord` main writes `d.debugger` while the pump may read it, without a lock;
  in the model the write is one step. The 300 ms and 500 ms sleeps are steps like others.
* A `Connect` of the agent's forwarder that fails, which ends `RunForwarder`: the dial
  blocks until the collector can be reached or the agent ends, so it fails at the end of
  the agent, or at once when its TLS credentials cannot be read.
* The VS Code extension, the edges of the vector graph and the start and stop of a
  replay session: see the plan.
