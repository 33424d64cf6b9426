------------------------------- MODULE Agent -------------------------------
(***************************************************************************)
(* The dre-agent process and the kernel probes it loads: the eBPF programs *)
(* write records into a ring buffer; Loader.Run reads them, hands I/O      *)
(* events to a bounded channel and turns process-exit and SIGSEGV markers  *)
(* into trigger requests; the forwarder sends the events over gRPC streams *)
(* that may break; MonitorBypass switches the probes off under pressure.   *)
(***************************************************************************)
EXTENDS Integers, Sequences, FiniteSets, Functions

CONSTANTS
    RingSize,       \* records the ring buffer holds (DRE_RINGBUF_BYTES)
    ChanSize,       \* capacity of the events channel (1024 in the code)
    MaxPayload,     \* DRE_MAX_PAYLOAD_LEN, a power of two (2048 in the code)
    HeaderLen,      \* length of the vector clock header MaybeInjectHTTP adds
    DropRatio,      \* bypass when drops exceed 1/DropRatio (100 in the code)
    DropWindow,     \* ticker periods per drop window (30 s / 10 s in the code)
    InputKinds,     \* bound: kinds of records the probes write
    InputCounts,    \* bound: the count argument of traced system calls
    MaxEvents,      \* bound: records the probes write
    MaxReadErrors,  \* bound: failures of ringbuf.Reader.Read
    MaxOutages,     \* bound: streams that break
    MaxRestarts     \* bound: restarts of the agent

(* dre_io_event.is_write: 0 read, 1 write, 4 process exit, 5 SIGSEGV; the  *)
(* sched_switch (2) and clock_gettime (3) records go the way of a read.    *)
Markers == {"exit", "sigsegv"}
Kinds == {"read", "write"} \cup Markers

ASSUME AgentAssumption ==
    /\ RingSize \in Nat \ {0}
    /\ ChanSize \in Nat \ {0}
    /\ MaxPayload \in Nat \ {0}
    /\ HeaderLen \in Nat
    /\ DropRatio \in Nat \ {0}
    /\ DropWindow \in Nat \ {0}
    /\ InputKinds \subseteq Kinds
    /\ InputCounts \subseteq Nat
    /\ MaxEvents \in Nat
    /\ MaxReadErrors \in Nat
    /\ MaxOutages \in Nat
    /\ MaxRestarts \in Nat

(* A record: count is the system call's count, fault tells that the        *)
(* payload could not be read from user memory, len is payload_len.         *)
Records == [id : Nat, kind : Kinds, count : Nat, fault : BOOLEAN, len : Nat]
NoRecord ==
    [id |-> 0, kind |-> "read", count |-> 0, fault |-> FALSE, len |-> 0]

VARIABLES
    ring,         \* the ring buffer dre_events
    probesOff,    \* the dre_bypass map of the kernel
    rpc, hand,    \* Loader.Run: place, record in hand
    chan,         \* the channel from Loader.Run to the forwarder
    fpc, out,     \* RunForwarder and runStream: place, event in hand
    broken,       \* broken[k]: the k-th stream is down
    wire,         \* wire[k]: what the k-th stream has yet to deliver
    received,     \* what the collector has ingested
    bypass,       \* Loader.bypass, also the gauge dre_bypass_mode
    emitted,      \* dre_events_emitted_total
    drops,        \* dre_ringbuf_drops_total
    lastEmitted, lastDrops, age,  \* MonitorBypass: baseline and its age
    pressure,     \* RSS is above 85% of the memory limit
    answering,    \* the collector answers trigger requests in time
    nextId, readErrors, outages, restarts,  \* counts up to the bounds
    captured,     \* history: I/O events that found room in it
    lost,         \* history: events lost with a stream or with the agent
    samples,      \* history: counters at the end of each drop window
    decided       \* history: why and with which counters bypass began

pipeVars == <<ring, probesOff, rpc, hand, chan, fpc, out>>
netVars == <<broken, wire, received>>
monitorVars == <<bypass, lastEmitted, lastDrops, age, samples, decided>>
envVars == <<pressure, answering>>
boundVars == <<nextId, readErrors, outages, restarts>>
vars == <<pipeVars, netVars, monitorVars, envVars, boundVars, emitted, drops,
          captured, lost>>

Counters == [emitted : Nat, drops : Nat]
Nothing == [why |-> "none", emitted |-> 0, drops |-> 0]

TypeOK ==
    /\ ring \in Seq(Records) /\ Len(ring) <= RingSize
    /\ probesOff \in BOOLEAN
    /\ rpc \in {"read", "marker", "send"}
    /\ hand \in Records
    /\ chan \in Seq(Records) /\ Len(chan) <= ChanSize
    /\ fpc \in {"open", "select", "send"}
    /\ out \in Records
    /\ broken \in Seq(BOOLEAN)
    /\ wire \in Seq(Seq(Records)) /\ Len(wire) = Len(broken)
    /\ fpc # "open" => Len(wire) > 0
    /\ received \in Seq([event : Records, stream : Nat])
    /\ bypass \in BOOLEAN
    /\ emitted \in Nat /\ drops \in Nat
    /\ lastEmitted \in Nat /\ lastDrops \in Nat /\ age \in 0..DropWindow
    /\ pressure \in BOOLEAN /\ answering \in BOOLEAN
    /\ nextId \in Nat /\ readErrors \in Nat /\ outages \in Nat
    /\ restarts \in Nat
    /\ captured \subseteq Nat /\ lost \subseteq Nat
    /\ samples \subseteq Counters
    /\ decided \in [why : {"none", "memory", "drops"}, emitted : Nat,
                    drops : Nat]

(* main: nothing captured yet, probes on, no stream open. *)
InitMemory ==
    /\ ring = <<>> /\ probesOff = FALSE
    /\ rpc = "read" /\ hand = NoRecord
    /\ chan = <<>>
    /\ fpc = "open" /\ out = NoRecord
    /\ bypass = FALSE
    /\ emitted = 0 /\ drops = 0
    /\ lastEmitted = 0 /\ lastDrops = 0 /\ age = 0
    /\ samples = {[emitted |-> 0, drops |-> 0]}
    /\ decided = Nothing

Init ==
    /\ InitMemory
    /\ broken = <<>> /\ wire = <<>> /\ received = <<>>
    /\ pressure = FALSE /\ answering = TRUE
    /\ nextId = 1 /\ readErrors = 0 /\ outages = 0 /\ restarts = 0
    /\ captured = {} /\ lost = {}
----------------------------------------------------------------------------
(*                        The probes (dre_probes.bpf.c)                    *)

Capped(len) == IF len > MaxPayload THEN MaxPayload ELSE len

(* payload_len of dre_submit_io_event: the count, capped, then masked with *)
(* DRE_MAX_PAYLOAD_LEN itself, which has a single bit set: of the capped   *)
(* count only that bit survives.                                           *)
PayloadLen(count) == IF Capped(count) = MaxPayload THEN MaxPayload ELSE 0

(* A probe writes a record; a bypassed probe and one that finds no room    *)
(* return without a trace.                                                 *)
Probe(kind, count, fault) ==
    /\ nextId <= MaxEvents
    /\ nextId' = nextId + 1
    /\ LET r == [id |-> nextId, kind |-> kind, count |-> count,
                 fault |-> fault,
                 len |-> IF fault \/ kind \in Markers THEN 0
                         ELSE PayloadLen(count)]
       IN \/ probesOff /\ UNCHANGED <<ring, captured>>
          \/ /\ ~probesOff /\ Len(ring) = RingSize
             /\ UNCHANGED <<ring, captured>>
          \/ /\ ~probesOff /\ Len(ring) < RingSize
             /\ ring' = Append(ring, r)
             /\ captured' = IF kind \in Markers THEN captured
                            ELSE captured \cup {nextId}
    /\ UNCHANGED <<probesOff, rpc, hand, chan, fpc, out, netVars, monitorVars,
                   envVars, readErrors, outages, restarts, emitted, drops,
                   lost>>
----------------------------------------------------------------------------
(*                               Loader.Run                                *)

ReadRecord ==
    /\ rpc = "read"
    /\ ring # <<>>
    /\ hand' = Head(ring)
    /\ ring' = Tail(ring)
    /\ rpc' = IF Head(ring).kind \in Markers THEN "marker" ELSE "send"
    /\ emitted' = IF Head(ring).kind \in Markers THEN emitted ELSE emitted + 1
    /\ UNCHANGED <<probesOff, chan, fpc, out, netVars, monitorVars, envVars,
                   boundVars, drops, captured, lost>>

(* Reader.Read fails without being closed. *)
ReadError ==
    /\ rpc = "read"
    /\ readErrors < MaxReadErrors
    /\ readErrors' = readErrors + 1
    /\ drops' = drops + 1
    /\ UNCHANGED <<pipeVars, netVars, monitorVars, envVars, nextId, outages,
                   restarts, emitted, captured, lost>>

(* Mutant: admin.Client has no timeout. *)
HandleMarkerUntimed ==
    /\ rpc = "marker"
    /\ answering
    /\ rpc' = "read" /\ hand' = NoRecord
    /\ UNCHANGED <<ring, probesOff, chan, fpc, out, netVars, monitorVars,
                   envVars, boundVars, emitted, drops, captured,
                   lost>>

(* The marker handler posts /v1/trigger and waits: for the answer, an      *)
(* error, or the client's 10 s timeout.  All three go on with the loop.    *)
HandleMarker ==
    /\ rpc = "marker"
    /\ rpc' = "read" /\ hand' = NoRecord
    /\ UNCHANGED <<ring, probesOff, chan, fpc, out, netVars, monitorVars,
                   envVars, boundVars, emitted, drops, captured,
                   lost>>

(* Mutant: a full channel makes Run drop the event instead of waiting. *)
SendOrDrop ==
    /\ rpc = "send"
    /\ chan' = IF Len(chan) < ChanSize THEN Append(chan, hand) ELSE chan
    /\ rpc' = "read" /\ hand' = NoRecord
    /\ UNCHANGED <<ring, probesOff, fpc, out, netVars, monitorVars, envVars,
                   boundVars, emitted, drops, captured, lost>>

(* Mutant: the queue to the forwarder has no bound. *)
SendUnbounded ==
    /\ rpc = "send"
    /\ chan' = Append(chan, hand)
    /\ rpc' = "read" /\ hand' = NoRecord
    /\ UNCHANGED <<ring, probesOff, fpc, out, netVars, monitorVars, envVars,
                   boundVars, emitted, drops, captured, lost>>

(* out <- evt blocks while the channel is full. *)
SendToChannel ==
    /\ rpc = "send"
    /\ Len(chan) < ChanSize
    /\ chan' = Append(chan, hand)
    /\ rpc' = "read" /\ hand' = NoRecord
    /\ UNCHANGED <<ring, probesOff, fpc, out, netVars, monitorVars, envVars,
                   boundVars, emitted, drops, captured, lost>>
----------------------------------------------------------------------------
(*                     Client.RunForwarder and runStream                   *)

Current == Len(wire)

(* StreamEvents succeeds (a failure only sleeps and tries again). *)
OpenStream ==
    /\ fpc = "open"
    /\ wire' = Append(wire, <<>>)
    /\ broken' = Append(broken, FALSE)
    /\ fpc' = "select"
    /\ UNCHANGED <<ring, probesOff, rpc, hand, chan, out, received,
                   monitorVars, envVars, boundVars, emitted, drops, captured,
                   lost>>

TakeEvent ==
    /\ fpc = "select"
    /\ chan # <<>>
    /\ out' = Head(chan)
    /\ chan' = Tail(chan)
    /\ fpc' = "send"
    /\ UNCHANGED <<ring, probesOff, rpc, hand, netVars, monitorVars, envVars,
                   boundVars, emitted, drops, captured, lost>>

(* Mutant: the message carries the length the header made of it. *)
UncappedLengths(r) ==
    IF r.kind = "write" /\ r.len > 0 THEN {r.len, r.len + HeaderLen}
    ELSE {r.len}

(* injectVector adds a header to a write that looks like HTTP, then        *)
(* IOEventFromNative cuts the payload to its maximum.                      *)
SentLengths(r) ==
    IF r.kind = "write" /\ r.len > 0
    THEN {Capped(r.len), Capped(r.len + HeaderLen)}
    ELSE {Capped(r.len)}

Sent(r, len) == [id |-> r.id, kind |-> r.kind, count |-> r.count,
                 fault |-> r.fault, len |-> len]

(* Mutant: the message is also kept for the next stream, although the      *)
(* transport may have taken it.                                            *)
SendOKKept ==
    /\ fpc = "send"
    /\ ~broken[Current]
    /\ Len(chan) < ChanSize
    /\ wire' = [wire EXCEPT ![Current] = Append(wire[Current], out)]
    /\ chan' = Append(chan, out)
    /\ fpc' = "select" /\ out' = NoRecord
    /\ UNCHANGED <<ring, probesOff, rpc, hand, broken, received, monitorVars,
                   envVars, boundVars, emitted, drops, captured,
                   lost>>

(* stream.Send returns nil once the message is with the transport; on a    *)
(* stream that is down, without the transport knowing, it is gone.         *)
SendOK ==
    /\ fpc = "send"
    /\ IF broken[Current]
       THEN lost' = lost \cup {out.id} /\ UNCHANGED wire
       ELSE /\ \E len \in SentLengths(out) :
                  wire' = [wire EXCEPT ![Current] =
                             Append(wire[Current], Sent(out, len))]
            /\ UNCHANGED lost
    /\ fpc' = "select" /\ out' = NoRecord
    /\ UNCHANGED <<ring, probesOff, rpc, hand, chan, broken, received,
                   monitorVars, envVars, boundVars, emitted, drops, captured>>

(* Mutant: the event is put back at the end of the channel. *)
SendErrorRequeued ==
    /\ fpc = "send"
    /\ broken[Current]
    /\ Len(chan) < ChanSize
    /\ chan' = Append(chan, out)
    /\ fpc' = "open" /\ out' = NoRecord
    /\ UNCHANGED <<ring, probesOff, rpc, hand, netVars, monitorVars, envVars,
                   boundVars, emitted, drops, captured, lost>>

(* stream.Send fails: runStream gives the event up and RunForwarder opens  *)
(* the next stream.                                                        *)
SendError ==
    /\ fpc = "send"
    /\ broken[Current]
    /\ lost' = lost \cup {out.id}
    /\ fpc' = "open" /\ out' = NoRecord
    /\ UNCHANGED <<ring, probesOff, rpc, hand, chan, netVars, monitorVars,
                   envVars, boundVars, emitted, drops, captured>>
----------------------------------------------------------------------------
(*                       Network and collector (external)                  *)

(* A stream breaks; some suffix of what it carries is gone.  What the      *)
(* collector's transport already has, its handler still reads, even while  *)
(* the next stream delivers.                                               *)
BreakStream ==
    /\ Current > 0
    /\ ~broken[Current]
    /\ outages < MaxOutages
    /\ outages' = outages + 1
    /\ broken' = [broken EXCEPT ![Current] = TRUE]
    /\ \E k \in 0..Len(wire[Current]) :
          /\ wire' = [wire EXCEPT ![Current] = SubSeq(wire[Current], 1, k)]
          /\ lost' = lost \cup {wire[Current][i].id :
                                  i \in (k + 1)..Len(wire[Current])}
    /\ UNCHANGED <<pipeVars, received, monitorVars, envVars, nextId,
                   readErrors, restarts, emitted, drops, captured>>

Deliver(k) ==
    /\ k \in DOMAIN wire
    /\ wire[k] # <<>>
    /\ received' = Append(received, [event |-> Head(wire[k]), stream |-> k])
    /\ wire' = [wire EXCEPT ![k] = Tail(wire[k])]
    /\ UNCHANGED <<pipeVars, broken, monitorVars, envVars, boundVars, emitted,
                   drops, captured, lost>>

(* Memory pressure comes and goes; the collector, whose trigger engine     *)
(* holds a lock across an upload, answers triggers in time or not.         *)
Environment ==
    /\ \/ pressure' = ~pressure /\ UNCHANGED answering
       \/ answering' = ~answering /\ UNCHANGED pressure
    /\ UNCHANGED <<pipeVars, netVars, monitorVars, boundVars, emitted, drops,
                   captured, lost>>
----------------------------------------------------------------------------
(*                              MonitorBypass                              *)

(* SetBypass(true): the flag is set even if the map update fails. *)
SetBypass(why) ==
    /\ bypass' = TRUE
    /\ probesOff' \in {TRUE, probesOff}
    /\ decided' = [why |-> why, emitted |-> emitted, drops |-> drops]

Older == IF age < DropWindow THEN age + 1 ELSE age

ExceedsRatio(deltaEmitted, deltaDrops) ==
    /\ deltaEmitted + deltaDrops > 0
    /\ deltaDrops * DropRatio > deltaEmitted + deltaDrops

(* A tick of the monitor once bypass is on: nothing, for good. *)
TickBypassed ==
    /\ bypass
    /\ age' = Older
    /\ UNCHANGED <<pipeVars, netVars, bypass, lastEmitted, lastDrops, samples,
                   decided, envVars, boundVars, emitted, drops, captured, lost>>

TickPressure ==
    /\ ~bypass /\ pressure
    /\ SetBypass("memory")
    /\ age' = Older
    /\ UNCHANGED <<ring, rpc, hand, chan, fpc, out, netVars, lastEmitted,
                   lastDrops, samples, envVars, boundVars, emitted, drops,
                   captured, lost>>

(* Mutant: the baseline of the drop counter is not moved. *)
TickDropsStale(e, d) ==
    /\ ~bypass /\ ~pressure
    /\ IF Older >= DropWindow
       THEN /\ IF ExceedsRatio(e - lastEmitted, d - lastDrops)
               THEN SetBypass("drops")
               ELSE UNCHANGED <<bypass, probesOff, decided>>
            /\ age' = 0
            /\ lastEmitted' = e /\ UNCHANGED lastDrops
            /\ samples' = samples \cup {[emitted |-> emitted, drops |-> drops]}
       ELSE /\ age' = Older
            /\ UNCHANGED <<bypass, probesOff, decided, lastEmitted, lastDrops,
                           samples>>
    /\ UNCHANGED <<ring, rpc, hand, chan, fpc, out, netVars, envVars,
                   boundVars, emitted, drops, captured, lost>>

(* A tick that looks at the counters, e and d as readAgentMetrics returns  *)
(* them; the drop rate is judged when the window is over.                  *)
TickDrops(e, d) ==
    /\ ~bypass /\ ~pressure
    /\ IF Older >= DropWindow
       THEN /\ IF ExceedsRatio(e - lastEmitted, d - lastDrops)
               THEN SetBypass("drops")
               ELSE UNCHANGED <<bypass, probesOff, decided>>
            /\ age' = 0
            /\ lastEmitted' = e /\ lastDrops' = d
            /\ samples' = samples \cup {[emitted |-> emitted, drops |-> drops]}
       ELSE /\ age' = Older
            /\ UNCHANGED <<bypass, probesOff, decided, lastEmitted, lastDrops,
                           samples>>
    /\ UNCHANGED <<ring, rpc, hand, chan, fpc, out, netVars, envVars,
                   boundVars, emitted, drops, captured, lost>>

(* readAgentMetrics returns zeros when its own HTTP request fails. *)
MonitorTick ==
    \/ TickBypassed
    \/ TickPressure
    \/ TickDrops(emitted, drops)
    \/ TickDrops(0, 0)
----------------------------------------------------------------------------
(* The agent stops and starts again: what it held in memory, the maps of   *)
(* the kernel included, is gone; its stream ends.                          *)
Restart ==
    /\ restarts < MaxRestarts
    /\ restarts' = restarts + 1
    /\ lost' = lost \cup {r.id : r \in Range(ring) \cup Range(chan)}
                    \cup {r.id : r \in {x \in {hand, out} : x # NoRecord}}
    /\ ring' = <<>> /\ probesOff' = FALSE
    /\ rpc' = "read" /\ hand' = NoRecord
    /\ chan' = <<>>
    /\ fpc' = "open" /\ out' = NoRecord
    /\ bypass' = FALSE
    /\ emitted' = 0 /\ drops' = 0
    /\ lastEmitted' = 0 /\ lastDrops' = 0 /\ age' = 0
    /\ samples' = {[emitted |-> 0, drops |-> 0]}
    /\ decided' = Nothing
    /\ broken' = [k \in DOMAIN broken |-> TRUE]
    /\ UNCHANGED <<wire, received, envVars, nextId, readErrors, outages,
                   captured>>

Run == ReadRecord \/ HandleMarker \/ SendToChannel

RunForwarder == OpenStream \/ TakeEvent \/ SendOK \/ SendError

Next ==
    \/ \E kind \in InputKinds, count \in InputCounts, fault \in BOOLEAN :
          Probe(kind, count, fault)
    \/ Run
    \/ ReadError
    \/ RunForwarder
    \/ BreakStream
    \/ \E k \in DOMAIN wire : Deliver(k)
    \/ Environment
    \/ MonitorTick
    \/ Restart

Spec == Init /\ [][Next]_vars

(* Go runs every goroutine that can run and the ticker ticks.  Streams can *)
(* be opened again and deliver, which is what "the collector is reachable" *)
(* means; nothing is assumed about pressure or about trigger answers.      *)
Fairness ==
    /\ WF_vars(Run)
    /\ WF_vars(RunForwarder)
    /\ WF_vars(MonitorTick)
    /\ WF_vars(\E k \in DOMAIN wire : Deliver(k))

FairSpec == Spec /\ Fairness
----------------------------------------------------------------------------
(*                               Properties                                *)

(* The forwarder never repeats an event: however streams break and are     *)
(* opened again, the collector ingests an event at most once.              *)
AtMostOnce ==
    \A i, j \in DOMAIN received :
        received[i].event.id = received[j].event.id => i = j

(* Loader.Run and runStream hand events over in the order of the ring      *)
(* buffer: the events of one stream arrive in the order they happened.     *)
StreamInOrder ==
    \A i, j \in DOMAIN received :
        i < j /\ received[i].stream = received[j].stream
            => received[i].event.id < received[j].event.id

Held == Range(ring) \cup Range(chan) \cup {hand, out}
OnTheWire == UNION {Range(wire[k]) : k \in DOMAIN wire}
Arrived == {received[i].event : i \in DOMAIN received}

(* Back pressure, not loss: an I/O event that found room in the ring       *)
(* buffer is in the agent, on a stream or at the collector, unless it was  *)
(* lost with a broken stream or a restart.  A full channel makes Run wait. *)
NothingElseLost ==
    /\ \A id \in captured \ lost :
          \E r \in Held \cup OnTheWire \cup Arrived : r.id = id
    /\ outages = 0 /\ restarts = 0 => lost = {}

(* The collector is never sent more than a payload holds, although the     *)
(* vector clock header makes a full payload longer.                        *)
PayloadBounded == \A r \in OnTheWire \cup Arrived : r.len <= MaxPayload

(* MonitorBypass gives up capturing for drops only when the drop counter   *)
(* really exceeded the ratio since the end of an earlier window, even if   *)
(* readAgentMetrics failed in between and returned zeros.                  *)
BypassJustified ==
    decided.why = "drops" =>
        \E s \in samples : ExceedsRatio(decided.emitted - s.emitted,
                                        decided.drops - s.drops)

(* Loader.Run and the forwarder never stall for good: whatever is captured *)
(* leaves the agent, even if trigger requests hang and streams break.      *)
EventsLeave ==
    \A id \in 1..MaxEvents :
        (id \in {r.id : r \in Held}) ~> (id \notin {r.id : r \in Held})

(* PRD-v2 "payload detail (up to 2KB per event)": what could be read of a  *)
(* system call's data, up to the maximum, is in the event.                 *)
PayloadKept ==
    \A r \in Arrived :
        r.kind = "read" /\ ~r.fault =>
            r.len = Capped(r.count)
============================================================================
