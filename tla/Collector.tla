----------------------------- MODULE Collector -----------------------------
(***************************************************************************)
(* The dre-collector process: gRPC/HTTP handlers that ingest captured I/O  *)
(* events, the 30 s rolling buffer, the trigger engine with its cooldown,  *)
(* and the snapshot pipeline (copy, export, upload, register, publish).    *)
(*                                                                         *)
(* Every handler is a goroutine.  An action is what one goroutine does     *)
(* between two points where another may run: a region under one mutex      *)
(* (buffer.mu, vector.mu, trigger.mu, Collector.mu) or one blocking call   *)
(* (the export's file I/O, the upload).  trigger.mu is held across a whole *)
(* capture, the others only inside one action, so only trigger.mu (`mu')   *)
(* is a variable.                                                          *)
(***************************************************************************)
EXTENDS Integers, Sequences, Functions

CONSTANTS
    Streams,      \* goroutines that ingest events (gRPC streams, /v1/events)
    Admins,       \* goroutines that serve /v1/trigger and TriggerSnapshot
    Free,         \* value of mu when no goroutine holds trigger.mu
    Window,       \* buffer.WindowDuration, in ticks (30 s in the code)
    Cooldown,     \* trigger cooldown, in ticks (60 s in the code)
    Trigger4xx,   \* DRE_TRIGGER_4XX = 1
    LocalHooks,   \* SetLocalHooks was called (local capture daemon)
    InputKinds,   \* bound: kinds of events that arrive
    MaxEvents,    \* bound: events ingested
    MaxManual,    \* bound: requests to /v1/trigger
    MaxTime,      \* bound: clock ticks
    MaxRestarts   \* bound: crashes of the process

Callers == Streams \cup Admins

ASSUME CallerAssumption ==
    /\ Free \notin Callers
    /\ Streams \cap Admins = {}

ASSUME ParameterAssumption ==
    /\ Window \in Nat \ {0}
    /\ Cooldown \in Nat
    /\ Trigger4xx \in BOOLEAN
    /\ LocalHooks \in BOOLEAN
    /\ InputKinds \subseteq {"5xx", "4xx", "read", "write"}
    /\ MaxEvents \in Nat
    /\ MaxManual \in Nat
    /\ MaxTime \in Nat
    /\ MaxRestarts \in Nat

VARIABLES
    now,        \* the monotonic clock
    buf,        \* RollingBuffer.events
    pc,         \* pc[c]: what goroutine c does next
    ev,         \* ev[c]: the event c is ingesting
    observed,   \* identities of the events vector.Observe has recorded
    mu,         \* holder of trigger.Engine.mu
    lastFire,   \* trigger.Engine.lastFire
    snap,       \* snap[c]: locals of c's captureSnapshot call
    incident,   \* Exporter.incident: the events it was built from, <<>> = nil
    disk,       \* archives in the data directory, in the order written
    snapshots,  \* Collector.snapshots: archive numbers, in registration order
    latest,     \* archive number LatestLink holds a copy of, 0 = none
    made,       \* made[c]: number of the archive c's capture wrote, 0 = none
    resp,       \* resp[a]: archive number in a's response, 0 = "pending"
    nextEvent,  \* identity of the next event, counts up to MaxEvents
    manuals,    \* number of trigger requests, counts up to MaxManual
    restarts,   \* number of crashes, counts up to MaxRestarts
    added,      \* history: events added since the process started
    fires       \* history: the triggers that fired since the process started

progVars == <<now, buf, pc, ev, observed, mu, lastFire, snap,
              incident, made, disk, snapshots, latest, resp>>
boundVars == <<nextEvent, manuals, restarts>>
histVars == <<added, fires>>
vars == <<progVars, boundVars, histVars>>
----------------------------------------------------------------------------
(* What Evaluate tells apart in an event: the 5xx and 4xx rules match the  *)
(* payload of a read; "write" stands for every is_write other than 0.      *)
Kinds == {"5xx", "4xx", "read", "write"}
Events == [id : Nat, kind : Kinds, at : Int]
TriggerTypes == {"http_5xx", "http_4xx", "manual", "process_exit", "sigsegv"}
Triggers == [type : TriggerTypes, cause : SUBSET Events]
Locals == [events : Seq(Events), graph : SUBSET Nat, copiedAt : Int]
Archives == [events : Seq(Events), graph : SUBSET Nat, copiedAt : Int,
             trigger : Triggers, incident : Seq(Events), run : Nat]
Fires == [at : Int, type : TriggerTypes]

CapturePCs == {"copy", "graph", "export", "upload", "register", "publish"}
StreamPCs == {"recv", "add", "observe", "evaluate", "fire"} \cup CapturePCs
AdminPCs == {"idle", "fire", "respond"} \cup CapturePCs

NoEvent == [id |-> 0, kind |-> "write", at |-> 0]
NoLocals == [events |-> <<>>, graph |-> {}, copiedAt |-> 0]
IsFirst(c) == IF c \in Streams THEN "recv" ELSE "idle"

(* The zero time.Time is longer ago than any cooldown. *)
NeverFired == 0 - Cooldown

TypeOK ==
    /\ now \in Nat
    /\ buf \in Seq(Events)
    /\ pc \in [Callers -> StreamPCs \cup AdminPCs]
    /\ \A s \in Streams : pc[s] \in StreamPCs
    /\ \A a \in Admins : pc[a] \in AdminPCs
    /\ ev \in [Callers -> Events]
    /\ observed \subseteq Nat
    /\ mu \in Callers \cup {Free}
    /\ lastFire \in Int
    /\ snap \in [Callers -> Locals]
    /\ incident \in Seq(Events)
    /\ disk \in Seq(Archives)
    /\ snapshots \in Seq(Nat)
    /\ latest \in Nat
    /\ made \in [Callers -> Nat]
    /\ resp \in [Admins -> Nat]
    /\ nextEvent \in Nat /\ manuals \in Nat /\ restarts \in Nat
    /\ added \subseteq Events
    /\ fires \in Seq(Fires)
----------------------------------------------------------------------------
(* server.New: everything in memory starts empty.                          *)
InitMemory ==
    /\ buf = <<>>
    /\ pc = [c \in Callers |-> IsFirst(c)]
    /\ ev = [c \in Callers |-> NoEvent]
    /\ observed = {}
    /\ mu = Free
    /\ lastFire = NeverFired
    /\ snap = [c \in Callers |-> NoLocals]
    /\ incident = <<>>
    /\ snapshots = <<>>
    /\ resp = [a \in Admins |-> 0]
    /\ added = {}
    /\ fires = <<>>
    /\ made = [c \in Callers |-> 0]

Init ==
    /\ InitMemory
    /\ now = 0
    /\ disk = <<>>
    /\ latest = 0
    /\ nextEvent = 1 /\ manuals = 0 /\ restarts = 0

(* Mutant: ingestEvent evaluates an event it has not observed. *)
GotoSkippingObserve(c, label) ==
    pc' = [pc EXCEPT ![c] = IF label = "observe" THEN "evaluate" ELSE label]

Goto(c, label) == pc' = [pc EXCEPT ![c] = label]

(* Mutant: every caller of fire goes on like the ingest loop. *)
ReturnToRecv(c) ==
    /\ Goto(c, "recv")
    /\ ev' = [ev EXCEPT ![c] = NoEvent]
    /\ snap' = [snap EXCEPT ![c] = NoLocals]

(* fire has returned: a stream goes back to Recv, TriggerSnapshot goes on; *)
(* the locals of the call are gone.                                        *)
Return(c) ==
    /\ Goto(c, IF c \in Streams THEN "recv" ELSE "respond")
    /\ ev' = [ev EXCEPT ![c] = NoEvent]
    /\ snap' = [snap EXCEPT ![c] = NoLocals]

(* Time passes between any two steps: the scheduler, the disk and the      *)
(* object store give no bound.                                             *)
Tick ==
    /\ now < MaxTime
    /\ now' = now + 1
    /\ UNCHANGED <<buf, pc, ev, observed, mu, lastFire, snap,
                   incident, made, disk, snapshots, latest, resp>>
    /\ UNCHANGED boundVars
    /\ UNCHANGED histVars
----------------------------------------------------------------------------
(*                        ingest.Service.ingestEvent                       *)

(* stream.Recv (or the next item of a /v1/events batch) and                *)
(* parseVectorHeader, which may add an edge from another node's event.     *)
Recv(s, kind) ==
    /\ pc[s] = "recv"
    /\ nextEvent <= MaxEvents
    /\ ev' = [ev EXCEPT ![s] = [id |-> nextEvent, kind |-> kind, at |-> 0]]
    /\ nextEvent' = nextEvent + 1
    /\ Goto(s, "add")
    /\ UNCHANGED <<now, buf, observed, mu, lastFire, snap, incident,
                   made, disk, snapshots, latest, resp, manuals, restarts>>
    /\ UNCHANGED histVars

(* Mutant: the cutoff is one tick too late, events leave too early. *)
EvictEarly(events, cutoff, k) ==
    /\ k \in 0..Len(events)
    /\ \A i \in 1..k : events[i].at <= cutoff + 1
    /\ k < Len(events) => events[k + 1].at > cutoff + 1

(* Mutant: !Before instead of After, an event at the cutoff stays. *)
EvictLate(events, cutoff, k) ==
    /\ k \in 0..Len(events)
    /\ \A i \in 1..k : events[i].at < cutoff
    /\ k < Len(events) => events[k + 1].at >= cutoff

(* The loop of RollingBuffer.Add: drop the longest prefix whose events are *)
(* not After the cutoff; k is where it stops.                              *)
Evict(events, cutoff, k) ==
    /\ k \in 0..Len(events)
    /\ \A i \in 1..k : events[i].at <= cutoff
    /\ k < Len(events) => events[k + 1].at > cutoff

Add(s) ==
    /\ pc[s] = "add"
    /\ LET e == [id |-> ev[s].id, kind |-> ev[s].kind, at |-> now]
           all == Append(buf, e)
       IN /\ \E k \in 0..Len(all) :
                /\ Evict(all, now - Window, k)
                /\ buf' = SubSeq(all, k + 1, Len(all))
          /\ ev' = [ev EXCEPT ![s] = e]
          /\ added' = added \cup {e}
    /\ Goto(s, "observe")
    /\ UNCHANGED <<now, observed, mu, lastFire, snap, incident,
                   made, disk, snapshots, latest, resp, fires>>
    /\ UNCHANGED boundVars

Observe(s) ==
    /\ pc[s] = "observe"
    /\ observed' = observed \cup {ev[s].id}
    /\ Goto(s, "evaluate")
    /\ UNCHANGED <<now, buf, ev, mu, lastFire, snap, incident, made,
                   disk, snapshots, latest, resp>>
    /\ UNCHANGED boundVars
    /\ UNCHANGED histVars

(* trigger.Engine.Evaluate up to fire: only reads are looked at, a 5xx     *)
(* goes straight to fire, and every other read locks trigger.mu to look at *)
(* trigger4xx, so it waits while a capture is under way.                   *)
Evaluate(s) ==
    /\ pc[s] = "evaluate"
    /\ ev[s].kind \in {"4xx", "read"} => mu = Free
    /\ IF ev[s].kind = "5xx" \/ (ev[s].kind = "4xx" /\ Trigger4xx)
       THEN Goto(s, "fire") /\ UNCHANGED <<ev, snap>>
       ELSE Return(s)
    /\ UNCHANGED <<now, buf, observed, mu, lastFire, incident, made,
                   disk, snapshots, latest, resp>>
    /\ UNCHANGED boundVars
    /\ UNCHANGED histVars
----------------------------------------------------------------------------
(*                           Collector.TriggerSnapshot                     *)

(* A client, the agent's marker handler included, asks for a snapshot; the *)
(* handler takes only the detail of the request and calls triggers.Manual. *)
RequestTrigger(a) ==
    /\ pc[a] = "idle"
    /\ manuals < MaxManual
    /\ manuals' = manuals + 1
    /\ Goto(a, "fire")
    /\ UNCHANGED <<now, buf, ev, observed, mu, lastFire, snap, incident,
                   made, disk, snapshots, latest, resp, nextEvent, restarts,
                   added, fires>>

(* After Manual returns, the handler answers with the last snapshot of the *)
(* list, whichever call it came from.                                      *)
Respond(a) ==
    /\ pc[a] = "respond"
    /\ resp' = [resp EXCEPT ![a] =
                  IF snapshots = <<>> THEN 0 ELSE snapshots[Len(snapshots)]]
    /\ Goto(a, "idle")
    /\ UNCHANGED <<now, buf, ev, observed, mu, lastFire, snap,
                   incident, made, disk, snapshots, latest>>
    /\ UNCHANGED boundVars
    /\ UNCHANGED histVars
----------------------------------------------------------------------------
(*                           trigger.Engine.fire                           *)

TriggerOf(c) ==
    IF c \in Streams
    THEN [type |-> IF ev[c].kind = "5xx" THEN "http_5xx" ELSE "http_4xx",
          cause |-> {ev[c]}]
    ELSE [type |-> "manual", cause |-> {}]

IsAutomatic(type) == type \in {"http_5xx", "http_4xx"}

(* Mutant: the cooldown ends one tick early. *)
SuppressedTooBriefly(c) ==
    IsAutomatic(TriggerOf(c).type) /\ now - lastFire < Cooldown - 1

Suppressed(c) == IsAutomatic(TriggerOf(c).type) /\ now - lastFire < Cooldown

(* Lock, find the cooldown running, unlock. *)
FireSuppressed(c) ==
    /\ pc[c] = "fire"
    /\ mu = Free
    /\ Suppressed(c)
    /\ Return(c)
    /\ UNCHANGED <<now, buf, observed, mu, lastFire, incident, made,
                   disk, snapshots, latest, resp>>
    /\ UNCHANGED boundVars
    /\ UNCHANGED histVars

(* Mutant: fire gives the lock back before it calls onSnap. *)
FireUnlocked(c) ==
    /\ pc[c] = "fire"
    /\ mu = Free
    /\ ~Suppressed(c)
    /\ lastFire' = now
    /\ made' = [made EXCEPT ![c] = 0]
    /\ fires' = Append(fires, [at |-> now, type |-> TriggerOf(c).type])
    /\ Goto(c, "copy")
    /\ UNCHANGED <<now, buf, ev, observed, mu, snap, incident, disk,
                   snapshots, latest, resp, added>>
    /\ UNCHANGED boundVars

(* Lock, start the cooldown and call onSnap with the lock held. *)
Fire(c) ==
    /\ pc[c] = "fire"
    /\ mu = Free
    /\ ~Suppressed(c)
    /\ mu' = c
    /\ lastFire' = now
    /\ made' = [made EXCEPT ![c] = 0]
    /\ fires' = Append(fires, [at |-> now, type |-> TriggerOf(c).type])
    /\ Goto(c, "copy")
    /\ UNCHANGED <<now, buf, ev, observed, snap, incident, disk,
                   snapshots, latest, resp, added>>
    /\ UNCHANGED boundVars
----------------------------------------------------------------------------
(*                        Collector.captureSnapshot                        *)

(* buf.Snapshot, then IncidentBuilder on the copy: BuildIncident returns   *)
(* nil exactly when there are no events, and nil leaves the field alone.   *)
CopyBuffer(c) ==
    /\ pc[c] = "copy"
    /\ snap' = [snap EXCEPT ![c] =
                  [events |-> buf, graph |-> {}, copiedAt |-> now]]
    /\ incident' = IF LocalHooks /\ buf # <<>> THEN buf ELSE incident
    /\ Goto(c, "graph")
    /\ UNCHANGED <<now, buf, ev, observed, mu, lastFire, made, disk,
                   snapshots, latest, resp>>
    /\ UNCHANGED boundVars
    /\ UNCHANGED histVars

ReadGraph(c) ==
    /\ pc[c] = "graph"
    /\ snap' = [snap EXCEPT ![c] = [events |-> snap[c].events,
                  graph |-> observed, copiedAt |-> snap[c].copiedAt]]
    /\ Goto(c, "export")
    /\ UNCHANGED <<now, buf, ev, observed, mu, lastFire, incident,
                   made, disk, snapshots, latest, resp>>
    /\ UNCHANGED boundVars
    /\ UNCHANGED histVars

(* Exporter.Export writes the archive and empties the incident field. *)
Export(c) ==
    /\ pc[c] = "export"
    /\ disk' = Append(disk,
                 [events |-> snap[c].events, graph |-> snap[c].graph,
                  copiedAt |-> snap[c].copiedAt, trigger |-> TriggerOf(c),
                  incident |-> incident, run |-> restarts])
    /\ incident' = <<>>
    /\ made' = [made EXCEPT ![c] = Len(disk) + 1]
    /\ Goto(c, "upload")
    /\ UNCHANGED <<now, buf, ev, observed, mu, lastFire, snap,
                   snapshots, latest, resp, added, fires>>
    /\ UNCHANGED boundVars

(* Mutant: the error path returns without unlocking. *)
ExportFailsLocked(c) ==
    /\ pc[c] = "export"
    /\ incident' \in {incident, <<>>}
    /\ Return(c)
    /\ UNCHANGED <<now, buf, observed, mu, lastFire, made, disk,
                   snapshots, latest, resp, added, fires>>
    /\ UNCHANGED boundVars

(* MkdirAll fails before the incident field is emptied; encoding, packing, *)
(* encrypting or writing fails after.  captureSnapshot logs and returns.   *)
ExportFails(c) ==
    /\ pc[c] = "export"
    /\ incident' \in {incident, <<>>}
    /\ mu' = Free
    /\ Return(c)
    /\ UNCHANGED <<now, buf, observed, lastFire, made, disk,
                   snapshots, latest, resp, added, fires>>
    /\ UNCHANGED boundVars

(* Mutant: a failed upload ends the capture before it is registered. *)
UploadOrGiveUp(c) ==
    /\ pc[c] = "upload"
    /\ \/ Goto(c, "register") /\ UNCHANGED <<ev, snap, mu>>
       \/ Return(c) /\ mu' = Free
    /\ UNCHANGED <<now, buf, observed, lastFire, incident, made,
                   disk, snapshots, latest, resp>>
    /\ UNCHANGED boundVars
    /\ UNCHANGED histVars

(* The upload, bounded by a 60 s context; a failure is only logged.        *)
Upload(c) ==
    /\ pc[c] = "upload"
    /\ Goto(c, "register")
    /\ UNCHANGED <<now, buf, ev, observed, mu, lastFire, snap,
                   incident, made, disk, snapshots, latest, resp>>
    /\ UNCHANGED boundVars
    /\ UNCHANGED histVars

Register(c) ==
    /\ pc[c] = "register"
    /\ snapshots' = Append(snapshots, made[c])
    /\ Goto(c, "publish")
    /\ UNCHANGED <<now, buf, ev, observed, mu, lastFire, snap,
                   incident, made, disk, latest, resp>>
    /\ UNCHANGED boundVars
    /\ UNCHANGED histVars

(* postProcessSnapshot copies the archive over LatestLink (reading it back *)
(* may fail, which is ignored); then fire's deferred unlock.               *)
Publish(c) ==
    /\ pc[c] = "publish"
    /\ latest' \in (IF LocalHooks THEN {latest, made[c]} ELSE {latest})
    /\ mu' = Free
    /\ Return(c)
    /\ UNCHANGED <<now, buf, observed, lastFire, incident, made,
                   disk, snapshots, resp>>
    /\ UNCHANGED boundVars
    /\ UNCHANGED histVars
----------------------------------------------------------------------------
(* The process dies and starts again: server.New builds everything afresh  *)
(* and reads nothing back from the data directory.                         *)
Restart ==
    /\ restarts < MaxRestarts
    /\ restarts' = restarts + 1
    /\ buf' = <<>>
    /\ pc' = [c \in Callers |-> IsFirst(c)]
    /\ ev' = [c \in Callers |-> NoEvent]
    /\ observed' = {}
    /\ mu' = Free
    /\ lastFire' = NeverFired
    /\ snap' = [c \in Callers |-> NoLocals]
    /\ incident' = <<>>
    /\ snapshots' = <<>>
    /\ resp' = [a \in Admins |-> 0]
    /\ added' = {}
    /\ fires' = <<>>
    /\ made' = [c \in Callers |-> 0]
    /\ UNCHANGED <<now, disk, latest, nextEvent, manuals>>

Capture(c) ==
    \/ CopyBuffer(c)
    \/ ReadGraph(c)
    \/ Export(c)
    \/ ExportFails(c)
    \/ Upload(c)
    \/ Register(c)
    \/ Publish(c)

Ingest(s) ==
    \/ Add(s)
    \/ Observe(s)
    \/ Evaluate(s)

Next ==
    \/ Tick
    \/ Restart
    \/ \E s \in Streams, kind \in InputKinds : Recv(s, kind)
    \/ \E s \in Streams : Ingest(s)
    \/ \E a \in Admins : RequestTrigger(a)
    \/ \E a \in Admins : Respond(a)
    \/ \E c \in Callers : FireSuppressed(c) \/ Fire(c) \/ Capture(c)

Spec == Init /\ [][Next]_vars

(* A goroutine that can run does run, file I/O and the upload end (the     *)
(* latter by its context), and sync.Mutex hands the lock to a waiter it    *)
(* has kept waiting, so a goroutine waiting for trigger.mu is not passed   *)
(* over for ever.                                                          *)
Fairness ==
    /\ \A s \in Streams :
          /\ WF_vars(Add(s)) /\ WF_vars(Observe(s))
          /\ SF_vars(Evaluate(s))
    /\ \A a \in Admins : WF_vars(Respond(a))
    /\ \A c \in Callers :
          /\ SF_vars(FireSuppressed(c) \/ Fire(c))
          /\ WF_vars(Capture(c))

FairSpec == Spec /\ Fairness
----------------------------------------------------------------------------
(*                               Properties                                *)

(* RollingBuffer never loses a recent event: whatever was added less than  *)
(* Window ago is still in the buffer, however Adds of other streams        *)
(* interleave with it.                                                     *)
RecentEventsBuffered ==
    \A e \in added : now - e.at < Window => e \in Range(buf)

(* RollingBuffer stays bounded by its window: because the time is read     *)
(* under the lock the buffer is in time order, and dropping a prefix is    *)
(* enough to keep all of it within Window of the newest event.             *)
BufferSpansWindow ==
    \A i, j \in DOMAIN buf : buf[i].at - buf[j].at < Window

(* The event that set off an automatic trigger is in the archive, provided *)
(* the copy was taken within Window of its arrival.  The handler that      *)
(* ingests it may first wait for trigger.mu behind another capture while   *)
(* other streams evict.                                                    *)
CauseCaptured ==
    \A i \in DOMAIN disk : \A e \in disk[i].trigger.cause :
        disk[i].copiedAt - e.at < Window => e \in Range(disk[i].events)

(* The vector graph in an archive has the event that set off the trigger:  *)
(* ingestEvent observes an event before it evaluates it.                   *)
CauseInGraph ==
    \A i \in DOMAIN disk : \A e \in disk[i].trigger.cause :
        e.id \in disk[i].graph

(* The cooldown of trigger.fire: an automatic trigger never fires within   *)
(* Cooldown of any earlier one, whatever goroutines raced for the lock and *)
(* however long the captures between them took.                            *)
CooldownRespected ==
    \A i, j \in DOMAIN fires :
        i < j /\ IsAutomatic(fires[j].type)
            => fires[j].at - fires[i].at >= Cooldown

(* The incident in a manifest was built from that archive's own events.    *)
(* Exporter.incident is an unsynchronised field that outlives a failed     *)
(* MkdirAll; it is safe because trigger.mu is held from SetIncident to     *)
(* Export and because a buffer that had events once is never empty again.  *)
IncidentOwn ==
    LocalHooks => \A i \in DOMAIN disk : disk[i].incident = disk[i].events

Exported(c) == pc[c] \in {"upload", "register"}

(* No archive is lost or listed twice: what this process wrote is exactly  *)
(* what ListSnapshots returns, in the order written, except the archive of *)
(* a capture that has yet to register it.  A failed upload changes nothing. *)
ExportedIsListed ==
    /\ \A i \in DOMAIN disk : disk[i].run = restarts =>
          i \in Range(snapshots) \cup {made[c] : c \in {d \in Callers : Exported(d)}}
    /\ \A i, j \in DOMAIN snapshots : i < j => snapshots[i] < snapshots[j]
    /\ \A c \in Callers : Exported(c) => made[c] \notin Range(snapshots)

(* The archive of the capture under way that is not listed yet, 0 = none.  *)
Pending == IF mu # Free /\ Exported(mu) THEN made[mu] ELSE 0

Service == INSTANCE SnapshotService WITH
    written <- Len(disk), pending <- Pending, listed <- snapshots

(* The collector implements the abstract snapshot service: captures of all *)
(* streams and handlers, with exports that fail, crashes and a latest link *)
(* written outside Collector.mu, look to a user like archives that are     *)
(* written, listed and published one after the other.                      *)
ImplementsService == Service!Spec

(* LatestLink never goes back to an older archive, although it is written  *)
(* outside Collector.mu after the archive was listed.                      *)
LatestNeverRegresses == [][latest' > latest]_latest

(* TriggerSnapshot answers with the archive of its own capture or a newer  *)
(* one, although it looks at the list after it gave trigger.mu back.       *)
AnswerNotOlder ==
    \A a \in Admins : pc[a] = "idle" => resp[a] >= made[a]

(* ingestEvent returns: every event a stream receives is processed, even   *)
(* when it must wait for trigger.mu behind captures that may fail.         *)
EventsProcessed == \A s \in Streams : pc[s] # "recv" ~> pc[s] = "recv"

(* TriggerSnapshot returns: every trigger request is answered, although    *)
(* fire has no timeout of its own and queues for trigger.mu.               *)
TriggersAnswered == \A a \in Admins : pc[a] # "idle" ~> pc[a] = "idle"
============================================================================
