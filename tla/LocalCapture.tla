---------------------------- MODULE LocalCapture ---------------------------
(***************************************************************************)
(* `bugit record' and `bugit snapshot' on a developer's machine: processes *)
(* that each start a collector of their own on the same two ports, post    *)
(* the events of HTTP exchanges to whichever collector answers, and ask it *)
(* for a snapshot when they end.  All write the same archive directory and *)
(* the same latest link.                                                   *)
(*                                                                         *)
(* Goroutines of a process: main (RunAttachRecord, RunCapture, runSnapshot *)
(* around StartDaemon and Stop), the collector (RunElection, Run), its     *)
(* request handlers, and those that post events: one per exchange of a     *)
(* proxy, the pump of an attached tap.  The inside of a collector is       *)
(* Collector, the inside of an attach Inspector.                           *)
(***************************************************************************)
EXTENDS Integers, Sequences, SequencesExt

CONSTANTS
    Recorders,      \* processes that run `bugit record'
    Askers,         \* processes that run `bugit snapshot'
    MaxExchanges,   \* bound: exchanges of the application
    Workloads       \* what a behaviour may hold: see Workload

Modes == {"attach", "preload", "spawn"}

(* How recorders record, the exchanges there are and those whose response  *)
(* is an HTTP error, how much may go wrong, whether `bugit snapshot' is    *)
(* run at all, whether the backend has an inspector the bridge can find,   *)
(* whether some client keeps a gRPC stream open, and whether the recording *)
(* outlasts the window of the buffer.                                      *)
Workload ==
    [modes : SUBSET Modes, exchanges : 0..MaxExchanges,
     errors : SUBSET (1..MaxExchanges), faults : Nat, asks : BOOLEAN,
     inspectable : BOOLEAN, streaming : BOOLEAN, long : BOOLEAN]

ASSUME LocalCaptureAssumption ==
    /\ Recorders \cap Askers = {} /\ "nobody" \notin Recorders \cup Askers
    /\ MaxExchanges \in Nat
    /\ Workloads \subseteq Workload

VARIABLES
    load,        \* the workload of this behaviour
    \* main of each process
    mode,        \* of a recorder: attach to a running backend, be left with
                 \* its preload hook, or spawn one
    main, interrupted, bridge, outcome,
    \* the collector of each process, and the ports
    coll, grpcPort, httpPort, proxyPort,
    buf, old,    \* its rolling buffer; how many of it have left the window
    listed,      \* it has exported a snapshot
    \* handlers: ask[p] runs p's trigger at a collector, arriving[e] the post
    \* of event e until it is added, post[x] what follows for the response of
    \* exchange x; orphans[c] are triggers whose client gave up
    ask, arriving, post, orphans, cap,
    \* the disk
    link,        \* the archive in the latest link, if any
    \* the application: at which recorder exchange x is seen, and how far who
    \* posts event e is with it
    via, stage,
    \* history: main reached recording; the events the last trigger of p had
    \* to cover, and the collector that exported them; the events that have
    \* left the window
    recorded, due, saved, aged,
    faults       \* bound: how much may still go wrong

givenVars == <<load, mode, via>>
mainVars == <<givenVars, main, interrupted, outcome, recorded>>
portVars == <<grpcPort, httpPort, proxyPort>>
bufVars == <<buf, old, aged>>
handlerVars == <<ask, arriving, post, orphans, cap>>
diskVars == <<link, listed>>
histVars == <<due, saved, faults>>
vars == <<mainVars, bridge, coll, portVars, bufVars, handlerVars, diskVars, stage,
          histVars>>
----------------------------------------------------------------------------
Procs == Recorders \cup Askers
Nobody == "nobody"
Exchanges == 1..MaxExchanges

Request(x) == <<x, "request">>
Response(x) == <<x, "response">>
Events == Exchanges \X {"request", "response"}

Over == {"exited", "failed"}
MainPCs == Over \cup {"idle", "boot", "wait", "attach", "connect", "start",
                      "recording", "save", "asked", "check", "leave", "stop",
                      "join"}

(* No capture: nobody holds the trigger engine's mutex. *)
Idle == [busy |-> FALSE, by |-> Nobody, x |-> 0, events |-> <<>>, aged |-> {}]
NoArchive == [owner |-> Nobody, events |-> <<>>, aged |-> {}]
Fresh == [try |-> 0, err |-> FALSE, path |-> FALSE, reported |-> FALSE]

TypeOK ==
    /\ load \in Workload
    /\ mode \in [Recorders -> Modes]
    /\ via \in [Exchanges -> Recorders]
    /\ main \in [Procs -> MainPCs]
    /\ interrupted \in [Procs -> BOOLEAN]
    /\ bridge \in [Procs -> {"none", "idle", "busy"}]
    /\ outcome \in [Procs -> [try : 0..2, err : BOOLEAN, path : BOOLEAN,
                              reported : BOOLEAN]]
    /\ coll \in [Procs -> {"none", "starting", "grpc", "serving", "deaf",
                           "stopping", "draining", "down"}]
    /\ {grpcPort, httpPort, proxyPort} \subseteq Procs \cup {Nobody}
    /\ buf \in [Procs -> Seq(Events)]
    /\ old \in [Procs -> Nat]
    /\ aged \subseteq Events
    /\ ask \in [Procs -> Procs \cup {Nobody}]
    /\ arriving \in [Events -> Procs \cup {Nobody}]
    /\ post \in [Exchanges -> Procs \cup {Nobody}]
    /\ orphans \in [Procs -> Nat]
    /\ cap \in [Procs -> [busy : BOOLEAN,
                          by : Procs \cup {Nobody}, x : 0..MaxExchanges,
                          events : Seq(Events), aged : SUBSET Events]]
    /\ link \in [owner : Procs \cup {Nobody}, events : Seq(Events),
                 aged : SUBSET Events]
    /\ listed \in [Procs -> BOOLEAN]
    /\ stage \in [Events -> {"none", "waiting", "frame", "framing", "done"}]
    /\ recorded \in [Procs -> BOOLEAN]
    /\ due \in [Procs -> SUBSET Events]
    /\ saved \in [Procs -> Procs \cup {Nobody}]
    /\ faults \in Nat
----------------------------------------------------------------------------
(*                        Ends of processes and ports                      *)

Freed(port, p) == IF port = p THEN Nobody ELSE port

At(p, label) == main' = [main EXCEPT ![p] = label]

(* Mutant: recorders try until a snapshot is saved. *)
RefusedForever(p, try) ==
    IF p \in Askers THEN (IF try = 1 THEN "boot" ELSE "leave") ELSE "save"

(* Where main goes when triggerSnapshot returns an error: recorders try    *)
(* once more, unless the command had failed; runSnapshot starts a daemon   *)
(* of its own, and gives up if that does not help either.                  *)
Refused(p, try) ==
    IF p \in Askers THEN (IF try = 1 THEN "boot" ELSE "leave")
    ELSE IF try = 1 /\ ~outcome[p].err THEN "save" ELSE "stop"

(* Something goes wrong that need not. *)
Fault ==
    /\ faults > 0
    /\ faults' = faults - 1

(* The client of p's trigger is gone; its handler goes on. *)
Orphaned(p) ==
    [c \in Procs |-> orphans[c] + (IF ask[p] = c /\ cap[c].by # p THEN 1 ELSE 0)]

Unclaimed(p) ==
    [c \in Procs |-> IF cap[c].by = p THEN [cap[c] EXCEPT !.by = Nobody] ELSE cap[c]]

(* What follows the post of an event in the goroutine that made it: after  *)
(* an HTTP error its source is looked up.                                  *)
AfterPost(e) ==
    IF e[2] = "response" /\ e[1] \in load.errors THEN "frame" ELSE "done"

(* The same when the post failed, which is where the tap returns. *)
AfterFailure(e) == IF mode[via[e[1]]] = "spawn" THEN AfterPost(e) ELSE "done"

(* The handler of e's post is at collector c. *)
Handles(c, e) == arriving[e] = c \/ (e[2] = "response" /\ post[e[1]] = c)

(* The process ends: its ports are free, its handlers and captures are cut *)
(* off, nobody there waits for an answer any more, its memory is gone.     *)
(* Clients waiting for it see the connection break.                        *)
Exit(p, how) ==
    /\ main' = [q \in Procs |-> IF q = p THEN how
                                ELSE IF ask[q] = p THEN Refused(q, outcome[q].try)
                                ELSE main[q]]
    /\ coll' = [coll EXCEPT ![p] = "down"]
    /\ grpcPort' = Freed(grpcPort, p)
    /\ httpPort' = Freed(httpPort, p)
    /\ proxyPort' = Freed(proxyPort, p)
    /\ bridge' = [bridge EXCEPT ![p] = "none"]
    /\ ask' = [q \in Procs |-> IF q = p \/ ask[q] = p THEN Nobody ELSE ask[q]]
    /\ orphans' = [Orphaned(p) EXCEPT ![p] = 0]
    /\ cap' = [Unclaimed(p) EXCEPT ![p] = Idle]
    /\ stage' = [e \in Events |->
                   IF stage[e] \in {"none", "done"} THEN stage[e]
                   ELSE IF via[e[1]] = p THEN "done"
                   ELSE IF stage[e] = "waiting" /\ Handles(p, e) THEN AfterFailure(e)
                   ELSE stage[e]]
    /\ arriving' = [e \in Events |-> IF arriving[e] = p THEN Nobody ELSE arriving[e]]
    /\ post' = [x \in Exchanges |-> IF post[x] = p THEN Nobody ELSE post[x]]
    /\ buf' = [buf EXCEPT ![p] = <<>>]
    /\ old' = [old EXCEPT ![p] = 0]
    /\ listed' = [listed EXCEPT ![p] = FALSE]
    /\ interrupted' = [interrupted EXCEPT ![p] = FALSE]
    /\ outcome' = [outcome EXCEPT ![p] = [Fresh EXCEPT !.reported = outcome[p].reported]]
    /\ due' = [due EXCEPT ![p] = {}]
    /\ saved' = [saved EXCEPT ![p] = Nobody]
    /\ UNCHANGED <<givenVars, recorded, link, aged, faults>>

(* main of p goes on and nothing else changes. *)
Only(p, label) ==
    /\ At(p, label)
    /\ UNCHANGED <<givenVars, interrupted, outcome, recorded, bridge, coll,
                   portVars, bufVars, handlerVars, diskVars, stage, histVars>>
----------------------------------------------------------------------------
(*                      StartDaemon and the commands                       *)

(* runRecord starts its daemon; runSnapshot first asks a running one. *)
Launch(p) ==
    /\ main[p] = "idle"
    /\ Only(p, IF p \in Recorders THEN "boot" ELSE "save")

(* StartDaemon: the collector goroutine is started. *)
Boot(p) ==
    /\ main[p] = "boot"
    /\ At(p, "wait")
    /\ coll' = [coll EXCEPT ![p] = "starting"]
    /\ UNCHANGED <<givenVars, interrupted, outcome, recorded, bridge,
                   portVars, bufVars, handlerVars, diskVars, stage, histVars>>

(* NodeBridge.Connect with main going on at label: connectWS holds the     *)
(* bridge's lock while it dials and enables the runtime, unless there is   *)
(* no inspector or ctx has ended, which is only a warning.                 *)
Connect(p, label) ==
    IF load.inspectable /\ ~interrupted[p]
    THEN At(p, "connect") /\ bridge' = [bridge EXCEPT ![p] = "busy"]
    ELSE At(p, label) /\ UNCHANGED bridge

(* Where main goes on from there. *)
Connected(p) ==
    IF p \in Askers THEN "save" ELSE IF mode[p] = "attach" THEN "recording" ELSE "start"

(* waitReady: some collector answers on the HTTP port, be it another's.    *)
(* Without SkipProxy the record proxy needs its port too (a listen error   *)
(* of the outbound proxy is lost in its goroutine), and the bridge is      *)
(* connected.                                                              *)
WaitReady(p) ==
    /\ main[p] = "wait"
    /\ httpPort # Nobody
    /\ \/ /\ p \in Recorders /\ mode[p] # "spawn"
          /\ At(p, "attach")
          /\ UNCHANGED <<proxyPort, bridge>>
       \/ /\ p \in Recorders => mode[p] = "spawn"
          /\ proxyPort = Nobody
          /\ proxyPort' = p
          /\ Connect(p, Connected(p))
    /\ UNCHANGED <<givenVars, interrupted, outcome, recorded, coll, grpcPort,
                   httpPort, bufVars, handlerVars, diskVars, stage, histVars>>

(* Mutant: waitReady has no deadline. *)
StartFailsNoProxy(p) ==
    /\ main[p] = "wait"
    /\ (p \in Recorders => mode[p] = "spawn") /\ proxyPort # Nobody
    /\ Exit(p, "failed")

(* StartDaemon returns an error: nobody answers in 15 s, or no proxy port. *)
StartFails(p) ==
    /\ main[p] = "wait"
    /\ \/ httpPort = Nobody
       \/ (p \in Recorders => mode[p] = "spawn") /\ proxyPort # Nobody
    /\ Exit(p, "failed")

(* PrepareBackendInspector and StartAttachTap (see Inspector): attached,   *)
(* left with the preload hook, or an error.                                *)
Attach(p) ==
    /\ main[p] = "attach"
    /\ \/ /\ recorded' = [recorded EXCEPT ![p] = TRUE]
          /\ IF mode[p] = "attach" THEN Connect(p, "recording")
             ELSE At(p, "recording") /\ UNCHANGED bridge
       \/ At(p, "stop") /\ UNCHANGED <<recorded, bridge>>
    /\ UNCHANGED <<givenVars, interrupted, outcome, coll, portVars, bufVars,
                   handlerVars, diskVars, stage, histVars>>

(* connectWS returns, with a connection or without. *)
ConnectReturns(p) ==
    /\ main[p] = "connect"
    /\ At(p, Connected(p))
    /\ \E got \in {"idle", "none"} : bridge' = [bridge EXCEPT ![p] = got]
    /\ UNCHANGED <<givenVars, interrupted, outcome, recorded, coll, portVars,
                   bufVars, handlerVars, diskVars, stage, histVars>>

(* RunCapture starts the application's command, or cannot. *)
StartCommand(p) ==
    /\ main[p] = "start"
    /\ \/ At(p, "recording") /\ recorded' = [recorded EXCEPT ![p] = TRUE]
       \/ At(p, "stop") /\ UNCHANGED recorded
    /\ UNCHANGED <<givenVars, interrupted, outcome, bridge, coll, portVars, bufVars,
                   handlerVars, diskVars, stage, histVars>>

(* SIGINT of a recorder; the 30 s limit of the daemon of runSnapshot. *)
Interrupt(p) ==
    /\ main[p] \notin Over \cup {"idle"}
    /\ ~interrupted[p]
    /\ interrupted' = [interrupted EXCEPT ![p] = TRUE]
    /\ \/ p \in Recorders /\ UNCHANGED faults
       \/ p \in Askers /\ coll[p] # "none" /\ Fault
    /\ UNCHANGED <<givenVars, main, outcome, recorded, bridge, coll, portVars,
                   bufVars, handlerVars, diskVars, stage, due, saved>>

(* Mutant: the select of RunCapture lacks the context. *)
StopRecordingAttached(p) ==
    /\ main[p] = "recording" /\ mode[p] # "spawn"
    /\ interrupted[p]
    /\ Only(p, "save")

(* The wait is over because ctx has ended; --save-on-exit is the default. *)
StopRecording(p) ==
    /\ main[p] = "recording"
    /\ interrupted[p]
    /\ Only(p, "save")

(* The command of RunCapture exits, with an error or without. *)
CommandExits(p) ==
    /\ main[p] = "recording" /\ mode[p] = "spawn"
    /\ At(p, "save")
    /\ \E failed \in BOOLEAN : outcome' = [outcome EXCEPT ![p].err = failed]
    /\ UNCHANGED <<givenVars, interrupted, recorded, bridge, coll, portVars,
                   bufVars, handlerVars, diskVars, stage, histVars>>
----------------------------------------------------------------------------
(*                             triggerSnapshot                             *)

(* The trigger is posted to whichever collector has the port. *)
TriggerSnapshot(p) ==
    /\ main[p] = "save"
    /\ outcome' = [outcome EXCEPT ![p].try = @ + 1]
    /\ saved' = [saved EXCEPT ![p] = Nobody]
    /\ ask' = [ask EXCEPT ![p] = httpPort]
    /\ due' = [due EXCEPT ![p] = IF httpPort = Nobody THEN {}
                                 ELSE ToSet(buf[httpPort])]
    /\ At(p, IF httpPort = Nobody THEN Refused(p, outcome[p].try + 1) ELSE "asked")
    /\ UNCHANGED <<givenVars, interrupted, recorded, bridge, coll, portVars,
                   bufVars, arriving, post, orphans, cap, diskVars, stage, faults>>

(* The client's 30 s are over. *)
TriggerTimesOut(p) ==
    /\ main[p] = "asked"
    /\ Fault
    /\ At(p, Refused(p, outcome[p].try))
    /\ ask' = [ask EXCEPT ![p] = Nobody]
    /\ orphans' = Orphaned(p)
    /\ cap' = Unclaimed(p)
    /\ UNCHANGED <<givenVars, interrupted, outcome, recorded, bridge, coll,
                   portVars, bufVars, arriving, post, diskVars, stage, due, saved>>

(* After the answer: the latest link if it exists, whoever wrote it, or    *)
(* else the path in the answer.  A runSnapshot that asked a running daemon *)
(* ends.                                                                   *)
Check(p) ==
    /\ main[p] = "check"
    /\ LET found == link # NoArchive \/ outcome[p].path IN
        /\ outcome' = [outcome EXCEPT ![p].reported = found]
        /\ At(p, IF ~found THEN Refused(p, outcome[p].try)
                 ELSE IF p \in Askers /\ outcome[p].try = 1 THEN "leave"
                 ELSE "stop")
    /\ UNCHANGED <<givenVars, interrupted, recorded, bridge, coll, portVars,
                   bufVars, handlerVars, diskVars, stage, histVars>>

(* runSnapshot ends; the os.Exit of fatal runs no deferred Stop. *)
Leave(p) ==
    /\ main[p] = "leave"
    /\ Exit(p, IF outcome[p].reported THEN "exited" ELSE "failed")

(* Stop: cancel, close the proxies, then close the bridge, whose lock a    *)
(* call may hold, and wait for the collector.                              *)
Stop(p) ==
    /\ main[p] = "stop"
    /\ At(p, "join")
    /\ proxyPort' = Freed(proxyPort, p)
    /\ UNCHANGED <<givenVars, interrupted, outcome, recorded, bridge, coll, grpcPort,
                   httpPort, bufVars, handlerVars, diskVars, stage, histVars>>

Join(p) ==
    /\ main[p] = "join"
    /\ bridge[p] # "busy"
    /\ coll[p] = "down"
    /\ Exit(p, "exited")
----------------------------------------------------------------------------
(*                              The collector                              *)

CollectorGoes(p, label) ==
    /\ coll' = [coll EXCEPT ![p] = label]
    /\ UNCHANGED <<mainVars, bridge, proxyPort, bufVars, handlerVars, diskVars,
                   stage, due, saved>>

(* Run: without the gRPC port it returns an error, which is only printed. *)
ListenGRPC(p) ==
    /\ coll[p] = "starting"
    /\ CollectorGoes(p, IF grpcPort = Nobody THEN "grpc" ELSE "down")
    /\ grpcPort' = IF grpcPort = Nobody THEN p ELSE grpcPort
    /\ UNCHANGED <<httpPort, faults>>

(* ListenAndServe in a goroutine: without the HTTP port only a log line. *)
ListenHTTP(p) ==
    /\ coll[p] = "grpc"
    /\ CollectorGoes(p, IF httpPort = Nobody THEN "serving" ELSE "deaf")
    /\ httpPort' = IF httpPort = Nobody THEN p ELSE httpPort
    /\ UNCHANGED <<grpcPort, faults>>

(* runCtx has ended: the interrupt ends it as well as Stop.  GracefulStop  *)
(* closes the gRPC listener and waits for open streams.                    *)
GracefulStop(p) ==
    /\ coll[p] \in {"grpc", "serving", "deaf"}
    /\ interrupted[p] \/ main[p] = "join"
    /\ CollectorGoes(p, "stopping")
    /\ grpcPort' = Freed(grpcPort, p)
    /\ UNCHANGED <<httpPort, faults>>

(* GracefulStop has returned, and Shutdown closes the HTTP listener; then  *)
(* it waits for the handlers, 10 s at most.                                *)
CloseListener(p) ==
    /\ coll[p] = "stopping"
    /\ CollectorGoes(p, "draining")
    /\ httpPort' = Freed(httpPort, p)
    /\ UNCHANGED <<grpcPort, faults>>

Handlers(c) ==
    \/ orphans[c] > 0
    \/ cap[c] # Idle
    \/ \E p \in Procs : ask[p] = c
    \/ \E e \in Events : Handles(c, e)

Drained(p) ==
    /\ coll[p] = "draining"
    /\ IF Handlers(p) THEN Fault ELSE UNCHANGED faults
    /\ CollectorGoes(p, "down")
    /\ UNCHANGED <<grpcPort, httpPort>>
----------------------------------------------------------------------------
(*              The rolling buffer, fire, captureSnapshot                  *)

(* Time passes: the oldest event that is in the window leaves it. *)
Age(c) ==
    /\ load.long
    /\ old[c] < Len(buf[c])
    /\ old' = [old EXCEPT ![c] = @ + 1]
    /\ aged' = aged \cup {buf[c][old[c] + 1]}
    /\ UNCHANGED <<mainVars, bridge, coll, portVars, buf, handlerVars, diskVars,
                   stage, histVars>>

(* RollingBuffer.Add: the event is appended, and what is no longer in the  *)
(* window is dropped from the front.                                       *)
Add(c, e) ==
    /\ buf' = [buf EXCEPT ![c] = Append(SubSeq(@, old[c] + 1, Len(@)), e)]
    /\ old' = [old EXCEPT ![c] = 0]
    /\ UNCHANGED aged

(* The engine's mutex is taken and the buffer copied as the last Add left  *)
(* it.                                                                     *)
Capturing(c, p, x) ==
    /\ cap[c] = Idle
    /\ cap' = [cap EXCEPT ![c] = [busy |-> TRUE, by |-> p, x |-> x,
                                  events |-> buf[c], aged |-> aged]]

(* Mutant: a trigger that finds a capture running is answered with it. *)
TriggerJoins(p) ==
    /\ ask[p] # Nobody
    /\ LET c == ask[p] IN
        \/ Capturing(c, p, 0)
        \/ /\ cap[c].busy /\ cap[c].by = Nobody
           /\ cap' = [cap EXCEPT ![c].by = p]
    /\ UNCHANGED <<mainVars, bridge, coll, portVars, bufVars, ask, arriving, post,
                   orphans, diskVars, stage, histVars>>

TriggerFires(p) ==
    /\ ask[p] # Nobody
    /\ Capturing(ask[p], p, 0)
    /\ UNCHANGED <<mainVars, bridge, coll, portVars, bufVars, ask, arriving, post,
                   orphans, diskVars, stage, histVars>>

OrphanFires(c) ==
    /\ orphans[c] > 0
    /\ Capturing(c, Nobody, 0)
    /\ orphans' = [orphans EXCEPT ![c] = @ - 1]
    /\ UNCHANGED <<mainVars, bridge, coll, portVars, bufVars, ask, arriving, post,
                   diskVars, stage, histVars>>

(* A response that a rule matches, outside the cooldown. *)
RuleFires(x) ==
    /\ post[x] # Nobody
    /\ x \in load.errors
    /\ Capturing(post[x], Nobody, x)
    /\ UNCHANGED <<mainVars, bridge, coll, portVars, bufVars, ask, arriving, post,
                   orphans, diskVars, stage, histVars>>

(* The handler of event e ends; whoever posted it goes on if it still      *)
(* waits.                                                                  *)
Replied(e) ==
    stage' = [stage EXCEPT ![e] = IF @ = "waiting" THEN AfterPost(e) ELSE @]

(* The capture is over: the mutex is released and the handler answers,     *)
(* with the path of the last archive of its list.                          *)
Answers(c, exporter) ==
    LET p == cap[c].by
        mine == {x \in Exchanges : x = cap[c].x /\ post[x] = c}
    IN
    /\ cap' = [cap EXCEPT ![c] = Idle]
    /\ IF p = Nobody
       THEN UNCHANGED <<main, ask, saved, outcome>>
       ELSE /\ At(p, "check")
            /\ ask' = [ask EXCEPT ![p] = Nobody]
            /\ saved' = [saved EXCEPT ![p] = exporter]
            /\ outcome' = [outcome EXCEPT ![p].path = listed'[c]]
    /\ \/ mine = {} /\ UNCHANGED <<post, stage>>
       \/ \E x \in mine :
            /\ post' = [post EXCEPT ![x] = Nobody]
            /\ Replied(Response(x))
    /\ UNCHANGED <<givenVars, interrupted, recorded, bridge, coll, portVars,
                   bufVars, arriving, orphans, due>>

ExportFails(c) ==
    /\ cap[c] # Idle
    /\ Fault
    /\ UNCHANGED diskVars
    /\ Answers(c, Nobody)

(* The archive is written, listed, and copied into the latest link, or     *)
(* that copy cannot be written, which nobody is told.                      *)
Export(c) ==
    /\ cap[c] # Idle
    /\ listed' = [listed EXCEPT ![c] = TRUE]
    /\ \/ /\ link' = [owner |-> c, events |-> cap[c].events, aged |-> cap[c].aged]
          /\ Answers(c, c)
          /\ UNCHANGED faults
       \/ /\ Fault
          /\ Answers(c, Nobody)
          /\ UNCHANGED link
----------------------------------------------------------------------------
(*          Exchanges: record proxy, outbound proxy, tap, preload hook     *)

(* The pump of a tap calls the sink from its setup on, and until it sees   *)
(* that the interrupt has closed the session.                              *)
PumpRuns(p) == main[p] \in {"attach", "connect", "recording", "save"}

(* It runs its handlers one by one. *)
PumpFree(p) ==
    \A e \in Events : via[e[1]] = p => stage[e] \in {"none", "done"}

(* Mutant: a proxy passes the exchange on before its request is posted. *)
InTurnAtOnce(e, p) ==
    CASE mode[p] = "attach" -> PumpRuns(p) /\ PumpFree(p)
      [] mode[p] = "preload" -> TRUE
      [] mode[p] = "spawn" /\ e[2] = "request" -> proxyPort = p
      [] OTHER -> main[p] \notin Over /\ stage[Request(e[1])] # "none"

(* Who may post event e now.  The tap's hook sends the request when its    *)
(* body has ended and the response when that is finished, in either order. *)
(* The preload hook does the same from inside the backend, at any time and *)
(* without waiting.  The proxies post the request, wait, and pass the      *)
(* exchange on; they take new ones as long as they listen.                 *)
InTurn(e, p) ==
    CASE mode[p] = "attach" -> PumpRuns(p) /\ PumpFree(p)
      [] mode[p] = "preload" -> TRUE
      [] mode[p] = "spawn" /\ e[2] = "request" -> proxyPort = p
      [] OTHER -> main[p] \notin Over /\ stage[Request(e[1])] = "done"

Begun(x) == stage[Request(x)] # "none" \/ stage[Response(x)] # "none"

(* emit and the sinks: the event is posted to whoever has the port, or     *)
(* lost.  Exchanges are numbered in the order they begin.                  *)
Emit(e, p) ==
    /\ via[e[1]] = p
    /\ e[1] <= load.exchanges
    /\ stage[e] = "none"
    /\ \A y \in 1..(e[1] - 1) : via[y] = p => Begun(y)
    /\ InTurn(e, p)
    /\ arriving' = [arriving EXCEPT ![e] = httpPort]
    /\ stage' = [stage EXCEPT ![e] = IF httpPort = Nobody THEN AfterFailure(e)
                                    ELSE IF mode[p] = "preload" THEN "done"
                                    ELSE "waiting"]
    /\ UNCHANGED <<mainVars, bridge, coll, portVars, bufVars, ask, post, orphans,
                   cap, diskVars, histVars>>

PostRequest(x, p) == Emit(Request(x), p)

PostResponse(x, p) == Emit(Response(x), p)

(* serveIngestEvents: the event is in the buffer before Evaluate, which    *)
(* needs the mutex for a response and returns at once for a request.       *)
Ingest(e) ==
    /\ arriving[e] # Nobody
    /\ Add(arriving[e], e)
    /\ arriving' = [arriving EXCEPT ![e] = Nobody]
    /\ IF e[2] = "response"
       THEN post' = [post EXCEPT ![e[1]] = arriving[e]] /\ UNCHANGED stage
       ELSE Replied(e) /\ UNCHANGED post
    /\ UNCHANGED <<mainVars, bridge, coll, portVars, ask, orphans, cap, diskVars,
                   histVars>>

(* Evaluate has had the mutex and fires nothing. *)
PostAnswered(x) ==
    /\ post[x] # Nobody
    /\ cap[post[x]] = Idle
    /\ post' = [post EXCEPT ![x] = Nobody]
    /\ Replied(Response(x))
    /\ UNCHANGED <<mainVars, bridge, coll, portVars, bufVars, ask, arriving, orphans,
                   cap, diskVars, histVars>>

(* postEvent gives up after 30 s; the handler still waits for the mutex. *)
PostTimesOut(x) ==
    /\ post[x] # Nobody
    /\ stage[Response(x)] = "waiting"
    /\ Fault
    /\ stage' = [stage EXCEPT ![Response(x)] = AfterFailure(Response(x))]
    /\ UNCHANGED <<mainVars, bridge, coll, portVars, bufVars, handlerVars, diskVars,
                   due, saved>>

(* captureSourceRef: TopFrame holds the bridge's lock for one call. *)
TopFrame(x) ==
    /\ stage[Response(x)] = "frame"
    /\ bridge[via[x]] # "busy"
    /\ stage' = [stage EXCEPT ![Response(x)] =
                    IF bridge[via[x]] = "none" THEN "done" ELSE "framing"]
    /\ bridge' = [bridge EXCEPT ![via[x]] = IF @ = "none" THEN "none" ELSE "busy"]
    /\ UNCHANGED <<mainVars, coll, portVars, bufVars, handlerVars, diskVars,
                   histVars>>

(* callLocked: the inspector answers, or the socket breaks.  The limits of *)
(* the call are only looked at between two messages.                       *)
TopFrameReturns(x) ==
    /\ stage[Response(x)] = "framing"
    /\ stage' = [stage EXCEPT ![Response(x)] = "done"]
    /\ bridge' = [bridge EXCEPT ![via[x]] = "idle"]
    /\ UNCHANGED <<mainVars, coll, portVars, bufVars, handlerVars, diskVars,
                   histVars>>
----------------------------------------------------------------------------
Init ==
    /\ load \in Workloads
    /\ mode \in [Recorders -> load.modes]
    /\ via \in [Exchanges -> Recorders]
    /\ main = [p \in Procs |-> IF p \in Recorders \/ load.asks THEN "idle"
                                                             ELSE "exited"]
    /\ faults = load.faults
    /\ interrupted = [p \in Procs |-> FALSE]
    /\ bridge = [p \in Procs |-> "none"]
    /\ outcome = [p \in Procs |-> Fresh]
    /\ coll = [p \in Procs |-> "none"]
    /\ grpcPort = Nobody /\ httpPort = Nobody /\ proxyPort = Nobody
    /\ buf = [p \in Procs |-> <<>>]
    /\ old = [p \in Procs |-> 0]
    /\ aged = {}
    /\ ask = [p \in Procs |-> Nobody]
    /\ arriving = [e \in Events |-> Nobody]
    /\ post = [x \in Exchanges |-> Nobody]
    /\ orphans = [p \in Procs |-> 0]
    /\ cap = [p \in Procs |-> Idle]
    /\ link = NoArchive
    /\ listed = [p \in Procs |-> FALSE]
    /\ stage = [e \in Events |-> "none"]
    /\ recorded = [p \in Procs |-> FALSE]
    /\ due = [p \in Procs |-> {}]
    /\ saved = [p \in Procs |-> Nobody]

(* What main does once it runs; what it waits for is not among it. *)
Main(p) ==
    \/ Boot(p)
    \/ WaitReady(p)
    \/ StartFails(p)
    \/ Attach(p)
    \/ ConnectReturns(p)
    \/ StartCommand(p)
    \/ StopRecording(p)
    \/ TriggerSnapshot(p)
    \/ Check(p)
    \/ Leave(p)
    \/ Stop(p)
    \/ Join(p)

Run(p) ==
    \/ ListenGRPC(p)
    \/ ListenHTTP(p)
    \/ GracefulStop(p)
    \/ CloseListener(p)
    \/ Drained(p)

Capture(c) ==
    \/ Export(c)
    \/ ExportFails(c)

Post(x) ==
    \/ Ingest(Request(x))
    \/ Ingest(Response(x))
    \/ PostAnswered(x)
    \/ TopFrame(x)

Next ==
    \/ \E p \in Procs :
        \/ Launch(p)
        \/ Interrupt(p)
        \/ TriggerTimesOut(p)
        \/ Main(p)
        \/ Run(p)
        \/ Capture(p)
        \/ TriggerFires(p)
        \/ OrphanFires(p)
        \/ Age(p)
    \/ \E p \in Recorders : CommandExits(p)
    \/ \E x \in Exchanges :
        \/ \E p \in Recorders : PostRequest(x, p) \/ PostResponse(x, p)
        \/ RuleFires(x)
        \/ Post(x)
        \/ PostTimesOut(x)
        \/ TopFrameReturns(x)

Spec == Init /\ [][Next]_vars

(* Where main may wait for ever: for the inspector (websocket.Dial of the  *)
(* tap and of the bridge, and the bridge's call), and for an answer of     *)
(* another process to the Get of waitReady.                                *)
MainUnlimited(p) ==
    \/ main[p] \in {"attach", "connect"}
    \/ main[p] = "wait" /\ httpPort \notin {Nobody, p}

(* GracefulStop waits for the streams of its clients. *)
StreamsOpen(p) == coll[p] = "stopping" /\ load.streaming

(* The steps of the processes' own goroutines that nothing outside them    *)
(* can put off for ever.                                                   *)
Progress ==
    \/ \E p \in Procs :
        \/ ~MainUnlimited(p) /\ Main(p)
        \/ ~StreamsOpen(p) /\ Run(p)
        \/ Capture(p)
        \/ TriggerFires(p)
        \/ OrphanFires(p)
    \/ \E x \in Exchanges : Post(x)

(* As long as one of them can be taken, one is.  Nothing is assumed of     *)
(* inspectors, of gRPC clients, of users, of the application or of         *)
(* failures.                                                               *)
Fairness == WF_vars(Progress)

FairSpec == Spec /\ Fairness
----------------------------------------------------------------------------
(*                               Properties                                *)

(* triggerSnapshot and the collector's handler: when a command reports a   *)
(* snapshot that its trigger made, the latest link, unless another         *)
(* process's collector has replaced it since, holds every event the        *)
(* collector had acknowledged when the trigger was posted and that was     *)
(* still within the window when the archive's copy was made, whatever was  *)
(* being captured or evicted meanwhile.                                    *)
ReportedCovers ==
    \A p \in Procs :
        outcome[p].reported /\ saved[p] # Nobody /\ link.owner = saved[p] =>
            due[p] \ link.aged \subseteq ToSet(link.events)

(* recordRequest/recordResponse and handleHTTP: in what is archived of a   *)
(* proxy's exchange the request comes before the response.  (Not so for    *)
(* the hooks of the tap and of the preload.)                               *)
ExchangeOrdered ==
    \A c \in Procs : \A x \in Exchanges :
        mode[via[x]] = "spawn" =>
            \A i, j \in DOMAIN cap[c].events :
                cap[c].events[i] = Request(x) /\ cap[c].events[j] = Response(x)
                    => i < j

(* What may keep a process from ending: an inspector, another process's    *)
(* /healthz or a gRPC client that does not let go.                         *)
Stuck(p) == MainUnlimited(p) \/ bridge[p] = "busy" \/ StreamsOpen(p)

(* RunAttachRecord, RunCapture and Stop: a recorder that is interrupted    *)
(* ends, whatever its collector, its handlers and its exchanges are doing, *)
(* unless someone outside keeps it for ever.                               *)
InterruptedExits ==
    \A p \in Recorders : interrupted[p] ~> main[p] \in Over \/ []Stuck(p)

(* runSnapshot ends, whoever has the ports, unless someone outside keeps   *)
(* it for ever.                                                            *)
SnapshotCommandEnds ==
    \A p \in Askers : main[p] = "save" ~> main[p] \in Over \/ []Stuck(p)

(* docs/local-quickstart.md "Stop & save ... Ctrl+C in record terminal" and *)
(* the flag "save snapshot when recording stops": a recording that saw     *)
(* traffic and ends has saved a snapshot.                                  *)
SavedOnExit ==
    \A p \in Recorders :
        main[p] = "exited" /\ recorded[p] /\ (\E x \in Exchanges : via[x] = p /\ Begun(x))
            => outcome[p].reported
============================================================================
