----------------------------- MODULE Inspector -----------------------------
(***************************************************************************)
(* Attaching `bugit record' to a running Node backend: finding its         *)
(* inspector (PrepareBackendInspector), the CDP session (Call, pump,       *)
(* Close) and the tap built on it (StartAttachTap, setup, handlers).       *)
(*                                                                         *)
(* Goroutines of the recording process: main, which runs the setup and     *)
(* then waits for the interrupt; the pump, which reads the web socket and  *)
(* runs the handlers; the watcher, which closes the session when the       *)
(* context ends.  Node answers calls in order and sends a message for      *)
(* each HTTP exchange it sees.  Recordings follow one another against the  *)
(* same Node process.                                                      *)
(***************************************************************************)
EXTENDS Integers, Sequences, FiniteSetsExt, Functions

CONSTANTS
    Scenarios,      \* what a recording may meet: see Scenario
    MaxRecordings,  \* bound: recordings, one after the other
    MaxExchanges,   \* bound: HTTP messages Node sees
    MaxRestarts     \* bound: restarts of the backend, starts of the tool

VARIABLES
    \* the Node processes and the inspector ports
    listing,     \* listing[port]: the process whose target the port lists
    look,        \* look[proc]: what there is to match in its entry
    features,    \* what its version of Node and its dev script allow
    preload,     \* the backend was started with the preload hook
    patched,     \* its dev script starts it with BugIT's hooks
    asked,       \* process._debugProcess was sent to the backend
    hooked,      \* subscriptions of the server hook in the backend
    bound,       \* the session's binding is in place
    network,     \* Network.enable is in force
    \* the web socket
    sock, toNode, fromNode,
    \* the recording process
    main, stage, before, target, interrupted,
    alive,          \* the backend that discover found still runs
    preloadActive,  \* RunAttachRecord: the preload hook was found in it
    closed, conn, closer, nextID, waiting, answer,
    pump, msg, watcher, pingSeen, inboundCount,
    \* bounds
    recordings, exchanges, restarts,
    \* history: per recording, messages the tap delivered and the preload
    \* posted; messages Node saw while the tap was attached
    tapped, posted, due

nodeVars == <<listing, look, features, preload, patched, asked, hooked>>
enabledVars == <<bound, network>>
sockVars == <<sock, toNode, fromNode>>
setupVars == <<main, stage, before, target, alive, preloadActive>>
foundVars == <<alive, preloadActive>>
callVars == <<nextID, waiting, answer>>
closeVars == <<closed, conn, closer>>
pumpVars == <<pump, msg, pingSeen, inboundCount>>
boundVars == <<recordings, exchanges, restarts>>
histVars == <<tapped, posted, due>>
vars == <<nodeVars, enabledVars, sockVars, setupVars, interrupted, callVars,
          closeVars, pumpVars, watcher, boundVars, histVars>>
----------------------------------------------------------------------------
Backend == "backend"
Frontend == "frontend"   \* whose entry may or may not give it away
Tool == "tool"           \* some other Node process
Nobody == "nobody"
Procs == {Backend, Frontend, Tool}

(* InspectorPortMin and one port for the rest of the scan range. *)
MinPort == 9229
OtherPort == 9230
Ports == {MinPort, OtherPort}

(* The calls of setup, in order. *)
Stages == <<"enable", "binding", "network", "hook", "ready", "ping", "preload">>
StageNames == Range(Stages)

(* What ScoreTarget looks for in an entry of /json/list; "next" stands for *)
(* what isDisqualifiedTarget recognises.                                   *)
Facts == {"node", "root", "server", "title", "pid", "port", "base", "next"}

(* The processes behind the ports, what their entries show, what this Node *)
(* and the dev script allow, and whether the backend was started with the  *)
(* preload hook.                                                           *)
Scenario ==
    [listing : [Ports -> Procs \cup {Nobody}], look : [Procs -> SUBSET Facts],
     features : SUBSET {"hook", "network", "script"}, preload : BOOLEAN]

ASSUME InspectorAssumption ==
    /\ Scenarios \subseteq Scenario
    /\ MaxRecordings \in Nat /\ MaxExchanges \in Nat /\ MaxRestarts \in Nat

NoMsg == [id |-> 0, kind |-> "none", value |-> FALSE, number |-> 0]
Answer(id, value) == [id |-> id, kind |-> "answer", value |-> value, number |-> 0]
Event(kind, n) == [id |-> 0, kind |-> kind, value |-> TRUE, number |-> n]
Messages == [id : Nat, kind : {"none", "answer", "ping", "inbound", "outbound"},
             value : BOOLEAN, number : Nat]

Over == {"idle", "ended", "crashed"}
MainPCs == Over \cup {"resolve", "enable", "look", "dial", "call", "send", "wait",
                      "ping", "abort", "attached", "preload", "close"}

TypeOK ==
    /\ listing \in [Ports -> Procs \cup {Nobody}]
    /\ look \in [Procs -> SUBSET Facts]
    /\ features \subseteq {"hook", "network", "script"}
    /\ {preload, patched, asked, alive, preloadActive} \subseteq BOOLEAN
    /\ hooked \in Nat /\ bound \in BOOLEAN /\ network \in BOOLEAN
    /\ sock \in {"none", "open", "broken", "closed"}
    /\ toNode \in Seq([id : Nat, method : StageNames])
    /\ fromNode \in Seq(Messages)
    /\ main \in MainPCs
    /\ stage \in 1..Len(Stages)
    /\ before \subseteq Ports
    /\ target \in Procs \cup {Nobody}
    /\ interrupted \in BOOLEAN /\ closed \in BOOLEAN
    /\ conn \in {"set", "nil"}
    /\ closer \in {"none", "main", "pump", "watcher"}
    /\ nextID \in Nat /\ waiting \in Nat /\ answer \in Messages
    /\ pump \in {"off", "check", "load", "receive", "handle", "close"}
    /\ msg \in Messages
    /\ watcher \in {"none", "armed"}
    /\ pingSeen \in BOOLEAN /\ inboundCount \in Nat
    /\ recordings \in Nat /\ exchanges \in Nat /\ restarts \in Nat
    /\ tapped \in Seq(Nat) /\ posted \subseteq Nat /\ due \subseteq Nat
----------------------------------------------------------------------------
(*                          Choosing a target                              *)

(* What each fact is worth. *)
Worth ==
    [node |-> 10, root |-> 40, server |-> 15, title |-> 10, pid |-> 25, port |-> 8,
     base |-> 5]

(* ScoreTarget: the sum of what is found, or -1 for an entry that          *)
(* isDisqualifiedTarget recognises.  A frontend it does not recognise is   *)
(* scored like any other process.                                          *)
ScoreTarget(p) ==
    IF "next" \in look[p] THEN -1 ELSE MapThenSumSet(LAMBDA f : Worth[f], look[p])

MinBackendTargetScore == 25
MinNewTargetScore == 15

(* The loops over ports keep the first target with the highest score; a    *)
(* score of -1 is never above the one they start from.                     *)
BestPort(ports) ==
    {p \in ports :
        /\ listing[p] # Nobody
        /\ ScoreTarget(listing[p]) > -1
        /\ \A q \in ports \ {p} : listing[q] # Nobody =>
              \/ ScoreTarget(listing[p]) > ScoreTarget(listing[q])
              \/ ScoreTarget(listing[p]) = ScoreTarget(listing[q]) /\ p < q}

(* ResolveBackendInspector: the ports that may be chosen, at most one. *)
Resolved ==
    {p \in BestPort(Ports) : ScoreTarget(listing[p]) >= MinBackendTargetScore}

(* isNewBackendTarget on what DiffNewTargets returns. *)
NewBackend(p) ==
    /\ p # MinPort
    /\ listing[p] # Nobody /\ p \notin before
    /\ ScoreTarget(listing[p]) >= MinNewTargetScore
    /\ {"root", "base"} \cap look[listing[p]] # {}

(* ResolveBackendInspectorWithDiff, then ResolveBackendInspector. *)
ResolvedWithDiff ==
    LET new == BestPort({p \in Ports : NewBackend(p)})
    IN IF new # {} THEN new ELSE Resolved

Goto(label) == main' = label

(* The command line of the process found at the start, which may be gone. *)
ProcessHasBugITPreload == preload /\ alive

Choose(p) ==
    /\ target' = listing[p]
    /\ preloadActive' = ProcessHasBugITPreload
    /\ Goto("dial")

(* No inspector: RunAttachRecord goes on with the preload hook or fails. *)
NoInspector ==
    /\ preloadActive' = ProcessHasBugITPreload
    /\ Goto(IF preloadActive' THEN "preload" ELSE "ended")
    /\ UNCHANGED target

(* The dev script gets the hooks, unless it is not one BugIT can patch. *)
SyncDevScript == patched' = (patched \/ "script" \in features)

(* PrepareBackendInspector: patch the dev script, for the next start of    *)
(* the backend; resolve; failing that remember what is listed.             *)
Resolve ==
    /\ main = "resolve"
    /\ SyncDevScript
    /\ \/ \E p \in Resolved : Choose(p) /\ UNCHANGED before
       \/ /\ Resolved = {}
          /\ before' = {p \in Ports : listing[p] # Nobody}
          /\ Goto("enable") /\ UNCHANGED <<target, preloadActive>>
    /\ UNCHANGED <<listing, look, features, preload, asked, hooked, alive,
                   enabledVars, sockVars, stage, interrupted, callVars,
                   closeVars, pumpVars, watcher, boundVars, histVars>>

(* EnableNodeInspectOnFreePort: only when nothing listens on the default   *)
(* port; the command may fail, which is only a warning.                    *)
Enable ==
    /\ main = "enable"
    /\ asked' \in (IF listing[MinPort] = Nobody /\ alive THEN BOOLEAN
                   ELSE {asked})
    /\ Goto("look")
    /\ UNCHANGED <<listing, look, features, patched, preload, hooked,
                   enabledVars, sockVars, stage, before, target, interrupted,
                   callVars, closeVars, pumpVars, watcher, boundVars, histVars,
                   foundVars>>

(* One pass of the 15 s loop finds a target. *)
LookFinds ==
    /\ main = "look"
    /\ \E p \in ResolvedWithDiff : Choose(p)
    /\ UNCHANGED <<nodeVars, enabledVars, sockVars, stage, before, interrupted,
                   callVars, closeVars, pumpVars, watcher, boundVars, histVars,
                   alive>>

LookTimesOut ==
    /\ main = "look"
    /\ NoInspector
    /\ UNCHANGED <<nodeVars, enabledVars, sockVars, stage, before, interrupted,
                   callVars, closeVars, pumpVars, watcher, boundVars, histVars,
                   alive>>
----------------------------------------------------------------------------
(*                             CDPSession                                  *)

IsListed(p) == \E port \in Ports : listing[port] = p

(* ConnectCDPURL and registerHandlers: the pump starts.  The dial has      *)
(* neither the context nor a time limit.                                   *)
Dial ==
    /\ main = "dial"
    /\ \/ /\ IsListed(target)
          /\ sock' = "open"
          /\ pump' = "check"
          /\ Goto("call")
       \/ /\ ~IsListed(target)
          /\ Goto(IF preloadActive THEN "preload" ELSE "ended")
          /\ UNCHANGED <<sock, pump>>
    /\ UNCHANGED <<nodeVars, enabledVars, toNode, fromNode, stage, before,
                   target, interrupted, callVars, closeVars, msg, pingSeen,
                   inboundCount, watcher, boundVars, histVars, foundVars>>

(* Call: closed check, a fresh identity, its channel in pending. *)
CallCheck ==
    /\ main = "call"
    /\ \/ /\ closed
          /\ Goto("abort") /\ UNCHANGED <<nextID, waiting>>
       \/ /\ ~closed
          /\ nextID' = nextID + 1
          /\ waiting' = nextID + 1
          /\ Goto("send")
    /\ UNCHANGED <<nodeVars, enabledVars, sockVars, stage, before, target,
                   interrupted, answer, closeVars, pumpVars, watcher,
                   boundVars, histVars, foundVars>>

(* The process ends or panics: the socket goes with it. *)
Exit(how) ==
    /\ main' = how
    /\ pump' = "off"
    /\ watcher' = "none"
    /\ closer' = "none"
    /\ sock' = "closed" /\ toNode' = <<>> /\ fromNode' = <<>>
    /\ bound' = FALSE /\ network' = FALSE

(* Send on the connection read under mu.  Close may have set it to nil     *)
(* since the check, and a nil connection panics.                           *)
CallSend ==
    /\ main = "send"
    /\ closer = "none" \/ conn = "nil"
    /\ \/ /\ conn = "nil"
          /\ Exit("crashed")
          /\ UNCHANGED <<stage, before, target, waiting>>
       \/ /\ conn = "set" /\ sock = "open"
          /\ toNode' = Append(toNode, [id |-> waiting, method |-> Stages[stage]])
          /\ Goto("wait")
          /\ UNCHANGED <<enabledVars, sock, fromNode, stage, before, target,
                         closer, pump, watcher, waiting>>
       \/ /\ conn = "set" /\ sock # "open"
          /\ main' \in {"wait", "abort"}
          /\ waiting' = IF main' = "abort" THEN 0 ELSE waiting
          /\ UNCHANGED <<enabledVars, sockVars, stage, before, target, closer,
                         pump, watcher>>
    /\ UNCHANGED <<nodeVars, interrupted, nextID, answer, closed, conn, msg,
                   pingSeen, inboundCount, boundVars, histVars, foundVars>>

(* Mutant: what the evaluations return is not looked at. *)
RefusedOnError(a) == ~a.value /\ Stages[stage] = "network"

(* What setup makes of an answer: an error of any call (here only          *)
(* Network.enable, which older versions do not know) ends it, and so does  *)
(* a hook or ready check that is not true.                                 *)
Refused(a) == ~a.value /\ Stages[stage] \in {"network", "hook", "ready"}

(* Mutant: setup has one more call to make after the last. *)
NextStageAlways ==
    IF Stages[stage] = "ping" THEN Goto("ping") /\ UNCHANGED stage
                              ELSE Goto("call") /\ stage' = stage + 1

(* setup goes on: after the ping it waits for the binding, and the last    *)
(* call is made only if the preload hook is active.                        *)
NextStage ==
    CASE Stages[stage] = "ping" -> Goto("ping") /\ UNCHANGED stage
      [] Stages[stage] = "preload" -> Goto("attached") /\ UNCHANGED stage
      [] OTHER -> Goto("call") /\ stage' = stage + 1

(* Mutant: Call waits for its channel only. *)
CallReturnsAnswered ==
    /\ main = "wait"
    /\ answer # NoMsg
    /\ IF Refused(answer) THEN Goto("abort") /\ UNCHANGED stage ELSE NextStage
    /\ waiting' = 0
    /\ answer' = NoMsg
    /\ watcher' = IF main' = "attached" THEN "armed" ELSE watcher
    /\ UNCHANGED <<nodeVars, enabledVars, sockVars, before, target,
                   interrupted, nextID, closeVars, pumpVars, boundVars,
                   histVars, foundVars>>

(* Call returns: an answer came, or the context ended.  Nothing else ends  *)
(* it, not even a session that was closed.                                 *)
CallReturns ==
    /\ main = "wait"
    /\ \/ /\ answer # NoMsg
          /\ IF Refused(answer) THEN Goto("abort") /\ UNCHANGED stage
                                ELSE NextStage
       \/ interrupted /\ Goto("abort") /\ UNCHANGED stage
    /\ waiting' = 0
    /\ answer' = NoMsg
    /\ watcher' = IF main' = "attached" THEN "armed" ELSE watcher
    /\ UNCHANGED <<nodeVars, enabledVars, sockVars, before, target,
                   interrupted, nextID, closeVars, pumpVars, boundVars,
                   histVars, foundVars>>

(* waitPing: the ping was seen, or 500 ms have passed, or ctx has ended. *)
WaitPing ==
    /\ main = "ping"
    /\ \/ /\ pingSeen
          /\ stage' = IF preloadActive THEN stage + 1 ELSE stage
          /\ Goto(IF preloadActive THEN "call" ELSE "attached")
       \/ /\ ~pingSeen
          /\ Goto("abort") /\ UNCHANGED stage
    /\ watcher' = IF main' = "attached" THEN "armed" ELSE watcher
    /\ UNCHANGED <<nodeVars, enabledVars, sockVars, before, target,
                   interrupted, callVars, closeVars, pumpVars, boundVars,
                   histVars, foundVars>>

(* Close: the first caller to swap closed goes on to close the connection  *)
(* and set it to nil; the others return at once.                           *)
CloseBegin(who) ==
    /\ closed' = TRUE
    /\ closer' = IF closed THEN closer ELSE who
    /\ UNCHANGED conn

CloseEnd ==
    /\ closer # "none"
    /\ conn' = "nil"
    /\ closer' = "none"
    /\ sock' = "closed" /\ toNode' = <<>> /\ fromNode' = <<>>
    /\ bound' = FALSE /\ network' = FALSE
    /\ UNCHANGED <<nodeVars, setupVars, interrupted, callVars, closed,
                   pumpVars, watcher, boundVars, histVars>>

(* setup failed: close the session; record by the preload hook or give up. *)
Abort ==
    /\ main = "abort"
    /\ CloseBegin("main")
    /\ Goto(IF preloadActive THEN "preload" ELSE "close")
    /\ UNCHANGED <<nodeVars, enabledVars, sockVars, stage, before, target,
                   interrupted, callVars, pumpVars, watcher, boundVars,
                   histVars, foundVars>>

(* The interrupt wakes main; the deferred tap.Close runs. *)
StopRecording ==
    /\ main \in {"attached", "preload"}
    /\ interrupted
    /\ IF main = "attached" THEN CloseBegin("main") ELSE UNCHANGED closeVars
    /\ Goto("close")
    /\ UNCHANGED <<nodeVars, enabledVars, sockVars, stage, before, target,
                   interrupted, callVars, pumpVars, watcher, boundVars,
                   histVars, foundVars>>

(* Close of main has returned, and the process ends. *)
Leave ==
    /\ main = "close"
    /\ closer # "main"
    /\ Exit("ended")
    /\ UNCHANGED <<nodeVars, stage, before, target, interrupted, callVars,
                   closed, conn, msg, pingSeen, inboundCount, boundVars,
                   histVars, foundVars>>

(* The goroutine of StartAttachTap: close the session when ctx has ended. *)
Watch ==
    /\ watcher = "armed"
    /\ interrupted
    /\ CloseBegin("watcher")
    /\ watcher' = "none"
    /\ UNCHANGED <<nodeVars, enabledVars, sockVars, setupVars, interrupted,
                   callVars, pumpVars, boundVars, histVars>>
----------------------------------------------------------------------------
(*                        pump and the tap's handlers                      *)

PumpCheck ==
    /\ pump = "check"
    /\ pump' = IF closed THEN "off" ELSE "load"
    /\ UNCHANGED <<nodeVars, enabledVars, sockVars, setupVars, interrupted,
                   callVars, closeVars, msg, pingSeen, inboundCount, watcher,
                   boundVars, histVars>>

(* Receive is given s.conn, read without the lock. *)
PumpLoad ==
    /\ pump = "load"
    /\ \/ /\ conn = "nil"
          /\ Exit("crashed")
       \/ /\ conn = "set"
          /\ pump' = "receive"
          /\ UNCHANGED <<enabledVars, sockVars, main, closer, watcher>>
    /\ UNCHANGED <<nodeVars, stage, before, target, interrupted, callVars,
                   closed, conn, msg, pingSeen, inboundCount, boundVars,
                   histVars, foundVars>>

(* A message: an answer goes to the channel of its call if that is still   *)
(* waiting, an event to its handler.                                       *)
PumpReceive ==
    /\ pump = "receive"
    /\ fromNode # <<>>
    /\ LET m == Head(fromNode) IN
        /\ answer' = IF m.id # 0 /\ m.id = waiting THEN m ELSE answer
        /\ msg' = IF m.id = 0 THEN m ELSE NoMsg
        /\ pump' = IF m.id = 0 THEN "handle" ELSE "check"
    /\ fromNode' = Tail(fromNode)
    /\ UNCHANGED <<nodeVars, enabledVars, sock, toNode, setupVars, interrupted,
                   nextID, waiting, closeVars, pingSeen, inboundCount, watcher,
                   boundVars, histVars>>

(* Receive fails: Node went away or Close closed the socket. *)
PumpFails ==
    /\ pump = "receive"
    /\ fromNode = <<>> /\ sock # "open"
    /\ CloseBegin("pump")
    /\ pump' = "close"
    /\ UNCHANGED <<nodeVars, enabledVars, sockVars, setupVars, interrupted,
                   callVars, msg, pingSeen, inboundCount, watcher, boundVars,
                   histVars>>

(* Mutant: the loop goes on after an error of Receive. *)
PumpContinues ==
    /\ pump = "close"
    /\ closer # "pump"
    /\ pump' = "load"
    /\ UNCHANGED <<nodeVars, enabledVars, sockVars, setupVars, interrupted,
                   callVars, closeVars, msg, pingSeen, inboundCount, watcher,
                   boundVars, histVars>>

PumpReturns ==
    /\ pump = "close"
    /\ closer # "pump"
    /\ pump' = "off"
    /\ UNCHANGED <<nodeVars, enabledVars, sockVars, setupVars, interrupted,
                   callVars, closeVars, msg, pingSeen, inboundCount, watcher,
                   boundVars, histVars>>

(* Mutant: no handler for Network.requestWillBeSent and responseReceived. *)
HandleInbound ==
    /\ pump = "handle"
    /\ tapped' = IF msg.kind = "inbound" THEN Append(tapped, msg.number) ELSE tapped
    /\ pingSeen' = (pingSeen \/ msg.kind = "ping")
    /\ inboundCount' = inboundCount + (IF msg.kind = "inbound" THEN 1 ELSE 0)
    /\ msg' = NoMsg
    /\ pump' = "check"
    /\ UNCHANGED <<nodeVars, enabledVars, sockVars, setupVars, interrupted,
                   callVars, closeVars, watcher, boundVars, posted, due>>

(* handleBindingCalled, handleOutboundRequest, handleOutboundResponse: the *)
(* ping is noted, anything else goes to the sink, in the pump's goroutine. *)
Handle ==
    /\ pump = "handle"
    /\ tapped' = IF msg.kind = "ping" THEN tapped ELSE Append(tapped, msg.number)
    /\ pingSeen' = (pingSeen \/ msg.kind = "ping")
    /\ inboundCount' = inboundCount + (IF msg.kind = "inbound" THEN 1 ELSE 0)
    /\ msg' = NoMsg
    /\ pump' = "check"
    /\ UNCHANGED <<nodeVars, enabledVars, sockVars, setupVars, interrupted,
                   callVars, closeVars, watcher, boundVars, posted, due>>
----------------------------------------------------------------------------
(*                                 Node                                    *)

(* Mutant: the hook subscribes although an earlier recording's is there. *)
SubscribeAgain == hooked + 1

(* The server hook: subscribe unless this process has it already. *)
Subscribe == IF hooked > 0 THEN hooked ELSE 1

(* What Node says of a call, as setup will read it: whether it knows the   *)
(* domain, whether the hook could subscribe and whether it has.  Only the  *)
(* backend's hook matters here, so any other process agrees.               *)
AnswerValue(m) ==
    CASE m = "network" -> "network" \in features
      [] m = "hook" -> target # Backend \/ "hook" \in features
      [] m = "ready" -> target # Backend \/ hooked > 0
      [] OTHER -> TRUE

(* Node takes the next call and answers it; the ping comes before the      *)
(* answer of the call that makes it.  The variable the last call sets is   *)
(* only read when the preload hook is loaded, so it changes nothing.       *)
NodeAnswers ==
    /\ sock = "open" /\ toNode # <<>>
    /\ LET call == Head(toNode)
           m == call.method
       IN
        /\ bound' = (bound \/ m = "binding")
        /\ network' = (network \/ (m = "network" /\ "network" \in features))
        /\ hooked' = IF m = "hook" /\ "hook" \in features /\ target = Backend
                     THEN Subscribe ELSE hooked
        /\ fromNode' = fromNode
              \o (IF m = "ping" /\ bound THEN <<Event("ping", 0)>> ELSE <<>>)
              \o <<Answer(call.id, AnswerValue(m))>>
    /\ toNode' = Tail(toNode)
    /\ UNCHANGED <<listing, look, features, patched, preload, asked, sock,
                   setupVars, interrupted, callVars, closeVars, pumpVars,
                   watcher, boundVars, histVars>>

(* The backend serves an HTTP request or response: every subscription of   *)
(* the server hook calls the binding, and the preload hook posts it to the *)
(* collector on its own.                                                   *)
Inbound ==
    /\ exchanges < MaxExchanges
    /\ main \notin Over
    /\ exchanges' = exchanges + 1
    /\ LET reaches == target = Backend /\ bound /\ sock = "open" IN
        /\ fromNode' = IF reaches
              THEN fromNode \o [i \in 1..hooked |-> Event("inbound", exchanges')]
              ELSE fromNode
        /\ due' = IF main = "attached" /\ reaches
                  THEN due \cup {exchanges'} ELSE due
    /\ posted' = IF preload THEN posted \cup {exchanges'} ELSE posted
    /\ UNCHANGED <<nodeVars, enabledVars, sock, toNode, setupVars, interrupted,
                   callVars, closeVars, pumpVars, watcher, recordings,
                   restarts, tapped>>

(* The backend makes a call of its own, seen by the Network domain only.   *)
Outbound ==
    /\ exchanges < MaxExchanges
    /\ network /\ sock = "open"
    /\ exchanges' = exchanges + 1
    /\ fromNode' = Append(fromNode, Event("outbound", exchanges'))
    /\ due' = IF main = "attached" THEN due \cup {exchanges'} ELSE due
    /\ UNCHANGED <<nodeVars, enabledVars, sock, toNode, setupVars, interrupted,
                   callVars, closeVars, pumpVars, watcher, recordings,
                   restarts, tapped, posted>>

(* The ports once the processes ps are gone. *)
Without(ps) == [p \in Ports |-> IF listing[p] \in ps THEN Nobody ELSE listing[p]]

(* process._debugProcess takes effect. *)
OpenInspector ==
    /\ asked
    /\ asked' = FALSE
    /\ listing' = IF listing[MinPort] = Nobody
                  THEN [listing EXCEPT ![MinPort] = Backend] ELSE listing
    /\ UNCHANGED <<look, features, patched, preload, hooked, enabledVars,
                   sockVars, setupVars, interrupted, callVars, closeVars,
                   pumpVars, watcher, boundVars, histVars>>

(* How the backend is started: with the hooks if its script has them, or,  *)
(* under a nodemon that was running before, as it was.                     *)
Started == preload' \in {preload, patched}

(* The backend restarts (nodemon, or the user as told): its hooks are      *)
(* gone, its socket breaks, what was listed or chosen names nobody any     *)
(* more, and the new process has an inspector on a port its script names,  *)
(* or none.                                                                *)
BackendRestarts ==
    /\ restarts < MaxRestarts
    /\ restarts' = restarts + 1
    /\ hooked' = 0
    /\ asked' = FALSE
    /\ alive' = FALSE
    /\ Started
    /\ LET gone == Without({Backend})
       IN listing' \in {gone} \cup {[gone EXCEPT ![p] = Backend] :
                                     p \in {q \in Ports : gone[q] = Nobody}}
    /\ before' = before \ {p \in Ports : listing[p] = Backend}
    /\ IF target = Backend
       THEN /\ target' = Nobody
            /\ sock' = IF sock = "open" THEN "broken" ELSE sock
            /\ toNode' = <<>>
            /\ bound' = FALSE /\ network' = FALSE
       ELSE UNCHANGED <<target, sock, toNode, enabledVars>>
    /\ UNCHANGED <<look, features, patched, fromNode, main, stage, interrupted,
                   callVars, closeVars, pumpVars, watcher,
                   recordings, exchanges, histVars, preloadActive>>
(* Some other Node process opens an inspector. *)
ToolStarts ==
    /\ restarts < MaxRestarts
    /\ restarts' = restarts + 1
    /\ ~IsListed(Tool)
    /\ \E p \in Ports :
        /\ listing[p] = Nobody
        /\ listing' = [listing EXCEPT ![p] = Tool]
    /\ UNCHANGED <<look, features, patched, preload, asked, hooked, enabledVars,
                   sockVars, setupVars, interrupted, callVars, closeVars,
                   pumpVars, watcher, recordings, exchanges, histVars>>
----------------------------------------------------------------------------
InitRecorder ==
    /\ stage = 1
    /\ before = {}
    /\ target = Nobody
    /\ alive = TRUE /\ preloadActive = FALSE
    /\ interrupted = FALSE /\ closed = FALSE /\ conn = "set" /\ closer = "none"
    /\ nextID = 0 /\ waiting = 0 /\ answer = NoMsg
    /\ pump = "off" /\ msg = NoMsg /\ watcher = "none"
    /\ pingSeen = FALSE /\ inboundCount = 0
    /\ tapped = <<>> /\ posted = {} /\ due = {}

Init ==
    /\ \E s \in Scenarios :
        /\ listing = s.listing /\ look = s.look
        /\ features = s.features /\ preload = s.preload /\ patched = s.preload
    /\ asked = FALSE /\ hooked = 0 /\ bound = FALSE /\ network = FALSE
    /\ sock = "none" /\ toNode = <<>> /\ fromNode = <<>>
    /\ main = "idle"
    /\ InitRecorder
    /\ recordings = 0 /\ exchanges = 0 /\ restarts = 0

(* A new `bugit record', when the one before is over. *)
Record ==
    /\ main \in Over
    /\ recordings < MaxRecordings
    /\ recordings' = recordings + 1
    /\ main' = "resolve"
    /\ stage' = 1
    /\ before' = {}
    /\ target' = Nobody
    /\ alive' = TRUE /\ preloadActive' = FALSE
    /\ interrupted' = FALSE /\ closed' = FALSE /\ conn' = "set" /\ closer' = "none"
    /\ nextID' = 0 /\ waiting' = 0 /\ answer' = NoMsg
    /\ pump' = "off" /\ msg' = NoMsg /\ watcher' = "none"
    /\ pingSeen' = FALSE /\ inboundCount' = 0
    /\ tapped' = <<>> /\ posted' = {} /\ due' = {}
    /\ sock' = "none" /\ toNode' = <<>> /\ fromNode' = <<>>
    /\ UNCHANGED <<nodeVars, enabledVars, exchanges, restarts>>

(* Ctrl+C, or the extension's SIGINT. *)
Interrupt ==
    /\ main \notin Over
    /\ ~interrupted
    /\ interrupted' = TRUE
    /\ UNCHANGED <<nodeVars, enabledVars, sockVars, setupVars, callVars,
                   closeVars, pumpVars, watcher, boundVars, histVars>>

Main ==
    \/ Resolve
    \/ Enable
    \/ LookFinds
    \/ LookTimesOut
    \/ Dial
    \/ CallCheck
    \/ CallSend
    \/ CallReturns
    \/ WaitPing
    \/ Abort
    \/ StopRecording
    \/ Leave

Pump ==
    \/ PumpCheck
    \/ PumpLoad
    \/ PumpReceive
    \/ PumpFails
    \/ PumpReturns
    \/ Handle

Next ==
    \/ Record
    \/ Interrupt
    \/ Main
    \/ Pump
    \/ Watch
    \/ CloseEnd
    \/ NodeAnswers
    \/ Inbound
    \/ Outbound
    \/ OpenInspector
    \/ BackendRestarts
    \/ ToolStarts

Spec == Init /\ [][Next]_vars

(* Go runs goroutines that can run; the searches and waitPing have time    *)
(* limits.  Dialling has none, so nothing obliges it to end, and nothing   *)
(* is assumed of Node.                                                     *)
Fairness ==
    /\ WF_vars(main # "dial" /\ Main)
    /\ WF_vars(Pump)
    /\ WF_vars(Watch)
    /\ WF_vars(CloseEnd)

FairSpec == Spec /\ Fairness
----------------------------------------------------------------------------
(*                               Properties                                *)

(* StartAttachTap returns without error only when the backend's hook, the  *)
(* binding and the Network domain are all in force: as long as the socket  *)
(* holds, nothing the backend does goes unseen.                            *)
AttachedMeansHooked ==
    main = "attached" /\ target = Backend /\ sock = "open"
        => hooked > 0 /\ bound /\ network

(* The tap gives the sink every message once and in Node's order, although *)
(* an earlier recording may have left its hook in the same process.        *)
TappedOnceInOrder ==
    \A i, j \in DOMAIN tapped : i < j => tapped[i] < tapped[j]

(* Nothing Node saw while the tap was attached is lost as long as the      *)
(* session is open: it is delivered, in the pump's hands or in the socket. *)
NothingLostAttached ==
    ~closed /\ main = "attached" =>
        due \subseteq Range(tapped) \cup {msg.number}
                      \cup {fromNode[i].number : i \in DOMAIN fromNode}

(* attach_tap.go "disable preload capture", AttachOptions.DisablePreload:  *)
(* when the preload hook was found active, what the tap records while      *)
(* attached is not posted by the hook too.                                 *)
RecordedOnce == preloadActive => due \cap posted = {}

(* pump and Close: the nil connection that pump may read after Close of    *)
(* another goroutine ends an attached recording only when that is being    *)
(* stopped; a backend that goes away, even in the middle of a message,     *)
(* does not.                                                               *)
PanicOnlyWhenStopped ==
    [][main = "attached" /\ main' = "crashed" => interrupted]_vars

(* Stop ends a recording: after the interrupt the process is gone, be it   *)
(* by the panic of pump, although Node may never answer and the pump may   *)
(* be in the middle of a message; unless websocket.Dial never returns.     *)
InterruptEnds ==
    interrupted ~> main \in {"ended", "crashed"} \/ [](main = "dial")
============================================================================
