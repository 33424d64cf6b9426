-------------------------- MODULE InspectorProofs --------------------------
(***************************************************************************)
(* Proofs about module Inspector, for every set of scenarios and every     *)
(* number of recordings, HTTP messages and restarts of the backend.        *)
(***************************************************************************)
EXTENDS Inspector, SequenceTheorems, TLAPS

(* Next, spelled out as the alternatives the proofs go through.            *)
LEMMA NextCases ==
    ASSUME Next
    PROVE  \/ Record \/ Interrupt
           \/ Resolve \/ Enable \/ LookFinds \/ LookTimesOut \/ Dial
           \/ CallCheck \/ CallSend \/ CallReturns \/ WaitPing \/ Abort
           \/ StopRecording \/ Leave
           \/ PumpCheck \/ PumpLoad \/ PumpReceive \/ PumpFails
           \/ PumpReturns \/ Handle
           \/ Watch \/ CloseEnd
           \/ NodeAnswers \/ Inbound \/ Outbound \/ OpenInspector \/ ToolStarts
           \/ BackendRestarts
  BY DEF Next, Main, Pump

(* A target that a search chooses is listed on one of the ports.           *)
LEMMA ChosenTarget ==
    ASSUME NEW p, p \in Resolved \/ p \in ResolvedWithDiff
    PROVE  p \in Ports
  <1>1. ASSUME NEW P, P \subseteq Ports, p \in BestPort(P)
        PROVE  p \in Ports
    BY <1>1 DEF BestPort
  <1>2. p \in Resolved => p \in BestPort(Ports)
    BY DEF Resolved
  <1>3. p \in ResolvedWithDiff =>
           p \in Resolved \/ p \in BestPort({q \in Ports : NewBackend(q)})
    BY DEF ResolvedWithDiff
  <1>4. {q \in Ports : NewBackend(q)} \subseteq Ports
    OBVIOUS
  <1> QED BY <1>1, <1>2, <1>3, <1>4
----------------------------------------------------------------------------
(*                            Type correctness                             *)

(* Before the session exists.                                              *)
Finding == {"resolve", "enable", "look", "dial"}

(* What TypeOK says of the parts, one by one.                              *)
NodeType ==
    /\ listing \in [Ports -> Procs \cup {Nobody}]
    /\ look \in [Procs -> SUBSET Facts]
    /\ features \subseteq {"hook", "network", "script"}
    /\ {preload, patched, asked, alive, preloadActive} \subseteq BOOLEAN
    /\ before \subseteq Ports
    /\ target \in Procs \cup {Nobody}
    /\ interrupted \in BOOLEAN

SockType ==
    /\ hooked \in Nat /\ bound \in BOOLEAN /\ network \in BOOLEAN
    /\ sock \in {"none", "open", "broken", "closed"}
    /\ toNode \in Seq([id : Nat, method : StageNames])
    /\ fromNode \in Seq(Messages)

CallType ==
    /\ main \in MainPCs
    /\ stage \in 1..7
    /\ nextID \in Nat /\ waiting \in Nat /\ answer \in Messages
    /\ closed \in BOOLEAN
    /\ conn \in {"set", "nil"}
    /\ closer \in {"none", "main", "pump", "watcher"}

PumpType ==
    /\ pump \in {"off", "check", "load", "receive", "handle", "close"}
    /\ msg \in Messages
    /\ watcher \in {"none", "armed"}
    /\ pingSeen \in BOOLEAN /\ inboundCount \in Nat

HistType ==
    /\ recordings \in Nat /\ exchanges \in Nat /\ restarts \in Nat
    /\ tapped \in Seq(Nat) /\ posted \subseteq Nat /\ due \subseteq Nat

(* Where setup is: it starts with the first call and waits for the ping    *)
(* after the sixth.                                                        *)
StageInv == (main \in Finding => stage = 1) /\ (main = "ping" => stage = 6)

(* The seven calls of setup.                                               *)
LEMMA StageList ==
    /\ Len(Stages) = 7 /\ DOMAIN Stages = 1..7
    /\ \A k \in 1..7 : Stages[k] \in StageNames
    /\ Stages[1] = "enable" /\ Stages[2] = "binding" /\ Stages[3] = "network"
    /\ Stages[4] = "hook" /\ Stages[5] = "ready" /\ Stages[6] = "ping"
    /\ Stages[7] = "preload"
  BY DEF Stages, StageNames, Range

(* Which call it is tells how far setup has come.                          *)
LEMMA StageNumber ==
    ASSUME NEW k \in 1..7
    PROVE  /\ Stages[k] = "binding" <=> k = 2
           /\ Stages[k] = "network" <=> k = 3
           /\ Stages[k] = "hook" <=> k = 4
           /\ Stages[k] = "ready" <=> k = 5
           /\ Stages[k] = "ping" <=> k = 6
           /\ Stages[k] = "preload" <=> k = 7
  <1>1. k = 1 \/ k = 2 \/ k = 3 \/ k = 4 \/ k = 5 \/ k = 6 \/ k = 7
    OBVIOUS
  <1> QED BY <1>1, StageList

(* The five groups of variables cover TypeOK.                              *)
LEMMA TypeParts ==
    TypeOK <=> NodeType /\ SockType /\ CallType /\ PumpType /\ HistType
  BY StageList
  DEF TypeOK, NodeType, SockType, CallType, PumpType, HistType

(* The messages the model builds.                                          *)
LEMMA MessagesTyped ==
    /\ NoMsg \in Messages /\ NoMsg.number = 0 /\ NoMsg.kind = "none"
    /\ NoMsg.id = 0
    /\ \A id \in Nat, v \in BOOLEAN :
          /\ Answer(id, v) \in Messages /\ Answer(id, v).id = id
          /\ Answer(id, v).kind = "answer" /\ Answer(id, v).value = v
          /\ Answer(id, v).number = 0
    /\ \A n \in Nat : \A kind \in {"ping", "inbound", "outbound"} :
          /\ Event(kind, n) \in Messages /\ Event(kind, n).id = 0
          /\ Event(kind, n).kind = kind /\ Event(kind, n).number = n
  BY DEF NoMsg, Answer, Event, Messages

(* The fields of a message.                                                *)
LEMMA MessageFields ==
    \A m \in Messages :
        /\ m.id \in Nat /\ m.value \in BOOLEAN /\ m.number \in Nat
        /\ m.kind \in {"none", "answer", "ping", "inbound", "outbound"}
  BY DEF Messages

(* The Node processes and the search for the backend's target.             *)
LEMMA NodeStep ==
    ASSUME NodeType, [Next]_vars
    PROVE  NodeType'
  <1> USE DEF NodeType
  <1>1. CASE Resolve
    <2>1. /\ patched' \in BOOLEAN
          /\ UNCHANGED <<listing, look, features, preload, asked, alive,
                         interrupted>>
      BY <1>1 DEF Resolve, SyncDevScript
    <2>2. \/ \E p \in Resolved : Choose(p) /\ UNCHANGED before
          \/ before' \subseteq Ports /\ UNCHANGED <<target, preloadActive>>
      BY <1>1 DEF Resolve
    <2>3. ASSUME NEW p \in Resolved, Choose(p), UNCHANGED before
          PROVE  NodeType'
      <3>1. p \in Ports
        BY ChosenTarget
      <3>2. target' = listing[p] /\ preloadActive' = (preload /\ alive)
        BY <2>3 DEF Choose, ProcessHasBugITPreload
      <3> QED BY <2>1, <2>3, <3>1, <3>2
    <2> QED BY <2>1, <2>2, <2>3
  <1>2. CASE LookFinds
    <2>1. /\ \E p \in ResolvedWithDiff : Choose(p)
          /\ UNCHANGED <<listing, look, features, preload, patched, asked,
                         alive, before, interrupted>>
      BY <1>2 DEF LookFinds, nodeVars
    <2>2. ASSUME NEW p \in ResolvedWithDiff, Choose(p)
          PROVE  NodeType'
      <3>1. p \in Ports
        BY ChosenTarget
      <3>2. target' = listing[p] /\ preloadActive' = (preload /\ alive)
        BY <2>2 DEF Choose, ProcessHasBugITPreload
      <3> QED BY <2>1, <3>1, <3>2
    <2> QED BY <2>1, <2>2
  <1>3. CASE LookTimesOut
    BY <1>3 DEF LookTimesOut, NoInspector, ProcessHasBugITPreload, nodeVars
  <1>4. CASE Enable
    BY <1>4 DEF Enable, foundVars
  <1>5. CASE Record
    BY <1>5 DEF Record, nodeVars
  <1>6. CASE Interrupt
    BY <1>6 DEF Interrupt, nodeVars, setupVars
  <1>7. CASE OpenInspector
    <2>1. listing' \in [Ports -> Procs \cup {Nobody}]
      BY <1>7 DEF OpenInspector, Procs
    <2> QED BY <1>7, <2>1 DEF OpenInspector, setupVars
  <1>8. CASE BackendRestarts
    <2> DEFINE gone == Without({Backend})
    <2>1. gone \in [Ports -> Procs \cup {Nobody}]
      BY DEF Without
    <2>2. listing' \in {gone} \cup {[gone EXCEPT ![p] = Backend] :
                                     p \in {q \in Ports : gone[q] = Nobody}}
      BY <1>8 DEF BackendRestarts
    <2> HIDE DEF gone
    <2>3. listing' \in [Ports -> Procs \cup {Nobody}]
      BY <2>1, <2>2 DEF Procs
    <2>4. /\ preload' \in {preload, patched} /\ asked' = FALSE
          /\ alive' = FALSE /\ before' \subseteq before
          /\ target' \in {target, Nobody}
          /\ UNCHANGED <<look, features, patched, interrupted, preloadActive>>
      BY <1>8 DEF BackendRestarts, Started
    <2> QED BY <2>3, <2>4
  <1>11. CASE ToolStarts
    <2>1. listing' \in [Ports -> Procs \cup {Nobody}]
      BY <1>11 DEF ToolStarts, Procs
    <2> QED BY <1>11, <2>1 DEF ToolStarts, setupVars
  <1>9. CASE UNCHANGED <<listing, look, features, preload, patched, asked,
                         alive, preloadActive, before, target, interrupted>>
    BY <1>9
  <1>10. Dial \/ CallCheck \/ CallSend \/ CallReturns \/ WaitPing \/ Abort
           \/ StopRecording \/ Leave \/ PumpCheck \/ PumpLoad \/ PumpReceive
           \/ PumpFails \/ PumpReturns \/ Handle \/ Watch \/ CloseEnd
           \/ NodeAnswers \/ Inbound \/ Outbound \/ UNCHANGED vars
           => UNCHANGED <<listing, look, features, preload, patched, asked,
                          alive, preloadActive, before, target, interrupted>>
    BY DEF Dial, CallCheck, CallSend, CallReturns, WaitPing, Abort,
           StopRecording, Leave, PumpCheck, PumpLoad, PumpReceive, PumpFails,
           PumpReturns, Handle, Watch, CloseEnd, NodeAnswers, Inbound,
           Outbound, nodeVars, setupVars, foundVars, vars
  <1> QED BY <1>1, <1>2, <1>3, <1>4, <1>5, <1>6, <1>7, <1>8, <1>9, <1>10,
             <1>11, NextCases

(* Main and the session's bookkeeping.                                     *)
LEMMA CallStep ==
    ASSUME CallType, StageInv, SockType, [Next]_vars
    PROVE  CallType' /\ StageInv'
  <1> USE DEF CallType
  <1>0. NoMsg \in Messages
    BY MessagesTyped
  <1>1. CASE Resolve \/ Enable \/ LookFinds \/ LookTimesOut
    <2>1. /\ main' \in {"dial", "enable", "look", "preload", "ended"}
          /\ main \in Finding
          /\ UNCHANGED <<stage, nextID, waiting, answer, closed, conn, closer>>
      BY <1>1 DEF Resolve, Enable, LookFinds, LookTimesOut, NoInspector, Choose,
                  Goto, Finding, callVars, closeVars
    <2> QED BY <2>1 DEF StageInv, MainPCs, Over
  <1>2. CASE Dial
    <2>1. /\ main = "dial" /\ main' \in {"call", "preload", "ended"}
          /\ UNCHANGED <<stage, nextID, waiting, answer, closed, conn, closer>>
      BY <1>2 DEF Dial, Goto, callVars, closeVars
    <2> QED BY <2>1 DEF StageInv, MainPCs, Over, Finding
  <1>3. CASE CallCheck
    <2>1. /\ main' \in {"abort", "send"}
          /\ nextID' \in {nextID, nextID + 1} /\ waiting' \in {waiting, nextID + 1}
          /\ UNCHANGED <<stage, answer, closed, conn, closer>>
      BY <1>3 DEF CallCheck, Goto, closeVars
    <2> QED BY <2>1 DEF StageInv, MainPCs, Over, Finding
  <1>4. CASE CallSend
    <2>1. /\ main' \in {"crashed", "wait", "abort"}
          /\ waiting' \in {waiting, 0} /\ closer' \in {closer, "none"}
          /\ UNCHANGED <<stage, nextID, answer, closed, conn>>
      BY <1>4 DEF CallSend, Exit, Goto
    <2> QED BY <2>1 DEF StageInv, MainPCs, Over, Finding
  <1>5. CASE CallReturns
    <2>1. /\ waiting' = 0 /\ answer' = NoMsg
          /\ UNCHANGED <<nextID, closed, conn, closer>>
          /\ NextStage \/ (main' = "abort" /\ stage' = stage)
      BY <1>5 DEF CallReturns, Goto, closeVars
    <2>2. CASE NextStage
      <3>1. \/ main' = "ping" /\ stage' = stage /\ Stages[stage] = "ping"
            \/ main' = "attached" /\ stage' = stage
            \/ main' = "call" /\ stage' = stage + 1 /\ Stages[stage] # "preload"
        BY <2>2 DEF NextStage, Goto
      <3>2. (Stages[stage] = "ping" => stage = 6)
            /\ (Stages[stage] # "preload" => stage # 7)
        BY StageNumber
      <3>3. /\ main' \in {"ping", "attached", "call"} /\ stage' \in 1..7
            /\ main' = "ping" => stage' = 6
        BY <3>1, <3>2
      <3> QED BY <1>0, <2>1, <3>3 DEF StageInv, MainPCs, Over, Finding
    <2>3. CASE main' = "abort" /\ stage' = stage
      BY <1>0, <2>1, <2>3 DEF StageInv, MainPCs, Over, Finding
    <2> QED BY <2>1, <2>2, <2>3
  <1>6. CASE WaitPing
    <2>1. /\ main = "ping" /\ main' \in {"call", "attached", "abort"}
          /\ stage' \in {stage, stage + 1}
          /\ UNCHANGED <<nextID, waiting, answer, closed, conn, closer>>
      BY <1>6 DEF WaitPing, Goto, callVars, closeVars
    <2>2. stage' \in 1..7
      BY <2>1 DEF StageInv
    <2> QED BY <2>1, <2>2 DEF StageInv, MainPCs, Over, Finding
  <1>7. CASE Abort \/ StopRecording
    <2>1. /\ main' \in {"preload", "close"} /\ closed' \in {closed, TRUE}
          /\ closer' \in {closer, "main"}
          /\ UNCHANGED <<stage, nextID, waiting, answer, conn>>
      BY <1>7 DEF Abort, StopRecording, CloseBegin, Goto, callVars, closeVars
    <2> QED BY <2>1 DEF StageInv, MainPCs, Over, Finding
  <1>8. CASE Leave \/ PumpLoad
    <2>1. /\ main' \in {main, "ended", "crashed"} /\ closer' \in {closer, "none"}
          /\ UNCHANGED <<stage, nextID, waiting, answer, closed, conn>>
      BY <1>8 DEF Leave, PumpLoad, Exit, callVars
    <2> QED BY <2>1 DEF StageInv, MainPCs, Over, Finding
  <1>9. CASE PumpFails \/ Watch
    <2>1. /\ closed' = TRUE /\ closer' \in {closer, "pump", "watcher"}
          /\ UNCHANGED <<main, stage, nextID, waiting, answer, conn>>
      BY <1>9 DEF PumpFails, Watch, CloseBegin, setupVars, callVars
    <2> QED BY <2>1 DEF StageInv
  <1>10. CASE PumpReceive
    <2>1. Head(fromNode) \in Messages
      BY <1>10, HeadTailProperties DEF PumpReceive, SockType
    <2>2. /\ answer' \in {Head(fromNode), answer}
          /\ UNCHANGED <<main, stage, nextID, waiting, closed, conn, closer>>
      BY <1>10 DEF PumpReceive, setupVars, closeVars
    <2> QED BY <2>1, <2>2 DEF StageInv
  <1>11. CASE CloseEnd
    <2>1. /\ conn' = "nil" /\ closer' = "none"
          /\ UNCHANGED <<main, stage, nextID, waiting, answer, closed>>
      BY <1>11 DEF CloseEnd, setupVars, callVars
    <2> QED BY <2>1 DEF StageInv
  <1>12. CASE Record
    <2>1. /\ main' = "resolve" /\ stage' = 1 /\ nextID' = 0 /\ waiting' = 0
          /\ answer' = NoMsg /\ closed' = FALSE /\ conn' = "set"
          /\ closer' = "none"
      BY <1>12 DEF Record
    <2>2. main' \in MainPCs /\ stage' \in 1..7 /\ closed' \in BOOLEAN
      <3>1. main' \in MainPCs
        BY <2>1 DEF MainPCs
      <3>2. stage' \in 1..7
        BY <2>1
      <3>3. closed' \in BOOLEAN
        BY <2>1
      <3> QED BY <3>1, <3>2, <3>3
    <2>3. CallType'
      BY <1>0, <2>1, <2>2
    <2>4. StageInv'
      BY <2>1 DEF StageInv
    <2> QED BY <2>3, <2>4
  <1>13. CASE UNCHANGED <<main, stage, nextID, waiting, answer, closed, conn,
                          closer>>
    BY <1>13 DEF StageInv
  <1>14. Interrupt \/ PumpCheck \/ PumpReturns \/ Handle \/ NodeAnswers
           \/ Inbound \/ Outbound \/ OpenInspector \/ ToolStarts \/ BackendRestarts
           \/ UNCHANGED vars
           => UNCHANGED <<main, stage, nextID, waiting, answer, closed, conn,
                          closer>>
    BY DEF Interrupt, PumpCheck, PumpReturns, Handle, NodeAnswers, Inbound,
           Outbound, OpenInspector, ToolStarts, BackendRestarts, setupVars, callVars,
           closeVars, vars
  <1> QED BY <1>1, <1>2, <1>3, <1>4, <1>5, <1>6, <1>7, <1>8, <1>9, <1>10,
             <1>11, <1>12, <1>13, <1>14, NextCases

(* The pump and the watcher.                                               *)
LEMMA PumpStep ==
    ASSUME PumpType, SockType, [Next]_vars
    PROVE  PumpType'
  <1> USE DEF PumpType
  <1>0. NoMsg \in Messages
    BY MessagesTyped
  <1>1. CASE Dial \/ PumpCheck \/ PumpFails \/ PumpReturns \/ CallReturns
             \/ WaitPing \/ Watch \/ CallSend \/ Leave \/ PumpLoad
    <2>1. /\ pump' \in {pump, "check", "off", "load", "close", "receive"}
          /\ watcher' \in {watcher, "armed", "none"}
          /\ UNCHANGED <<msg, pingSeen, inboundCount>>
      BY <1>1 DEF Dial, PumpCheck, PumpFails, PumpReturns, CallReturns,
                  WaitPing, Watch, CallSend, Leave, PumpLoad, Exit, pumpVars
    <2> QED BY <2>1
  <1>2. CASE PumpReceive
    <2>1. Head(fromNode) \in Messages
      BY <1>2, HeadTailProperties DEF PumpReceive, SockType
    <2>2. /\ msg' \in {Head(fromNode), NoMsg} /\ pump' \in {"handle", "check"}
          /\ UNCHANGED <<watcher, pingSeen, inboundCount>>
      BY <1>2 DEF PumpReceive
    <2> QED BY <1>0, <2>1, <2>2
  <1>3. CASE Handle
    <2>1. /\ msg' = NoMsg /\ pump' = "check" /\ watcher' = watcher
          /\ pingSeen' = (pingSeen \/ msg.kind = "ping")
          /\ inboundCount' \in {inboundCount + 1, inboundCount + 0}
      BY <1>3 DEF Handle
    <2>2. inboundCount' \in Nat /\ pingSeen' \in BOOLEAN
      BY <2>1
    <2> QED BY <1>0, <2>1, <2>2
  <1>4. CASE Record
    BY <1>0, <1>4 DEF Record
  <1>5. CASE UNCHANGED <<pumpVars, watcher>>
    BY <1>5 DEF pumpVars
  <1>6. Interrupt \/ Resolve \/ Enable \/ LookFinds \/ LookTimesOut
          \/ CallCheck \/ Abort \/ StopRecording \/ CloseEnd \/ NodeAnswers
          \/ Inbound \/ Outbound \/ OpenInspector \/ ToolStarts \/ BackendRestarts
          \/ UNCHANGED vars => UNCHANGED <<pumpVars, watcher>>
    BY DEF Interrupt, Resolve, Enable, LookFinds, LookTimesOut, CallCheck,
           Abort, StopRecording, CloseEnd, NodeAnswers, Inbound, Outbound,
           OpenInspector, ToolStarts, BackendRestarts, vars
  <1> QED BY <1>1, <1>2, <1>3, <1>4, <1>5, <1>6, NextCases
----------------------------------------------------------------------------
(*                         What is on the socket                           *)

(* Messages put after the ones a socket holds.                             *)
LEMMA ConcatParts ==
    ASSUME NEW s \in Seq(Messages), NEW t \in Seq(Messages)
    PROVE  /\ s \o t \in Seq(Messages)
           /\ Len(s \o t) = Len(s) + Len(t)
           /\ \A i \in 1..Len(s) : (s \o t)[i] = s[i] /\ i \in 1..Len(s \o t)
           /\ \A i \in 1..Len(s \o t) :
                 i \in 1..Len(s) \/ \E j \in 1..Len(t) : (s \o t)[i] = t[j]
  <1> DEFINE u == s \o t
             a == Len(s)
             b == Len(t)
  <1>1. /\ a \in Nat /\ b \in Nat /\ u \in Seq(Messages) /\ Len(u) = a + b
        /\ \A i \in 1..(a + b) : u[i] = IF i <= a THEN s[i] ELSE t[i - a]
    BY ConcatProperties
  <1> HIDE DEF u
  <1>2. \A i \in 1..a : i \in 1..(a + b) /\ i <= a
    BY <1>1
  <1>3. ASSUME NEW i \in 1..(a + b)
        PROVE  i \in 1..a \/ \E j \in 1..b : u[i] = t[j]
    <2>1. CASE i <= a
      BY <1>1, <2>1
    <2>2. CASE ~(i <= a)
      <3>1. i - a \in 1..b /\ u[i] = t[i - a]
        BY <1>1, <2>2
      <3> QED BY <3>1
    <2> QED BY <2>1, <2>2
  <1>4. \A i \in 1..a : u[i] = s[i] /\ i \in 1..(a + b)
    BY <1>1, <1>2
  <1> QED BY <1>1, <1>3, <1>4 DEF u

(* A sequence of one message, or of none.                                  *)
LEMMA OneMessage ==
    ASSUME NEW m \in Messages
    PROVE  /\ <<m>> \in Seq(Messages) /\ Len(<<m>>) = 1 /\ <<m>>[1] = m
           /\ <<>> \in Seq(Messages) /\ Len(<<>>) = 0
  OBVIOUS

(* Node's answers are read as yes or no.                                   *)
LEMMA AnswerBoolean ==
    ASSUME NEW m
    PROVE  AnswerValue(m) \in BOOLEAN
  <1>1. CASE m = "network"
    <2>1. AnswerValue(m) = ("network" \in features)
      BY <1>1 DEF AnswerValue
    <2> QED BY <2>1
  <1>2. CASE m = "hook"
    <2>1. AnswerValue(m) = (target # Backend \/ "hook" \in features)
      BY <1>2 DEF AnswerValue
    <2> QED BY <2>1
  <1>3. CASE m = "ready"
    <2>1. AnswerValue(m) = (target # Backend \/ hooked > 0)
      BY <1>3 DEF AnswerValue
    <2> QED BY <2>1
  <1>4. CASE m \notin {"network", "hook", "ready"}
    <2>1. AnswerValue(m) = TRUE
      BY <1>4 DEF AnswerValue
    <2> QED BY <2>1
  <1> QED BY <1>1, <1>2, <1>3, <1>4

(* What NodeAnswers adds to the socket.                                    *)
LEMMA AnswerEffect ==
    ASSUME SockType, NodeType, NodeAnswers
    PROVE  /\ toNode # <<>> /\ toNode' = Tail(toNode) /\ sock = "open"
           /\ Head(toNode).id \in Nat /\ Head(toNode).method \in StageNames
           /\ Head(toNode) = toNode[1] /\ 1 \in 1..Len(toNode)
           /\ AnswerValue(Head(toNode).method) \in BOOLEAN
           /\ fromNode' \in Seq(Messages) /\ Len(fromNode) <= Len(fromNode')
           /\ Len(fromNode) \in Nat /\ Len(fromNode') \in Nat
           /\ \A i \in 1..Len(fromNode) :
                 fromNode'[i] = fromNode[i] /\ i \in 1..Len(fromNode')
           /\ \A i \in 1..Len(fromNode') :
                 \/ i \in 1..Len(fromNode)
                 \/ fromNode'[i] = Event("ping", 0)
                 \/ fromNode'[i] = Answer(Head(toNode).id,
                                          AnswerValue(Head(toNode).method))
  <1> DEFINE call == Head(toNode)
             e == Event("ping", 0)
             a == Answer(call.id, AnswerValue(call.method))
             pre == IF call.method = "ping" /\ bound THEN <<e>> ELSE <<>>
  <1>1. /\ toNode # <<>> /\ toNode' = Tail(toNode) /\ sock = "open"
        /\ fromNode' = fromNode \o pre \o <<a>>
    BY Zenon DEF NodeAnswers
  <1>2. call \in [id : Nat, method : StageNames] /\ call = toNode[1]
        /\ 1 \in 1..Len(toNode)
    <2> DEFINE Calls == [id : Nat, method : StageNames]
    <2> HIDE DEF Calls
    <2>1. toNode \in Seq(Calls) /\ toNode # <<>>
      BY <1>1 DEF SockType, Calls
    <2>2. Head(toNode) \in Calls /\ Head(toNode) = toNode[1]
          /\ 1 \in 1..Len(toNode)
      BY <2>1
    <2> QED BY <2>2 DEF Calls
  <1>3. AnswerValue(call.method) \in BOOLEAN
    BY AnswerBoolean
  <1>4. call.id \in Nat /\ call.method \in StageNames
    BY <1>2
  <1>5. a \in Messages /\ e \in Messages
    BY <1>3, <1>4, MessagesTyped
  <1> HIDE DEF call, e, a
  <1>6. /\ pre \in Seq(Messages) /\ \A j \in 1..Len(pre) : pre[j] = e
        /\ <<a>> \in Seq(Messages) /\ \A j \in 1..Len(<<a>>) : <<a>>[j] = a
    <2>1. ASSUME NEW m \in Messages
          PROVE  /\ <<m>> \in Seq(Messages) /\ \A j \in 1..Len(<<m>>) : <<m>>[j] = m
                 /\ <<>> \in Seq(Messages) /\ \A j \in 1..Len(<<>>) : <<>>[j] = m
      <3>1. Len(<<m>>) = 1 /\ Len(<<>>) = 0 /\ <<m>>[1] = m
        OBVIOUS
      <3>2. \A j \in 1..Len(<<m>>) : j = 1
        BY <3>1
      <3>3. ~ \E j \in 1..Len(<<>>) : TRUE
        BY <3>1
      <3> QED BY <3>1, <3>2, <3>3, OneMessage, Zenon
    <2>2. pre = <<e>> \/ pre = <<>>
      OBVIOUS
    <2> QED BY <1>5, <2>1, <2>2, Zenon
  <1> HIDE DEF pre
  <1> DEFINE f == fromNode \o pre
  <1>7. /\ f \in Seq(Messages) /\ Len(f) = Len(fromNode) + Len(pre)
        /\ \A i \in 1..Len(fromNode) : f[i] = fromNode[i] /\ i \in 1..Len(f)
        /\ \A i \in 1..Len(f) :
              i \in 1..Len(fromNode) \/ \E j \in 1..Len(pre) : f[i] = pre[j]
    BY <1>6, ConcatParts DEF SockType
  <1>8. fromNode' = f \o <<a>>
    BY <1>1
  <1> HIDE DEF f
  <1>9. /\ fromNode' \in Seq(Messages) /\ Len(fromNode') = Len(f) + Len(<<a>>)
        /\ \A i \in 1..Len(f) : fromNode'[i] = f[i] /\ i \in 1..Len(fromNode')
        /\ \A i \in 1..Len(fromNode') :
              i \in 1..Len(f) \/ \E j \in 1..Len(<<a>>) : fromNode'[i] = <<a>>[j]
    <2> DEFINE g == <<a>>
    <2>1. f \in Seq(Messages) /\ g \in Seq(Messages) /\ fromNode' = f \o g
      BY <1>6, <1>7, <1>8
    <2> HIDE DEF g
    <2>2. /\ fromNode' \in Seq(Messages) /\ Len(fromNode') = Len(f) + Len(g)
          /\ \A i \in 1..Len(f) : fromNode'[i] = f[i] /\ i \in 1..Len(fromNode')
          /\ \A i \in 1..Len(fromNode') :
                i \in 1..Len(f) \/ \E j \in 1..Len(g) : fromNode'[i] = g[j]
      BY <2>1, ConcatParts
    <2> QED BY <2>2 DEF g
  <1>10. /\ Len(fromNode) \in Nat /\ Len(pre) \in Nat /\ Len(<<a>>) \in Nat
         /\ Len(fromNode) <= Len(fromNode') /\ Len(fromNode') \in Nat
    <2>1. \A s \in Seq(Messages) : Len(s) \in Nat
      OBVIOUS
    <2>2. /\ Len(fromNode) \in Nat /\ Len(pre) \in Nat /\ Len(<<a>>) \in Nat
          /\ Len(f) \in Nat
      BY <1>6, <1>7, <2>1, Zenon DEF SockType
    <2>3. Len(f) = Len(fromNode) + Len(pre) /\ Len(fromNode') = Len(f) + Len(<<a>>)
      BY <1>7, <1>9
    <2> QED BY <2>2, <2>3
  <1>11. \A i \in 1..Len(fromNode) :
            fromNode'[i] = fromNode[i] /\ i \in 1..Len(fromNode')
    BY <1>7, <1>9, Zenon
  <1>12. \A i \in 1..Len(fromNode') :
            i \in 1..Len(fromNode) \/ fromNode'[i] = e \/ fromNode'[i] = a
    BY <1>6, <1>7, <1>9, Zenon
  <1> QED BY <1>1, <1>2, <1>3, <1>4, <1>9, <1>10, <1>11, <1>12 DEF call, e, a

(* The server hook adds one message for each of its subscriptions.         *)
LEMMA InboundTyped ==
    ASSUME SockType, HistType, Inbound
    PROVE  fromNode' \in Seq(Messages)
  <1>1. /\ exchanges' = exchanges + 1
        /\ \/ fromNode' = fromNode
           \/ fromNode' = fromNode \o
                             [i \in 1..hooked |-> Event("inbound", exchanges')]
    BY DEF Inbound
  <1>2. exchanges' \in Nat /\ hooked \in Nat /\ fromNode \in Seq(Messages)
    BY <1>1 DEF HistType, SockType
  <1>3. Event("inbound", exchanges') \in Messages
    BY <1>2, MessagesTyped
  <1>4. [i \in 1..hooked |-> Event("inbound", exchanges')] \in Seq(Messages)
    BY <1>2, <1>3
  <1> QED BY <1>1, <1>2, <1>4, ConcatProperties

(* Node's end of the session and the messages under way.                   *)
LEMMA SockStep ==
    ASSUME SockType, NodeType, CallType, HistType, [Next]_vars
    PROVE  SockType'
  <1> DEFINE Calls == [id : Nat, method : StageNames]
  <1>0. /\ <<>> \in Seq(Calls) /\ <<>> \in Seq(Messages)
    OBVIOUS
  <1>1. CASE CallSend
    <2>1. \/ toNode' = toNode /\ UNCHANGED <<bound, network, sock, fromNode>>
          \/ toNode' = Append(toNode, [id |-> waiting, method |-> Stages[stage]])
             /\ UNCHANGED <<bound, network, sock, fromNode>>
          \/ /\ toNode' = <<>> /\ fromNode' = <<>> /\ sock' = "closed"
             /\ bound' = FALSE /\ network' = FALSE
      BY <1>1 DEF CallSend, Exit, enabledVars, sockVars
    <2>2. [id |-> waiting, method |-> Stages[stage]] \in Calls
      <3>1. waiting \in Nat /\ Stages[stage] \in StageNames
        BY StageList DEF CallType
      <3> QED BY <3>1
    <2>3. toNode' \in Seq(Calls) /\ fromNode' \in Seq(Messages)
      <3> DEFINE r == [id |-> waiting, method |-> Stages[stage]]
      <3>1. toNode \in Seq(Calls) /\ fromNode \in Seq(Messages) /\ r \in Calls
        BY <2>2 DEF SockType
      <3> HIDE DEF Calls
      <3>2. Append(toNode, r) \in Seq(Calls)
        <4> HIDE DEF r
        <4> QED BY <3>1, AppendProperties
      <3> QED BY <1>0, <2>1, <3>1, <3>2, Zenon
    <2>4. bound' \in BOOLEAN /\ network' \in BOOLEAN
          /\ sock' \in {"none", "open", "broken", "closed"}
      BY <2>1 DEF SockType
    <2>5. hooked' = hooked
      BY <1>1 DEF CallSend, nodeVars
    <2> QED BY <2>3, <2>4, <2>5 DEF SockType
  <1>2. CASE Leave \/ PumpLoad \/ CloseEnd
    <2>1. \/ UNCHANGED <<toNode, fromNode, bound, network, sock>>
          \/ /\ toNode' = <<>> /\ fromNode' = <<>> /\ sock' = "closed"
             /\ bound' = FALSE /\ network' = FALSE
      BY <1>2 DEF Leave, PumpLoad, CloseEnd, Exit, enabledVars, sockVars
    <2>2. toNode' \in Seq(Calls) /\ fromNode' \in Seq(Messages)
      BY <1>0, <2>1 DEF SockType
    <2>3. bound' \in BOOLEAN /\ network' \in BOOLEAN
          /\ sock' \in {"none", "open", "broken", "closed"}
      BY <2>1 DEF SockType
    <2>4. hooked' = hooked
      BY <1>2 DEF Leave, PumpLoad, CloseEnd, nodeVars
    <2> QED BY <2>2, <2>3, <2>4 DEF SockType
  <1>3. CASE Record
    <2>1. /\ toNode' = <<>> /\ fromNode' = <<>> /\ sock' = "none"
          /\ UNCHANGED <<hooked, bound, network>>
      BY <1>3 DEF Record, nodeVars, enabledVars
    <2> QED BY <1>0, <2>1 DEF SockType
  <1>4. CASE Dial
    <2>1. /\ sock' \in {"open", sock}
          /\ UNCHANGED <<hooked, bound, network, toNode, fromNode>>
      BY <1>4 DEF Dial, nodeVars, enabledVars
    <2> QED BY <2>1 DEF SockType
  <1>5. CASE PumpReceive
    <2>1. /\ fromNode # <<>> /\ fromNode' = Tail(fromNode)
          /\ UNCHANGED <<hooked, bound, network, sock, toNode>>
      BY <1>5 DEF PumpReceive, nodeVars, enabledVars
    <2>2. fromNode' \in Seq(Messages)
      BY <2>1, HeadTailProperties DEF SockType
    <2> QED BY <2>1, <2>2 DEF SockType
  <1>6. CASE NodeAnswers
    <2>1. /\ bound' \in BOOLEAN /\ network' \in BOOLEAN /\ sock' = sock
          /\ hooked' \in {hooked, Subscribe}
      BY <1>6 DEF NodeAnswers
    <2>2. hooked' \in Nat
      BY <2>1 DEF Subscribe, SockType
    <2>3. toNode' \in Seq(Calls) /\ fromNode' \in Seq(Messages)
      BY <1>6, AnswerEffect, HeadTailProperties DEF SockType
    <2> QED BY <2>1, <2>2, <2>3 DEF SockType
  <1>7. CASE Inbound
    <2>1. fromNode' \in Seq(Messages)
      BY <1>7, InboundTyped
    <2>2. UNCHANGED <<hooked, bound, network, sock, toNode>>
      BY <1>7 DEF Inbound, nodeVars, enabledVars
    <2> QED BY <2>1, <2>2 DEF SockType
  <1>8. CASE Outbound
    <2>1. /\ fromNode' = Append(fromNode, Event("outbound", exchanges'))
          /\ exchanges' = exchanges + 1
          /\ UNCHANGED <<hooked, bound, network, sock, toNode>>
      BY <1>8 DEF Outbound, nodeVars, enabledVars
    <2>2. Event("outbound", exchanges') \in Messages
      <3>1. exchanges' \in Nat
        BY <2>1 DEF HistType
      <3> QED BY <3>1, MessagesTyped
    <2>3. fromNode' \in Seq(Messages)
      BY <2>1, <2>2, AppendProperties DEF SockType
    <2> QED BY <2>1, <2>3 DEF SockType
  <1>9. CASE BackendRestarts
    <2>1. /\ hooked' = 0 /\ fromNode' = fromNode
          /\ sock' \in {sock, "broken"}
          /\ toNode' = toNode \/ toNode' = <<>>
          /\ bound' \in {bound, FALSE} /\ network' \in {network, FALSE}
      BY <1>9 DEF BackendRestarts, enabledVars
    <2>2. toNode' \in Seq(Calls)
      BY <1>0, <2>1 DEF SockType
    <2> QED BY <2>1, <2>2 DEF SockType
  <1>10. CASE UNCHANGED <<hooked, bound, network, sock, toNode, fromNode>>
    BY <1>10 DEF SockType
  <1>11. Interrupt \/ Resolve \/ Enable \/ LookFinds \/ LookTimesOut
           \/ CallCheck \/ CallReturns \/ WaitPing \/ Abort \/ StopRecording
           \/ PumpCheck \/ PumpFails \/ PumpReturns \/ Handle \/ Watch
           \/ OpenInspector \/ ToolStarts \/ UNCHANGED vars
           => UNCHANGED <<hooked, bound, network, sock, toNode, fromNode>>
    BY DEF Interrupt, Resolve, Enable, LookFinds, LookTimesOut, CallCheck,
           CallReturns, WaitPing, Abort, StopRecording, PumpCheck, PumpFails,
           PumpReturns, Handle, Watch, OpenInspector, ToolStarts, nodeVars, enabledVars,
           sockVars, vars
  <1> QED BY <1>1, <1>2, <1>3, <1>4, <1>5, <1>6, <1>7, <1>8, <1>9, <1>10,
             <1>11, NextCases

(* The counts and the history.                                             *)
LEMMA HistStep ==
    ASSUME HistType, PumpType, [Next]_vars
    PROVE  HistType'
  <1> USE DEF HistType
  <1>1. CASE Handle
    <2>1. msg.number \in Nat
      BY MessageFields DEF PumpType
    <2>2. Append(tapped, msg.number) \in Seq(Nat)
      BY <2>1, AppendProperties
    <2>3. /\ tapped' = tapped \/ tapped' = Append(tapped, msg.number)
          /\ UNCHANGED <<recordings, exchanges, restarts, posted, due>>
      BY <1>1 DEF Handle, boundVars
    <2> QED BY <2>2, <2>3
  <1>2. CASE Inbound \/ Outbound
    <2>1. /\ exchanges' = exchanges + 1
          /\ UNCHANGED <<recordings, restarts, tapped>>
          /\ posted' \in {posted, posted \cup {exchanges'}}
          /\ due' \in {due, due \cup {exchanges'}}
      BY <1>2 DEF Inbound, Outbound
    <2>2. exchanges' \in Nat
      BY <2>1
    <2> QED BY <2>1, <2>2
  <1>3. CASE BackendRestarts \/ ToolStarts
    <2>1. /\ restarts' = restarts + 1
          /\ UNCHANGED <<recordings, exchanges, tapped, posted, due>>
      BY <1>3 DEF BackendRestarts, ToolStarts, histVars
    <2> QED BY <2>1
  <1>4. CASE Record
    <2>1. /\ recordings' = recordings + 1 /\ tapped' = <<>>
          /\ posted' = {} /\ due' = {} /\ UNCHANGED <<exchanges, restarts>>
      BY <1>4 DEF Record
    <2> QED BY <2>1
  <1>5. CASE UNCHANGED <<boundVars, histVars>>
    BY <1>5 DEF boundVars, histVars
  <1>6. Interrupt \/ Resolve \/ Enable \/ LookFinds \/ LookTimesOut \/ Dial
          \/ CallCheck \/ CallSend \/ CallReturns \/ WaitPing \/ Abort
          \/ StopRecording \/ Leave \/ PumpCheck \/ PumpLoad \/ PumpReceive
          \/ PumpFails \/ PumpReturns \/ Watch \/ CloseEnd \/ NodeAnswers
          \/ OpenInspector \/ UNCHANGED vars
          => UNCHANGED <<boundVars, histVars>>
    BY DEF Interrupt, Resolve, Enable, LookFinds, LookTimesOut, Dial,
           CallCheck, CallSend, CallReturns, WaitPing, Abort, StopRecording,
           Leave, PumpCheck, PumpLoad, PumpReceive, PumpFails, PumpReturns,
           Watch, CloseEnd, NodeAnswers, OpenInspector, vars
  <1> QED BY <1>1, <1>2, <1>3, <1>4, <1>5, <1>6, NextCases

(* Every scenario starts with nothing attached.                            *)
LEMMA InitTyped ==
    ASSUME Init
    PROVE  TypeOK /\ StageInv
  <1>1. NodeType
    <2>1. PICK s \in Scenarios :
            /\ listing = s.listing /\ look = s.look
            /\ features = s.features /\ preload = s.preload
            /\ patched = s.preload
      BY DEF Init
    <2>2. s \in Scenario
      BY <2>1, InspectorAssumption
    <2>3. /\ listing \in [Ports -> Procs \cup {Nobody}]
          /\ look \in [Procs -> SUBSET Facts]
          /\ features \subseteq {"hook", "network", "script"}
          /\ preload \in BOOLEAN /\ patched = preload
      BY <2>1, <2>2 DEF Scenario
    <2>4. /\ asked = FALSE /\ alive = TRUE /\ preloadActive = FALSE
          /\ before = {} /\ target = Nobody /\ interrupted = FALSE
      BY DEF Init, InitRecorder
    <2> QED BY <2>3, <2>4 DEF NodeType
  <1>2. SockType
    <2>1. /\ hooked = 0 /\ bound = FALSE /\ network = FALSE /\ sock = "none"
          /\ toNode = <<>> /\ fromNode = <<>>
      BY DEF Init
    <2>2. toNode \in Seq([id : Nat, method : StageNames])
      BY <2>1
    <2>3. fromNode \in Seq(Messages)
      BY <2>1
    <2> QED BY <2>1, <2>2, <2>3 DEF SockType
  <1>3. CallType /\ StageInv
    <2>1. /\ main = "idle" /\ stage = 1 /\ nextID = 0 /\ waiting = 0
          /\ answer = NoMsg /\ closed = FALSE /\ conn = "set" /\ closer = "none"
      BY DEF Init, InitRecorder
    <2>2. main \in MainPCs
      BY <2>1 DEF MainPCs, Over
    <2>3. stage \in 1..7
      BY <2>1
    <2>4. closed \in BOOLEAN /\ conn \in {"set", "nil"}
          /\ closer \in {"none", "main", "pump", "watcher"}
      BY <2>1
    <2>5. nextID \in Nat /\ waiting \in Nat /\ answer \in Messages
      BY <2>1, MessagesTyped
    <2>6. StageInv
      BY <2>1 DEF StageInv
    <2> QED BY <2>2, <2>3, <2>4, <2>5, <2>6 DEF CallType
  <1>4. PumpType
    <2>1. /\ pump = "off" /\ msg = NoMsg /\ watcher = "none"
          /\ pingSeen = FALSE /\ inboundCount = 0
      BY DEF Init, InitRecorder
    <2> QED BY <2>1, MessagesTyped DEF PumpType
  <1>5. HistType
    BY DEF Init, InitRecorder, HistType
  <1> QED BY <1>1, <1>2, <1>3, <1>4, <1>5, TypeParts

(* Every step of every goroutine, of Node and of the user keeps the types  *)
(* and the place of setup.                                                 *)
LEMMA StepTyped ==
    ASSUME TypeOK, StageInv, [Next]_vars
    PROVE  TypeOK' /\ StageInv'
  <1>1. NodeType /\ SockType /\ CallType /\ PumpType /\ HistType
    BY TypeParts
  <1>2. NodeType' /\ SockType' /\ CallType' /\ PumpType' /\ HistType' /\ StageInv'
    BY <1>1, NodeStep, SockStep, CallStep, PumpStep, HistStep
  <1>3. TypeOK' <=> (NodeType /\ SockType /\ CallType /\ PumpType /\ HistType)'
    BY TypeParts, PTL
  <1> QED BY <1>2, <1>3

(* Attaching stays type correct: in particular setup never has a call to   *)
(* make beyond the last, whatever Node answers and whoever closes the      *)
(* session.                                                                *)
THEOREM TypeCorrect == Spec => []TypeOK
  <1>1. Init => TypeOK /\ StageInv
    BY InitTyped
  <1>2. TypeOK /\ StageInv /\ [Next]_vars => (TypeOK /\ StageInv)'
    BY StepTyped
  <1> QED BY <1>1, <1>2, PTL DEF Spec
----------------------------------------------------------------------------
(*                        What a step does to the socket                   *)

(* The entries of a queue whose head is taken.                             *)
LEMMA TailParts ==
    ASSUME NEW S, NEW s \in Seq(S), s # <<>>
    PROVE  /\ Tail(s) \in Seq(S) /\ Len(s) \in Nat /\ Len(Tail(s)) = Len(s) - 1
           /\ Head(s) = s[1] /\ 1 \in 1..Len(s) /\ s[1] \in S
           /\ \A i \in 1..Len(Tail(s)) : Tail(s)[i] = s[i + 1] /\ i + 1 \in 1..Len(s)
  OBVIOUS

(* The entries of a queue that got one more.                               *)
LEMMA AppendParts ==
    ASSUME NEW S, NEW s \in Seq(S), NEW e \in S
    PROVE  /\ Append(s, e) \in Seq(S) /\ Len(s) \in Nat
           /\ Len(Append(s, e)) = Len(s) + 1
           /\ \A i \in 1..Len(s) : Append(s, e)[i] = s[i]
           /\ Append(s, e)[Len(s) + 1] = e
           /\ \A i \in 1..Len(Append(s, e)) :
                 (i \in 1..Len(s) /\ Append(s, e)[i] = s[i])
                 \/ (i = Len(s) + 1 /\ Append(s, e)[i] = e)
  OBVIOUS

(* The answer Node gives to the call at the head of the socket.            *)
FirstAnswer == Answer(toNode[1].id, AnswerValue(toNode[1].method))

(* Every message on the socket after a step was there before it, is an     *)
(* event, or answers the first call; every call was there before it or is  *)
(* the one main sends.                                                     *)
LEMMA SocketEffect ==
    ASSUME SockType, NodeType, CallType, HistType, [Next]_vars
    PROVE  /\ \A i \in 1..Len(fromNode') :
                 \/ \E j \in 1..Len(fromNode) : fromNode'[i] = fromNode[j]
                 \/ fromNode'[i].id = 0
                 \/ /\ NodeAnswers /\ 1 \in 1..Len(toNode)
                    /\ fromNode'[i] = FirstAnswer
           /\ \A i \in 1..Len(toNode') :
                 \/ \E j \in 1..Len(toNode) : toNode'[i] = toNode[j]
                 \/ /\ CallSend /\ main = "send" /\ main' = "wait"
                    /\ toNode'[i] = [id |-> waiting, method |-> Stages[stage]]
  <1> DEFINE Calls == [id : Nat, method : StageNames]
             From == \A i \in 1..Len(fromNode') :
                 \/ \E j \in 1..Len(fromNode) : fromNode'[i] = fromNode[j]
                 \/ fromNode'[i].id = 0
                 \/ /\ NodeAnswers /\ 1 \in 1..Len(toNode)
                    /\ fromNode'[i] = FirstAnswer
             To == \A i \in 1..Len(toNode') :
                 \/ \E j \in 1..Len(toNode) : toNode'[i] = toNode[j]
                 \/ /\ CallSend /\ main = "send" /\ main' = "wait"
                    /\ toNode'[i] = [id |-> waiting, method |-> Stages[stage]]
  <1>a. fromNode' = fromNode => From
    OBVIOUS
  <1>b. fromNode' = <<>> => From
    <2>1. ASSUME fromNode' = <<>> PROVE ~ \E i \in 1..Len(fromNode') : TRUE
      BY <2>1
    <2> QED BY <2>1, Zenon
  <1>c. toNode' = toNode => To
    OBVIOUS
  <1>d. toNode' = <<>> => To
    <2>1. ASSUME toNode' = <<>> PROVE ~ \E i \in 1..Len(toNode') : TRUE
      BY <2>1
    <2> QED BY <2>1, Zenon
  <1>e. /\ toNode \in Seq(Calls) /\ fromNode \in Seq(Messages)
        /\ \A n \in Nat : /\ Event("inbound", n) \in Messages
                          /\ Event("outbound", n) \in Messages
                          /\ Event("inbound", n).id = 0
                          /\ Event("outbound", n).id = 0
    BY MessagesTyped DEF SockType
  <1>1. CASE CallSend
    <2>1. \/ toNode' = toNode /\ fromNode' = fromNode
          \/ /\ toNode' = Append(toNode, [id |-> waiting, method |-> Stages[stage]])
             /\ main = "send" /\ main' = "wait" /\ fromNode' = fromNode
          \/ toNode' = <<>> /\ fromNode' = <<>>
      BY <1>1 DEF CallSend, Exit, Goto, sockVars
    <2>2. From
      BY <2>1, <1>a, <1>b
    <2>3. ASSUME toNode' = Append(toNode, [id |-> waiting, method |-> Stages[stage]]),
                 main = "send", main' = "wait"
          PROVE  To
      <3> DEFINE r == [id |-> waiting, method |-> Stages[stage]]
      <3>1. r \in Calls
        <4>1. waiting \in Nat /\ Stages[stage] \in StageNames
          BY StageList DEF CallType
        <4> QED BY <4>1
      <3>2. toNode' = Append(toNode, r)
        BY <2>3
      <3> HIDE DEF r, Calls
      <3>3. \A i \in 1..Len(toNode') :
               \/ i \in 1..Len(toNode) /\ toNode'[i] = toNode[i]
               \/ toNode'[i] = r
        BY <1>e, <3>1, <3>2, AppendParts, Zenon
      <3> QED BY <1>1, <2>3, <3>3, Zenon DEF r
    <2> QED BY <2>1, <2>2, <2>3, <1>c, <1>d
  <1>2. CASE Leave \/ PumpLoad \/ CloseEnd
    <2>1. \/ toNode' = toNode /\ fromNode' = fromNode
          \/ toNode' = <<>> /\ fromNode' = <<>>
      BY <1>2 DEF Leave, PumpLoad, CloseEnd, Exit, sockVars
    <2> QED BY <2>1, <1>a, <1>b, <1>c, <1>d
  <1>3. CASE Record
    <2>1. toNode' = <<>> /\ fromNode' = <<>>
      BY <1>3 DEF Record
    <2> QED BY <2>1, <1>b, <1>d
  <1>4. CASE PumpReceive
    <2>1. fromNode # <<>> /\ fromNode' = Tail(fromNode) /\ toNode' = toNode
      BY <1>4 DEF PumpReceive
    <2>2. \A i \in 1..Len(fromNode') :
             fromNode'[i] = fromNode[i + 1] /\ i + 1 \in 1..Len(fromNode)
      BY <1>e, <2>1, TailParts, Zenon
    <2>3. From
      BY <2>2, Zenon
    <2> QED BY <1>c, <2>1, <2>3
  <1>5. CASE NodeAnswers
    <2>1. /\ toNode # <<>> /\ toNode' = Tail(toNode)
          /\ Head(toNode) = toNode[1] /\ 1 \in 1..Len(toNode)
          /\ \A i \in 1..Len(fromNode) : fromNode'[i] = fromNode[i]
          /\ \A i \in 1..Len(fromNode') :
                 \/ i \in 1..Len(fromNode)
                 \/ fromNode'[i] = Event("ping", 0)
                 \/ fromNode'[i] = FirstAnswer
      BY <1>5, AnswerEffect DEF FirstAnswer
    <2>2. Event("ping", 0).id = 0
      BY MessagesTyped
    <2>3. From
      BY <1>5, <2>1, <2>2, Zenon
    <2> HIDE DEF Calls
    <2>4. \A i \in 1..Len(toNode') :
             toNode'[i] = toNode[i + 1] /\ i + 1 \in 1..Len(toNode)
      BY <1>e, <2>1, TailParts, Zenon
    <2>5. To
      BY <2>4, Zenon
    <2> QED BY <2>3, <2>5
  <1>6. CASE Inbound
    <2>1. /\ exchanges' = exchanges + 1 /\ toNode' = toNode
          /\ \/ fromNode' = fromNode
             \/ fromNode' = fromNode \o
                             [i \in 1..hooked |-> Event("inbound", exchanges')]
      BY <1>6 DEF Inbound
    <2>2. exchanges' \in Nat /\ hooked \in Nat
      BY <2>1 DEF HistType, SockType
    <2> DEFINE t == [i \in 1..hooked |-> Event("inbound", exchanges')]
    <2>3. /\ t \in Seq(Messages)
          /\ \A i \in 1..Len(t) : t[i] = Event("inbound", exchanges')
      BY <1>e, <2>2
    <2> HIDE DEF t
    <2>4. ASSUME fromNode' = fromNode \o t PROVE From
      <3>1. /\ \A i \in 1..Len(fromNode) : fromNode'[i] = fromNode[i]
            /\ \A i \in 1..Len(fromNode') :
                 i \in 1..Len(fromNode) \/ \E j \in 1..Len(t) : fromNode'[i] = t[j]
        BY <1>e, <2>3, <2>4, ConcatParts
      <3> QED BY <1>e, <2>2, <2>3, <3>1, Zenon
    <2> QED BY <1>a, <1>c, <2>1, <2>4 DEF t
  <1>7. CASE Outbound
    <2>1. /\ fromNode' = Append(fromNode, Event("outbound", exchanges'))
          /\ exchanges' = exchanges + 1 /\ toNode' = toNode
      BY <1>7 DEF Outbound
    <2>2. exchanges' \in Nat
      BY <2>1 DEF HistType
    <2> DEFINE e == Event("outbound", exchanges')
    <2>3. e \in Messages /\ e.id = 0 /\ fromNode' = Append(fromNode, e)
      BY <1>e, <2>1, <2>2
    <2> HIDE DEF e
    <2>4. From
      <3>1. \A i \in 1..Len(fromNode') :
               \/ i \in 1..Len(fromNode) /\ fromNode'[i] = fromNode[i]
               \/ fromNode'[i] = e
        <4>1. \A i \in 1..Len(Append(fromNode, e)) :
                 \/ i \in 1..Len(fromNode) /\ Append(fromNode, e)[i] = fromNode[i]
                 \/ Append(fromNode, e)[i] = e
          BY <2>3, AppendParts DEF SockType
        <4> QED BY <2>3, <4>1
      <3> QED BY <2>3, <3>1, Zenon
    <2> QED BY <1>c, <2>1, <2>4
  <1>8. CASE BackendRestarts
    <2>1. fromNode' = fromNode /\ (toNode' = toNode \/ toNode' = <<>>)
      BY <1>8 DEF BackendRestarts
    <2> QED BY <2>1, <1>a, <1>c, <1>d
  <1>9. CASE UNCHANGED <<toNode, fromNode>>
    BY <1>9, <1>a, <1>c
  <1>10. Interrupt \/ Resolve \/ Enable \/ LookFinds \/ LookTimesOut \/ Dial
           \/ CallCheck \/ CallReturns \/ WaitPing \/ Abort \/ StopRecording
           \/ PumpCheck \/ PumpFails \/ PumpReturns \/ Handle \/ Watch
           \/ OpenInspector \/ ToolStarts \/ UNCHANGED vars
           => UNCHANGED <<toNode, fromNode>>
    BY DEF Interrupt, Resolve, Enable, LookFinds, LookTimesOut, Dial,
           CallCheck, CallReturns, WaitPing, Abort, StopRecording, PumpCheck,
           PumpFails, PumpReturns, Handle, Watch, OpenInspector, ToolStarts, sockVars, vars
  <1> HIDE DEF From, To
  <1> QED BY <1>1, <1>2, <1>3, <1>4, <1>5, <1>6, <1>7, <1>8, <1>9, <1>10, NextCases
----------------------------------------------------------------------------
(*                             Calls and setup                             *)

(* Identities of calls: none on the socket is above the last one given     *)
(* out; the call main is about to send has one that is not there yet; an   *)
(* answer main waits for belongs to the call of the present stage, and     *)
(* between calls nobody waits.                                             *)
IdsBounded ==
    /\ \A i \in 1..Len(toNode) : toNode[i].id <= nextID
    /\ \A i \in 1..Len(fromNode) : fromNode[i].id <= nextID

SendInv ==
    main = "send" =>
        /\ waiting = nextID /\ nextID > 0 /\ answer = NoMsg
        /\ \A i \in 1..Len(toNode) : toNode[i].id < nextID
        /\ \A i \in 1..Len(fromNode) : fromNode[i].id < nextID

WaitInv ==
    main = "wait" =>
        /\ waiting = nextID /\ nextID > 0
        /\ answer # NoMsg => answer.id = waiting
        /\ \A i \in 1..Len(toNode) :
              toNode[i].id = nextID => toNode[i].method = Stages[stage]

BetweenCalls ==
    main \in Finding \cup {"call", "ping"} => answer = NoMsg /\ waiting = 0

CallInv == IdsBounded /\ SendInv /\ WaitInv /\ BetweenCalls

(* What is typed on the socket, entry by entry.                            *)
LEMMA SocketTyped ==
    ASSUME SockType
    PROVE  /\ \A i \in 1..Len(toNode) :
                 toNode[i].id \in Nat /\ toNode[i].method \in StageNames
           /\ \A i \in 1..Len(fromNode) :
                 fromNode[i] \in Messages /\ fromNode[i].id \in Nat
  <1> DEFINE Calls == [id : Nat, method : StageNames]
  <1>1. toNode \in Seq(Calls) /\ fromNode \in Seq(Messages)
    BY DEF SockType
  <1>2. \A c \in Calls : c.id \in Nat /\ c.method \in StageNames
    OBVIOUS
  <1> HIDE DEF Calls
  <1>3. /\ \A i \in 1..Len(toNode) : toNode[i] \in Calls
        /\ \A i \in 1..Len(fromNode) : fromNode[i] \in Messages
    BY <1>1, ElementOfSeq
  <1> QED BY <1>2, <1>3, MessageFields, Zenon

(* The same after a step.                                                  *)
LEMMA SocketTypedNext ==
    SockType' => /\ \A i \in 1..Len(toNode') :
                        toNode'[i].id \in Nat /\ toNode'[i].method \in StageNames
                 /\ \A i \in 1..Len(fromNode') :
                        fromNode'[i] \in Messages /\ fromNode'[i].id \in Nat
  <1> DEFINE Entries ==
               /\ \A i \in 1..Len(toNode) :
                     toNode[i].id \in Nat /\ toNode[i].method \in StageNames
               /\ \A i \in 1..Len(fromNode) :
                     fromNode[i] \in Messages /\ fromNode[i].id \in Nat
  <1>1. SockType => Entries
    BY SocketTyped
  <1> HIDE DEF Entries
  <1>2. SockType' => Entries'
    BY <1>1, PTL
  <1> QED BY <1>2 DEF Entries

(* The identity and the value of the answer to the first call.             *)
LEMMA FirstAnswerIs ==
    ASSUME SockType, 1 \in 1..Len(toNode)
    PROVE  /\ FirstAnswer \in Messages /\ FirstAnswer.id = toNode[1].id
           /\ FirstAnswer.kind = "answer" /\ FirstAnswer.number = 0
           /\ FirstAnswer.value = AnswerValue(toNode[1].method)
           /\ toNode[1].id \in Nat
  <1>1. toNode[1].id \in Nat /\ AnswerValue(toNode[1].method) \in BOOLEAN
    BY SocketTyped, AnswerBoolean
  <1> QED BY <1>1, MessagesTyped DEF FirstAnswer

(* Any bound on the identities that are there also holds after a step, for *)
(* all but the call that is sent.                                          *)
LEMMA IdsKept ==
    ASSUME SockType, NodeType, CallType, HistType, [Next]_vars, NEW n \in Nat,
           \A i \in 1..Len(toNode) : toNode[i].id <= n,
           \A i \in 1..Len(fromNode) : fromNode[i].id <= n
    PROVE  /\ \A i \in 1..Len(fromNode') : fromNode'[i].id <= n
           /\ \A i \in 1..Len(toNode') :
                 \/ toNode'[i].id <= n
                 \/ /\ CallSend /\ main = "send" /\ main' = "wait"
                    /\ toNode'[i] = [id |-> waiting, method |-> Stages[stage]]
  <1>1. 1 \in 1..Len(toNode) => FirstAnswer.id <= n
    BY FirstAnswerIs
  <1>2. ASSUME NEW i \in 1..Len(fromNode') PROVE fromNode'[i].id <= n
    <2>1. CASE \E j \in 1..Len(fromNode) : fromNode'[i] = fromNode[j]
      BY <2>1
    <2>2. CASE fromNode'[i].id = 0
      BY <2>2
    <2>3. CASE 1 \in 1..Len(toNode) /\ fromNode'[i] = FirstAnswer
      BY <1>1, <2>3
    <2> QED BY <2>1, <2>2, <2>3, SocketEffect
  <1>3. ASSUME NEW i \in 1..Len(toNode')
        PROVE  \/ toNode'[i].id <= n
               \/ /\ CallSend /\ main = "send" /\ main' = "wait"
                  /\ toNode'[i] = [id |-> waiting, method |-> Stages[stage]]
    BY SocketEffect
  <1> QED BY <1>2, <1>3

(* Who may still be waited for, after a step that leaves main where it is. *)
LEMMA CallFrame ==
    ASSUME SockType, NodeType, CallType, HistType, CallInv, [Next]_vars,
           UNCHANGED <<main, stage, nextID, waiting, answer>>
    PROVE  CallInv'
  <1>1. nextID \in Nat
    BY DEF CallType
  <1>2. main = "send" => main' # "wait"
    OBVIOUS
  <1>3. IdsBounded'
    BY <1>1, <1>2, IdsKept DEF CallInv, IdsBounded
  <1>4. SendInv'
    <2> SUFFICES ASSUME main = "send" PROVE SendInv'
      BY DEF SendInv
    <2>1. /\ waiting = nextID /\ nextID > 0 /\ answer = NoMsg
          /\ \A i \in 1..Len(toNode) : toNode[i].id < nextID
          /\ \A i \in 1..Len(fromNode) : fromNode[i].id < nextID
      BY DEF CallInv, SendInv
    <2>2. nextID - 1 \in Nat
      BY <1>1, <2>1
    <2>3. /\ \A i \in 1..Len(toNode) : toNode[i].id <= nextID - 1
          /\ \A i \in 1..Len(fromNode) : fromNode[i].id <= nextID - 1
      BY <1>1, <2>1, SocketTyped
    <2>4. /\ \A i \in 1..Len(toNode') : toNode'[i].id <= nextID - 1
          /\ \A i \in 1..Len(fromNode') : fromNode'[i].id <= nextID - 1
      BY <1>2, <2>2, <2>3, IdsKept
    <2>5. SockType'
      BY SockStep
    <2>6. /\ \A i \in 1..Len(toNode') : toNode'[i].id \in Nat
          /\ \A i \in 1..Len(fromNode') : fromNode'[i].id \in Nat
      BY <2>5, SocketTypedNext
    <2>7. /\ \A i \in 1..Len(toNode') : toNode'[i].id < nextID
          /\ \A i \in 1..Len(fromNode') : fromNode'[i].id < nextID
      BY <1>1, <2>4, <2>6
    <2> QED BY <2>1, <2>7 DEF SendInv
  <1>5. WaitInv'
    <2>1. \A i \in 1..Len(toNode') : \E j \in 1..Len(toNode) : toNode'[i] = toNode[j]
      BY <1>2, SocketEffect
    <2> QED BY <2>1 DEF CallInv, WaitInv
  <1>6. BetweenCalls'
    BY DEF CallInv, BetweenCalls
  <1> QED BY <1>3, <1>4, <1>5, <1>6 DEF CallInv

(* Every step keeps the identities straight.                               *)
LEMMA CallInvStep ==
    ASSUME SockType, NodeType, CallType, HistType, CallInv, [Next]_vars
    PROVE  CallInv'
  <1>0. nextID \in Nat
    BY DEF CallType
  <1>1. CASE Resolve \/ Enable \/ LookFinds \/ LookTimesOut \/ Dial
    <2>1. /\ main' \in Finding \cup {"call", "preload", "ended"}
          /\ main \in Finding
          /\ UNCHANGED <<toNode, fromNode, nextID, waiting, answer>>
      BY <1>1 DEF Resolve, Enable, LookFinds, LookTimesOut, NoInspector, Choose,
                  Goto, Finding, Dial, callVars, sockVars
    <2> QED BY <2>1 DEF CallInv, IdsBounded, SendInv, WaitInv, BetweenCalls,
                        Finding
  <1>2. CASE CallCheck
    <2>1. /\ main = "call" /\ UNCHANGED <<toNode, fromNode, answer>>
          /\ \/ main' = "abort" /\ UNCHANGED <<nextID, waiting>>
             \/ main' = "send" /\ nextID' = nextID + 1 /\ waiting' = nextID + 1
      BY <1>2 DEF CallCheck, Goto, sockVars
    <2>2. /\ \A i \in 1..Len(toNode) : toNode[i].id <= nextID /\ toNode[i].id \in Nat
          /\ \A i \in 1..Len(fromNode) :
                fromNode[i].id <= nextID /\ fromNode[i].id \in Nat
          /\ answer = NoMsg
      BY <2>1, SocketTyped DEF CallInv, IdsBounded, BetweenCalls
    <2>3. CASE main' = "abort" /\ UNCHANGED <<nextID, waiting>>
      BY <2>1, <2>2, <2>3 DEF CallInv, IdsBounded, SendInv, WaitInv,
                              BetweenCalls, Finding
    <2>4. CASE main' = "send" /\ nextID' = nextID + 1 /\ waiting' = nextID + 1
      <3>1. /\ \A i \in 1..Len(toNode) : toNode[i].id < nextID + 1
            /\ \A i \in 1..Len(fromNode) : fromNode[i].id < nextID + 1
            /\ nextID + 1 > 0
        BY <1>0, <2>2
      <3>2. /\ \A i \in 1..Len(toNode) : toNode[i].id <= nextID + 1
            /\ \A i \in 1..Len(fromNode) : fromNode[i].id <= nextID + 1
        BY <1>0, <2>2
      <3> QED BY <2>1, <2>2, <2>4, <3>1, <3>2
              DEF CallInv, IdsBounded, SendInv, WaitInv, BetweenCalls, Finding
    <2> QED BY <2>1, <2>3, <2>4
  <1>3. CASE CallSend
    <2>1. /\ main = "send" /\ main' \in {"crashed", "wait", "abort"}
          /\ UNCHANGED <<nextID, answer, stage>>
          /\ main' = "wait" => waiting' = waiting
      BY <1>3 DEF CallSend, Exit, Goto
    <2>2. /\ waiting = nextID /\ nextID > 0 /\ answer = NoMsg
          /\ \A i \in 1..Len(toNode) : toNode[i].id < nextID
          /\ \A i \in 1..Len(toNode) : toNode[i].id <= nextID
          /\ \A i \in 1..Len(fromNode) : fromNode[i].id <= nextID
      BY <2>1 DEF CallInv, SendInv, IdsBounded
    <2> DEFINE r == [id |-> waiting, method |-> Stages[stage]]
    <2>3. r.id = nextID /\ r.method = Stages[stage] /\ r.id <= nextID
      BY <1>0, <2>2
    <2> HIDE DEF r
    <2>4. IdsBounded'
      <3>1. /\ \A i \in 1..Len(fromNode') : fromNode'[i].id <= nextID
            /\ \A i \in 1..Len(toNode') : toNode'[i].id <= nextID \/ toNode'[i] = r
        BY <1>0, <2>2, IdsKept DEF r
      <3> QED BY <2>1, <2>3, <3>1 DEF IdsBounded
    <2>5. WaitInv'
      <3>1. \A i \in 1..Len(toNode') :
               (\E j \in 1..Len(toNode) : toNode'[i] = toNode[j]) \/ toNode'[i] = r
        BY SocketEffect DEF r
      <3>2. \A i \in 1..Len(toNode) : toNode[i].id # nextID
        BY <1>0, <2>2, SocketTyped
      <3> QED BY <2>1, <2>2, <2>3, <3>1, <3>2 DEF WaitInv
    <2> QED BY <2>1, <2>4, <2>5 DEF CallInv, SendInv, BetweenCalls, Finding
  <1>4. CASE CallReturns \/ WaitPing
    <2>1. /\ main' \in {"call", "ping", "attached", "abort"}
          /\ UNCHANGED <<toNode, fromNode, nextID>>
          /\ \/ waiting' = 0 /\ answer' = NoMsg
             \/ main = "ping" /\ UNCHANGED <<waiting, answer>>
      <3>1. CASE CallReturns
        <4>1. /\ waiting' = 0 /\ answer' = NoMsg
              /\ UNCHANGED <<toNode, fromNode, nextID>>
              /\ NextStage \/ main' = "abort"
          BY <3>1 DEF CallReturns, Goto, sockVars
        <4>2. NextStage => main' \in {"call", "ping", "attached"}
          BY DEF NextStage, Goto
        <4> QED BY <4>1, <4>2
      <3>2. CASE WaitPing
        BY <3>2 DEF WaitPing, Goto, callVars, sockVars
      <3> QED BY <1>4, <3>1, <3>2
    <2> QED BY <2>1 DEF CallInv, IdsBounded, SendInv, WaitInv, BetweenCalls,
                        Finding
  <1>5. CASE Record
    <2>1. /\ main' = "resolve" /\ waiting' = 0 /\ answer' = NoMsg
          /\ toNode' = <<>> /\ fromNode' = <<>>
      BY <1>5 DEF Record
    <2>2. /\ ~ \E i \in 1..Len(toNode') : TRUE
          /\ ~ \E i \in 1..Len(fromNode') : TRUE
      BY <2>1
    <2> QED BY <2>1, <2>2 DEF CallInv, IdsBounded, SendInv, WaitInv, BetweenCalls
  <1>6. CASE PumpReceive
    <2>1. /\ fromNode # <<>> /\ UNCHANGED <<main, stage, nextID, waiting>>
          /\ fromNode' = Tail(fromNode) /\ toNode' = toNode
          /\ answer' = IF Head(fromNode).id # 0 /\ Head(fromNode).id = waiting
                       THEN Head(fromNode) ELSE answer
      BY <1>6 DEF PumpReceive, setupVars
    <2>2. Head(fromNode) = fromNode[1] /\ 1 \in 1..Len(fromNode)
      BY <2>1, TailParts DEF SockType
    <2>3. CASE answer' = answer
      BY <2>1, <2>3, CallFrame
    <2>4. CASE answer' # answer
      <3>1. answer' = fromNode[1] /\ fromNode[1].id # 0 /\ fromNode[1].id = waiting
        BY <2>1, <2>2, <2>4
      <3>2. main \notin Finding \cup {"call", "ping"}
        BY <3>1 DEF CallInv, BetweenCalls
      <3>3. main # "send"
        BY <1>0, <2>2, <3>1, SocketTyped DEF CallInv, SendInv
      <3>4. WaitInv'
        BY <2>1, <3>1 DEF CallInv, WaitInv
      <3>5. IdsBounded'
        <4>1. main = "send" => main' # "wait"
          BY <3>3
        <4> QED BY <1>0, <2>1, <4>1, IdsKept DEF CallInv, IdsBounded
      <3> QED BY <2>1, <3>2, <3>3, <3>4, <3>5 DEF CallInv, SendInv, BetweenCalls
    <2> QED BY <2>3, <2>4
  <1>7. CASE Abort \/ StopRecording \/ Leave \/ PumpLoad
    <2>1. /\ UNCHANGED <<nextID, waiting, answer, stage>>
          /\ main' = main \/ main' \in {"preload", "close", "ended", "crashed"}
      BY <1>7 DEF Abort, StopRecording, Leave, PumpLoad, Exit, Goto, callVars
    <2>2. CASE main' = main
      BY <2>1, <2>2, CallFrame
    <2>3. CASE main' \in {"preload", "close", "ended", "crashed"}
      <3>1. IdsBounded'
        BY <1>0, <2>1, <2>3, IdsKept DEF CallInv, IdsBounded
      <3> QED BY <2>3, <3>1 DEF CallInv, SendInv, WaitInv, BetweenCalls, Finding
    <2> QED BY <2>1, <2>2, <2>3
  <1>8. Interrupt \/ PumpCheck \/ PumpFails \/ PumpReturns \/ Handle \/ Watch
          \/ CloseEnd \/ NodeAnswers \/ Inbound \/ Outbound \/ OpenInspector \/ ToolStarts
          \/ BackendRestarts \/ UNCHANGED vars
          => UNCHANGED <<main, stage, nextID, waiting, answer>>
    BY DEF Interrupt, PumpCheck, PumpFails, PumpReturns, Handle, Watch,
           CloseEnd, NodeAnswers, Inbound, Outbound, OpenInspector, ToolStarts,
           BackendRestarts, setupVars, callVars, vars
  <1>9. CASE UNCHANGED <<main, stage, nextID, waiting, answer>>
    BY <1>9, CallFrame
  <1> QED BY <1>1, <1>2, <1>3, <1>4, <1>5, <1>6, <1>7, <1>8, <1>9, NextCases

(* What the first k calls of setup put in force in the backend, as long as *)
(* it runs and the socket holds.                                           *)
Live == target = Backend /\ sock = "open"

InForce(k) ==
    /\ k >= 2 => bound
    /\ k >= 3 => network
    /\ k >= 4 => hooked > 0

Calling == {"call", "send", "wait"}

(* Every call before the present one took effect; the present one has if   *)
(* an answer that setup will accept is in its hands or on the socket.      *)
CallsDone == main \in Calling => InForce(stage - 1)

AnswerMeansDone ==
    main = "wait" =>
        /\ answer # NoMsg /\ ~Refused(answer) => InForce(stage)
        /\ \A i \in 1..Len(fromNode) :
              fromNode[i].id = nextID /\ ~Refused(fromNode[i]) => InForce(stage)

SetupDone == main \in {"ping", "attached"} => InForce(6)

SetupInv == Live => CallsDone /\ AnswerMeansDone /\ SetupDone

(* The answer Node gives to the call of the present stage tells the truth. *)
LEMMA AnswerTrue ==
    ASSUME SockType, CallType, NodeAnswers, target = Backend,
           1 \in 1..Len(toNode), toNode[1].method = Stages[stage],
           InForce(stage - 1), ~Refused(FirstAnswer)
    PROVE  InForce(stage)'
  <1>1. /\ bound' = (bound \/ Stages[stage] = "binding")
        /\ network' = (network \/ (Stages[stage] = "network" /\ "network" \in features))
        /\ hooked' = IF Stages[stage] = "hook" /\ "hook" \in features
                     THEN Subscribe ELSE hooked
        /\ stage' = stage
    <2>1. toNode # <<>> /\ Head(toNode) = toNode[1]
      BY DEF NodeAnswers, SockType
    <2>2. Head(toNode).method = Stages[stage]
      BY <2>1
    <2> QED BY <2>2 DEF NodeAnswers, setupVars
  <1>2. FirstAnswer.value = AnswerValue(Stages[stage])
    BY FirstAnswerIs
  <1>3. hooked \in Nat /\ Subscribe > 0 /\ stage \in 1..7
    BY DEF Subscribe, SockType, CallType
  <1>4. CASE stage = 1
    BY <1>1, <1>4 DEF InForce
  <1>5. CASE stage = 2
    <2>1. bound'
      BY <1>1, <1>5, StageList
    <2> QED BY <1>1, <1>5, <2>1 DEF InForce
  <1>6. CASE stage = 3
    <2>1. Stages[stage] = "network"
      BY <1>6, StageList
    <2>2. AnswerValue("network") = ("network" \in features)
      BY DEF AnswerValue
    <2>3. "network" \in features
      <3>1. FirstAnswer.value
        BY <2>1, Zenon DEF Refused
      <3>2. FirstAnswer.value = AnswerValue("network")
        BY <1>2, <2>1, Zenon
      <3> QED BY <3>1, <3>2, <2>2, Zenon
    <2>4. bound' /\ network'
      <3>1. bound
        BY <1>6 DEF InForce
      <3>2. bound'
        BY <1>1, <3>1, Zenon
      <3>3. network'
        BY <1>1, <2>1, <2>3, Zenon
      <3> QED BY <3>2, <3>3
    <2> QED BY <1>1, <1>6, <2>4 DEF InForce
  <1>7. CASE stage = 4
    <2>1. Stages[stage] = "hook"
      BY <1>7, StageList
    <2>2. AnswerValue("hook") = (target # Backend \/ "hook" \in features)
      BY DEF AnswerValue
    <2>3. "hook" \in features
      <3>1. FirstAnswer.value
        BY <2>1, Zenon DEF Refused
      <3>2. FirstAnswer.value = AnswerValue("hook")
        BY <1>2, <2>1, Zenon
      <3> QED BY <3>1, <3>2, <2>2, Zenon
    <2>4. bound' /\ network' /\ hooked' > 0
      <3>1. bound /\ network
        BY <1>7 DEF InForce
      <3>2. bound' /\ network'
        BY <1>1, <3>1, Zenon
      <3>3. hooked' = Subscribe
        BY <1>1, <2>1, <2>3
      <3> QED BY <1>3, <3>2, <3>3
    <2> QED BY <2>4 DEF InForce
  <1>8. CASE stage > 4
    <2>1. bound /\ network /\ hooked > 0
      BY <1>3, <1>8 DEF InForce
    <2>2. bound' /\ network' /\ hooked' > 0
      BY <1>1, <1>3, <2>1
    <2> QED BY <2>2 DEF InForce
  <1> QED BY <1>3, <1>4, <1>5, <1>6, <1>7, <1>8

(* What is in force for more calls is in force for fewer.                  *)
LEMMA InForceLess ==
    ASSUME NEW k \in Int, NEW l \in Int, l <= k, InForce(k)
    PROVE  InForce(l)
  BY DEF InForce

(* A step that takes nothing away and leaves main where it is, with no     *)
(* answer on its way that was not there.                                   *)
LEMMA SetupFrame ==
    ASSUME CallType, CallInv, SetupInv, 
           UNCHANGED <<main, stage, nextID, answer, target, sock, bound,
                       network, hooked>>,
           \A i \in 1..Len(fromNode') :
              \/ \E j \in 1..Len(fromNode) : fromNode'[i] = fromNode[j]
              \/ fromNode'[i].id = 0
    PROVE  SetupInv'
  <1> SUFFICES ASSUME Live' PROVE (CallsDone /\ AnswerMeansDone /\ SetupDone)'
    BY DEF SetupInv
  <1>1. Live /\ CallsDone /\ AnswerMeansDone /\ SetupDone
    BY DEF SetupInv, Live
  <1>2. CallsDone' /\ SetupDone'
    BY <1>1 DEF CallsDone, SetupDone, InForce
  <1>3. AnswerMeansDone'
    <2> SUFFICES ASSUME main = "wait" PROVE AnswerMeansDone'
      BY DEF AnswerMeansDone
    <2>1. nextID # 0
      BY DEF CallInv, WaitInv, CallType
    <2>2. answer # NoMsg /\ ~Refused(answer) => InForce(stage)
      BY <1>1 DEF AnswerMeansDone
    <2>3. ASSUME NEW i \in 1..Len(fromNode'), fromNode'[i].id = nextID,
                 ~Refused(fromNode'[i])
          PROVE  InForce(stage)
      BY <1>1, <2>1, <2>3 DEF AnswerMeansDone
    <2> QED BY <2>2, <2>3 DEF AnswerMeansDone, InForce, Refused
  <1> QED BY <1>2, <1>3

(* Nothing setup has put in force is lost while the backend runs and the   *)
(* socket holds, and setup goes on only with the truth in its hands.       *)
LEMMA SetupInvStep ==
    ASSUME SockType, NodeType, CallType, HistType, StageInv, CallInv, SetupInv,
           [Next]_vars
    PROVE  SetupInv'
  <1>0. stage \in 1..7 /\ nextID \in Nat
    BY DEF CallType
  <1>1. CASE Record \/ BackendRestarts
    <2>1. target' # Backend
      BY <1>1 DEF Record, BackendRestarts, Backend, Nobody
    <2> QED BY <2>1 DEF SetupInv, Live
  <1>2. CASE CloseEnd \/ Leave
    <2>1. sock' = "closed"
      BY <1>2 DEF CloseEnd, Leave, Exit
    <2> QED BY <2>1 DEF SetupInv, Live
  <1>3. CASE Resolve \/ Enable \/ LookFinds \/ LookTimesOut \/ Abort \/ StopRecording
    <2>1. main' \in Finding \cup {"preload", "ended", "close"}
      BY <1>3 DEF Resolve, Enable, LookFinds, LookTimesOut, NoInspector, Choose,
                  Abort, StopRecording, Goto, Finding
    <2> QED BY <2>1 DEF SetupInv, CallsDone, AnswerMeansDone, SetupDone,
                        Calling, Finding
  <1>4. CASE Dial
    <2>1. main = "dial" /\ stage' = stage /\ main' \in {"call", "preload", "ended"}
      BY <1>4 DEF Dial, Goto
    <2>2. stage' = 1
      BY <2>1 DEF StageInv, Finding
    <2>3. InForce(stage - 1)'
      BY <2>2 DEF InForce
    <2> QED BY <2>1, <2>3 DEF SetupInv, CallsDone, AnswerMeansDone, SetupDone
  <1>5. CASE CallCheck
    <2>1. /\ main = "call" /\ main' \in {"send", "abort"}
          /\ UNCHANGED <<stage, target, sock, bound, network, hooked>>
      BY <1>5 DEF CallCheck, Goto, sockVars, enabledVars, nodeVars
    <2>2. Live' => InForce(stage - 1)
      BY <2>1 DEF SetupInv, Live, CallsDone, Calling
    <2> QED BY <2>1, <2>2 DEF SetupInv, CallsDone, AnswerMeansDone, SetupDone,
                              InForce
  <1>6. CASE CallSend
    <2>1. \/ sock' = "closed"
          \/ /\ main = "send" /\ main' \in {"wait", "abort"}
             /\ UNCHANGED <<stage, target, sock, bound, network, hooked, answer,
                            nextID, fromNode>>
      BY <1>6 DEF CallSend, Exit, Goto, sockVars, enabledVars, nodeVars
    <2>2. CASE sock' = "closed"
      BY <2>2 DEF SetupInv, Live
    <2>3. CASE /\ main = "send" /\ main' \in {"wait", "abort"}
               /\ UNCHANGED <<stage, target, sock, bound, network, hooked,
                              answer, nextID, fromNode>>
      <3>1. Live' => InForce(stage - 1)
        BY <2>3 DEF SetupInv, Live, CallsDone, Calling
      <3>2. /\ answer = NoMsg
            /\ \A i \in 1..Len(fromNode) : fromNode[i].id # nextID
        BY <1>0, <2>3, SocketTyped DEF CallInv, SendInv
      <3>3. AnswerMeansDone'
        BY <2>3, <3>2 DEF AnswerMeansDone
      <3>4. Live' => CallsDone'
        BY <2>3, <3>1 DEF CallsDone, InForce
      <3> QED BY <2>3, <3>3, <3>4 DEF SetupInv, SetupDone
    <2> QED BY <2>1, <2>2, <2>3
  <1>7. CASE CallReturns
    <2>1. /\ main = "wait"
          /\ UNCHANGED <<target, sock, bound, network, hooked>>
          /\ main' = "abort" \/ (answer # NoMsg /\ ~Refused(answer) /\ NextStage)
      BY <1>7 DEF CallReturns, Goto, sockVars, enabledVars, nodeVars
    <2>2. CASE main' = "abort"
      BY <2>2 DEF SetupInv, CallsDone, AnswerMeansDone, SetupDone, Calling
    <2>3. CASE answer # NoMsg /\ ~Refused(answer) /\ NextStage
      <3> SUFFICES ASSUME Live' PROVE (CallsDone /\ AnswerMeansDone /\ SetupDone)'
        BY DEF SetupInv
      <3>1. InForce(stage)
        BY <2>1, <2>3 DEF SetupInv, Live, AnswerMeansDone
      <3>2. \/ main' = "ping" /\ Stages[stage] = "ping"
            \/ main' = "attached" /\ Stages[stage] = "preload"
            \/ main' = "call" /\ stage' = stage + 1
        BY <2>3 DEF NextStage, Goto
      <3>3. (Stages[stage] = "ping" => stage = 6)
            /\ (Stages[stage] = "preload" => stage = 7)
        BY <1>0, StageNumber
      <3>4. CASE main' = "call" /\ stage' = stage + 1
        <4>1. stage' - 1 = stage
          BY <1>0, <3>4
        <4>2. InForce(stage - 1)'
          BY <2>1, <3>1, <4>1 DEF InForce
        <4> QED BY <3>4, <4>2 DEF CallsDone, AnswerMeansDone, SetupDone
      <3>5. CASE main' \in {"ping", "attached"} /\ stage >= 6
        <4>1. InForce(6)
          BY <1>0, <3>1, <3>5, InForceLess
        <4>2. InForce(6)'
          BY <2>1, <4>1 DEF InForce
        <4> QED BY <3>5, <4>2 DEF CallsDone, AnswerMeansDone, SetupDone, Calling
      <3> QED BY <1>0, <3>2, <3>3, <3>4, <3>5
    <2> QED BY <2>1, <2>2, <2>3
  <1>8. CASE WaitPing
    <2>1. /\ main = "ping" /\ main' \in {"call", "attached", "abort"}
          /\ main' = "call" => stage' = stage + 1
          /\ UNCHANGED <<target, sock, bound, network, hooked>>
      BY <1>8 DEF WaitPing, Goto, sockVars, enabledVars, nodeVars
    <2> SUFFICES ASSUME Live' PROVE (CallsDone /\ AnswerMeansDone /\ SetupDone)'
      BY DEF SetupInv
    <2>2. InForce(6)
      BY <2>1 DEF SetupInv, Live, SetupDone
    <2>3. main' = "call" => stage' = 7
      BY <2>1 DEF StageInv
    <2>4. /\ InForce(6)'
          /\ main' = "call" => InForce(stage - 1)'
      BY <2>1, <2>2, <2>3 DEF InForce
    <2> QED BY <2>1, <2>4 DEF CallsDone, AnswerMeansDone, SetupDone, Calling
  <1>9. CASE PumpLoad
    <2>1. \/ sock' = "closed"
          \/ UNCHANGED <<main, stage, nextID, answer, target, sock, bound,
                         network, hooked, fromNode>>
      BY <1>9 DEF PumpLoad, Exit, sockVars, enabledVars, nodeVars, callVars
    <2> QED BY <2>1, SetupFrame DEF SetupInv, Live
  <1>10. CASE PumpReceive
    <2>1. /\ fromNode # <<>> /\ fromNode' = Tail(fromNode)
          /\ UNCHANGED <<main, stage, nextID, waiting, target, sock, bound,
                         network, hooked>>
          /\ answer' = IF Head(fromNode).id # 0 /\ Head(fromNode).id = waiting
                       THEN Head(fromNode) ELSE answer
      BY <1>10 DEF PumpReceive, setupVars, enabledVars, nodeVars
    <2>2. Head(fromNode) = fromNode[1] /\ 1 \in 1..Len(fromNode)
      BY <2>1, TailParts DEF SockType
    <2>3. \A i \in 1..Len(fromNode') :
             \E j \in 1..Len(fromNode) : fromNode'[i] = fromNode[j]
      <3>1. \A i \in 1..Len(fromNode') :
               fromNode'[i] = fromNode[i + 1] /\ i + 1 \in 1..Len(fromNode)
        BY <2>1, TailParts, Zenon DEF SockType
      <3> QED BY <3>1, Zenon
    <2>4. CASE answer' = answer
      BY <2>1, <2>3, <2>4, SetupFrame
    <2>5. CASE answer' # answer
      <3> SUFFICES ASSUME Live' PROVE (CallsDone /\ AnswerMeansDone /\ SetupDone)'
        BY DEF SetupInv
      <3>1. answer' = fromNode[1] /\ fromNode[1].id = waiting
        BY <2>1, <2>2, <2>5
      <3>2. CallsDone /\ AnswerMeansDone /\ SetupDone
        BY <2>1 DEF SetupInv, Live
      <3>3. CallsDone' /\ SetupDone'
        BY <2>1, <3>2 DEF CallsDone, SetupDone, InForce
      <3>4. ASSUME main = "wait" PROVE AnswerMeansDone'
        <4>1. waiting = nextID
          BY <3>4 DEF CallInv, WaitInv
        <4>2. ~Refused(fromNode[1]) => InForce(stage)
          BY <2>2, <3>1, <3>2, <3>4, <4>1 DEF AnswerMeansDone
        <4>3. \A i \in 1..Len(fromNode') :
                fromNode'[i].id = nextID /\ ~Refused(fromNode'[i]) => InForce(stage)
          BY <2>3, <3>2, <3>4 DEF AnswerMeansDone
        <4> QED BY <2>1, <3>1, <4>2, <4>3 DEF AnswerMeansDone, InForce, Refused
      <3>5. main # "wait" => AnswerMeansDone'
        BY <2>1 DEF AnswerMeansDone
      <3> QED BY <3>3, <3>4, <3>5
    <2> QED BY <2>4, <2>5
  <1>11. CASE NodeAnswers
    <2>1. /\ UNCHANGED <<main, stage, nextID, waiting, answer, target, sock>>
          /\ bound => bound'
          /\ network => network'
          /\ hooked' \in {hooked, Subscribe}
      BY <1>11 DEF NodeAnswers, setupVars, callVars
    <2>2. hooked > 0 => hooked' > 0
      BY <2>1 DEF Subscribe, SockType
    <2>3. \A k \in Int : InForce(k) =>
             /\ k >= 2 => bound'
             /\ k >= 3 => network'
             /\ k >= 4 => hooked' > 0
      BY <2>1, <2>2 DEF InForce
    <2> SUFFICES ASSUME Live' PROVE (CallsDone /\ AnswerMeansDone /\ SetupDone)'
      BY DEF SetupInv
    <2>4. CallsDone /\ AnswerMeansDone /\ SetupDone /\ target = Backend
      BY <2>1 DEF SetupInv, Live
    <2>5. CallsDone'
      <3>1. stage - 1 \in Int
        BY <1>0
      <3> QED BY <2>1, <2>3, <2>4, <3>1 DEF CallsDone, InForce
    <2>6. SetupDone'
      BY <2>1, <2>3, <2>4 DEF SetupDone, InForce
    <2>7. ASSUME main = "wait" PROVE AnswerMeansDone'
      <3>1. answer # NoMsg /\ ~Refused(answer) => InForce(stage)'
        BY <1>0, <2>1, <2>3, <2>4, <2>7 DEF AnswerMeansDone, InForce
      <3>2. ASSUME NEW i \in 1..Len(fromNode'), fromNode'[i].id = nextID,
                   ~Refused(fromNode'[i])
            PROVE  InForce(stage)'
        <4>1. nextID # 0
          BY <1>0, <2>7 DEF CallInv, WaitInv
        <4>2. CASE \E j \in 1..Len(fromNode) : fromNode'[i] = fromNode[j]
          <5>1. InForce(stage)
            BY <2>4, <2>7, <3>2, <4>2 DEF AnswerMeansDone
          <5> QED BY <1>0, <2>1, <2>3, <5>1 DEF InForce
        <4>3. CASE 1 \in 1..Len(toNode) /\ fromNode'[i] = FirstAnswer
          <5>1. toNode[1].id = nextID
            BY <3>2, <4>3, FirstAnswerIs
          <5>2. toNode[1].method = Stages[stage]
            BY <2>7, <4>3, <5>1 DEF CallInv, WaitInv
          <5>3. InForce(stage - 1)
            BY <2>4, <2>7 DEF CallsDone, Calling
          <5> QED BY <1>11, <2>4, <3>2, <4>3, <5>2, <5>3, AnswerTrue
        <4> QED BY <3>2, <4>1, <4>2, <4>3, SocketEffect
      <3> QED BY <2>1, <3>1, <3>2 DEF AnswerMeansDone, Refused
    <2>8. main # "wait" => AnswerMeansDone'
      BY <2>1 DEF AnswerMeansDone
    <2> QED BY <2>5, <2>6, <2>7, <2>8
  <1>12. Interrupt \/ PumpCheck \/ PumpFails \/ PumpReturns \/ Handle \/ Watch
           \/ Inbound \/ Outbound \/ OpenInspector \/ ToolStarts \/ UNCHANGED vars
           => UNCHANGED <<main, stage, nextID, answer, target, sock, bound,
                          network, hooked>>
    BY DEF Interrupt, PumpCheck, PumpFails, PumpReturns, Handle, Watch,
           Inbound, Outbound, OpenInspector, ToolStarts, setupVars, callVars, nodeVars,
           enabledVars, sockVars, vars
  <1>13. CASE /\ ~NodeAnswers
              /\ UNCHANGED <<main, stage, nextID, answer, target, sock, bound,
                             network, hooked>>
    BY <1>13, SocketEffect, SetupFrame
  <1> QED BY <1>1, <1>2, <1>3, <1>4, <1>5, <1>6, <1>7, <1>8, <1>9, <1>10,
             <1>11, <1>12, <1>13, NextCases
----------------------------------------------------------------------------
(*                      What the tap delivers, and when                    *)

(* The messages of HTTP exchanges, numbered as Node saw them.              *)
Data == {"inbound", "outbound"}

(* An answer carries the identity of a call, an event carries none; n is   *)
(* how many exchanges there were.                                          *)
WellFormed(m, n) ==
    /\ m.kind \in Data \cup {"ping", "answer"}
    /\ m.id = 0 <=> m.kind # "answer"
    /\ m.kind \notin Data => m.number = 0
    /\ m.kind \in Data => m.number \in 1..n

SocketInv ==
    /\ \A i \in 1..Len(toNode) : toNode[i].id > 0
    /\ \A i \in 1..Len(fromNode) : WellFormed(fromNode[i], exchanges)

(* What the pump holds: a message only while it handles it, or when the    *)
(* process ended with it in hand.                                          *)
HandInv ==
    /\ pump \notin {"handle", "off"} => msg = NoMsg
    /\ main \in Finding => pump = "off" /\ msg = NoMsg
    /\ pump = "handle" => msg.kind \in Data \cup {"ping"}
    /\ msg.kind \notin Data => msg.number = 0
    /\ msg.kind \in Data => msg.number \in 1..exchanges

(* The server hook is in the backend once at most.                         *)
HookedOnce == hooked <= 1

(* Delivered, in hand, on the socket: the numbers go up.                   *)
TappedInv ==
    /\ \A i, j \in 1..Len(tapped) : i < j => tapped[i] < tapped[j]
    /\ \A i \in 1..Len(tapped) : tapped[i] \in 1..exchanges

HandOrder == msg.kind \in Data => \A j \in 1..Len(tapped) : tapped[j] < msg.number

SocketOrder ==
    \A i \in 1..Len(fromNode) : fromNode[i].kind \in Data =>
        /\ \A j \in 1..Len(tapped) : tapped[j] < fromNode[i].number
        /\ msg.number < fromNode[i].number
        /\ \A j \in 1..Len(fromNode) :
              i < j /\ fromNode[j].kind \in Data
                  => fromNode[i].number < fromNode[j].number

OrderInv == HookedOnce /\ TappedInv /\ HandOrder /\ SocketOrder

(* The socket keeps what it holds and gets more.                           *)
Grown ==
    /\ Len(fromNode) \in Nat /\ Len(fromNode') \in Nat
    /\ Len(fromNode) <= Len(fromNode')
    /\ \A i \in 1..Len(fromNode) :
          fromNode'[i] = fromNode[i] /\ i \in 1..Len(fromNode')

(* The ways a step changes what is on the way from Node.                   *)
LEMMA Arrivals ==
    ASSUME SockType, NodeType, CallType, HistType, HookedOnce, SocketInv,
           [Next]_vars
    PROVE  \/ fromNode' = fromNode /\ exchanges' = exchanges
           \/ fromNode' = <<>> /\ exchanges' = exchanges
           \/ PumpReceive
           \/ /\ NodeAnswers /\ Grown /\ exchanges' = exchanges
              /\ \A i \in 1..Len(fromNode') :
                    \/ i \in 1..Len(fromNode)
                    \/ /\ fromNode'[i].kind \notin Data
                       /\ \A n \in Nat : WellFormed(fromNode'[i], n)
           \/ /\ Inbound \/ Outbound
              /\ exchanges' = exchanges + 1 /\ fromNode' = fromNode
           \/ /\ Inbound \/ Outbound
              /\ Grown /\ exchanges' = exchanges + 1
              /\ Len(fromNode') = Len(fromNode) + 1
              /\ fromNode'[Len(fromNode')].number = exchanges'
              /\ fromNode'[Len(fromNode')].kind \in Data
              /\ fromNode'[Len(fromNode')].id = 0
  <1>0. /\ fromNode \in Seq(Messages) /\ exchanges \in Nat
        /\ \A n \in Nat : \A k \in Data :
              /\ Event(k, n) \in Messages /\ Event(k, n).number = n
              /\ Event(k, n).kind = k /\ Event(k, n).id = 0
    BY MessagesTyped DEF SockType, HistType, Data
  <1>1. CASE NodeAnswers
    <2>1. /\ Grown /\ 1 \in 1..Len(toNode)
          /\ \A i \in 1..Len(fromNode') :
                 \/ i \in 1..Len(fromNode)
                 \/ fromNode'[i] = Event("ping", 0)
                 \/ fromNode'[i] = FirstAnswer
      BY <1>1, AnswerEffect DEF FirstAnswer, Grown
    <2>2. exchanges' = exchanges
      BY <1>1 DEF NodeAnswers, boundVars
    <2>3. Event("ping", 0).kind \notin Data
          /\ \A n \in Nat : WellFormed(Event("ping", 0), n)
      BY DEF Event, WellFormed, Data
    <2>4. FirstAnswer.kind \notin Data /\ \A n \in Nat : WellFormed(FirstAnswer, n)
      <3>1. /\ FirstAnswer.id # 0 /\ FirstAnswer.kind = "answer"
            /\ FirstAnswer.number = 0
        BY <2>1, FirstAnswerIs DEF SocketInv
      <3> QED BY <3>1 DEF WellFormed, Data
    <2> QED BY <1>1, <2>1, <2>2, <2>3, <2>4, Zenon
  <1>2. CASE Inbound
    <2>1. /\ exchanges' = exchanges + 1
          /\ \/ fromNode' = fromNode
             \/ fromNode' = fromNode \o
                             [i \in 1..hooked |-> Event("inbound", exchanges')]
      BY <1>2 DEF Inbound
    <2>2. exchanges' \in Nat /\ hooked \in 0..1
      BY <1>0, <2>1 DEF HookedOnce, SockType
    <2> DEFINE t == [i \in 1..hooked |-> Event("inbound", exchanges')]
    <2>3. /\ t \in Seq(Messages) /\ Len(t) = hooked
          /\ \A i \in 1..hooked : t[i] = Event("inbound", exchanges')
      BY <1>0, <2>2 DEF Data
    <2> HIDE DEF t
    <2>4. ASSUME fromNode' = fromNode \o t
          PROVE  \/ fromNode' = fromNode
                 \/ /\ Grown /\ Len(fromNode') = Len(fromNode) + 1
                    /\ fromNode'[Len(fromNode')] = Event("inbound", exchanges')
      <3>1. /\ Len(fromNode') = Len(fromNode) + Len(t)
            /\ \A i \in 1..Len(fromNode) :
                  fromNode'[i] = fromNode[i] /\ i \in 1..Len(fromNode')
            /\ \A i \in 1..Len(fromNode') :
                 i \in 1..Len(fromNode) \/ \E j \in 1..Len(t) : fromNode'[i] = t[j]
            /\ fromNode' \in Seq(Messages)
        BY <1>0, <2>3, <2>4, ConcatParts
      <3>2. Len(fromNode) \in Nat
        BY <1>0
      <3>3. CASE hooked = 0
        <4>1. Len(fromNode') = Len(fromNode)
          BY <2>3, <3>1, <3>2, <3>3
        <4>2. fromNode' = fromNode
          BY <1>0, <3>1, <4>1, SeqEqual
        <4> QED BY <4>2
      <3>4. CASE hooked = 1
        <4>1. Len(fromNode') = Len(fromNode) + 1 /\ Len(fromNode') \in 1..Len(fromNode')
              /\ Len(fromNode') \notin 1..Len(fromNode)
          BY <2>3, <3>1, <3>2, <3>4
        <4>2. fromNode'[Len(fromNode')] = Event("inbound", exchanges')
          BY <2>3, <3>1, <4>1
        <4>3. Grown
          BY <3>1, <3>2, <4>1 DEF Grown
        <4> QED BY <4>1, <4>2, <4>3
      <3> QED BY <2>2, <3>3, <3>4
    <2>5. \/ fromNode' = fromNode
          \/ /\ Grown /\ Len(fromNode') = Len(fromNode) + 1
             /\ fromNode'[Len(fromNode')] = Event("inbound", exchanges')
      BY <2>1, <2>4 DEF t
    <2>6. /\ Event("inbound", exchanges').number = exchanges'
          /\ Event("inbound", exchanges').kind \in Data
          /\ Event("inbound", exchanges').id = 0
      BY <1>0, <2>2 DEF Data
    <2> QED BY <1>2, <2>1, <2>5, <2>6
  <1>3. CASE Outbound
    <2>1. /\ fromNode' = Append(fromNode, Event("outbound", exchanges'))
          /\ exchanges' = exchanges + 1
      BY <1>3 DEF Outbound
    <2>2. exchanges' \in Nat
      BY <1>0, <2>1
    <2> DEFINE e == Event("outbound", exchanges')
    <2>3. /\ e \in Messages /\ e.id = 0 /\ e.kind \in Data /\ e.number = exchanges'
          /\ fromNode' = Append(fromNode, e)
      BY <1>0, <2>1, <2>2 DEF Data
    <2> HIDE DEF e
    <2>4. /\ Len(fromNode) \in Nat /\ Len(fromNode') = Len(fromNode) + 1
          /\ \A i \in 1..Len(fromNode) : fromNode'[i] = fromNode[i]
          /\ fromNode'[Len(fromNode) + 1] = e
      BY <1>0, <2>3
    <2>5. Grown
      BY <2>4 DEF Grown
    <2>6. fromNode'[Len(fromNode')] = e
      BY <2>4
    <2> QED BY <1>3, <2>1, <2>3, <2>4, <2>5, <2>6
  <1>4. CASE CallSend \/ Leave \/ PumpLoad \/ CloseEnd \/ Record \/ BackendRestarts
    <2>1. /\ exchanges' = exchanges
          /\ fromNode' = fromNode \/ fromNode' = <<>>
      BY <1>4 DEF CallSend, Leave, PumpLoad, CloseEnd, Record, BackendRestarts,
                  Exit, sockVars, boundVars
    <2> QED BY <2>1
  <1>5. Interrupt \/ Resolve \/ Enable \/ LookFinds \/ LookTimesOut \/ Dial
           \/ CallCheck \/ CallReturns \/ WaitPing \/ Abort \/ StopRecording
           \/ PumpCheck \/ PumpFails \/ PumpReturns \/ Handle \/ Watch
           \/ OpenInspector \/ ToolStarts \/ UNCHANGED vars
           => UNCHANGED <<fromNode, exchanges>>
    BY DEF Interrupt, Resolve, Enable, LookFinds, LookTimesOut, Dial,
           CallCheck, CallReturns, WaitPing, Abort, StopRecording, PumpCheck,
           PumpFails, PumpReturns, Handle, Watch, OpenInspector, ToolStarts, sockVars,
           boundVars, vars
  <1> QED BY <1>1, <1>2, <1>3, <1>4, <1>5, NextCases

(* More exchanges leave a message well-formed.                             *)
LEMMA WellFormedMore ==
    ASSUME NEW m, NEW n \in Nat, NEW k \in Nat, n <= k, WellFormed(m, n)
    PROVE  WellFormed(m, k)
  BY DEF WellFormed

(* What the pump takes from the socket.                                    *)
LEMMA ReceiveEffect ==
    ASSUME SockType, PumpReceive
    PROVE  /\ pump = "receive" /\ 1 \in 1..Len(fromNode)
           /\ fromNode[1] \in Messages
           /\ Len(fromNode) \in Nat /\ Len(fromNode') = Len(fromNode) - 1
           /\ \A i \in 1..Len(fromNode') :
                 /\ fromNode'[i] = fromNode[i + 1] /\ i + 1 \in 1..Len(fromNode)
                 /\ 1 < i + 1
           /\ msg' = (IF fromNode[1].id = 0 THEN fromNode[1] ELSE NoMsg)
           /\ pump' = (IF fromNode[1].id = 0 THEN "handle" ELSE "check")
           /\ UNCHANGED <<main, closed, exchanges, tapped, due, hooked>>
  <1>1. /\ pump = "receive" /\ fromNode # <<>> /\ fromNode' = Tail(fromNode)
        /\ msg' = (IF Head(fromNode).id = 0 THEN Head(fromNode) ELSE NoMsg)
        /\ pump' = (IF Head(fromNode).id = 0 THEN "handle" ELSE "check")
        /\ UNCHANGED <<main, closed, exchanges, tapped, due, hooked>>
    BY DEF PumpReceive, setupVars, closeVars, boundVars, histVars, nodeVars
  <1>2. /\ Head(fromNode) = fromNode[1] /\ 1 \in 1..Len(fromNode)
        /\ fromNode[1] \in Messages
        /\ Len(fromNode) \in Nat /\ Len(fromNode') = Len(fromNode) - 1
        /\ \A i \in 1..Len(fromNode') :
              fromNode'[i] = fromNode[i + 1] /\ i + 1 \in 1..Len(fromNode)
    BY <1>1, TailParts, Zenon DEF SockType
  <1>3. \A i \in 1..Len(fromNode') : 1 < i + 1
    BY <1>2
  <1> QED BY <1>1, <1>2, <1>3

(* Answers and events stay apart on the socket.                            *)
LEMMA SocketInvStep ==
    ASSUME SockType, NodeType, CallType, HistType, CallInv, HookedOnce,
           SocketInv, [Next]_vars
    PROVE  SocketInv'
  <1>0. exchanges \in Nat
    BY DEF HistType
  <1>1. \A i \in 1..Len(toNode') : toNode'[i].id > 0
    <2>1. main = "send" => [id |-> waiting, method |-> Stages[stage]].id > 0
      BY DEF CallInv, SendInv
    <2> QED BY <2>1, SocketEffect DEF SocketInv
  <1> SUFFICES \A i \in 1..Len(fromNode') : WellFormed(fromNode'[i], exchanges')
    BY <1>1 DEF SocketInv
  <1>2. CASE fromNode' = fromNode /\ exchanges' = exchanges
    BY <1>2 DEF SocketInv
  <1>3. CASE fromNode' = <<>>
    <2>1. ~ \E i \in 1..Len(fromNode') : TRUE
      BY <1>3
    <2> QED BY <2>1
  <1>4. CASE PumpReceive
    BY <1>4, ReceiveEffect DEF SocketInv
  <1>5. CASE /\ NodeAnswers /\ Grown /\ exchanges' = exchanges
             /\ \A i \in 1..Len(fromNode') :
                   \/ i \in 1..Len(fromNode)
                   \/ /\ fromNode'[i].kind \notin Data
                      /\ \A n \in Nat : WellFormed(fromNode'[i], n)
    BY <1>0, <1>5, Zenon DEF SocketInv, Grown
  <1>6. CASE exchanges' = exchanges + 1 /\ fromNode' = fromNode
    <2>1. exchanges' \in Nat /\ exchanges <= exchanges'
      BY <1>0, <1>6
    <2> QED BY <1>0, <1>6, <2>1, WellFormedMore DEF SocketInv
  <1>7. CASE /\ Grown /\ exchanges' = exchanges + 1
             /\ Len(fromNode') = Len(fromNode) + 1
             /\ fromNode'[Len(fromNode')].number = exchanges'
             /\ fromNode'[Len(fromNode')].kind \in Data
             /\ fromNode'[Len(fromNode')].id = 0
    <2>1. exchanges' \in Nat /\ exchanges <= exchanges' /\ exchanges' \in 1..exchanges'
      BY <1>0, <1>7
    <2>2. WellFormed(fromNode'[Len(fromNode')], exchanges')
      BY <1>7, <2>1 DEF WellFormed, Data
    <2>3. \A i \in 1..Len(fromNode') : i \in 1..Len(fromNode) \/ i = Len(fromNode')
      BY <1>7 DEF Grown
    <2>4. \A i \in 1..Len(fromNode) : WellFormed(fromNode[i], exchanges')
      BY <1>0, <2>1, WellFormedMore DEF SocketInv
    <2> QED BY <1>7, <2>2, <2>3, <2>4, Zenon DEF Grown
  <1> QED BY <1>2, <1>3, <1>4, <1>5, <1>6, <1>7, Arrivals

(* The pump's hand is empty whenever it reads on.                          *)
LEMMA HandInvStep ==
    ASSUME SockType, PumpType, HistType, SocketInv, HandInv, [Next]_vars
    PROVE  HandInv'
  <1>0. NoMsg.kind \notin Data /\ NoMsg.number = 0 /\ exchanges \in Nat
    BY MessagesTyped DEF HistType, Data
  <1>1. CASE PumpReceive
    <2>1. /\ msg' = (IF fromNode[1].id = 0 THEN fromNode[1] ELSE NoMsg)
          /\ pump' = (IF fromNode[1].id = 0 THEN "handle" ELSE "check")
          /\ WellFormed(fromNode[1], exchanges)
          /\ main' = main /\ exchanges' = exchanges /\ pump = "receive"
      BY <1>1, ReceiveEffect DEF SocketInv
    <2>2. main \notin Finding
      BY <2>1 DEF HandInv
    <2>3. CASE fromNode[1].id = 0
      <3>1. msg' = fromNode[1] /\ pump' = "handle"
        BY <2>1, <2>3
      <3>2. /\ fromNode[1].kind \in Data \cup {"ping"}
            /\ fromNode[1].kind \notin Data => fromNode[1].number = 0
            /\ fromNode[1].kind \in Data => fromNode[1].number \in 1..exchanges
        BY <2>1, <2>3 DEF WellFormed
      <3> QED BY <2>1, <2>2, <3>1, <3>2 DEF HandInv
    <2>4. CASE fromNode[1].id # 0
      <3>1. msg' = NoMsg /\ pump' = "check"
        BY <2>1, <2>4
      <3> QED BY <1>0, <2>1, <2>2, <3>1 DEF HandInv
    <2> QED BY <2>3, <2>4
  <1>2. CASE Handle
    <2>1. /\ msg' = NoMsg /\ pump' = "check" /\ pump = "handle"
          /\ UNCHANGED <<main, exchanges>>
      BY <1>2 DEF Handle, setupVars, boundVars
    <2> QED BY <1>0, <2>1 DEF HandInv
  <1>3. CASE Record
    <2>1. msg' = NoMsg /\ pump' = "off"
      BY <1>3 DEF Record
    <2> QED BY <1>0, <2>1 DEF HandInv
  <1>4. CASE Inbound \/ Outbound
    <2>1. exchanges' = exchanges + 1 /\ UNCHANGED <<main, pump, msg>>
      BY <1>4 DEF Inbound, Outbound, setupVars, pumpVars
    <2>2. \A n \in 1..exchanges : n \in 1..exchanges'
      BY <1>0, <2>1
    <2> QED BY <2>1, <2>2 DEF HandInv
  <1>5. CASE Resolve \/ Enable \/ LookFinds \/ LookTimesOut \/ Dial
    <2>1. /\ main \in Finding /\ UNCHANGED <<msg, exchanges>>
          /\ pump' = pump \/ (pump' = "check" /\ main' = "call")
      BY <1>5 DEF Resolve, Enable, LookFinds, LookTimesOut, Dial, Goto, Finding,
                  pumpVars, boundVars
    <2>2. msg = NoMsg /\ pump = "off"
      BY <2>1 DEF HandInv
    <2> QED BY <1>0, <2>1, <2>2 DEF HandInv, Finding
  <1>6. CASE CallCheck \/ CallSend \/ CallReturns \/ WaitPing \/ Abort
               \/ StopRecording \/ Leave \/ PumpLoad
    <2>1. /\ main' \notin Finding \/ main' = main
          /\ UNCHANGED <<msg, exchanges>>
          /\ pump' = pump \/ pump' = "off" \/ (pump = "load" /\ pump' = "receive")
      <3>1. CallReturns => main' \in {"call", "ping", "attached", "abort"}
        BY DEF CallReturns, NextStage, Goto
      <3>2. CallReturns => UNCHANGED <<msg, exchanges, pump>>
        BY DEF CallReturns, pumpVars, boundVars
      <3>3. ~CallReturns => /\ main' \in {main, "abort", "send", "wait",
                                    "crashed", "call", "attached", "preload",
                                    "close", "ended"}
                            /\ UNCHANGED <<msg, exchanges>>
                            /\ \/ pump' = pump \/ pump' = "off"
                               \/ pump = "load" /\ pump' = "receive"
        BY <1>6 DEF CallCheck, CallSend, WaitPing, Abort, StopRecording, Leave,
                    PumpLoad, Exit, Goto, pumpVars, boundVars
      <3> QED BY <3>1, <3>2, <3>3 DEF Finding
    <2>2. main' \in Finding => pump' = "off"
      BY <2>1 DEF HandInv
    <2> QED BY <2>1, <2>2 DEF HandInv
  <1>7. CASE PumpCheck \/ PumpFails \/ PumpReturns
    <2>1. /\ UNCHANGED <<main, msg, exchanges>>
          /\ pump \in {"check", "receive", "close"}
          /\ pump' \in {"off", "load", "close"}
      BY <1>7 DEF PumpCheck, PumpFails, PumpReturns, setupVars, boundVars
    <2>2. msg = NoMsg /\ main \notin Finding
      BY <2>1 DEF HandInv
    <2> QED BY <1>0, <2>1, <2>2 DEF HandInv
  <1>8. CASE UNCHANGED <<main, pump, msg, exchanges>>
    BY <1>8 DEF HandInv
  <1>9. Interrupt \/ Watch \/ CloseEnd \/ NodeAnswers \/ OpenInspector \/ ToolStarts
          \/ BackendRestarts \/ UNCHANGED vars
          => UNCHANGED <<main, pump, msg, exchanges>>
    BY DEF Interrupt, Watch, CloseEnd, NodeAnswers, OpenInspector, ToolStarts,
           BackendRestarts, setupVars, pumpVars, boundVars, vars
  <1> QED BY <1>1, <1>2, <1>3, <1>4, <1>5, <1>6, <1>7, <1>8, <1>9, NextCases

(* Only Handle delivers, and only Handle, PumpReceive and a new recording  *)
(* change what the pump holds.                                             *)
LEMMA DeliveryFrame ==
    ASSUME [Next]_vars, ~Handle, ~PumpReceive, ~Record
    PROVE  UNCHANGED <<tapped, msg>>
  <1>1. \/ Interrupt \/ Resolve \/ Enable \/ LookFinds \/ LookTimesOut \/ Dial
        \/ CallCheck \/ CallSend \/ CallReturns \/ WaitPing \/ Abort
        \/ StopRecording \/ Leave \/ PumpCheck \/ PumpLoad \/ PumpFails
        \/ PumpReturns \/ Watch \/ CloseEnd \/ NodeAnswers \/ Inbound
        \/ Outbound \/ OpenInspector \/ ToolStarts \/ BackendRestarts \/ UNCHANGED vars
    BY NextCases
  <1> QED BY <1>1
          DEF Interrupt, Resolve, Enable, LookFinds, LookTimesOut, Dial,
              CallCheck, CallSend, CallReturns, WaitPing, Abort,
              StopRecording, Leave, PumpCheck, PumpLoad, PumpFails,
              PumpReturns, Watch, CloseEnd, NodeAnswers, Inbound, Outbound,
              OpenInspector, ToolStarts, BackendRestarts, pumpVars, histVars, vars

(* A backend gets the server hook once, however often it is asked.         *)
LEMMA HookedOnceStep ==
    ASSUME SockType, HookedOnce, [Next]_vars
    PROVE  HookedOnce'
  <1>1. CASE NodeAnswers
    <2>1. hooked' \in {hooked, Subscribe}
      BY <1>1 DEF NodeAnswers
    <2> QED BY <2>1 DEF HookedOnce, Subscribe, SockType
  <1>2. CASE BackendRestarts
    BY <1>2 DEF BackendRestarts, HookedOnce
  <1>3. CASE UNCHANGED hooked
    BY <1>3 DEF HookedOnce
  <1>4. Record \/ Interrupt \/ Resolve \/ Enable \/ LookFinds \/ LookTimesOut
          \/ Dial \/ CallCheck \/ CallSend \/ CallReturns \/ WaitPing \/ Abort
          \/ StopRecording \/ Leave \/ PumpCheck \/ PumpLoad \/ PumpReceive
          \/ PumpFails \/ PumpReturns \/ Handle \/ Watch \/ CloseEnd
          \/ Inbound \/ Outbound \/ OpenInspector \/ ToolStarts \/ UNCHANGED vars
          => UNCHANGED hooked
    BY DEF Record, Interrupt, Resolve, Enable, LookFinds, LookTimesOut, Dial,
           CallCheck, CallSend, CallReturns, WaitPing, Abort, StopRecording,
           Leave, PumpCheck, PumpLoad, PumpReceive, PumpFails, PumpReturns,
           Handle, Watch, CloseEnd, Inbound, Outbound, OpenInspector, ToolStarts, nodeVars,
           vars
  <1> QED BY <1>1, <1>2, <1>3, <1>4, NextCases

(* The order holds on the socket, in the pump's hand and in what it has    *)
(* delivered.                                                              *)
LEMMA OrderInvStep ==
    ASSUME SockType, NodeType, CallType, PumpType, HistType, SocketInv, HandInv,
           OrderInv, [Next]_vars
    PROVE  OrderInv'
  <1>0. /\ exchanges \in Nat /\ tapped \in Seq(Nat) /\ msg.number \in Nat
        /\ Len(tapped) \in Nat
        /\ \A i \in 1..Len(tapped) : tapped[i] \in Nat
        /\ \A i \in 1..Len(fromNode) :
              fromNode[i] \in Messages /\ fromNode[i].number \in Nat
        /\ NoMsg.kind \notin Data /\ NoMsg.number = 0
    <2>1. exchanges \in Nat /\ tapped \in Seq(Nat)
      BY DEF HistType
    <2>2. Len(tapped) \in Nat /\ \A i \in 1..Len(tapped) : tapped[i] \in Nat
      BY <2>1
    <2>3. msg.number \in Nat
      BY MessageFields DEF PumpType
    <2>4. \A i \in 1..Len(fromNode) :
              fromNode[i] \in Messages /\ fromNode[i].number \in Nat
      BY SocketTyped, MessageFields
    <2> QED BY <2>1, <2>2, <2>3, <2>4, MessagesTyped DEF Data
  <1>1. HookedOnce'
    BY HookedOnceStep DEF OrderInv
  <1>2. CASE Handle
    <2>1. /\ pump = "handle" /\ msg' = NoMsg /\ UNCHANGED <<fromNode, exchanges>>
          /\ tapped' = IF msg.kind = "ping" THEN tapped
                       ELSE Append(tapped, msg.number)
      BY <1>2 DEF Handle, sockVars, boundVars
    <2>2. HandOrder'
      BY <1>0, <2>1 DEF HandOrder
    <2>a. \A i \in 1..Len(fromNode) : fromNode[i].kind \in Data =>
             0 < fromNode[i].number
      BY <1>0 DEF OrderInv, SocketOrder
    <2>3. CASE msg.kind = "ping"
      <3>1. tapped' = tapped
        BY <2>1, <2>3
      <3>2. TappedInv'
        BY <2>1, <3>1 DEF OrderInv, TappedInv
      <3>3. SocketOrder'
        BY <1>0, <2>1, <2>a, <3>1 DEF OrderInv, SocketOrder
      <3> QED BY <1>1, <2>2, <3>2, <3>3 DEF OrderInv
    <2>4. CASE msg.kind # "ping"
      <3> DEFINE n == msg.number
                 L == Len(tapped)
      <3>1. tapped' = Append(tapped, n) /\ msg.kind \in Data
        BY <2>1, <2>4 DEF HandInv
      <3>2. n \in 1..exchanges /\ \A j \in 1..L : tapped[j] < n
        BY <3>1 DEF HandInv, OrderInv, HandOrder
      <3>3. /\ Len(tapped') = L + 1 /\ tapped'[L + 1] = n
            /\ \A i \in 1..L : tapped'[i] = tapped[i]
        BY <1>0, <3>1
      <3>4. \A i \in 1..(L + 1) : i \in 1..L \/ i = L + 1
        BY <1>0
      <3>5. TappedInv'
        <4>1. ASSUME NEW i \in 1..(L + 1), NEW j \in 1..(L + 1), i < j
              PROVE  tapped'[i] < tapped'[j]
          <5>1. i \in 1..L
            BY <1>0, <4>1
          <5>2. CASE j \in 1..L
            BY <3>3, <4>1, <5>1, <5>2 DEF OrderInv, TappedInv
          <5>3. CASE j = L + 1
            BY <3>2, <3>3, <5>1, <5>3
          <5> QED BY <3>4, <5>2, <5>3
        <4>2. \A i \in 1..(L + 1) : tapped'[i] \in 1..exchanges
          BY <3>2, <3>3, <3>4 DEF OrderInv, TappedInv
        <4> QED BY <2>1, <3>3, <4>1, <4>2 DEF TappedInv
      <3>6. SocketOrder'
        <4>1. ASSUME NEW i \in 1..Len(fromNode), fromNode[i].kind \in Data
              PROVE  \A j \in 1..(L + 1) : tapped'[j] < fromNode[i].number
          BY <3>3, <3>4, <4>1 DEF OrderInv, SocketOrder
        <4> QED BY <1>0, <2>1, <2>a, <3>3, <4>1 DEF OrderInv, SocketOrder
      <3> QED BY <1>1, <2>2, <3>5, <3>6 DEF OrderInv
    <2> QED BY <2>3, <2>4
  <1>3. CASE PumpReceive
    <2>1. /\ pump = "receive" /\ 1 \in 1..Len(fromNode)
          /\ \A i \in 1..Len(fromNode') :
                 /\ fromNode'[i] = fromNode[i + 1] /\ i + 1 \in 1..Len(fromNode)
                 /\ 1 < i + 1
          /\ msg' = (IF fromNode[1].id = 0 THEN fromNode[1] ELSE NoMsg)
          /\ UNCHANGED <<exchanges, tapped>>
      BY <1>3, ReceiveEffect
    <2>2. TappedInv'
      BY <2>1 DEF OrderInv, TappedInv
    <2>3. HandOrder'
      BY <1>0, <2>1 DEF OrderInv, HandOrder, SocketOrder
    <2>4. msg = NoMsg
      BY <2>1 DEF HandInv
    <2>5. \A i \in 1..Len(fromNode) : 1 < i /\ fromNode[i].kind \in Data =>
             msg'.number < fromNode[i].number
      <3>1. msg' = NoMsg \/ (msg' = fromNode[1] /\ fromNode[1].kind \in Data)
            \/ msg'.number = 0
        BY <2>1 DEF SocketInv, WellFormed
      <3>2. CASE msg' = NoMsg \/ msg'.number = 0
        BY <1>0, <2>4, <3>2 DEF OrderInv, SocketOrder
      <3>3. CASE msg' = fromNode[1] /\ fromNode[1].kind \in Data
        BY <2>1, <3>3 DEF OrderInv, SocketOrder
      <3> QED BY <3>1, <3>2, <3>3
    <2>6. SocketOrder'
      <3> SUFFICES ASSUME NEW i \in 1..Len(fromNode'), fromNode'[i].kind \in Data
                   PROVE  /\ \A j \in 1..Len(tapped) : tapped[j] < fromNode'[i].number
                          /\ msg'.number < fromNode'[i].number
                          /\ \A j \in 1..Len(fromNode') :
                                i < j /\ fromNode'[j].kind \in Data
                                  => fromNode'[i].number < fromNode'[j].number
        BY <2>1 DEF SocketOrder
      <3>1. /\ fromNode'[i] = fromNode[i + 1] /\ i + 1 \in 1..Len(fromNode)
            /\ 1 < i + 1
        BY <2>1
      <3>2. /\ \A j \in 1..Len(tapped) : tapped[j] < fromNode'[i].number
            /\ msg'.number < fromNode'[i].number
        BY <2>5, <3>1 DEF OrderInv, SocketOrder
      <3>3. ASSUME NEW j \in 1..Len(fromNode'), i < j, fromNode'[j].kind \in Data
            PROVE  fromNode'[i].number < fromNode'[j].number
        <4>1. fromNode'[j] = fromNode[j + 1] /\ j + 1 \in 1..Len(fromNode)
          BY <2>1
        <4>2. i + 1 < j + 1
          BY <3>3
        <4> QED BY <3>1, <3>3, <4>1, <4>2 DEF OrderInv, SocketOrder
      <3> QED BY <3>2, <3>3
    <2> QED BY <1>1, <2>2, <2>3, <2>6 DEF OrderInv
  <1>4. CASE Record
    <2>1. msg' = NoMsg /\ tapped' = <<>> /\ fromNode' = <<>>
      BY <1>4 DEF Record
    <2>2. /\ ~ \E i \in 1..Len(tapped') : TRUE
          /\ ~ \E i \in 1..Len(fromNode') : TRUE
      BY <2>1
    <2> QED BY <1>0, <1>1, <2>1, <2>2 DEF OrderInv, TappedInv, HandOrder, SocketOrder
  <1>5. CASE ~Handle /\ ~PumpReceive /\ ~Record
    <2>1. UNCHANGED <<tapped, msg>>
      BY <1>5, DeliveryFrame
    <2>2. HandOrder'
      BY <2>1 DEF OrderInv, HandOrder
    <2>3. exchanges' \in {exchanges, exchanges + 1}
      BY <1>5, Arrivals DEF OrderInv
    <2>4. TappedInv'
      <3>1. \A n \in 1..exchanges : n \in 1..exchanges'
        BY <1>0, <2>3
      <3> QED BY <2>1, <3>1 DEF OrderInv, TappedInv
    <2>5. CASE fromNode' = fromNode
      BY <1>1, <2>1, <2>2, <2>4, <2>5 DEF OrderInv, SocketOrder
    <2>6. CASE fromNode' = <<>>
      <3>1. ~ \E i \in 1..Len(fromNode') : TRUE
        BY <2>6
      <3> QED BY <1>1, <2>2, <2>4, <3>1 DEF OrderInv, SocketOrder
    <2>7. CASE /\ Grown
               /\ \A i \in 1..Len(fromNode') :
                     i \in 1..Len(fromNode) \/ fromNode'[i].kind \notin Data
      <3>1. SocketOrder'
        BY <2>1, <2>7 DEF OrderInv, SocketOrder, Grown
      <3> QED BY <1>1, <2>2, <2>4, <3>1 DEF OrderInv
    <2>8. CASE /\ Grown /\ exchanges' = exchanges + 1
               /\ Len(fromNode') = Len(fromNode) + 1
               /\ fromNode'[Len(fromNode')].number = exchanges'
      <3> DEFINE L == Len(fromNode)
      <3>1. /\ L \in Nat /\ Len(fromNode') = L + 1
            /\ \A i \in 1..L : fromNode'[i] = fromNode[i]
            /\ fromNode'[L + 1].number = exchanges + 1
            /\ \A i \in 1..(L + 1) : i \in 1..L \/ i = L + 1
        BY <2>8 DEF Grown
      <3>2. /\ \A j \in 1..Len(tapped) : tapped[j] < exchanges + 1
            /\ msg.number < exchanges + 1
            /\ \A i \in 1..L : fromNode[i].kind \in Data =>
                  fromNode[i].number < exchanges + 1
        <4>1. \A n \in 1..exchanges : n < exchanges + 1
          BY <1>0
        <4>2. \A j \in 1..Len(tapped) : tapped[j] < exchanges + 1
          BY <4>1 DEF OrderInv, TappedInv
        <4>3. msg.number < exchanges + 1
          BY <1>0, <4>1 DEF HandInv
        <4>4. \A i \in 1..L : fromNode[i].kind \in Data =>
                  fromNode[i].number < exchanges + 1
          BY <4>1 DEF SocketInv, WellFormed
        <4> QED BY <4>2, <4>3, <4>4
      <3>3. ASSUME NEW i \in 1..(L + 1), fromNode'[i].kind \in Data
            PROVE  /\ \A j \in 1..Len(tapped) : tapped[j] < fromNode'[i].number
                   /\ msg.number < fromNode'[i].number
                   /\ \A j \in 1..(L + 1) : i < j /\ fromNode'[j].kind \in Data
                        => fromNode'[i].number < fromNode'[j].number
        <4>1. CASE i \in 1..L
          <5>1. fromNode'[i] = fromNode[i]
            BY <3>1, <4>1
          <5>2. /\ \A j \in 1..Len(tapped) : tapped[j] < fromNode'[i].number
                /\ msg.number < fromNode'[i].number
            BY <3>3, <4>1, <5>1 DEF OrderInv, SocketOrder
          <5>3. ASSUME NEW j \in 1..(L + 1), i < j, fromNode'[j].kind \in Data
                PROVE  fromNode'[i].number < fromNode'[j].number
            <6>1. CASE j \in 1..L
              BY <3>1, <3>3, <4>1, <5>1, <5>3, <6>1 DEF OrderInv, SocketOrder
            <6>2. CASE j = L + 1
              BY <3>1, <3>2, <3>3, <4>1, <5>1, <6>2
            <6> QED BY <3>1, <6>1, <6>2
          <5> QED BY <5>2, <5>3
        <4>2. CASE i = L + 1
          <5>1. \A j \in 1..(L + 1) : ~(i < j)
            BY <3>1, <4>2
          <5> QED BY <3>1, <3>2, <4>2, <5>1
        <4> QED BY <3>1, <4>1, <4>2
      <3>4. SocketOrder'
        BY <2>1, <3>1, <3>3 DEF SocketOrder
      <3> QED BY <1>1, <2>2, <2>4, <3>4 DEF OrderInv
    <2> QED BY <1>5, <2>5, <2>6, <2>7, <2>8, Arrivals DEF OrderInv
  <1> QED BY <1>2, <1>3, <1>4, <1>5

(* Until StartAttachTap has returned nothing is owed; from then on, while  *)
(* the session is open, what is owed is delivered, in hand or on the       *)
(* socket.                                                                 *)
Setting == Finding \cup Calling \cup {"ping"}

Held ==
    \A n \in due : \/ \E j \in 1..Len(tapped) : tapped[j] = n
                   \/ msg.number = n
                   \/ \E i \in 1..Len(fromNode) : fromNode[i].number = n

DueInv ==
    /\ main \in Setting => due = {}
    /\ 0 \notin due
    /\ closer # "none" => closed
    /\ ~closed /\ main = "attached" => Held

(* Held is what the property says, element by element.                     *)
LEMMA HeldCovers ==
    ASSUME HistType, SockType, Held
    PROVE  due \subseteq Range(tapped) \cup {msg.number}
                         \cup {fromNode[i].number : i \in DOMAIN fromNode}
  <1>1. DOMAIN tapped = 1..Len(tapped) /\ DOMAIN fromNode = 1..Len(fromNode)
    BY DEF HistType, SockType
  <1>2. ASSUME NEW n \in due
        PROVE  n \in Range(tapped) \cup {msg.number}
                       \cup {fromNode[i].number : i \in DOMAIN fromNode}
    <2>1. CASE \E j \in 1..Len(tapped) : tapped[j] = n
      BY <1>1, <2>1 DEF Range
    <2>2. CASE msg.number = n
      BY <2>2
    <2>3. CASE \E i \in 1..Len(fromNode) : fromNode[i].number = n
      BY <1>1, <2>3
    <2> QED BY <1>2, <2>1, <2>2, <2>3 DEF Held
  <1> QED BY <1>2

(* Where main may have come from, and who can undo a close.                *)
LEMMA MainMoves ==
    ASSUME [Next]_vars
    PROVE  /\ main' \in Setting => Record \/ main \in Setting
           /\ main' = "attached" => main \in {"attached", "wait", "ping"}
           /\ closed => closed' \/ Record
           /\ closer' # "none" => closed' \/ (closer' = closer /\ closed' = closed)
           /\ Record => main' = "resolve" /\ due' = {} /\ closer' = "none"
           /\ \/ due' = due \/ Record
              \/ /\ Inbound \/ Outbound
                 /\ main = "attached" /\ due' = due \cup {exchanges'}
  <1> USE DEF Setting, Finding, Calling
  <1>0. Record => main' = "resolve" /\ due' = {} /\ closer' = "none"
    BY DEF Record
  <1>1. CASE Record
    BY <1>0, <1>1
  <1>2. CASE Resolve \/ Enable \/ LookFinds \/ LookTimesOut \/ Dial \/ CallCheck
             \/ WaitPing
    <2>1. /\ main \in Setting
          /\ main' = "attached" => main = "ping"
          /\ UNCHANGED <<closed, closer, due>>
      BY <1>2 DEF Resolve, Enable, LookFinds, LookTimesOut, NoInspector, Choose,
                  Goto, Dial, CallCheck, WaitPing, closeVars, histVars
    <2> QED BY <1>0, <2>1
  <1>3. CASE CallReturns
    <2>1. main = "wait" /\ UNCHANGED <<closed, closer, due>>
      BY <1>3 DEF CallReturns, closeVars, histVars
    <2> QED BY <1>0, <2>1
  <1>4. CASE CallSend \/ Leave \/ PumpLoad
    <2>1. /\ main' = main \/ main' \in {"crashed", "ended"} \/ main = "send"
          /\ main' # "attached" \/ main' = main
          /\ UNCHANGED <<closed, due>> /\ closer' \in {closer, "none"}
      BY <1>4 DEF CallSend, Leave, PumpLoad, Exit, Goto, histVars
    <2> QED BY <1>0, <2>1
  <1>5. CASE Abort \/ StopRecording
    <2>1. /\ main' \in {"preload", "close"} /\ due' = due
          /\ (closed' = TRUE) \/ (closer' = closer /\ closed' = closed)
      BY <1>5 DEF Abort, StopRecording, CloseBegin, Goto, closeVars, histVars
    <2> QED BY <1>0, <2>1
  <1>6. CASE PumpFails \/ Watch
    <2>1. closed' = TRUE /\ UNCHANGED <<main, due>>
      BY <1>6 DEF PumpFails, Watch, CloseBegin, setupVars, histVars
    <2> QED BY <1>0, <2>1
  <1>7. CASE CloseEnd
    <2>1. closer' = "none" /\ UNCHANGED <<main, due, closed>>
      BY <1>7 DEF CloseEnd, setupVars, histVars
    <2> QED BY <1>0, <2>1
  <1>8. CASE Inbound \/ Outbound
    <2>1. /\ UNCHANGED <<main, closed, closer>>
          /\ due' = due \/ (main = "attached" /\ due' = due \cup {exchanges'})
      BY <1>8 DEF Inbound, Outbound, setupVars, closeVars
    <2> QED BY <1>0, <1>8, <2>1
  <1>9. CASE UNCHANGED <<main, closed, closer, due>>
    BY <1>0, <1>9
  <1>10. Interrupt \/ PumpCheck \/ PumpReceive \/ PumpReturns \/ Handle
           \/ NodeAnswers \/ OpenInspector \/ ToolStarts \/ BackendRestarts \/ UNCHANGED vars
           => UNCHANGED <<main, closed, closer, due>>
    BY DEF Interrupt, PumpCheck, PumpReceive, PumpReturns, Handle, NodeAnswers,
           OpenInspector, ToolStarts, BackendRestarts, setupVars, closeVars, histVars, vars
  <1> QED BY <1>1, <1>2, <1>3, <1>4, <1>5, <1>6, <1>7, <1>8, <1>9, <1>10,
             NextCases

(* While the tap is attached and its session open, what is owed moves from *)
(* the socket to the pump and from there to the sink, and is never dropped.*)
LEMMA HeldStep ==
    ASSUME SockType, NodeType, CallType, PumpType, HistType, SocketInv, HandInv,
           HookedOnce, AttachedMeansHooked, 0 \notin due,
           closer # "none" => closed, [Next]_vars,
           main = "attached", main' = "attached", ~closed, Held
    PROVE  Held'
  <1>0. exchanges \in Nat /\ tapped \in Seq(Nat) /\ fromNode \in Seq(Messages)
    BY DEF HistType, SockType
  <1>1. CASE Handle
    <2>1. /\ pump = "handle" /\ UNCHANGED <<fromNode, due>>
          /\ tapped' = IF msg.kind = "ping" THEN tapped
                       ELSE Append(tapped, msg.number)
      BY <1>1 DEF Handle, sockVars
    <2>2. CASE msg.kind = "ping"
      <3>1. msg.number = 0 /\ tapped' = tapped
        BY <2>1, <2>2 DEF HandInv, Data
      <3> QED BY <2>1, <3>1 DEF Held
    <2>3. CASE msg.kind # "ping"
      <3>1. msg.number \in Nat
        BY MessageFields DEF PumpType
      <3>2. tapped' = Append(tapped, msg.number)
        BY <2>1, <2>3
      <3>3. /\ \A j \in 1..Len(tapped) :
                  tapped'[j] = tapped[j] /\ j \in 1..Len(tapped')
            /\ Len(tapped) + 1 \in 1..Len(tapped')
            /\ tapped'[Len(tapped) + 1] = msg.number
        BY <1>0, <3>1, <3>2
      <3>4. ASSUME NEW n \in due
            PROVE  \/ \E j \in 1..Len(tapped') : tapped'[j] = n
                   \/ \E i \in 1..Len(fromNode) : fromNode[i].number = n
        BY <3>3, Zenon DEF Held
      <3> QED BY <2>1, <3>4 DEF Held
    <2> QED BY <2>2, <2>3
  <1>2. CASE PumpReceive
    <2>1. /\ pump = "receive" /\ 1 \in 1..Len(fromNode)
          /\ Len(fromNode) \in Nat /\ Len(fromNode') = Len(fromNode) - 1
          /\ \A i \in 1..Len(fromNode') :
                fromNode'[i] = fromNode[i + 1] /\ i + 1 \in 1..Len(fromNode)
          /\ msg' = (IF fromNode[1].id = 0 THEN fromNode[1] ELSE NoMsg)
          /\ UNCHANGED <<tapped, due>>
      BY <1>2, ReceiveEffect
    <2>2. msg.number = 0
      BY <2>1, MessagesTyped DEF HandInv
    <2>3. fromNode[1].number = msg'.number \/ fromNode[1].number = 0
      BY <2>1 DEF SocketInv, WellFormed, Data
    <2>4. \A i \in 1..Len(fromNode) :
             \/ i = 1
             \/ i - 1 \in 1..Len(fromNode') /\ fromNode'[i - 1] = fromNode[i]
      BY <2>1
    <2>5. ASSUME NEW n \in due
          PROVE  \/ \E j \in 1..Len(tapped) : tapped[j] = n
                 \/ msg'.number = n
                 \/ \E i \in 1..Len(fromNode') : fromNode'[i].number = n
      <3>1. n # 0
        BY <2>5
      <3>2. ASSUME NEW i \in 1..Len(fromNode), fromNode[i].number = n
            PROVE  msg'.number = n \/ \E k \in 1..Len(fromNode') : fromNode'[k].number = n
        <4>1. CASE i = 1
          BY <2>3, <3>1, <3>2, <4>1
        <4>2. CASE i - 1 \in 1..Len(fromNode') /\ fromNode'[i - 1] = fromNode[i]
          BY <3>2, <4>2
        <4> QED BY <2>4, <4>1, <4>2
      <3> QED BY <2>2, <3>1, <3>2 DEF Held
    <2> QED BY <2>1, <2>5 DEF Held
  <1>3. CASE NodeAnswers
    <2>1. Grown
      BY <1>3, AnswerEffect DEF Grown
    <2>2. UNCHANGED <<tapped, due, msg>>
      BY <1>3 DEF NodeAnswers, histVars, pumpVars
    <2> QED BY <2>1, <2>2 DEF Held, Grown
  <1>4. CASE Inbound \/ Outbound
    <2>1. /\ exchanges' = exchanges + 1 /\ UNCHANGED <<tapped, msg>>
          /\ due' \in {due, due \cup {exchanges'}}
      BY <1>4 DEF Inbound, Outbound, pumpVars
    <2>2. exchanges' # exchanges /\ exchanges' \in Nat
      BY <1>0, <2>1
    <2>3. ~PumpReceive /\ ~NodeAnswers
      BY <2>2, ReceiveEffect DEF NodeAnswers, boundVars
    <2>4. \/ fromNode' = fromNode
          \/ /\ Grown /\ Len(fromNode') = Len(fromNode) + 1
             /\ fromNode'[Len(fromNode')].number = exchanges'
      BY <2>2, <2>3, Arrivals
    <2>5. \A n \in due : \/ \E j \in 1..Len(tapped) : tapped[j] = n
                         \/ msg.number = n
                         \/ \E i \in 1..Len(fromNode') : fromNode'[i].number = n
      BY <2>4 DEF Held, Grown
    <2>6. CASE due' = due
      BY <2>1, <2>5, <2>6 DEF Held
    <2>7. CASE due' # due
      <3>1. fromNode' # fromNode
        <4>1. CASE Outbound
          <5>1. fromNode' = Append(fromNode, Event("outbound", exchanges'))
            BY <4>1 DEF Outbound
          <5>2. Event("outbound", exchanges') \in Messages
            BY <2>2, MessagesTyped
          <5> HIDE DEF Event
          <5>3. Len(fromNode') = Len(fromNode) + 1 /\ Len(fromNode) \in Nat
            BY <1>0, <5>1, <5>2, AppendParts, Zenon
          <5> QED BY <5>3
        <4>2. CASE Inbound
          <5>1. /\ target = Backend /\ bound /\ sock = "open"
                /\ fromNode' = fromNode \o
                             [i \in 1..hooked |-> Event("inbound", exchanges')]
            BY <2>7, <4>2 DEF Inbound
          <5>2. hooked \in Nat /\ hooked > 0
            BY <5>1 DEF AttachedMeansHooked, SockType
          <5> DEFINE t == [i \in 1..hooked |-> Event("inbound", exchanges')]
          <5>3. Event("inbound", exchanges') \in Messages
            BY <2>2, MessagesTyped
          <5>4. t \in Seq(Messages) /\ Len(t) = hooked /\ fromNode' = fromNode \o t
            BY <5>1, <5>2, <5>3
          <5> HIDE DEF t
          <5>5. Len(fromNode') = Len(fromNode) + Len(t) /\ Len(fromNode) \in Nat
            BY <1>0, <5>4, ConcatProperties
          <5> QED BY <5>2, <5>4, <5>5
        <4> QED BY <1>4, <4>1, <4>2
      <3>2. /\ Len(fromNode') \in 1..Len(fromNode')
            /\ fromNode'[Len(fromNode')].number = exchanges'
        BY <2>4, <3>1 DEF Grown
      <3>3. \E i \in 1..Len(fromNode') : fromNode'[i].number = exchanges'
        BY <3>2
      <3>4. due' = due \cup {exchanges'}
        BY <2>1, <2>7
      <3> QED BY <2>1, <2>5, <3>3, <3>4, Zenon DEF Held
    <2> QED BY <2>6, <2>7
  <1>5. CASE UNCHANGED <<tapped, msg, fromNode, due>>
    BY <1>5 DEF Held
  <1>6. ~Record /\ ~CloseEnd /\ ~Leave /\ ~CallSend
    BY DEF Record, CloseEnd, Leave, CallSend, Over
  <1>7. PumpLoad => UNCHANGED <<tapped, msg, fromNode, due>>
    BY DEF PumpLoad, Exit, sockVars, histVars
  <1>8. Interrupt \/ Resolve \/ Enable \/ LookFinds \/ LookTimesOut \/ Dial
           \/ CallCheck \/ CallReturns \/ WaitPing \/ Abort \/ StopRecording
           \/ PumpCheck \/ PumpFails \/ PumpReturns \/ Watch
           \/ OpenInspector \/ ToolStarts \/ BackendRestarts \/ UNCHANGED vars
           => UNCHANGED <<tapped, msg, fromNode, due>>
    BY DEF Interrupt, Resolve, Enable, LookFinds, LookTimesOut, Dial,
           CallCheck, CallReturns, WaitPing, Abort, StopRecording, PumpCheck,
           PumpFails, PumpReturns, Watch, OpenInspector, ToolStarts, BackendRestarts,
           sockVars, pumpVars, histVars, vars
  <1> QED BY <1>1, <1>2, <1>3, <1>4, <1>5, <1>6, <1>7, <1>8, NextCases

(* What is owed stays accounted for.                                       *)
LEMMA DueInvStep ==
    ASSUME SockType, NodeType, CallType, PumpType, HistType, SocketInv, HandInv,
           HookedOnce, AttachedMeansHooked, DueInv, [Next]_vars
    PROVE  DueInv'
  <1>1. main' \in Setting => due' = {}
    BY MainMoves DEF DueInv, Setting, Finding, Calling
  <1>2. 0 \notin due'
    <2>1. Inbound \/ Outbound => exchanges' # 0
      BY DEF Inbound, Outbound, HistType
    <2> QED BY <2>1, MainMoves DEF DueInv
  <1>3. closer' # "none" => closed'
    BY MainMoves DEF DueInv
  <1>4. ASSUME ~closed', main' = "attached" PROVE Held'
    <2>1. ~closed
      BY <1>4, MainMoves
    <2>2. CASE main = "attached"
      BY <1>4, <2>1, <2>2, HeldStep DEF DueInv
    <2>3. CASE main # "attached"
      <3>1. main \in Setting /\ ~Record
        BY <1>4, <2>3, MainMoves DEF Setting, Calling
      <3>2. due' = {}
        BY <2>3, <3>1, MainMoves DEF DueInv
      <3> QED BY <3>2 DEF Held
    <2> QED BY <2>2, <2>3
  <1> QED BY <1>1, <1>2, <1>3, <1>4 DEF DueInv
----------------------------------------------------------------------------
(* Who closes the session.  Before there is one, nobody; while nobody has  *)
(* stopped the recording and its setup has not failed, only the pump,      *)
(* which reads no connection after that.                                   *)
CloseInv ==
    /\ main \in Finding => ~closed /\ pump = "off" /\ watcher = "none"
    /\ ~closed => conn = "set" /\ closer = "none"
    /\ closed /\ ~interrupted /\ main \notin Over \cup {"preload", "close"} =>
          pump \in {"close", "off"}

(* Every step keeps it.                                                    *)
LEMMA CloseInvStep ==
    ASSUME CloseInv, [Next]_vars
    PROVE  CloseInv'
  <1> USE DEF CloseInv, Finding, Over
  <1>1. CASE Record
    BY <1>1 DEF Record
  <1>2. CASE Resolve \/ Enable \/ LookFinds \/ LookTimesOut
    <2>1. /\ main \in Finding
          /\ main' \in {"dial", "enable", "look", "preload", "ended"}
          /\ UNCHANGED <<interrupted, closed, conn, closer, pump, watcher>>
      BY <1>2 DEF Resolve, Enable, LookFinds, LookTimesOut, Choose, NoInspector,
                  Goto, closeVars, pumpVars
    <2> QED BY <2>1
  <1>3. CASE Dial
    <2>1. /\ main = "dial" /\ main' \in {"call", "preload", "ended"}
          /\ UNCHANGED <<interrupted, closed, conn, closer, watcher>>
      BY <1>3 DEF Dial, Goto, closeVars
    <2> QED BY <2>1
  <1>4. CASE CallCheck \/ CallReturns \/ WaitPing
    <2>1. /\ main \in {"call", "wait", "ping"}
          /\ main' \notin Finding
          /\ UNCHANGED <<interrupted, closed, conn, closer, pump>>
      BY <1>4 DEF CallCheck, CallReturns, WaitPing, NextStage, Goto, closeVars,
                  pumpVars
    <2> QED BY <2>1
  <1>5. CASE CallSend
    <2>1. /\ main = "send"
          /\ UNCHANGED <<interrupted, closed, conn>>
          /\ \/ main' = "crashed" /\ closer' = "none"
             \/ main' \in {"wait", "abort"} /\ UNCHANGED <<pump, closer>>
      BY <1>5 DEF CallSend, Exit, Goto
    <2> QED BY <2>1
  <1>6. CASE Abort \/ StopRecording
    <2>1. /\ main' \in {"preload", "close"}
          /\ closed' = TRUE \/ UNCHANGED <<closed, closer>>
          /\ UNCHANGED conn
      BY <1>6 DEF Abort, StopRecording, CloseBegin, Goto, closeVars
    <2> QED BY <2>1
  <1>7. CASE Leave
    BY <1>7 DEF Leave, Exit
  <1>8. CASE PumpLoad
    <2>1. /\ pump = "load" /\ UNCHANGED <<interrupted, closed, conn>>
          /\ \/ main' = "crashed" /\ closer' = "none"
             \/ pump' = "receive" /\ UNCHANGED <<main, closer>>
      BY <1>8 DEF PumpLoad, Exit
    <2> QED BY <2>1
  <1>9. CASE PumpCheck \/ PumpReceive \/ Handle
    <2>1. /\ pump \in {"check", "receive", "handle"}
          /\ UNCHANGED <<main, interrupted, closed, conn, closer>>
      BY <1>9 DEF PumpCheck, PumpReceive, Handle, setupVars, closeVars
    <2> QED BY <2>1
  <1>10. CASE PumpFails \/ PumpReturns
    <2>1. /\ pump \in {"receive", "close"} /\ pump' \in {"close", "off"}
          /\ closed' = TRUE \/ UNCHANGED <<closed, closer>>
          /\ UNCHANGED <<main, interrupted, conn>>
      BY <1>10 DEF PumpFails, PumpReturns, CloseBegin, setupVars, closeVars
    <2> QED BY <2>1
  <1>11. CASE Watch
    <2>1. /\ watcher = "armed" /\ interrupted /\ closed'
          /\ UNCHANGED <<main, interrupted>>
      BY <1>11 DEF Watch, CloseBegin, setupVars
    <2> QED BY <2>1
  <1>12. CASE CloseEnd
    <2>1. closer # "none" /\ UNCHANGED <<main, interrupted, closed, pump, watcher>>
      BY <1>12 DEF CloseEnd, setupVars, pumpVars
    <2> QED BY <2>1
  <1>13. CASE Interrupt
    <2>1. interrupted' /\ UNCHANGED <<main, closed, conn, closer, pump, watcher>>
      BY <1>13 DEF Interrupt, setupVars, closeVars, pumpVars
    <2> QED BY <2>1
  <1>14. NodeAnswers \/ Inbound \/ Outbound \/ OpenInspector \/ ToolStarts
          \/ BackendRestarts \/ UNCHANGED vars
          => UNCHANGED <<main, interrupted, closed, conn, closer, pump, watcher>>
    BY DEF NodeAnswers, Inbound, Outbound, OpenInspector, ToolStarts,
           BackendRestarts, setupVars, closeVars, pumpVars, vars
  <1>15. CASE UNCHANGED <<main, interrupted, closed, conn, closer, pump, watcher>>
    BY <1>15
  <1> QED BY <1>1, <1>2, <1>3, <1>4, <1>5, <1>6, <1>7, <1>8, <1>9, <1>10, <1>11,
             <1>12, <1>13, <1>14, <1>15, NextCases

(* The inductive invariant: identities of calls and what they put in force *)
(* (AttachedMeansHooked needs both), the order of numbers from the socket  *)
(* to the sink, and what is owed to the sink, which needs the hook in      *)
(* force for Node's messages to be on the socket at all; and who may have  *)
(* closed the session.                                                     *)
IInv ==
    /\ TypeOK /\ StageInv
    /\ CallInv /\ SetupInv
    /\ SocketInv /\ HandInv /\ OrderInv
    /\ DueInv
    /\ CloseInv

(* Every behaviour keeps it.                                               *)
THEOREM Invariance == Spec => []IInv
  <1>1. Init => IInv
    <2> SUFFICES ASSUME Init PROVE IInv
      OBVIOUS
    <2>1. TypeOK /\ StageInv
      BY InitTyped
    <2>2. /\ main = "idle" /\ target = Nobody /\ toNode = <<>> /\ fromNode = <<>>
          /\ pump = "off" /\ msg = NoMsg /\ tapped = <<>> /\ due = {}
          /\ closer = "none" /\ hooked = 0
      BY DEF Init, InitRecorder
    <2>3. /\ ~ \E i \in 1..Len(toNode) : TRUE
          /\ ~ \E i \in 1..Len(fromNode) : TRUE
          /\ ~ \E i \in 1..Len(tapped) : TRUE
      BY <2>2
    <2>4. NoMsg.kind \notin Data /\ NoMsg.number = 0
      BY MessagesTyped DEF Data
    <2>5. CallInv
      BY <2>2, <2>3 DEF CallInv, IdsBounded, SendInv, WaitInv, BetweenCalls,
                        Finding
    <2>6. SetupInv
      BY <2>2 DEF SetupInv, Live, Backend, Nobody
    <2>7. SocketInv /\ HandInv
      BY <2>2, <2>3, <2>4 DEF SocketInv, HandInv, Finding
    <2>8. OrderInv
      BY <2>2, <2>3, <2>4 DEF OrderInv, HookedOnce, TappedInv, HandOrder,
                              SocketOrder
    <2>9. DueInv
      BY <2>2 DEF DueInv
    <2>10. CloseInv
      BY DEF Init, InitRecorder, CloseInv, Finding
    <2> QED BY <2>1, <2>5, <2>6, <2>7, <2>8, <2>9, <2>10 DEF IInv
  <1>2. IInv /\ [Next]_vars => IInv'
    <2> SUFFICES ASSUME IInv, [Next]_vars PROVE IInv'
      OBVIOUS
    <2>1. NodeType /\ SockType /\ CallType /\ PumpType /\ HistType /\ HookedOnce
      BY TypeParts DEF IInv, OrderInv
    <2>2. TypeOK' /\ StageInv'
      BY StepTyped DEF IInv
    <2>3. CallInv' /\ SetupInv'
      BY <2>1, CallInvStep, SetupInvStep DEF IInv
    <2>4. SocketInv' /\ HandInv' /\ OrderInv'
      BY <2>1, SocketInvStep, HandInvStep, OrderInvStep DEF IInv
    <2>5. AttachedMeansHooked
      BY DEF IInv, SetupInv, Live, SetupDone, InForce, AttachedMeansHooked
    <2>6. DueInv'
      BY <2>1, <2>5, DueInvStep DEF IInv
    <2>7. CloseInv'
      BY CloseInvStep DEF IInv
    <2> QED BY <2>2, <2>3, <2>4, <2>6, <2>7 DEF IInv
  <1> QED BY <1>1, <1>2, PTL DEF Spec

(* StartAttachTap reports success only when the hook, the binding and the  *)
(* Network domain are all in force in the backend, whatever restarts,      *)
(* lost answers and earlier recordings there were.                         *)
THEOREM AttachedIsHooked == Spec => []AttachedMeansHooked
  <1>1. IInv => AttachedMeansHooked
    BY DEF IInv, SetupInv, Live, SetupDone, InForce, AttachedMeansHooked
  <1> QED BY <1>1, Invariance, PTL

(* The tap gives the sink each HTTP message once and in Node's order, over *)
(* any number of recordings against the same process.                      *)
THEOREM DeliveredInOrder == Spec => []TappedOnceInOrder
  <1>1. IInv => TappedOnceInOrder
    <2> SUFFICES ASSUME IInv PROVE TappedOnceInOrder
      OBVIOUS
    <2>1. DOMAIN tapped = 1..Len(tapped)
      BY DEF IInv, TypeOK
    <2> QED BY <2>1 DEF IInv, OrderInv, TappedInv, TappedOnceInOrder
  <1> QED BY <1>1, Invariance, PTL

(* What Node saw while the tap was attached is delivered, in the pump's    *)
(* hands or on the socket, as long as nobody closes the session.           *)
THEOREM AttachedLosesNothing == Spec => []NothingLostAttached
  <1>1. IInv => NothingLostAttached
    <2> SUFFICES ASSUME IInv, ~closed, main = "attached"
                 PROVE  due \subseteq Range(tapped) \cup {msg.number}
                               \cup {fromNode[i].number : i \in DOMAIN fromNode}
      BY DEF NothingLostAttached
    <2>1. HistType /\ SockType /\ Held
      BY TypeParts DEF IInv, DueInv
    <2> QED BY <2>1, HeldCovers
  <1> QED BY <1>1, Invariance, PTL

(* An attached recording that nobody stops is not ended by the panic of    *)
(* pump: whatever Node does, the only goroutine that closes the session    *)
(* then is the pump itself.                                                *)
THEOREM OnlyStoppedRecordingsPanic == Spec => PanicOnlyWhenStopped
  <1>1. IInv /\ [Next]_vars =>
            (main = "attached" /\ main' = "crashed" => interrupted)
    <2> SUFFICES ASSUME IInv, [Next]_vars, main = "attached", main' = "crashed",
                        ~interrupted
                 PROVE  FALSE
      OBVIOUS
    <2>1. PumpLoad => FALSE
      <3>1. PumpLoad => pump = "load" /\ conn = "nil"
        BY DEF PumpLoad
      <3> QED BY <3>1 DEF IInv, CloseInv, Over
    <2>2. CallSend => FALSE
      BY DEF CallSend
    <2>3. UNCHANGED main => FALSE
      OBVIOUS
    <2>4. Record \/ Interrupt \/ Resolve \/ Enable \/ LookFinds \/ LookTimesOut
            \/ Dial \/ CallCheck \/ CallReturns \/ WaitPing \/ Abort
            \/ StopRecording \/ Leave => FALSE
      BY DEF Record, Interrupt, Resolve, Enable, LookFinds, LookTimesOut, Dial,
             CallCheck, CallReturns, WaitPing, Abort, StopRecording, Leave, Goto,
             setupVars, Over
    <2>5. PumpCheck \/ PumpReceive \/ PumpFails \/ PumpReturns \/ Handle \/ Watch
            \/ CloseEnd \/ NodeAnswers \/ Inbound \/ Outbound \/ OpenInspector
            \/ ToolStarts \/ BackendRestarts \/ UNCHANGED vars => UNCHANGED main
      BY DEF PumpCheck, PumpReceive, PumpFails, PumpReturns, Handle, Watch,
             CloseEnd, NodeAnswers, Inbound, Outbound, OpenInspector, ToolStarts,
             BackendRestarts, setupVars, vars
    <2> QED BY <2>1, <2>2, <2>3, <2>4, <2>5, NextCases
  <1> QED BY <1>1, Invariance, PTL DEF Spec, PanicOnlyWhenStopped
============================================================================
