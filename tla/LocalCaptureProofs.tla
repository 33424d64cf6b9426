------------------------- MODULE LocalCaptureProofs -------------------------
(***************************************************************************)
(* Proofs about module LocalCapture, for every set of recorders and of     *)
(* `bugit snapshot' processes and every workload.                          *)
(***************************************************************************)
EXTENDS LocalCapture, SequenceTheorems, TLAPS

(* Next, spelled out as the alternatives the proofs go through.            *)
ProcStep(p) ==
    \/ Launch(p) \/ Interrupt(p) \/ TriggerTimesOut(p)
    \/ Boot(p) \/ WaitReady(p) \/ StartFails(p) \/ Attach(p) \/ ConnectReturns(p)
    \/ StartCommand(p) \/ StopRecording(p) \/ TriggerSnapshot(p) \/ Check(p)
    \/ Leave(p) \/ Stop(p) \/ Join(p)
    \/ ListenGRPC(p) \/ ListenHTTP(p) \/ GracefulStop(p) \/ CloseListener(p)
    \/ Drained(p)
    \/ Export(p) \/ ExportFails(p) \/ TriggerFires(p) \/ OrphanFires(p) \/ Age(p)

ExchangeStep(x) ==
    \/ RuleFires(x) \/ PostAnswered(x) \/ PostTimesOut(x)
    \/ TopFrame(x) \/ TopFrameReturns(x)

(* Every step belongs to a process, to an event or to an exchange.         *)
LEMMA NextCases ==
    ASSUME Next
    PROVE  \/ \E p \in Procs : ProcStep(p)
           \/ \E p \in Recorders : CommandExits(p)
           \/ \E e \in Events, p \in Recorders : Emit(e, p)
           \/ \E e \in Events : Ingest(e)
           \/ \E x \in Exchanges : ExchangeStep(x)
  <1> DEFINE P(p) == \/ Launch(p) \/ Interrupt(p) \/ TriggerTimesOut(p) \/ Main(p)
                     \/ Run(p) \/ Capture(p) \/ TriggerFires(p) \/ OrphanFires(p)
                     \/ Age(p)
             X(x) == \/ \E p \in Recorders : PostRequest(x, p) \/ PostResponse(x, p)
                     \/ RuleFires(x) \/ Post(x) \/ PostTimesOut(x)
                     \/ TopFrameReturns(x)
  <1>0. \A x \in Exchanges : Request(x) \in Events /\ Response(x) \in Events
    BY DEF Request, Response, Events
  <1>1. CASE \E p \in Procs : P(p)
    <2>1. PICK p \in Procs : P(p)
      BY <1>1
    <2>2. ProcStep(p)
      BY <2>1 DEF ProcStep, Main, Run, Capture
    <2> QED BY <2>2
  <1>2. CASE \E p \in Recorders : CommandExits(p)
    BY <1>2
  <1>3. CASE \E x \in Exchanges : X(x)
    <2>0. PICK x \in Exchanges : X(x)
      BY <1>3
    <2>1. \/ \E p \in Recorders : Emit(Request(x), p) \/ Emit(Response(x), p)
          \/ Ingest(Request(x)) \/ Ingest(Response(x))
          \/ ExchangeStep(x)
      BY <2>0 DEF Post, ExchangeStep, PostRequest, PostResponse
    <2> QED BY <1>0, <2>1
  <1> QED BY <1>1, <1>2, <1>3 DEF Next

(* The ends of processes: StartDaemon fails, runSnapshot ends, main ends.  *)
LEMMA ExitCases ==
    ASSUME NEW p \in Procs, StartFails(p) \/ Leave(p) \/ Join(p)
    PROVE  \E how \in Over : Exit(p, how) /\ main[p] \in {"wait", "leave", "join"}
  BY DEF StartFails, Leave, Join, Over
----------------------------------------------------------------------------
(*                            Type correctness                             *)

Outcomes == [try : 0..2, err : BOOLEAN, path : BOOLEAN, reported : BOOLEAN]
Captures == [busy : BOOLEAN, by : Procs \cup {Nobody}, x : 0..MaxExchanges,
             events : Seq(Events), aged : SUBSET Events]
Stages == {"none", "waiting", "frame", "framing", "done"}

(* What TypeOK says of the parts, one by one.                              *)
MainType ==
    /\ load \in Workload
    /\ mode \in [Recorders -> Modes]
    /\ via \in [Exchanges -> Recorders]
    /\ main \in [Procs -> MainPCs]
    /\ interrupted \in [Procs -> BOOLEAN]
    /\ outcome \in [Procs -> Outcomes]
    /\ recorded \in [Procs -> BOOLEAN]

CollType ==
    /\ bridge \in [Procs -> {"none", "idle", "busy"}]
    /\ coll \in [Procs -> {"none", "starting", "grpc", "serving", "deaf",
                           "stopping", "draining", "down"}]
    /\ grpcPort \in Procs \cup {Nobody}
    /\ httpPort \in Procs \cup {Nobody}
    /\ proxyPort \in Procs \cup {Nobody}

BufType ==
    /\ buf \in [Procs -> Seq(Events)]
    /\ old \in [Procs -> Nat]
    /\ aged \subseteq Events

HandlerType ==
    /\ ask \in [Procs -> Procs \cup {Nobody}]
    /\ arriving \in [Events -> Procs \cup {Nobody}]
    /\ post \in [Exchanges -> Procs \cup {Nobody}]
    /\ orphans \in [Procs -> Nat]
    /\ cap \in [Procs -> Captures]

AppType ==
    /\ link \in [owner : Procs \cup {Nobody}, events : Seq(Events),
                 aged : SUBSET Events]
    /\ listed \in [Procs -> BOOLEAN]
    /\ stage \in [Events -> Stages]

HistType ==
    /\ due \in [Procs -> SUBSET Events]
    /\ saved \in [Procs -> Procs \cup {Nobody}]
    /\ faults \in Nat

(* The groups of variables cover TypeOK.                                   *)
LEMMA TypeParts ==
    TypeOK <=> MainType /\ CollType /\ BufType /\ HandlerType /\ AppType
               /\ HistType
  BY DEF TypeOK, MainType, CollType, BufType, HandlerType, AppType, HistType,
         Outcomes, Captures, Stages

(* Nobody is not a process.                                                *)
LEMMA NobodyElse ==
    /\ Nobody \notin Procs
    /\ \A p \in Recorders : p \in Procs /\ p \notin Askers
    /\ \A p \in Procs : p \in Recorders \/ p \in Askers
    /\ MaxExchanges \in Nat
  BY LocalCaptureAssumption DEF Nobody, Procs

(* The tries of triggerSnapshot that main has behind it, by where it is.   *)
TryOK(p, pc, n) ==
    /\ pc = "idle" => n = 0
    /\ pc \in {"boot", "wait", "connect"} => n = IF p \in Askers THEN 1 ELSE 0
    /\ pc \in {"attach", "start", "recording"} => n = 0 /\ p \notin Askers
    /\ pc = "save" => n \in 0..1
    /\ pc \in {"asked", "check"} => n \in 1..2

TryInv == \A p \in Procs : TryOK(p, main[p], outcome[p].try)

(* A trigger is posted exactly while main waits for its answer, and a      *)
(* capture made for a process is at the collector it asked.                *)
AskInv ==
    /\ \A p \in Procs : ask[p] # Nobody <=> main[p] = "asked"
    /\ \A c \in Procs : cap[c].by # Nobody => ask[cap[c].by] = c

(* Where main goes after a refusal it can be with the tries it has.        *)
LEMMA RefusedGoes ==
    ASSUME NEW p \in Procs, NEW n \in 1..2
    PROVE  /\ Refused(p, n) \in {"boot", "leave", "save", "stop"}
           /\ TryOK(p, Refused(p, n), n)
           /\ Refused(p, n) \in MainPCs
  <1>1. CASE p \in Askers /\ n = 1
    <2>1. Refused(p, n) = "boot"
      BY <1>1 DEF Refused
    <2> QED BY <1>1, <2>1 DEF TryOK, MainPCs
  <1>2. CASE p \in Askers /\ n # 1
    <2>1. Refused(p, n) = "leave"
      BY <1>2 DEF Refused
    <2> QED BY <2>1 DEF TryOK, MainPCs
  <1>3. CASE p \notin Askers
    <2>1. Refused(p, n) = "stop" \/ (Refused(p, n) = "save" /\ n = 1)
      BY <1>3 DEF Refused
    <2> QED BY <2>1 DEF TryOK, MainPCs
  <1> QED BY <1>1, <1>2, <1>3

(* main of one process goes on.                                            *)
LEMMA AtEffect ==
    ASSUME MainType, NEW p \in Procs, NEW l \in MainPCs, At(p, l)
    PROVE  /\ main' \in [Procs -> MainPCs] /\ main'[p] = l
           /\ \A q \in Procs : q # p => main'[q] = main[q]
  BY DEF At, MainType

(* ... with the tries it has.                                              *)
LEMMA AtTries ==
    ASSUME MainType, TryInv, NEW p \in Procs, NEW l \in MainPCs, At(p, l),
           outcome' \in [Procs -> Outcomes],
           TryOK(p, l, outcome'[p].try),
           \A q \in Procs : q # p => outcome'[q] = outcome[q]
    PROVE  main' \in [Procs -> MainPCs] /\ TryInv'
  <1>1. /\ main' \in [Procs -> MainPCs] /\ main'[p] = l
        /\ \A q \in Procs : q # p => main'[q] = main[q]
    BY AtEffect
  <1>2. ASSUME NEW q \in Procs PROVE TryOK(q, main'[q], outcome'[q].try)
    <2>1. CASE q = p
      BY <1>1, <2>1
    <2>2. CASE q # p
      BY <1>1, <2>2 DEF TryInv
    <2> QED BY <2>1, <2>2
  <1>3. TryInv'
    BY <1>2 DEF TryInv, TryOK
  <1> QED BY <1>1, <1>3

(* The end of a process, for main of every process.                        *)
LEMMA ExitTries ==
    ASSUME MainType, TryInv, AskInv, NEW p \in Procs, NEW how \in Over, Exit(p, how)
    PROVE  MainType' /\ TryInv'
  <1>1. /\ main' = [q \in Procs |-> IF q = p THEN how
                                    ELSE IF ask[q] = p THEN Refused(q, outcome[q].try)
                                    ELSE main[q]]
        /\ interrupted' = [interrupted EXCEPT ![p] = FALSE]
        /\ outcome' = [outcome EXCEPT ![p] = [Fresh EXCEPT !.reported = outcome[p].reported]]
        /\ UNCHANGED <<load, mode, via, recorded>>
    BY DEF Exit, givenVars
  <1>2. ASSUME NEW q \in Procs, ask[q] = p PROVE outcome[q].try \in 1..2
    <2>1. main[q] = "asked"
      BY <1>2, NobodyElse DEF AskInv
    <2> QED BY <2>1 DEF TryInv, TryOK
  <1>3. [Fresh EXCEPT !.reported = outcome[p].reported] \in Outcomes
    <2>1. outcome[p].reported \in BOOLEAN
      BY DEF MainType, Outcomes
    <2>2. ASSUME NEW b \in BOOLEAN PROVE [Fresh EXCEPT !.reported = b] \in Outcomes
      <3>1. Fresh \in Outcomes
        BY DEF Fresh, Outcomes
      <3>2. ASSUME NEW o \in Outcomes PROVE [o EXCEPT !.reported = b] \in Outcomes
        BY DEF Outcomes
      <3> QED BY <3>1, <3>2
    <2> QED BY <2>1, <2>2
  <1>4. outcome' \in [Procs -> Outcomes]
    BY <1>1, <1>3 DEF MainType
  <1>5. ASSUME NEW q \in Procs
        PROVE  main'[q] \in MainPCs /\ TryOK(q, main'[q], outcome'[q].try)
    <2>1. CASE q = p
      <3>1. main'[q] = how
        BY <1>1, <2>1
      <3> QED BY <3>1 DEF TryOK, Over, MainPCs
    <2>2. CASE q # p /\ ask[q] = p
      <3>1. main'[q] = Refused(q, outcome[q].try) /\ outcome'[q] = outcome[q]
        BY <1>1, <2>2 DEF MainType
      <3> QED BY <1>2, <2>2, <3>1, RefusedGoes
    <2>3. CASE q # p /\ ask[q] # p
      <3>1. main'[q] = main[q] /\ outcome'[q] = outcome[q]
        BY <1>1, <2>3 DEF MainType
      <3> QED BY <3>1 DEF TryInv, MainType
    <2> QED BY <2>1, <2>2, <2>3
  <1>6. main' \in [Procs -> MainPCs]
    BY <1>1, <1>5
  <1>7. TryInv'
    BY <1>5 DEF TryInv, TryOK
  <1> QED BY <1>1, <1>4, <1>6, <1>7 DEF MainType

(* The steps of main that only move it.                                    *)
LEMMA MoveCases ==
    ASSUME MainType, TryInv, NEW p \in Procs,
           Launch(p) \/ Boot(p) \/ WaitReady(p) \/ Attach(p) \/ ConnectReturns(p)
             \/ StartCommand(p) \/ StopRecording(p) \/ Stop(p)
    PROVE  /\ \E l \in MainPCs :
                 /\ At(p, l) /\ TryOK(p, l, outcome[p].try)
                 /\ l # "asked" /\ l \notin Over
           /\ main[p] # "asked" /\ main[p] \notin Over
           /\ UNCHANGED <<outcome, load, mode, via, interrupted>>
  <1>0. TryOK(p, main[p], outcome[p].try)
    BY DEF TryInv
  <1>c. ASSUME NEW l, Connect(p, l) PROVE At(p, l) \/ At(p, "connect")
    BY <1>c DEF Connect
  <1>d. /\ p \in Askers => Connected(p) = "save"
        /\ p \notin Askers => Connected(p) \in {"recording", "start"}
    BY DEF Connected
  <1>r. p \in Recorders => p \notin Askers
    BY NobodyElse
  <1>1. CASE Launch(p)
    <2>1. /\ main[p] = "idle" /\ Only(p, IF p \in Recorders THEN "boot" ELSE "save")
      BY <1>1 DEF Launch
    <2>2. UNCHANGED <<outcome, load, mode, via, interrupted>>
      BY <2>1 DEF Only, givenVars
    <2>3. CASE p \in Recorders
      <3>1. At(p, "boot")
        BY <2>1, <2>3 DEF Only
      <3> QED BY <1>0, <1>r, <2>1, <2>2, <2>3, <3>1 DEF TryOK, MainPCs, Over
    <2>4. CASE p \notin Recorders
      <3>1. At(p, "save")
        BY <2>1, <2>4 DEF Only
      <3> QED BY <1>0, <2>1, <2>2, <3>1 DEF TryOK, MainPCs, Over
    <2> QED BY <2>3, <2>4
  <1>2. CASE Boot(p)
    <2>1. /\ main[p] = "boot" /\ At(p, "wait")
          /\ UNCHANGED <<outcome, load, mode, via, interrupted>>
      BY <1>2 DEF Boot, givenVars
    <2> QED BY <1>0, <2>1 DEF TryOK, MainPCs, Over
  <1>3. CASE WaitReady(p)
    <2>1. /\ main[p] = "wait"
          /\ UNCHANGED <<outcome, load, mode, via, interrupted>>
          /\ (p \in Recorders /\ At(p, "attach")) \/ Connect(p, Connected(p))
      BY <1>3 DEF WaitReady, givenVars
    <2>2. \/ p \in Recorders /\ At(p, "attach")
          \/ At(p, Connected(p)) \/ At(p, "connect")
      BY <1>c, <2>1
    <2> QED BY <1>0, <1>d, <1>r, <2>1, <2>2 DEF TryOK, MainPCs, Over
  <1>4. CASE Attach(p) \/ StartCommand(p)
    <2>1. /\ main[p] \in {"attach", "start"}
          /\ At(p, "recording") \/ At(p, "stop") \/ Connect(p, "recording")
          /\ UNCHANGED <<outcome, load, mode, via, interrupted>>
      BY <1>4 DEF Attach, StartCommand, givenVars
    <2>2. At(p, "recording") \/ At(p, "stop") \/ At(p, "connect")
      BY <1>c, <2>1
    <2> QED BY <1>0, <2>1, <2>2 DEF TryOK, MainPCs, Over
  <1>5. CASE ConnectReturns(p)
    <2>1. /\ main[p] = "connect" /\ At(p, Connected(p))
          /\ UNCHANGED <<outcome, load, mode, via, interrupted>>
      BY <1>5 DEF ConnectReturns, givenVars
    <2> QED BY <1>0, <1>d, <2>1 DEF TryOK, MainPCs, Over
  <1>6. CASE StopRecording(p) \/ Stop(p)
    <2>1. /\ \/ main[p] = "recording" /\ At(p, "save")
             \/ main[p] = "stop" /\ At(p, "join")
          /\ UNCHANGED <<outcome, load, mode, via, interrupted>>
      BY <1>6 DEF StopRecording, Stop, Only, givenVars
    <2> QED BY <1>0, <2>1 DEF TryOK, MainPCs, Over
  <1> QED BY <1>1, <1>2, <1>3, <1>4, <1>5, <1>6

(* The trigger of p is posted, or fails at once.                           *)
LEMMA TriggerTries ==
    ASSUME MainType, TryInv, NEW p \in Procs, TriggerSnapshot(p)
    PROVE  /\ main[p] = "save" /\ outcome' \in [Procs -> Outcomes]
           /\ \A q \in Procs : q # p => outcome'[q] = outcome[q]
           /\ \E l \in MainPCs : /\ At(p, l) /\ TryOK(p, l, outcome'[p].try)
                                 /\ l = "asked" <=> httpPort # Nobody
                                 /\ l \notin Over
           /\ outcome'[p].reported = outcome[p].reported
  <1>1. /\ main[p] = "save"
        /\ outcome' = [outcome EXCEPT ![p].try = @ + 1]
        /\ At(p, IF httpPort = Nobody THEN Refused(p, outcome[p].try + 1) ELSE "asked")
    BY DEF TriggerSnapshot
  <1>2. outcome[p].try \in 0..1
    BY <1>1 DEF TryInv, TryOK
  <1>3. outcome[p].try + 1 \in 1..2
    BY <1>2
  <1>4. outcome' \in [Procs -> Outcomes]
    <2>1. [outcome[p] EXCEPT !.try = @ + 1] \in Outcomes
      BY <1>3 DEF MainType, Outcomes
    <2> QED BY <1>1, <2>1 DEF MainType
  <1>5. /\ outcome'[p].try = outcome[p].try + 1
        /\ outcome'[p].reported = outcome[p].reported
        /\ \A q \in Procs : q # p => outcome'[q] = outcome[q]
    BY <1>1 DEF MainType, Outcomes
  <1>6. CASE httpPort = Nobody
    <2>1. At(p, Refused(p, outcome[p].try + 1))
      BY <1>1, <1>6
    <2>2. Refused(p, outcome[p].try + 1) # "asked"
          /\ Refused(p, outcome[p].try + 1) \notin Over
      BY <1>3, RefusedGoes DEF Over
    <2> QED BY <1>1, <1>3, <1>4, <1>5, <1>6, <2>1, <2>2, RefusedGoes
  <1>7. CASE httpPort # Nobody
    <2>1. At(p, "asked")
      BY <1>1, <1>7
    <2>2. TryOK(p, "asked", outcome'[p].try) /\ "asked" \in MainPCs /\ "asked" \notin Over
      BY <1>3, <1>5 DEF TryOK, MainPCs, Over
    <2> QED BY <1>1, <1>4, <1>5, <1>7, <2>1, <2>2
  <1> QED BY <1>6, <1>7

(* After the answer, with or without a link.                               *)
LEMMA CheckTries ==
    ASSUME MainType, TryInv, NEW p \in Procs, Check(p)
    PROVE  /\ main[p] = "check" /\ outcome' \in [Procs -> Outcomes]
           /\ \A q \in Procs : q # p => outcome'[q] = outcome[q]
           /\ \E l \in MainPCs : /\ At(p, l) /\ TryOK(p, l, outcome'[p].try)
                                 /\ l # "asked" /\ l \notin Over
  <1> DEFINE found == link # NoArchive \/ outcome[p].path
             n == outcome[p].try
             l == IF ~found THEN Refused(p, n)
                  ELSE IF p \in Askers /\ n = 1 THEN "leave" ELSE "stop"
  <1>1. /\ main[p] = "check" /\ At(p, l)
        /\ outcome' = [outcome EXCEPT ![p].reported = found]
    BY DEF Check
  <1>2. n \in 1..2
    BY <1>1 DEF TryInv, TryOK
  <1>3. found \in BOOLEAN
    <2>1. outcome[p].path \in BOOLEAN
      BY DEF MainType, Outcomes
    <2> QED BY <2>1, Zenon
  <1> HIDE DEF found
  <1>4. /\ outcome' \in [Procs -> Outcomes] /\ outcome'[p].try = n
        /\ \A q \in Procs : q # p => outcome'[q] = outcome[q]
    <2>1. ASSUME NEW b \in BOOLEAN
          PROVE  [outcome EXCEPT ![p].reported = b] \in [Procs -> Outcomes]
      <3>1. [outcome[p] EXCEPT !.reported = b] \in Outcomes
        BY DEF MainType, Outcomes
      <3> QED BY <3>1 DEF MainType
    <2>2. outcome' \in [Procs -> Outcomes]
      BY <1>1, <1>3, <2>1
    <2>3. outcome'[p].try = n /\ \A q \in Procs : q # p => outcome'[q] = outcome[q]
      BY <1>1 DEF MainType, Outcomes
    <2> QED BY <2>2, <2>3
  <1>5. l \in {"boot", "leave", "save", "stop"} /\ TryOK(p, l, n)
    <2>1. l = Refused(p, n) \/ l \in {"leave", "stop"}
      OBVIOUS
    <2>2. TryOK(p, "leave", n) /\ TryOK(p, "stop", n)
      BY DEF TryOK
    <2> HIDE DEF l
    <2> QED BY <1>2, <2>1, <2>2, RefusedGoes
  <1> HIDE DEF l
  <1>6. l \in MainPCs /\ l # "asked" /\ l \notin Over
    BY <1>5 DEF MainPCs, Over
  <1> QED BY <1>1, <1>4, <1>5, <1>6

(* An export that also wrote the latest link.                              *)
Exports(c) ==
    /\ Export(c)
    /\ link' = [owner |-> c, events |-> cap[c].events, aged |-> cap[c].aged]

(* A capture ends: its client, if it has one, is told.                     *)
LEMMA AnswersTo ==
    ASSUME MainType, TryInv, AskInv, HandlerType, NEW c \in Procs,
           Export(c) \/ ExportFails(c)
    PROVE  /\ cap[c] # Idle /\ cap' = [cap EXCEPT ![c] = Idle]
           /\ UNCHANGED <<load, mode, via, interrupted, recorded, buf, old, aged,
                          arriving, orphans, due, coll, httpPort>>
           /\ \/ cap[c].by = Nobody /\ UNCHANGED <<main, ask, saved, outcome>>
              \/ /\ cap[c].by \in Procs /\ main[cap[c].by] = "asked"
                 /\ ask[cap[c].by] = c
                 /\ At(cap[c].by, "check")
                 /\ TryOK(cap[c].by, "check", outcome[cap[c].by].try)
                 /\ outcome' = [outcome EXCEPT ![cap[c].by].path = listed'[c]]
                 /\ ask' = [ask EXCEPT ![cap[c].by] = Nobody]
                 /\ \/ saved' = [saved EXCEPT ![cap[c].by] = Nobody]
                    \/ Exports(c) /\ saved' = [saved EXCEPT ![cap[c].by] = c]
  <1> DEFINE p == cap[c].by
  <1>0. p \in Procs \cup {Nobody}
    BY DEF HandlerType, Captures
  <1>1. /\ cap[c] # Idle
        /\ (Answers(c, c) /\ Exports(c)) \/ Answers(c, Nobody)
    BY DEF Export, ExportFails, Exports
  <1>2. /\ cap' = [cap EXCEPT ![c] = Idle]
        /\ UNCHANGED <<load, mode, via, interrupted, recorded, buf, old, aged,
                       arriving, orphans, due, coll, httpPort>>
    BY <1>1 DEF Answers, givenVars, portVars, bufVars
  <1>3. CASE p = Nobody
    BY <1>1, <1>2, <1>3 DEF Answers
  <1>4. CASE p # Nobody
    <2>1. /\ At(p, "check") /\ ask' = [ask EXCEPT ![p] = Nobody]
          /\ outcome' = [outcome EXCEPT ![p].path = listed'[c]]
          /\ \/ saved' = [saved EXCEPT ![p] = Nobody]
             \/ Exports(c) /\ saved' = [saved EXCEPT ![p] = c]
      BY <1>1, <1>4 DEF Answers
    <2>2. p \in Procs /\ ask[p] = c
      BY <1>0, <1>4 DEF AskInv
    <2>3. main[p] = "asked"
      BY <2>2, NobodyElse DEF AskInv
    <2>4. TryOK(p, "check", outcome[p].try)
      BY <2>2, <2>3 DEF TryInv, TryOK
    <2> QED BY <1>1, <1>2, <2>1, <2>2, <2>3, <2>4
  <1> QED BY <1>3, <1>4

(* ... with the path of the archive if there is one.                       *)
LEMMA AnswersPath ==
    ASSUME MainType, AppType, NEW c \in Procs, NEW p \in Procs,
           Export(c) \/ ExportFails(c),
           outcome' = [outcome EXCEPT ![p].path = listed'[c]]
    PROVE  /\ outcome' \in [Procs -> Outcomes]
           /\ outcome'[p].try = outcome[p].try
           /\ \A q \in Procs : q # p => outcome'[q] = outcome[q]
  <1>1. listed' = [listed EXCEPT ![c] = TRUE] \/ UNCHANGED listed
    BY DEF Export, ExportFails, diskVars
  <1>2. listed'[c] \in BOOLEAN
    BY <1>1, Zenon DEF AppType
  <1>3. ASSUME NEW b \in BOOLEAN
        PROVE  [outcome EXCEPT ![p].path = b] \in [Procs -> Outcomes]
    <2>1. [outcome[p] EXCEPT !.path = b] \in Outcomes
      BY DEF MainType, Outcomes
    <2> QED BY <2>1 DEF MainType
  <1>4. outcome' \in [Procs -> Outcomes]
    BY <1>2, <1>3
  <1>5. /\ outcome'[p].try = outcome[p].try
        /\ \A q \in Procs : q # p => outcome'[q] = outcome[q]
    BY DEF MainType, Outcomes
  <1> QED BY <1>4, <1>5

(* The time limit of triggerSnapshot.                                      *)
LEMMA TimeoutTries ==
    ASSUME MainType, TryInv, NEW p \in Procs, TriggerTimesOut(p)
    PROVE  /\ main[p] = "asked"
           /\ UNCHANGED <<load, mode, via, interrupted, outcome, recorded,
                          due, saved, coll, httpPort>>
           /\ \E l \in MainPCs : /\ At(p, l) /\ TryOK(p, l, outcome[p].try)
                                 /\ l # "asked" /\ l \notin Over
           /\ ask' = [ask EXCEPT ![p] = Nobody]
           /\ orphans' = Orphaned(p) /\ cap' = Unclaimed(p)
  <1>1. /\ main[p] = "asked" /\ At(p, Refused(p, outcome[p].try))
        /\ UNCHANGED <<load, mode, via, interrupted, outcome, recorded,
                          due, saved, coll, httpPort>>
        /\ ask' = [ask EXCEPT ![p] = Nobody]
        /\ orphans' = Orphaned(p) /\ cap' = Unclaimed(p)
    BY DEF TriggerTimesOut, givenVars, portVars
  <1>2. outcome[p].try \in 1..2
    BY <1>1 DEF TryInv, TryOK
  <1>3. /\ Refused(p, outcome[p].try) \in MainPCs
        /\ TryOK(p, Refused(p, outcome[p].try), outcome[p].try)
        /\ Refused(p, outcome[p].try) # "asked"
        /\ Refused(p, outcome[p].try) \notin Over
    BY <1>2, RefusedGoes DEF Over
  <1> QED BY <1>1, <1>3

(* Steps in which main of no process moves.                                *)
LEMMA MainStill ==
    /\ \A p \in Procs :
         ListenGRPC(p) \/ ListenHTTP(p) \/ GracefulStop(p) \/ CloseListener(p)
           \/ Drained(p) \/ TriggerFires(p) \/ OrphanFires(p) \/ Age(p)
         => UNCHANGED <<load, mode, via, main, interrupted, outcome, recorded>>
    /\ \A x \in Exchanges :
         ExchangeStep(x)
         => UNCHANGED <<load, mode, via, main, interrupted, outcome, recorded>>
    /\ \A e \in Events, p \in Recorders :
         Emit(e, p)
         => UNCHANGED <<load, mode, via, main, interrupted, outcome, recorded>>
    /\ \A e \in Events :
         Ingest(e)
         => UNCHANGED <<load, mode, via, main, interrupted, outcome, recorded>>
  <1>1. ASSUME NEW p \in Procs,
               ListenGRPC(p) \/ ListenHTTP(p) \/ GracefulStop(p) \/ CloseListener(p)
                 \/ Drained(p) \/ TriggerFires(p) \/ OrphanFires(p) \/ Age(p)
        PROVE  UNCHANGED <<load, mode, via, main, interrupted, outcome, recorded>>
    BY <1>1 DEF ListenGRPC, ListenHTTP, GracefulStop, CloseListener, Drained,
                CollectorGoes, TriggerFires, OrphanFires, Age, mainVars, givenVars
  <1>2. ASSUME NEW x \in Exchanges, ExchangeStep(x)
        PROVE  UNCHANGED <<load, mode, via, main, interrupted, outcome, recorded>>
    BY <1>2 DEF ExchangeStep, RuleFires, PostAnswered, PostTimesOut, TopFrame,
                TopFrameReturns, mainVars, givenVars
  <1>3. ASSUME NEW e \in Events, NEW p \in Recorders, Emit(e, p)
        PROVE  UNCHANGED <<load, mode, via, main, interrupted, outcome, recorded>>
    BY <1>3 DEF Emit, mainVars, givenVars
  <1>4. ASSUME NEW e \in Events, Ingest(e)
        PROVE  UNCHANGED <<load, mode, via, main, interrupted, outcome, recorded>>
    BY <1>4 DEF Ingest, mainVars, givenVars
  <1> QED BY <1>1, <1>2, <1>3, <1>4

(* The command of a recorder exits.                                        *)
LEMMA CommandTries ==
    ASSUME MainType, TryInv, NEW p \in Recorders, CommandExits(p)
    PROVE  /\ main[p] = "recording" /\ At(p, "save")
           /\ outcome' \in [Procs -> Outcomes]
           /\ \A q \in Procs : q # p => outcome'[q] = outcome[q]
           /\ TryOK(p, "save", outcome'[p].try)
           /\ UNCHANGED <<load, mode, via, interrupted, recorded, ask, cap>>
  <1>0. p \in Procs
    BY NobodyElse
  <1>1. /\ main[p] = "recording" /\ At(p, "save")
        /\ UNCHANGED <<load, mode, via, interrupted, recorded, ask, cap>>
    BY DEF CommandExits, givenVars, handlerVars
  <1>2. PICK b \in BOOLEAN : outcome' = [outcome EXCEPT ![p].err = b]
    BY DEF CommandExits
  <1>3. [outcome[p] EXCEPT !.err = b] \in Outcomes
    BY <1>0 DEF MainType, Outcomes
  <1>4. outcome' \in [Procs -> Outcomes]
    BY <1>0, <1>2, <1>3 DEF MainType
  <1>5. /\ outcome'[p].try = outcome[p].try
        /\ \A q \in Procs : q # p => outcome'[q] = outcome[q]
    BY <1>0, <1>2 DEF MainType, Outcomes
  <1>6. TryOK(p, "save", outcome'[p].try)
    BY <1>0, <1>1, <1>5 DEF TryInv, TryOK
  <1> QED BY <1>1, <1>4, <1>5, <1>6

(* main of every process is typed and has the tries it may have.           *)
LEMMA MainStep ==
    ASSUME MainType, TryInv, AskInv, HandlerType, AppType, Next
    PROVE  MainType' /\ TryInv'
  <1>1. CASE \E p \in Procs : ProcStep(p)
    <2>0. PICK p \in Procs : ProcStep(p)
      BY <1>1
    <2>1. CASE Launch(p) \/ Boot(p) \/ WaitReady(p) \/ Attach(p) \/ ConnectReturns(p)
                 \/ StartCommand(p) \/ StopRecording(p) \/ Stop(p)
      <3>1. /\ \E l \in MainPCs : At(p, l) /\ TryOK(p, l, outcome[p].try)
            /\ UNCHANGED <<outcome, load, mode, via, interrupted>>
        BY <2>1, MoveCases
      <3>2. main' \in [Procs -> MainPCs] /\ TryInv'
        BY <3>1, AtTries DEF MainType
      <3>3. recorded' = recorded \/ recorded' = [recorded EXCEPT ![p] = TRUE]
        BY <2>1 DEF Launch, Boot, WaitReady, Attach, ConnectReturns, StartCommand,
                    StopRecording, Stop, Only
      <3>4. recorded' \in [Procs -> BOOLEAN]
        BY <3>3 DEF MainType
      <3> QED BY <3>1, <3>2, <3>4 DEF MainType
    <2>2. CASE Interrupt(p)
      <3>1. /\ UNCHANGED <<load, mode, via, main, outcome, recorded>>
            /\ interrupted' = [interrupted EXCEPT ![p] = TRUE]
        BY <2>2 DEF Interrupt, givenVars
      <3> QED BY <3>1 DEF MainType, TryInv, TryOK
    <2>3. CASE TriggerTimesOut(p)
      <3>1. /\ \E l \in MainPCs : At(p, l) /\ TryOK(p, l, outcome[p].try)
            /\ UNCHANGED <<outcome, load, mode, via, interrupted, recorded>>
        BY <2>3, TimeoutTries
      <3>2. main' \in [Procs -> MainPCs] /\ TryInv'
        BY <3>1, AtTries DEF MainType
      <3> QED BY <3>1, <3>2 DEF MainType
    <2>4. CASE StartFails(p) \/ Leave(p) \/ Join(p)
      BY <2>4, ExitCases, ExitTries
    <2>5. CASE TriggerSnapshot(p) \/ Check(p)
      <3>1. /\ outcome' \in [Procs -> Outcomes]
            /\ \A q \in Procs : q # p => outcome'[q] = outcome[q]
            /\ \E l \in MainPCs : At(p, l) /\ TryOK(p, l, outcome'[p].try)
        BY <2>5, TriggerTries, CheckTries
      <3>2. main' \in [Procs -> MainPCs] /\ TryInv'
        BY <3>1, AtTries
      <3>3. UNCHANGED <<load, mode, via, interrupted, recorded>>
        BY <2>5 DEF TriggerSnapshot, Check, givenVars
      <3> QED BY <3>1, <3>2, <3>3 DEF MainType
    <2>6. CASE Export(p) \/ ExportFails(p)
      <3> DEFINE q == cap[p].by
      <3>1. UNCHANGED <<load, mode, via, interrupted, recorded>>
        BY <2>6, AnswersTo
      <3>2. CASE UNCHANGED <<main, outcome>>
        BY <3>1, <3>2 DEF MainType, TryInv, TryOK
      <3>3. CASE /\ q \in Procs /\ At(q, "check")
                 /\ TryOK(q, "check", outcome[q].try)
                 /\ outcome' = [outcome EXCEPT ![q].path = listed'[p]]
        <4> HIDE DEF q
        <4>1. /\ outcome' \in [Procs -> Outcomes]
              /\ outcome'[q].try = outcome[q].try
              /\ \A r \in Procs : r # q => outcome'[r] = outcome[r]
          BY <2>6, <3>3, AnswersPath
        <4>2. main' \in [Procs -> MainPCs] /\ TryInv'
          BY <3>3, <4>1, AtTries DEF MainPCs
        <4> QED BY <3>1, <4>1, <4>2 DEF MainType
      <3> QED BY <2>6, <3>2, <3>3, AnswersTo
    <2>7. CASE ListenGRPC(p) \/ ListenHTTP(p) \/ GracefulStop(p) \/ CloseListener(p)
                 \/ Drained(p) \/ TriggerFires(p) \/ OrphanFires(p) \/ Age(p)
      BY <2>7, MainStill DEF MainType, TryInv, TryOK
    <2> QED BY <2>0, <2>1, <2>2, <2>3, <2>4, <2>5, <2>6, <2>7 DEF ProcStep
  <1>2. CASE \E p \in Recorders : CommandExits(p)
    <2>1. PICK p \in Recorders : CommandExits(p)
      BY <1>2
    <2>2. /\ outcome' \in [Procs -> Outcomes] /\ At(p, "save")
          /\ \A q \in Procs : q # p => outcome'[q] = outcome[q]
          /\ TryOK(p, "save", outcome'[p].try)
          /\ UNCHANGED <<load, mode, via, interrupted, recorded>>
      BY <2>1, CommandTries
    <2>3. p \in Procs /\ "save" \in MainPCs
      BY NobodyElse DEF MainPCs
    <2>4. main' \in [Procs -> MainPCs] /\ TryInv'
      BY <2>2, <2>3, AtTries
    <2> QED BY <2>2, <2>4 DEF MainType
  <1>3. CASE \E e \in Events, p \in Recorders : Emit(e, p)
    BY <1>3, MainStill DEF MainType, TryInv, TryOK
  <1>5. CASE \E e \in Events : Ingest(e)
    BY <1>5, MainStill DEF MainType, TryInv, TryOK
  <1>4. CASE \E x \in Exchanges : ExchangeStep(x)
    BY <1>4, MainStill DEF MainType, TryInv, TryOK
  <1> QED BY <1>1, <1>2, <1>3, <1>4, <1>5, NextCases

(* The bridges, the collectors and the ports.                              *)
LEMMA CollStep ==
    ASSUME CollType, MainType, Next
    PROVE  CollType'
  <1> DEFINE States == {"none", "starting", "grpc", "serving", "deaf",
                        "stopping", "draining", "down"}
             Same == UNCHANGED <<bridge, coll, grpcPort, httpPort, proxyPort>>
  <1>0. ASSUME Same PROVE CollType'
    BY <1>0 DEF CollType
  <1>1. CASE \E p \in Procs : ProcStep(p)
    <2>0. PICK p \in Procs : ProcStep(p)
      BY <1>1
    <2>1. CASE StartFails(p) \/ Leave(p) \/ Join(p)
      <3>1. /\ coll' = [coll EXCEPT ![p] = "down"]
            /\ bridge' = [bridge EXCEPT ![p] = "none"]
            /\ grpcPort' = Freed(grpcPort, p)
            /\ httpPort' = Freed(httpPort, p)
            /\ proxyPort' = Freed(proxyPort, p)
        BY <2>1, ExitCases DEF Exit
      <3> QED BY <3>1 DEF CollType, Freed
    <2>2. CASE Boot(p)
      <3>1. /\ coll' = [coll EXCEPT ![p] = "starting"]
            /\ UNCHANGED <<bridge, grpcPort, httpPort, proxyPort>>
        BY <2>2 DEF Boot, portVars
      <3> QED BY <3>1 DEF CollType
    <2>3. CASE WaitReady(p) \/ Attach(p) \/ ConnectReturns(p)
      <3>1. /\ UNCHANGED <<coll, grpcPort, httpPort>>
            /\ proxyPort' \in {p, proxyPort}
            /\ \/ UNCHANGED bridge \/ \E l : Connect(p, l)
               \/ \E b \in {"idle", "none"} : bridge' = [bridge EXCEPT ![p] = b]
        BY <2>3 DEF WaitReady, Attach, ConnectReturns, portVars
      <3>2. \/ UNCHANGED bridge
            \/ \E b \in {"none", "idle", "busy"} : bridge' = [bridge EXCEPT ![p] = b]
        BY <3>1 DEF Connect
      <3>3. bridge' \in [Procs -> {"none", "idle", "busy"}]
        BY <3>2 DEF CollType
      <3> QED BY <3>1, <3>3 DEF CollType
    <2>4. CASE Stop(p)
      <3>1. /\ UNCHANGED <<bridge, coll, grpcPort, httpPort>>
            /\ proxyPort' = Freed(proxyPort, p)
        BY <2>4 DEF Stop
      <3> QED BY <3>1 DEF CollType, Freed
    <2>5. CASE ListenGRPC(p) \/ ListenHTTP(p) \/ GracefulStop(p) \/ CloseListener(p)
                 \/ Drained(p)
      <3>1. /\ \E l \in States : coll' = [coll EXCEPT ![p] = l]
            /\ UNCHANGED <<bridge, proxyPort>>
            /\ grpcPort' \in {grpcPort, p, Nobody}
            /\ httpPort' \in {httpPort, p, Nobody}
        BY <2>5 DEF ListenGRPC, ListenHTTP, GracefulStop, CloseListener, Drained,
                    CollectorGoes, Freed
      <3> QED BY <3>1 DEF CollType
    <2>6. CASE Launch(p) \/ Interrupt(p) \/ TriggerTimesOut(p) \/ StartCommand(p)
                 \/ StopRecording(p) \/ TriggerSnapshot(p) \/ Check(p)
      BY <1>0, <2>6 DEF Launch, Interrupt, TriggerTimesOut, StartCommand,
                  StopRecording, TriggerSnapshot, Check, Only, portVars
    <2>7. CASE Export(p) \/ ExportFails(p) \/ TriggerFires(p) \/ OrphanFires(p)
                 \/ Age(p)
      BY <1>0, <2>7 DEF Export, ExportFails, TriggerFires, OrphanFires, Answers,
                  Age, portVars
    <2> QED BY <2>0, <2>1, <2>2, <2>3, <2>4, <2>5, <2>6, <2>7 DEF ProcStep
  <1>2. CASE \E p \in Recorders : CommandExits(p)
    BY <1>0, <1>2 DEF CommandExits, portVars
  <1>3. CASE \E e \in Events, p \in Recorders : Emit(e, p)
    BY <1>0, <1>3 DEF Emit, portVars
  <1>5. CASE \E e \in Events : Ingest(e)
    BY <1>0, <1>5 DEF Ingest, portVars
  <1>4. CASE \E x \in Exchanges : ExchangeStep(x)
    <2>0. PICK x \in Exchanges : ExchangeStep(x)
      BY <1>4
    <2>1. CASE RuleFires(x) \/ PostAnswered(x) \/ PostTimesOut(x)
      BY <1>0, <2>1 DEF RuleFires, PostAnswered, PostTimesOut, portVars
    <2>2. CASE TopFrame(x) \/ TopFrameReturns(x)
      <3>1. /\ UNCHANGED <<coll, grpcPort, httpPort, proxyPort>>
            /\ \E b \in {"none", "idle", "busy"} :
                 bridge' = [bridge EXCEPT ![via[x]] = b]
        BY <2>2 DEF TopFrame, TopFrameReturns, portVars
      <3> QED BY <3>1 DEF CollType
    <2> QED BY <2>0, <2>1, <2>2 DEF ExchangeStep
  <1> QED BY <1>1, <1>2, <1>3, <1>4, <1>5, NextCases

(* The buffers change when an event is added, when one leaves the window   *)
(* and when a process ends.                                                *)
LEMMA BufCases ==
    ASSUME Next
    PROVE  \/ UNCHANGED <<buf, old, aged>>
           \/ \E p \in Procs, how \in Over :
                /\ Exit(p, how) /\ buf' = [buf EXCEPT ![p] = <<>>]
                /\ old' = [old EXCEPT ![p] = 0] /\ UNCHANGED aged
           \/ \E p \in Procs :
                /\ old[p] < Len(buf[p]) /\ old' = [old EXCEPT ![p] = @ + 1]
                /\ aged' = aged \cup {buf[p][old[p] + 1]} /\ UNCHANGED buf
           \/ \E e \in Events :
                Ingest(e) /\ arriving[e] # Nobody /\ Add(arriving[e], e)
  <1> DEFINE Same == UNCHANGED <<buf, old, aged>>
  <1>1. CASE \E p \in Procs : ProcStep(p)
    <2>0. PICK p \in Procs : ProcStep(p)
      BY <1>1
    <2>1. CASE StartFails(p) \/ Leave(p) \/ Join(p)
      BY <2>1, ExitCases DEF Exit
    <2>2. CASE Launch(p) \/ Interrupt(p) \/ TriggerTimesOut(p) \/ StartCommand(p)
                 \/ StopRecording(p) \/ TriggerSnapshot(p) \/ Check(p)
                 \/ Boot(p) \/ WaitReady(p) \/ Attach(p) \/ ConnectReturns(p) \/ Stop(p)
      <3>1. Same
        BY <2>2 DEF Launch, Interrupt, TriggerTimesOut, StartCommand,
                    StopRecording, TriggerSnapshot, Check, Only, Boot, WaitReady,
                    Attach, ConnectReturns, Stop, bufVars
      <3> QED BY <3>1
    <2>3. CASE ListenGRPC(p) \/ ListenHTTP(p) \/ GracefulStop(p) \/ CloseListener(p)
                 \/ Drained(p) \/ Export(p) \/ ExportFails(p) \/ TriggerFires(p)
                 \/ OrphanFires(p)
      <3>1. Same
        BY <2>3 DEF ListenGRPC, ListenHTTP, GracefulStop, CloseListener, Drained,
                    CollectorGoes, Export, ExportFails, TriggerFires, OrphanFires,
                    Answers, bufVars
      <3> QED BY <3>1
    <2>4. CASE Age(p)
      BY <2>4 DEF Age
    <2> QED BY <2>0, <2>1, <2>2, <2>3, <2>4 DEF ProcStep
  <1>2. CASE \E p \in Recorders : CommandExits(p)
    <2>1. Same
      BY <1>2 DEF CommandExits, bufVars
    <2> QED BY <2>1
  <1>3. CASE \E e \in Events, p \in Recorders : Emit(e, p)
    <2>1. Same
      BY <1>3 DEF Emit, bufVars
    <2> QED BY <2>1
  <1>4. CASE \E e \in Events : Ingest(e)
    BY <1>4 DEF Ingest
  <1>5. CASE \E x \in Exchanges : ExchangeStep(x)
    <2>1. Same
      BY <1>5 DEF ExchangeStep, RuleFires, PostAnswered, PostTimesOut, TopFrame,
                  TopFrameReturns, bufVars
    <2> QED BY <2>1
  <1> QED BY <1>1, <1>2, <1>3, <1>4, <1>5, NextCases

(* Append, on events.                                                      *)
LEMMA AppendEvents ==
    ASSUME NEW s \in Seq(Events), NEW e \in Events
    PROVE  /\ Append(s, e) \in Seq(Events)
           /\ ToSet(s) \subseteq ToSet(Append(s, e))
           /\ ToSet(Append(s, e)) = ToSet(s) \cup {e}
  <1>1. /\ Append(s, e) \in Seq(Events)
        /\ Len(Append(s, e)) = Len(s) + 1
        /\ \A i \in 1..Len(s) : Append(s, e)[i] = s[i]
        /\ Append(s, e)[Len(s) + 1] = e
    BY AppendProperties
  <1>2. /\ DOMAIN s = 1..Len(s) /\ Len(s) \in Nat
        /\ DOMAIN Append(s, e) = 1..(Len(s) + 1)
    BY <1>1
  <1>3. ToSet(s) \subseteq ToSet(Append(s, e))
    BY <1>1, <1>2 DEF ToSet
  <1>4. ToSet(Append(s, e)) \subseteq ToSet(s) \cup {e}
    BY <1>1, <1>2 DEF ToSet
  <1>5. e \in ToSet(Append(s, e))
    BY <1>1, <1>2 DEF ToSet
  <1> QED BY <1>1, <1>3, <1>4, <1>5

(* The events of an exchange.                                              *)
LEMMA ExchangeEvents ==
    ASSUME NEW x \in Exchanges
    PROVE  Request(x) \in Events /\ Response(x) \in Events
  BY DEF Request, Response, Events

(* Dropping the first n events of a sequence.                              *)
Rest(s, n) == SubSeq(s, n + 1, Len(s))

(* What is left of it, and what is not.                                    *)
LEMMA RestEvents ==
    ASSUME NEW s \in Seq(Events), NEW n \in Nat, n <= Len(s)
    PROVE  /\ Rest(s, n) \in Seq(Events) /\ Len(Rest(s, n)) = Len(s) - n
           /\ \A i \in 1..(Len(s) - n) : Rest(s, n)[i] = s[n + i]
           /\ ToSet(Rest(s, n)) \subseteq ToSet(s)
           /\ \A a : (\A i \in 1..n : s[i] \in a) =>
                ToSet(s) \ a \subseteq ToSet(Rest(s, n))
  <1>0. Len(s) \in Nat /\ DOMAIN s = 1..Len(s)
    OBVIOUS
  <1>1. /\ Rest(s, n) \in Seq(Events) /\ Len(Rest(s, n)) = Len(s) - n
        /\ \A i \in 1..(Len(s) - n) : Rest(s, n)[i] = s[n + i]
    <2> DEFINE t == SubSeq(s, n + 1, Len(s))
    <2>0. n + 1 \in Int /\ Len(s) \in Int
      BY <1>0
    <2>1. \A i \in (n + 1)..Len(s) : s[i] \in Events
      BY <1>0
    <2>2. /\ t \in Seq(Events)
          /\ Len(t) = IF n + 1 <= Len(s) THEN Len(s) - (n + 1) + 1 ELSE 0
          /\ \A i \in 1..(Len(s) - (n + 1) + 1) : t[i] = s[(n + 1) + i - 1]
      BY <2>0, <2>1, SubSeqProperties
    <2> HIDE DEF t
    <2>3. Len(t) = Len(s) - n
      BY <1>0, <2>2
    <2>4. ASSUME NEW i \in 1..(Len(s) - n) PROVE t[i] = s[n + i]
      <3>1. i \in 1..(Len(s) - (n + 1) + 1) /\ (n + 1) + i - 1 = n + i
        BY <1>0
      <3> QED BY <2>2, <3>1
    <2> QED BY <2>2, <2>3, <2>4 DEF Rest, t
  <1>2. DOMAIN Rest(s, n) = 1..(Len(s) - n)
    BY <1>1
  <1>3. ToSet(Rest(s, n)) \subseteq ToSet(s)
    <2>1. ASSUME NEW i \in 1..(Len(s) - n) PROVE n + i \in 1..Len(s)
      BY <1>0
    <2> QED BY <1>0, <1>1, <1>2, <2>1 DEF ToSet
  <1>4. ASSUME NEW a, \A i \in 1..n : s[i] \in a, NEW e \in ToSet(s), e \notin a
        PROVE  e \in ToSet(Rest(s, n))
    <2>1. PICK i \in 1..Len(s) : s[i] = e
      BY <1>0, <1>4 DEF ToSet
    <2>2. i \notin 1..n
      BY <1>4, <2>1
    <2>3. i - n \in 1..(Len(s) - n) /\ n + (i - n) = i
      BY <1>0, <2>2
    <2>4. Rest(s, n)[i - n] = e
      BY <1>1, <2>1, <2>3
    <2> QED BY <1>2, <2>3, <2>4 DEF ToSet
  <1> QED BY <1>1, <1>3, <1>4

(* The events that have left the window and are still in a buffer are at   *)
(* its front.                                                              *)
AgeInv ==
    \A c \in Procs : /\ old[c] <= Len(buf[c])
                     /\ \A i \in 1..old[c] : buf[c][i] \in aged

(* Add, at collector c.                                                    *)
LEMMA AddEffect ==
    ASSUME BufType, AgeInv, NEW c \in Procs, NEW e \in Events, Add(c, e)
    PROVE  /\ Rest(buf[c], old[c]) \in Seq(Events)
           /\ ToSet(Rest(buf[c], old[c])) \subseteq ToSet(buf[c])
           /\ ToSet(buf[c]) \ aged \subseteq ToSet(Rest(buf[c], old[c]))
           /\ \A d \in Procs :
                /\ buf'[d] = IF d = c THEN Append(Rest(buf[c], old[c]), e) ELSE buf[d]
                /\ old'[d] = IF d = c THEN 0 ELSE old[d]
           /\ buf' \in [Procs -> Seq(Events)] /\ old' \in [Procs -> Nat]
           /\ aged' = aged
  <1>1. /\ buf[c] \in Seq(Events) /\ old[c] \in Nat /\ old[c] <= Len(buf[c])
        /\ \A i \in 1..old[c] : buf[c][i] \in aged
    BY DEF BufType, AgeInv
  <1>2. /\ Rest(buf[c], old[c]) \in Seq(Events)
        /\ ToSet(Rest(buf[c], old[c])) \subseteq ToSet(buf[c])
        /\ ToSet(buf[c]) \ aged \subseteq ToSet(Rest(buf[c], old[c]))
    BY <1>1, RestEvents
  <1>3. /\ buf' = [buf EXCEPT ![c] = Append(Rest(buf[c], old[c]), e)]
        /\ old' = [old EXCEPT ![c] = 0] /\ aged' = aged
    BY DEF Add, Rest
  <1>4. Append(Rest(buf[c], old[c]), e) \in Seq(Events)
    BY <1>2, AppendEvents
  <1> HIDE DEF Rest
  <1> QED BY <1>2, <1>3, <1>4 DEF BufType

(* Where an event is added.                                                *)
LEMMA IngestAt ==
    ASSUME HandlerType, NEW e \in Events, arriving[e] # Nobody
    PROVE  arriving[e] \in Procs
  BY DEF HandlerType

(* The buffers hold events, those that have left the window in front.      *)
LEMMA BufStep ==
    ASSUME BufType, AgeInv, HandlerType, Next
    PROVE  BufType' /\ AgeInv'
  <1>0. \A c \in Procs : old[c] \in Nat /\ buf[c] \in Seq(Events)
    BY DEF BufType
  <1>z. ASSUME \A c \in Procs : /\ old'[c] <= Len(buf'[c])
                                /\ \A i \in 1..old'[c] : buf'[c][i] \in aged'
        PROVE  AgeInv'
    BY <1>z DEF AgeInv, Procs
  <1>1. CASE UNCHANGED <<buf, old, aged>>
    BY <1>1 DEF BufType, AgeInv
  <1>2. CASE \E p \in Procs : /\ buf' = [buf EXCEPT ![p] = <<>>]
                              /\ old' = [old EXCEPT ![p] = 0] /\ UNCHANGED aged
    <2>0. PICK p \in Procs : /\ buf' = [buf EXCEPT ![p] = <<>>]
                             /\ old' = [old EXCEPT ![p] = 0] /\ UNCHANGED aged
      BY <1>2
    <2>1. <<>> \in Seq(Events) /\ Len(<<>>) = 0
      OBVIOUS
    <2>2. BufType'
      BY <2>0, <2>1 DEF BufType
    <2>3. ASSUME NEW c \in Procs
          PROVE  /\ old'[c] <= Len(buf'[c])
                 /\ \A i \in 1..old'[c] : buf'[c][i] \in aged'
      <3>1. CASE c = p
        BY <2>0, <2>1, <3>1 DEF BufType
      <3>2. CASE c # p
        BY <2>0, <3>2 DEF BufType, AgeInv
      <3> QED BY <3>1, <3>2
    <2> QED BY <1>z, <2>2, <2>3
  <1>3. CASE \E p \in Procs :
               /\ old[p] < Len(buf[p]) /\ old' = [old EXCEPT ![p] = @ + 1]
               /\ aged' = aged \cup {buf[p][old[p] + 1]} /\ UNCHANGED buf
    <2>0. PICK p \in Procs :
               /\ old[p] < Len(buf[p]) /\ old' = [old EXCEPT ![p] = @ + 1]
               /\ aged' = aged \cup {buf[p][old[p] + 1]} /\ UNCHANGED buf
      BY <1>3
    <2>1. Len(buf[p]) \in Nat /\ old[p] + 1 \in 1..Len(buf[p]) /\ old[p] + 1 \in Nat
      BY <1>0, <2>0
    <2>2. buf[p][old[p] + 1] \in Events
      BY <1>0, <2>1
    <2>3. BufType'
      BY <2>0, <2>1, <2>2 DEF BufType
    <2>4. ASSUME NEW c \in Procs
          PROVE  /\ old'[c] <= Len(buf'[c])
                 /\ \A i \in 1..old'[c] : buf'[c][i] \in aged'
      <3>1. CASE c = p
        <4>1. old'[c] = old[c] + 1 /\ buf'[c] = buf[c]
          BY <2>0, <3>1 DEF BufType
        <4>2. ASSUME NEW i \in 1..old'[c] PROVE buf'[c][i] \in aged'
          <5>1. i \in 1..old[c] \/ i = old[c] + 1
            BY <1>0, <4>1
          <5> QED BY <2>0, <3>1, <4>1, <5>1 DEF AgeInv
        <4> QED BY <2>1, <3>1, <4>1, <4>2
      <3>2. CASE c # p
        BY <2>0, <3>2 DEF BufType, AgeInv
      <3> QED BY <3>1, <3>2
    <2> QED BY <1>z, <2>3, <2>4
  <1>4. CASE \E e \in Events : arriving[e] # Nobody /\ Add(arriving[e], e)
    <2>0. PICK e \in Events : arriving[e] # Nobody /\ Add(arriving[e], e)
      BY <1>4
    <2> DEFINE c == arriving[e]
    <2>1. c \in Procs
      BY <2>0, IngestAt
    <2> HIDE DEF c
    <2>2. Add(c, e)
      BY <2>0 DEF c
    <2>3. /\ buf' \in [Procs -> Seq(Events)] /\ old' \in [Procs -> Nat]
          /\ aged' = aged
          /\ \A d \in Procs :
                /\ buf'[d] = IF d = c THEN Append(Rest(buf[c], old[c]), e) ELSE buf[d]
                /\ old'[d] = IF d = c THEN 0 ELSE old[d]
      BY <2>1, <2>2, AddEffect
    <2>4. BufType'
      BY <2>3 DEF BufType
    <2>5. ASSUME NEW d \in Procs
          PROVE  /\ old'[d] <= Len(buf'[d])
                 /\ \A i \in 1..old'[d] : buf'[d][i] \in aged'
      <3>1. CASE d = c
        <4>1. old'[d] = 0 /\ Len(buf'[d]) \in Nat
          BY <2>3, <3>1
        <4> QED BY <4>1
      <3>2. CASE d # c
        BY <2>3, <3>2 DEF AgeInv
      <3> QED BY <3>1, <3>2
    <2> QED BY <1>z, <2>4, <2>5
  <1> QED BY <1>1, <1>2, <1>3, <1>4, BufCases

(* The steps of the handlers' variables that leave them alone.             *)
LEMMA HandlersStill ==
    /\ \A p \in Procs :
         Launch(p) \/ Interrupt(p) \/ Boot(p) \/ WaitReady(p) \/ Attach(p)
           \/ ConnectReturns(p) \/ Age(p) \/ StartCommand(p) \/ StopRecording(p) \/ Check(p) \/ Stop(p)
           \/ ListenGRPC(p) \/ ListenHTTP(p) \/ GracefulStop(p) \/ CloseListener(p)
           \/ Drained(p)
         => UNCHANGED <<ask, arriving, post, orphans, cap>>
    /\ \A p \in Recorders : CommandExits(p) => UNCHANGED <<ask, arriving, post, orphans, cap>>
    /\ \A x \in Exchanges :
         PostTimesOut(x) \/ TopFrame(x) \/ TopFrameReturns(x) => UNCHANGED <<ask, arriving, post, orphans, cap>>
  <1>1. ASSUME NEW p \in Procs,
               Launch(p) \/ Interrupt(p) \/ Boot(p) \/ WaitReady(p) \/ Attach(p)
                 \/ ConnectReturns(p) \/ Age(p) \/ StartCommand(p) \/ StopRecording(p) \/ Check(p) \/ Stop(p)
        PROVE  UNCHANGED <<ask, arriving, post, orphans, cap>>
    BY <1>1 DEF Launch, Interrupt, Boot, WaitReady, Attach, ConnectReturns, Age, StartCommand,
                StopRecording, Check, Stop, Only, handlerVars
  <1>2. ASSUME NEW p \in Procs,
               ListenGRPC(p) \/ ListenHTTP(p) \/ GracefulStop(p) \/ CloseListener(p)
                 \/ Drained(p)
        PROVE  UNCHANGED <<ask, arriving, post, orphans, cap>>
    BY <1>2 DEF ListenGRPC, ListenHTTP, GracefulStop, CloseListener, Drained,
                CollectorGoes, handlerVars
  <1>3. ASSUME NEW p \in Recorders, CommandExits(p)
        PROVE  UNCHANGED <<ask, arriving, post, orphans, cap>>
    BY <1>3 DEF CommandExits, handlerVars
  <1>4. ASSUME NEW x \in Exchanges, PostTimesOut(x) \/ TopFrame(x) \/ TopFrameReturns(x)
        PROVE  UNCHANGED <<ask, arriving, post, orphans, cap>>
    BY <1>4 DEF PostTimesOut, TopFrame, TopFrameReturns, handlerVars
  <1> QED BY <1>1, <1>2, <1>3, <1>4

(* Who posts and who adds.                                                 *)
LEMMA Sending ==
    /\ \A e \in Events, p \in Recorders : Emit(e, p) =>
         /\ arriving' = [arriving EXCEPT ![e] = httpPort]
         /\ UNCHANGED <<ask, post, orphans, cap>>
    /\ \A e \in Events : Ingest(e) =>
         /\ arriving[e] # Nobody
         /\ arriving' = [arriving EXCEPT ![e] = Nobody]
         /\ \/ UNCHANGED post
            \/ e[1] \in Exchanges /\ post' = [post EXCEPT ![e[1]] = arriving[e]]
         /\ UNCHANGED <<ask, orphans, cap>>
  <1>1. ASSUME NEW e \in Events, NEW p \in Recorders, Emit(e, p)
        PROVE  /\ arriving' = [arriving EXCEPT ![e] = httpPort]
               /\ UNCHANGED <<ask, post, orphans, cap>>
    BY <1>1 DEF Emit
  <1>2. ASSUME NEW e \in Events, Ingest(e)
        PROVE  /\ arriving[e] # Nobody
               /\ arriving' = [arriving EXCEPT ![e] = Nobody]
               /\ \/ UNCHANGED post
                  \/ post' = [post EXCEPT ![e[1]] = arriving[e]]
               /\ UNCHANGED <<ask, orphans, cap>>
    BY <1>2 DEF Ingest
  <1>3. \A e \in Events : e[1] \in Exchanges
    BY DEF Events
  <1> QED BY <1>1, <1>2, <1>3

(* A capture of the buffer of c for q, caused by x (0 for none).           *)
Copy(c, q, x) ==
    [busy |-> TRUE, by |-> q, x |-> x, events |-> buf[c], aged |-> aged]

(* No capture is a capture record.                                         *)
LEMMA IdleTyped == Idle \in Captures
  BY NobodyElse DEF Idle, Captures

(* The copy holds what the buffer holds.                                   *)
LEMMA CopyTyped ==
    ASSUME BufType, NEW c \in Procs, NEW q \in Procs \cup {Nobody},
           NEW x \in 0..MaxExchanges
    PROVE  /\ Copy(c, q, x) \in Captures
           /\ Copy(c, q, x).events = buf[c] /\ Copy(c, q, x).by = q
           /\ Copy(c, q, x).aged = aged
  <1>1. buf[c] \in Seq(Events) /\ aged \in SUBSET Events
    BY DEF BufType
  <1>2. Copy(c, q, x) \in Captures
    BY <1>1 DEF Copy, Captures
  <1> QED BY <1>2 DEF Copy

(* A trigger of a client, of a client that gave up, or of a rule fires.    *)
LEMMA FireCases ==
    ASSUME HandlerType, BufType,
           \/ \E p \in Procs : TriggerFires(p) \/ OrphanFires(p)
           \/ \E x \in Exchanges : RuleFires(x)
    PROVE  /\ \E c \in Procs, q \in Procs \cup {Nobody}, x \in 0..MaxExchanges :
                /\ cap[c] = Idle /\ cap' = [cap EXCEPT ![c] = Copy(c, q, x)]
                /\ Copy(c, q, x) \in Captures
                /\ q # Nobody => ask[q] = c
                /\ \/ ask[q] = c /\ q \in Procs /\ UNCHANGED orphans
                   \/ orphans[c] > 0 /\ orphans' = [orphans EXCEPT ![c] = @ - 1]
                   \/ x \in Exchanges /\ post[x] = c /\ UNCHANGED orphans
           /\ orphans' \in [Procs -> Nat]
           /\ UNCHANGED <<main, coll, httpPort, buf, aged, ask, arriving, post, link, stage,
                          due, saved, faults>>
  <1>0. 0 \in 0..MaxExchanges /\ \A x \in Exchanges : x \in 0..MaxExchanges
    BY NobodyElse DEF Exchanges
  <1>1. ASSUME NEW c, NEW q, NEW x, Capturing(c, q, x)
        PROVE  cap[c] = Idle /\ cap' = [cap EXCEPT ![c] = Copy(c, q, x)]
    BY <1>1 DEF Capturing, Copy
  <1>2. ASSUME NEW c \in Procs, NEW q \in Procs \cup {Nobody}, NEW x \in 0..MaxExchanges
        PROVE  Copy(c, q, x) \in Captures
    BY CopyTyped
  <1>3. CASE \E p \in Procs : TriggerFires(p)
    <2>1. PICK p \in Procs : TriggerFires(p)
      BY <1>3
    <2>2. /\ ask[p] # Nobody /\ Capturing(ask[p], p, 0)
          /\ UNCHANGED <<main, coll, httpPort, buf, aged, ask, arriving, post, link, stage,
                          due, saved, faults, orphans>>
      BY <2>1 DEF TriggerFires, mainVars, portVars, bufVars, diskVars, histVars
    <2>3. ask[p] \in Procs
      BY <2>2 DEF HandlerType
    <2>4. cap[ask[p]] = Idle /\ cap' = [cap EXCEPT ![ask[p]] = Copy(ask[p], p, 0)]
      BY <1>1, <2>2
    <2>5. Copy(ask[p], p, 0) \in Captures
      BY <1>0, <1>2, <2>3
    <2>6. orphans' \in [Procs -> Nat]
      BY <2>2 DEF HandlerType
    <2> QED BY <1>0, <2>2, <2>3, <2>4, <2>5, <2>6
  <1>4. CASE \E c \in Procs : OrphanFires(c)
    <2>1. PICK c \in Procs : OrphanFires(c)
      BY <1>4
    <2>2. /\ orphans[c] > 0 /\ Capturing(c, Nobody, 0)
          /\ orphans' = [orphans EXCEPT ![c] = @ - 1]
          /\ UNCHANGED <<main, coll, httpPort, buf, aged, ask, arriving, post, link, stage,
                          due, saved, faults>>
      BY <2>1 DEF OrphanFires, mainVars, portVars, bufVars, diskVars, histVars
    <2>3. cap[c] = Idle /\ cap' = [cap EXCEPT ![c] = Copy(c, Nobody, 0)]
      BY <1>1, <2>2
    <2>4. Copy(c, Nobody, 0) \in Captures
      BY <1>0, <1>2
    <2>5. orphans' \in [Procs -> Nat]
      BY <2>2 DEF HandlerType
    <2> QED BY <1>0, <2>2, <2>3, <2>4, <2>5
  <1>5. CASE \E x \in Exchanges : RuleFires(x)
    <2>1. PICK x \in Exchanges : RuleFires(x)
      BY <1>5
    <2>2. /\ post[x] # Nobody /\ Capturing(post[x], Nobody, x)
          /\ UNCHANGED <<main, coll, httpPort, buf, aged, ask, arriving, post, link, stage,
                          due, saved, faults, orphans>>
      BY <2>1 DEF RuleFires, mainVars, portVars, bufVars, diskVars, histVars
    <2>3. post[x] \in Procs
      BY <2>2 DEF HandlerType
    <2>4. cap[post[x]] = Idle /\ cap' = [cap EXCEPT ![post[x]] = Copy(post[x], Nobody, x)]
      BY <1>1, <2>2
    <2>5. Copy(post[x], Nobody, x) \in Captures
      BY <1>0, <1>2, <2>3
    <2>6. orphans' \in [Procs -> Nat]
      BY <2>2 DEF HandlerType
    <2> QED BY <1>0, <2>2, <2>3, <2>4, <2>5, <2>6
  <1> QED BY <1>3, <1>4, <1>5

(* A client that gives up: its handler becomes an orphan, its capture      *)
(* belongs to nobody and is otherwise the one it was.                      *)
LEMMA Abandoned ==
    ASSUME HandlerType, NEW p \in Procs
    PROVE  /\ Orphaned(p) \in [Procs -> Nat]
           /\ \A c \in Procs : ask[p] # c => Orphaned(p)[c] = orphans[c]
           /\ Unclaimed(p) \in [Procs -> Captures]
           /\ \A c \in Procs :
                /\ Unclaimed(p)[c].events = cap[c].events
                /\ Unclaimed(p)[c].aged = cap[c].aged
                /\ cap[c].by # p => Unclaimed(p)[c] = cap[c]
                /\ cap[c].by = p => Unclaimed(p)[c].by = Nobody
  <1>1. ASSUME NEW c \in Procs
        PROVE  /\ [cap[c] EXCEPT !.by = Nobody] \in Captures
               /\ [cap[c] EXCEPT !.by = Nobody].events = cap[c].events
               /\ [cap[c] EXCEPT !.by = Nobody].aged = cap[c].aged
               /\ [cap[c] EXCEPT !.by = Nobody].by = Nobody
    BY DEF HandlerType, Captures
  <1>2. Unclaimed(p) \in [Procs -> Captures]
    BY <1>1 DEF Unclaimed, HandlerType
  <1>3. ASSUME NEW c \in Procs
        PROVE  /\ Unclaimed(p)[c].events = cap[c].events
               /\ Unclaimed(p)[c].aged = cap[c].aged
               /\ cap[c].by # p => Unclaimed(p)[c] = cap[c]
               /\ cap[c].by = p => Unclaimed(p)[c].by = Nobody
    <2>1. Unclaimed(p)[c] = IF cap[c].by = p THEN [cap[c] EXCEPT !.by = Nobody]
                                             ELSE cap[c]
      BY DEF Unclaimed
    <2>2. CASE cap[c].by = p
      <3>1. Unclaimed(p)[c] = [cap[c] EXCEPT !.by = Nobody]
        BY <2>1, <2>2
      <3> QED BY <1>1, <2>2, <3>1
    <2>3. CASE cap[c].by # p
      BY <2>1, <2>3
    <2> QED BY <2>2, <2>3
  <1>4. ASSUME NEW c \in Procs
        PROVE  Orphaned(p)[c] \in Nat /\ (ask[p] # c => Orphaned(p)[c] = orphans[c])
    BY DEF Orphaned, HandlerType
  <1>5. Orphaned(p) \in [Procs -> Nat]
    BY <1>4 DEF Orphaned
  <1> QED BY <1>2, <1>3, <1>4, <1>5

(* A capture that ends frees the post it evaluated, and nothing else.      *)
LEMMA AnswersPost ==
    ASSUME HandlerType, NEW c \in Procs, Export(c) \/ ExportFails(c)
    PROVE  \/ UNCHANGED <<post, stage>>
           \/ \E x \in Exchanges :
                /\ post[x] = c /\ post' = [post EXCEPT ![x] = Nobody]
                /\ Replied(Response(x))
  <1>1. Answers(c, c) \/ Answers(c, Nobody)
    BY DEF Export, ExportFails
  <1> QED BY <1>1 DEF Answers

(* The triggers and posts that are being handled, and the captures.        *)
LEMMA HandlerStep ==
    ASSUME MainType, TryInv, AskInv, CollType, BufType, HandlerType, Next
    PROVE  HandlerType'
  <1>0. ASSUME UNCHANGED <<ask, arriving, post, orphans, cap>> PROVE HandlerType'
    BY <1>0 DEF HandlerType
  <1>1. CASE \E p \in Procs : ProcStep(p)
    <2>0. PICK p \in Procs : ProcStep(p)
      BY <1>1
    <2>1. CASE StartFails(p) \/ Leave(p) \/ Join(p)
      <3>1. /\ ask' = [q \in Procs |-> IF q = p \/ ask[q] = p THEN Nobody ELSE ask[q]]
            /\ orphans' = [Orphaned(p) EXCEPT ![p] = 0]
            /\ cap' = [Unclaimed(p) EXCEPT ![p] = Idle]
            /\ arriving' = [e \in Events |-> IF arriving[e] = p THEN Nobody ELSE arriving[e]]
            /\ post' = [x \in Exchanges |-> IF post[x] = p THEN Nobody ELSE post[x]]
        BY <2>1, ExitCases DEF Exit
      <3>2. orphans' \in [Procs -> Nat] /\ cap' \in [Procs -> Captures]
        BY <3>1, Abandoned, IdleTyped
      <3>3. ask' \in [Procs -> Procs \cup {Nobody}]
        BY <3>1 DEF HandlerType
      <3>4. /\ post' \in [Exchanges -> Procs \cup {Nobody}]
            /\ arriving' \in [Events -> Procs \cup {Nobody}]
        BY <3>1 DEF HandlerType
      <3> QED BY <3>2, <3>3, <3>4 DEF HandlerType
    <2>2. CASE TriggerSnapshot(p)
      <3>1. ask' = [ask EXCEPT ![p] = httpPort] /\ UNCHANGED <<arriving, post, orphans, cap>>
        BY <2>2 DEF TriggerSnapshot
      <3> QED BY <3>1 DEF HandlerType, CollType
    <2>3. CASE TriggerTimesOut(p)
      <3>1. /\ ask' = [ask EXCEPT ![p] = Nobody] /\ UNCHANGED <<arriving, post>>
            /\ orphans' = Orphaned(p) /\ cap' = Unclaimed(p)
        BY <2>3 DEF TriggerTimesOut
      <3>2. orphans' \in [Procs -> Nat] /\ cap' \in [Procs -> Captures]
        BY <3>1, Abandoned
      <3> QED BY <3>1, <3>2 DEF HandlerType
    <2>4. CASE Export(p) \/ ExportFails(p)
      <3>1. /\ cap' = [cap EXCEPT ![p] = Idle] /\ UNCHANGED <<arriving, orphans>>
            /\ \/ UNCHANGED ask
               \/ \E q \in Procs : ask' = [ask EXCEPT ![q] = Nobody]
        BY <2>4, AnswersTo
      <3>2. post' \in [Exchanges -> Procs \cup {Nobody}]
        BY <2>4, AnswersPost DEF HandlerType
      <3>3. ask' \in [Procs -> Procs \cup {Nobody}]
        BY <3>1 DEF HandlerType
      <3>4. cap' \in [Procs -> Captures]
        BY <3>1, IdleTyped DEF HandlerType
      <3> QED BY <3>1, <3>2, <3>3, <3>4 DEF HandlerType
    <2>5. CASE TriggerFires(p) \/ OrphanFires(p)
      BY <2>5, FireCases DEF HandlerType
    <2>6. CASE \/ Launch(p) \/ Interrupt(p) \/ Boot(p) \/ WaitReady(p) \/ Attach(p)
               \/ ConnectReturns(p) \/ Age(p) \/ StartCommand(p) \/ StopRecording(p) \/ Check(p) \/ Stop(p)
               \/ ListenGRPC(p) \/ ListenHTTP(p) \/ GracefulStop(p) \/ CloseListener(p)
               \/ Drained(p)
      BY <1>0, <2>6, HandlersStill
    <2> QED BY <2>0, <2>1, <2>2, <2>3, <2>4, <2>5, <2>6 DEF ProcStep
  <1>2. CASE \E p \in Recorders : CommandExits(p)
    BY <1>0, <1>2, HandlersStill
  <1>3. CASE \E e \in Events, p \in Recorders : Emit(e, p)
    BY <1>3, Sending DEF HandlerType, CollType
  <1>5. CASE \E e \in Events : Ingest(e)
    <2>1. PICK e \in Events : Ingest(e)
      BY <1>5
    <2>2. arriving[e] \in Procs
      BY <2>1, Sending, IngestAt
    <2> QED BY <2>1, <2>2, Sending DEF HandlerType
  <1>4. CASE \E x \in Exchanges : ExchangeStep(x)
    <2>0. PICK x \in Exchanges : ExchangeStep(x)
      BY <1>4
    <2>1. CASE PostAnswered(x)
      <3>1. /\ UNCHANGED <<ask, arriving, orphans, cap>>
            /\ post' = [post EXCEPT ![x] = Nobody]
        BY <2>1 DEF PostAnswered
      <3> QED BY <3>1 DEF HandlerType
    <2>2. CASE RuleFires(x)
      BY <2>2, FireCases DEF HandlerType
    <2>3. CASE PostTimesOut(x) \/ TopFrame(x) \/ TopFrameReturns(x)
      BY <1>0, <2>3, HandlersStill
    <2> QED BY <2>0, <2>1, <2>2, <2>3 DEF ExchangeStep
  <1> QED BY <1>1, <1>2, <1>3, <1>4, <1>5, NextCases

(* Only an export writes the latest link.                                  *)
LEMMA LinkCases ==
    ASSUME Next
    PROVE  \/ UNCHANGED link
           \/ \E c \in Procs : Exports(c) /\ cap[c] # Idle
  <1>1. CASE \E p \in Procs : ProcStep(p)
    <2>0. PICK p \in Procs : ProcStep(p)
      BY <1>1
    <2>1. CASE Export(p)
      BY <2>1 DEF Export, Exports
    <2>2. CASE StartFails(p) \/ Leave(p) \/ Join(p)
      <3>1. UNCHANGED link
        BY <2>2, ExitCases DEF Exit
      <3> QED BY <3>1
    <2>3. CASE Launch(p) \/ Interrupt(p) \/ TriggerTimesOut(p) \/ StartCommand(p)
                 \/ StopRecording(p) \/ TriggerSnapshot(p) \/ Check(p)
                 \/ Boot(p) \/ WaitReady(p) \/ Attach(p) \/ ConnectReturns(p) \/ Stop(p)
      <3>1. UNCHANGED link
        BY <2>3 DEF Launch, Interrupt, TriggerTimesOut, StartCommand,
                    StopRecording, TriggerSnapshot, Check, Only, Boot, WaitReady,
                    Attach, ConnectReturns, Stop, diskVars
      <3> QED BY <3>1
    <2>4. CASE ListenGRPC(p) \/ ListenHTTP(p) \/ GracefulStop(p) \/ CloseListener(p)
                 \/ Drained(p) \/ ExportFails(p) \/ TriggerFires(p) \/ OrphanFires(p)
                 \/ Age(p)
      <3>1. UNCHANGED link
        BY <2>4 DEF ListenGRPC, ListenHTTP, GracefulStop, CloseListener, Drained,
                    CollectorGoes, ExportFails, TriggerFires, OrphanFires, Age, diskVars
      <3> QED BY <3>1
    <2> QED BY <2>0, <2>1, <2>2, <2>3, <2>4 DEF ProcStep
  <1>2. CASE \E p \in Recorders : CommandExits(p)
    <2>1. UNCHANGED link
      BY <1>2 DEF CommandExits, diskVars
    <2> QED BY <2>1
  <1>3. CASE \/ \E e \in Events, p \in Recorders : Emit(e, p)
             \/ \E e \in Events : Ingest(e)
    <2>1. UNCHANGED link
      BY <1>3 DEF Emit, Ingest, diskVars
    <2> QED BY <2>1
  <1>4. CASE \E x \in Exchanges : ExchangeStep(x)
    <2>1. UNCHANGED link
      BY <1>4 DEF ExchangeStep, RuleFires, PostAnswered, PostTimesOut, TopFrame,
                  TopFrameReturns, diskVars
    <2> QED BY <2>1
  <1> QED BY <1>1, <1>2, <1>3, <1>4, NextCases

(* The steps that leave the stages alone.                                  *)
LEMMA StageStill ==
    /\ \A p \in Procs :
         Launch(p) \/ Interrupt(p) \/ TriggerTimesOut(p) \/ StartCommand(p)
           \/ StopRecording(p) \/ TriggerSnapshot(p) \/ Check(p) \/ Boot(p)
           \/ WaitReady(p) \/ Attach(p) \/ ConnectReturns(p) \/ Stop(p)
           \/ ListenGRPC(p) \/ ListenHTTP(p) \/ GracefulStop(p) \/ CloseListener(p)
           \/ Drained(p) \/ TriggerFires(p) \/ OrphanFires(p) \/ Age(p)
         => UNCHANGED stage
    /\ \A p \in Recorders : CommandExits(p) => UNCHANGED stage
  <1>1. ASSUME NEW p \in Procs,
               Launch(p) \/ Interrupt(p) \/ TriggerTimesOut(p) \/ StartCommand(p)
                 \/ StopRecording(p) \/ TriggerSnapshot(p) \/ Check(p) \/ Boot(p)
                 \/ WaitReady(p) \/ Attach(p) \/ ConnectReturns(p) \/ Stop(p)
        PROVE  UNCHANGED stage
    BY <1>1 DEF Launch, Interrupt, TriggerTimesOut, StartCommand, StopRecording,
                TriggerSnapshot, Check, Only, Boot, WaitReady, Attach,
                ConnectReturns, Stop
  <1>2. ASSUME NEW p \in Procs,
               ListenGRPC(p) \/ ListenHTTP(p) \/ GracefulStop(p) \/ CloseListener(p)
                 \/ Drained(p) \/ TriggerFires(p) \/ OrphanFires(p) \/ Age(p)
        PROVE  UNCHANGED stage
    BY <1>2 DEF ListenGRPC, ListenHTTP, GracefulStop, CloseListener, Drained,
                CollectorGoes, TriggerFires, OrphanFires, Age
  <1>3. ASSUME NEW p \in Recorders, CommandExits(p) PROVE UNCHANGED stage
    BY <1>3 DEF CommandExits
  <1> QED BY <1>1, <1>2, <1>3

(* An event that has been sent stays sent, and who is done with it stays   *)
(* done.                                                                   *)
Onward(e) ==
    /\ stage'[e] = "none" => stage[e] = "none"
    /\ stage[e] = "done" => stage'[e] = "done"

(* The stages go on; only Emit leaves the first.                           *)
LEMMA StageGoes ==
    ASSUME AppType, HandlerType, Next
    PROVE  /\ stage' \in [Events -> Stages]
           /\ \A e \in Events : Onward(e)
           /\ \A e \in Events : stage[e] = "none" /\ stage'[e] # "none" =>
                \E p \in Recorders : Emit(e, p)
  <1> DEFINE Fine == \A e \in Events : stage'[e] # "none" => stage[e] # "none"
             Goal == /\ stage' \in [Events -> Stages]
                     /\ \A e \in Events : Onward(e)
             Moves(e) == \E l \in Stages \ {"none"} : stage' = [stage EXCEPT ![e] = l]
  <1>0. stage \in [Events -> Stages]
    BY DEF AppType
  <1>a. ASSUME UNCHANGED stage PROVE Goal /\ Fine
    BY <1>0, <1>a DEF Onward
  <1>b. ASSUME NEW e \in Events, stage[e] \notin {"none", "done"}, Moves(e)
        PROVE  Goal /\ Fine
    BY <1>0, <1>b DEF Onward
  <1>n. \A e \in Events : AfterPost(e) \in {"frame", "done"}
                          /\ AfterFailure(e) \in {"frame", "done"}
    BY DEF AfterPost, AfterFailure
  <1>e. \A x \in Exchanges : Request(x) \in Events /\ Response(x) \in Events
    BY DEF Request, Response, Events
  <1>r. ASSUME NEW e \in Events, Replied(e) PROVE Goal /\ Fine
    <2>1. CASE stage[e] = "waiting"
      <3>1. stage' = [stage EXCEPT ![e] = AfterPost(e)]
        BY <1>0, <1>r, <2>1 DEF Replied
      <3>2. Moves(e)
        BY <1>n, <3>1 DEF Stages
      <3> QED BY <1>b, <2>1, <3>2
    <2>2. CASE stage[e] # "waiting"
      <3>1. stage' = [stage EXCEPT ![e] = stage[e]]
        BY <1>0, <1>r, <2>2 DEF Replied
      <3>2. UNCHANGED stage
        BY <1>0, <3>1
      <3> QED BY <1>a, <3>2
    <2> QED BY <2>1, <2>2
  <1>1. CASE \E p \in Procs : ProcStep(p)
    <2>0. PICK p \in Procs : ProcStep(p)
      BY <1>1
    <2>1. CASE Export(p) \/ ExportFails(p)
      <3>1. UNCHANGED stage \/ \E x \in Exchanges : Replied(Response(x))
        BY <2>1, AnswersPost
      <3> QED BY <1>a, <1>e, <1>r, <3>1
    <2>2. CASE StartFails(p) \/ Leave(p) \/ Join(p)
      <3>1. stage' = [e \in Events |->
                   IF stage[e] \in {"none", "done"} THEN stage[e]
                   ELSE IF via[e[1]] = p THEN "done"
                   ELSE IF stage[e] = "waiting" /\ Handles(p, e) THEN AfterFailure(e)
                   ELSE stage[e]]
        BY <2>2, ExitCases DEF Exit
      <3>2. ASSUME NEW e \in Events
            PROVE  stage'[e] \in Stages /\ Onward(e) /\ (stage'[e] # "none" => stage[e] # "none")
        <4>1. CASE stage[e] \in {"none", "done"}
          <5>1. stage'[e] = stage[e]
            BY <3>1, <4>1
          <5> QED BY <1>0, <5>1 DEF Onward
        <4>2. CASE stage[e] \notin {"none", "done"}
          <5>1. stage'[e] \in {"done", AfterFailure(e), stage[e]}
            BY <3>1, <4>2
          <5>2. stage'[e] \in {"done", "frame", stage[e]}
            BY <1>n, <5>1
          <5> QED BY <1>0, <4>2, <5>2 DEF Onward, Stages
        <4> QED BY <4>1, <4>2
      <3>3. stage' = [e \in Events |-> stage'[e]]
        BY <3>1
      <3>4. stage' \in [Events -> Stages]
        BY <3>2, <3>3
      <3> QED BY <3>2, <3>4
    <2>3. CASE Launch(p) \/ Interrupt(p) \/ TriggerTimesOut(p) \/ StartCommand(p)
                 \/ StopRecording(p) \/ TriggerSnapshot(p) \/ Check(p)
                 \/ Boot(p) \/ WaitReady(p) \/ Attach(p) \/ ConnectReturns(p) \/ Stop(p)
                 \/ ListenGRPC(p) \/ ListenHTTP(p) \/ GracefulStop(p) \/ CloseListener(p)
                 \/ Drained(p) \/ TriggerFires(p) \/ OrphanFires(p) \/ Age(p)
      BY <1>a, <2>3, StageStill
    <2> QED BY <2>0, <2>1, <2>2, <2>3 DEF ProcStep
  <1>2. CASE \E p \in Recorders : CommandExits(p)
    BY <1>a, <1>2, StageStill
  <1>3. CASE \E e \in Events, p \in Recorders : Emit(e, p)
    <2>1. PICK e \in Events, p \in Recorders : Emit(e, p)
      BY <1>3
    <2>2. /\ stage[e] = "none"
          /\ stage' = [stage EXCEPT ![e] = IF httpPort = Nobody THEN AfterFailure(e)
                                           ELSE IF mode[p] = "preload" THEN "done"
                                           ELSE "waiting"]
      BY <2>1 DEF Emit
    <2>3. \E l \in {"frame", "done", "waiting"} : stage' = [stage EXCEPT ![e] = l]
      BY <1>n, <2>2
    <2>4. Goal
      BY <1>0, <2>2, <2>3 DEF Onward, Stages
    <2>5. \A f \in Events : f # e => stage'[f] = stage[f]
      BY <1>0, <2>3
    <2> QED BY <2>1, <2>4, <2>5
  <1>4. CASE \E e \in Events : Ingest(e)
    <2>1. PICK e \in Events : Ingest(e)
      BY <1>4
    <2>2. UNCHANGED stage \/ Replied(e)
      BY <2>1 DEF Ingest
    <2> QED BY <1>a, <1>r, <2>2
  <1>5. CASE \E x \in Exchanges : ExchangeStep(x)
    <2>0. PICK x \in Exchanges : ExchangeStep(x)
      BY <1>5
    <2>1. CASE RuleFires(x) \/ PostAnswered(x)
      <3>1. UNCHANGED stage \/ Replied(Response(x))
        BY <2>1 DEF RuleFires, PostAnswered
      <3> QED BY <1>a, <1>e, <1>r, <3>1
    <2>2. CASE PostTimesOut(x)
      <3>1. /\ stage[Response(x)] = "waiting"
            /\ stage' = [stage EXCEPT ![Response(x)] = AfterFailure(Response(x))]
        BY <2>2 DEF PostTimesOut
      <3>2. Moves(Response(x))
        BY <1>e, <1>n, <3>1 DEF Stages
      <3> QED BY <1>b, <1>e, <3>1, <3>2
    <2>3. CASE TopFrame(x) \/ TopFrameReturns(x)
      <3>1. /\ stage[Response(x)] \in {"frame", "framing"}
            /\ \E l \in {"done", "framing"} : stage' = [stage EXCEPT ![Response(x)] = l]
        BY <2>3 DEF TopFrame, TopFrameReturns
      <3>2. Moves(Response(x))
        BY <3>1 DEF Stages
      <3> QED BY <1>b, <1>e, <3>1, <3>2
    <2> QED BY <2>0, <2>1, <2>2, <2>3 DEF ExchangeStep
  <1> QED BY <1>1, <1>2, <1>3, <1>4, <1>5, NextCases

(* Only an export and the end of a process change what is listed.          *)
LEMMA ListedCases ==
    ASSUME Next
    PROVE  \/ UNCHANGED listed
           \/ \E p \in Procs : \E b \in BOOLEAN : listed' = [listed EXCEPT ![p] = b]
  <1>1. CASE \E p \in Procs : ProcStep(p)
    <2>0. PICK p \in Procs : ProcStep(p)
      BY <1>1
    <2>1. CASE Export(p)
      BY <2>1 DEF Export
    <2>2. CASE StartFails(p) \/ Leave(p) \/ Join(p)
      BY <2>2, ExitCases DEF Exit
    <2>3. CASE Launch(p) \/ Interrupt(p) \/ TriggerTimesOut(p) \/ StartCommand(p)
                 \/ StopRecording(p) \/ TriggerSnapshot(p) \/ Check(p)
                 \/ Boot(p) \/ WaitReady(p) \/ Attach(p) \/ ConnectReturns(p) \/ Stop(p)
      BY <2>3 DEF Launch, Interrupt, TriggerTimesOut, StartCommand,
                    StopRecording, TriggerSnapshot, Check, Only, Boot, WaitReady,
                    Attach, ConnectReturns, Stop, diskVars
    <2>4. CASE ListenGRPC(p) \/ ListenHTTP(p) \/ GracefulStop(p) \/ CloseListener(p)
                 \/ Drained(p) \/ ExportFails(p) \/ TriggerFires(p) \/ OrphanFires(p)
                 \/ Age(p)
      BY <2>4 DEF ListenGRPC, ListenHTTP, GracefulStop, CloseListener, Drained,
                    CollectorGoes, ExportFails, TriggerFires, OrphanFires, Age, diskVars
    <2> QED BY <2>0, <2>1, <2>2, <2>3, <2>4 DEF ProcStep
  <1>2. CASE \E p \in Recorders : CommandExits(p)
    BY <1>2 DEF CommandExits, diskVars
  <1>3. CASE \/ \E e \in Events, p \in Recorders : Emit(e, p)
             \/ \E e \in Events : Ingest(e)
    BY <1>3 DEF Emit, Ingest, diskVars
  <1>4. CASE \E x \in Exchanges : ExchangeStep(x)
    BY <1>4 DEF ExchangeStep, RuleFires, PostAnswered, PostTimesOut, TopFrame,
                  TopFrameReturns, diskVars
  <1> QED BY <1>1, <1>2, <1>3, <1>4, NextCases

(* The latest link, the lists and the stages.                              *)
LEMMA AppStep ==
    ASSUME AppType, HandlerType, Next
    PROVE  AppType'
  <1>1. stage' \in [Events -> Stages]
    BY StageGoes
  <1>2. listed' \in [Procs -> BOOLEAN]
    BY ListedCases DEF AppType
  <1>3. link' \in [owner : Procs \cup {Nobody}, events : Seq(Events),
                  aged : SUBSET Events]
    <2>1. CASE UNCHANGED link
      BY <2>1 DEF AppType
    <2>2. ASSUME NEW c \in Procs, Exports(c)
          PROVE  link' \in [owner : Procs \cup {Nobody}, events : Seq(Events),
                           aged : SUBSET Events]
      <3>1. cap[c].events \in Seq(Events) /\ cap[c].aged \in SUBSET Events
        BY DEF HandlerType, Captures
      <3> QED BY <2>2, <3>1 DEF Exports
    <2> QED BY <2>1, <2>2, LinkCases
  <1> QED BY <1>1, <1>2, <1>3 DEF AppType

(* What a buffer holds is events.                                          *)
LEMMA BufferedEvents ==
    ASSUME NEW s \in Seq(Events)
    PROVE  ToSet(s) \subseteq Events
  <1>1. \A i \in DOMAIN s : s[i] \in Events
    OBVIOUS
  <1> QED BY <1>1 DEF ToSet

(* due and saved change with triggers, their answers and ends of processes.*)
LEMMA DueCases ==
    ASSUME MainType, TryInv, AskInv, HandlerType, Next
    PROVE  \/ UNCHANGED <<due, saved>>
           \/ \E p \in Procs, how \in Over :
                /\ Exit(p, how) /\ due' = [due EXCEPT ![p] = {}]
                /\ saved' = [saved EXCEPT ![p] = Nobody]
           \/ \E p \in Procs :
                /\ TriggerSnapshot(p) /\ saved' = [saved EXCEPT ![p] = Nobody]
                /\ due' = [due EXCEPT ![p] = IF httpPort = Nobody THEN {}
                                             ELSE ToSet(buf[httpPort])]
           \/ \E c \in Procs, q \in Procs :
                /\ Export(c) \/ ExportFails(c)
                /\ UNCHANGED due /\ q = cap[c].by
                /\ \/ saved' = [saved EXCEPT ![q] = Nobody]
                   \/ Exports(c) /\ saved' = [saved EXCEPT ![q] = c]
  <1> DEFINE Same == UNCHANGED <<due, saved>>
  <1>1. CASE \E p \in Procs : ProcStep(p)
    <2>0. PICK p \in Procs : ProcStep(p)
      BY <1>1
    <2>1. CASE Export(p) \/ ExportFails(p)
      <3> DEFINE q == cap[p].by
      <3>1. /\ UNCHANGED due
            /\ \/ UNCHANGED saved
               \/ /\ q \in Procs
                  /\ \/ saved' = [saved EXCEPT ![q] = Nobody]
                     \/ Exports(p) /\ saved' = [saved EXCEPT ![q] = p]
        BY <2>1, AnswersTo
      <3>2. q = cap[p].by
        OBVIOUS
      <3> HIDE DEF q
      <3> QED BY <2>1, <3>1, <3>2
    <2>2. CASE StartFails(p) \/ Leave(p) \/ Join(p)
      BY <2>2, ExitCases DEF Exit
    <2>3. CASE TriggerSnapshot(p)
      BY <2>3 DEF TriggerSnapshot
    <2>4. CASE Launch(p) \/ Interrupt(p) \/ TriggerTimesOut(p) \/ StartCommand(p)
                 \/ StopRecording(p) \/ Check(p)
                 \/ Boot(p) \/ WaitReady(p) \/ Attach(p) \/ ConnectReturns(p) \/ Stop(p)
      <3>1. Same
        BY <2>4 DEF Launch, Interrupt, TriggerTimesOut, StartCommand,
                    StopRecording, Check, Only, Boot, WaitReady,
                    Attach, ConnectReturns, Stop, histVars
      <3> QED BY <3>1
    <2>5. CASE ListenGRPC(p) \/ ListenHTTP(p) \/ GracefulStop(p) \/ CloseListener(p)
                 \/ Drained(p) \/ TriggerFires(p) \/ OrphanFires(p) \/ Age(p)
      <3>1. Same
        BY <2>5 DEF ListenGRPC, ListenHTTP, GracefulStop, CloseListener, Drained,
                    CollectorGoes, TriggerFires, OrphanFires, Age, histVars
      <3> QED BY <3>1
    <2> QED BY <2>0, <2>1, <2>2, <2>3, <2>4, <2>5 DEF ProcStep
  <1>2. CASE \E p \in Recorders : CommandExits(p)
    <2>1. Same
      BY <1>2 DEF CommandExits, histVars
    <2> QED BY <2>1
  <1>3. CASE \/ \E e \in Events, p \in Recorders : Emit(e, p)
             \/ \E e \in Events : Ingest(e)
    <2>1. Same
      BY <1>3 DEF Emit, Ingest, histVars
    <2> QED BY <2>1
  <1>4. CASE \E x \in Exchanges : ExchangeStep(x)
    <2>1. Same
      BY <1>4 DEF ExchangeStep, RuleFires, PostAnswered, PostTimesOut, TopFrame,
                  TopFrameReturns, histVars
    <2> QED BY <2>1
  <1> QED BY <1>1, <1>2, <1>3, <1>4, NextCases

(* Something goes wrong at most as often as the workload allows.           *)
LEMMA FaultsStep ==
    ASSUME HistType, Next
    PROVE  faults' \in Nat
  <1>0. ASSUME UNCHANGED faults \/ Fault PROVE faults' \in Nat
    BY <1>0 DEF HistType, Fault
  <1>1. CASE \E p \in Procs : ProcStep(p)
    <2>0. PICK p \in Procs : ProcStep(p)
      BY <1>1
    <2>1. CASE Export(p) \/ ExportFails(p) \/ Interrupt(p) \/ TriggerTimesOut(p)
                 \/ Drained(p)
      BY <1>0, <2>1 DEF Export, ExportFails, Interrupt, TriggerTimesOut, Drained
    <2>2. CASE StartFails(p) \/ Leave(p) \/ Join(p)
      BY <1>0, <2>2, ExitCases DEF Exit
    <2>3. CASE Launch(p) \/ StartCommand(p) \/ StopRecording(p) \/ Check(p)
                 \/ Boot(p) \/ WaitReady(p) \/ Attach(p) \/ ConnectReturns(p) \/ Stop(p)
                 \/ TriggerSnapshot(p)
      BY <1>0, <2>3 DEF Launch, StartCommand, StopRecording, Check, Only, Boot,
                  WaitReady, Attach, ConnectReturns, Stop, TriggerSnapshot, histVars
    <2>4. CASE ListenGRPC(p) \/ ListenHTTP(p) \/ GracefulStop(p) \/ CloseListener(p)
                 \/ TriggerFires(p) \/ OrphanFires(p) \/ Age(p)
      BY <1>0, <2>4 DEF ListenGRPC, ListenHTTP, GracefulStop, CloseListener,
                  TriggerFires, OrphanFires, Age, histVars
    <2> QED BY <2>0, <2>1, <2>2, <2>3, <2>4 DEF ProcStep
  <1>2. CASE \E p \in Recorders : CommandExits(p)
    BY <1>0, <1>2 DEF CommandExits, histVars
  <1>3. CASE \/ \E e \in Events, p \in Recorders : Emit(e, p)
             \/ \E e \in Events : Ingest(e)
    BY <1>0, <1>3 DEF Emit, Ingest, histVars
  <1>4. CASE \E x \in Exchanges : ExchangeStep(x)
    BY <1>0, <1>4 DEF ExchangeStep, RuleFires, PostAnswered, PostTimesOut, TopFrame,
                TopFrameReturns, histVars
  <1> QED BY <1>1, <1>2, <1>3, <1>4, NextCases

(* The history variables.                                                  *)
LEMMA HistStep ==
    ASSUME MainType, TryInv, AskInv, CollType, BufType, HandlerType, HistType, Next
    PROVE  HistType'
  <1>1. faults' \in Nat
    BY FaultsStep
  <1>2. saved' \in [Procs -> Procs \cup {Nobody}]
    BY DueCases DEF HistType
  <1>3. due' \in [Procs -> SUBSET Events]
    <2>1. CASE UNCHANGED due
      BY <2>1 DEF HistType
    <2>2. CASE \E p \in Procs : due' = [due EXCEPT ![p] = {}]
      BY <2>2 DEF HistType
    <2>3. CASE \E p \in Procs :
                 due' = [due EXCEPT ![p] = IF httpPort = Nobody THEN {}
                                           ELSE ToSet(buf[httpPort])]
      <3>1. httpPort # Nobody => ToSet(buf[httpPort]) \subseteq Events
        BY BufferedEvents DEF BufType, CollType
      <3> QED BY <2>3, <3>1 DEF HistType
    <2> QED BY <2>1, <2>2, <2>3, DueCases
  <1> QED BY <1>1, <1>2, <1>3 DEF HistType

(* Triggers, their clients and their captures belong together.             *)
LEMMA AskInvStep ==
    ASSUME MainType, TryInv, AskInv, CollType, BufType, HandlerType, Next
    PROVE  AskInv'
  <1> DEFINE Waits == \A p \in Procs : ask[p] # Nobody <=> main[p] = "asked"
             Serves == \A c \in Procs : cap[c].by # Nobody => ask[cap[c].by] = c
  <1>0. Waits /\ Serves
    BY DEF AskInv
  <1>z. ASSUME Waits', Serves' PROVE AskInv'
    BY <1>z DEF AskInv
  <1>t. /\ \A c \in Procs : cap[c].by \in Procs \cup {Nobody}
        /\ \A p \in Procs : ask[p] \in Procs \cup {Nobody}
        /\ ask = [q \in Procs |-> ask[q]]
        /\ cap = [q \in Procs |-> cap[q]]
    BY DEF HandlerType, Captures
  <1>i. Idle.by = Nobody
    BY DEF Idle
  <1>a. ASSUME UNCHANGED <<main, ask, cap>> PROVE AskInv'
    BY <1>0, <1>a DEF AskInv
  <1>1. CASE \E p \in Procs : ProcStep(p)
    <2>0. PICK p \in Procs : ProcStep(p)
      BY <1>1
    <2>1. CASE StartFails(p) \/ Leave(p) \/ Join(p)
      <3>0. PICK how \in Over : Exit(p, how)
        BY <2>1, ExitCases
      <3>1. /\ main' = [q \in Procs |-> IF q = p THEN how
                                ELSE IF ask[q] = p THEN Refused(q, outcome[q].try)
                                ELSE main[q]]
            /\ ask' = [q \in Procs |-> IF q = p \/ ask[q] = p THEN Nobody ELSE ask[q]]
            /\ cap' = [Unclaimed(p) EXCEPT ![p] = Idle]
        BY <3>0 DEF Exit
      <3>2. ASSUME NEW q \in Procs, ask[q] = p
            PROVE  Refused(q, outcome[q].try) # "asked"
        <4>1. main[q] = "asked"
          BY <1>0, <3>2, NobodyElse
        <4>2. outcome[q].try \in 1..2
          BY <4>1 DEF TryInv, TryOK
        <4> QED BY <4>2, RefusedGoes
      <3>3. Waits'
        BY <1>0, <3>1, <3>2 DEF Over
      <3>4. Serves'
        <4>1. ASSUME NEW c \in Procs, cap'[c].by # Nobody PROVE ask'[cap'[c].by] = c
          <5>1. c # p
            BY <1>i, <3>1, <4>1, Abandoned
          <5>2. cap'[c] = Unclaimed(p)[c]
            BY <3>1, <5>1, Abandoned
          <5>3. cap[c].by # p /\ cap'[c] = cap[c]
            BY <4>1, <5>2, Abandoned
          <5>4. cap[c].by \in Procs /\ ask[cap[c].by] = c
            BY <1>0, <1>t, <4>1, <5>3
          <5> QED BY <3>1, <5>1, <5>3, <5>4
        <4> QED BY <4>1
      <3> QED BY <1>z, <3>3, <3>4
    <2>2. CASE TriggerSnapshot(p)
      <3>1. /\ ask' = [ask EXCEPT ![p] = httpPort] /\ UNCHANGED cap
        BY <2>2 DEF TriggerSnapshot
      <3>2. /\ main[p] = "save"
            /\ \A q \in Procs : q # p => main'[q] = main[q]
            /\ main'[p] = "asked" <=> httpPort # Nobody
        BY <2>2, TriggerTries, AtEffect
      <3>3. Waits'
        BY <1>0, <1>t, <3>1, <3>2
      <3>4. Serves'
        BY <1>0, <1>t, <3>1, <3>2, NobodyElse
      <3> QED BY <1>z, <3>3, <3>4
    <2>3. CASE TriggerTimesOut(p)
      <3>1. /\ ask' = [ask EXCEPT ![p] = Nobody] /\ cap' = Unclaimed(p)
            /\ \A q \in Procs : q # p => main'[q] = main[q]
            /\ main'[p] # "asked"
        BY <2>3, TimeoutTries, AtEffect
      <3>2. Waits'
        BY <1>0, <1>t, <3>1
      <3>3. Serves'
        <4>1. ASSUME NEW c \in Procs, cap'[c].by # Nobody PROVE ask'[cap'[c].by] = c
          <5>1. cap[c].by # p /\ cap'[c] = cap[c]
            BY <3>1, <4>1, Abandoned
          <5>2. cap[c].by \in Procs /\ ask[cap[c].by] = c
            BY <1>0, <1>t, <4>1, <5>1
          <5> QED BY <1>t, <3>1, <5>1, <5>2
        <4> QED BY <4>1
      <3> QED BY <1>z, <3>2, <3>3
    <2>4. CASE Export(p) \/ ExportFails(p)
      <3> DEFINE q == cap[p].by
      <3>1. /\ cap' = [cap EXCEPT ![p] = Idle]
            /\ \/ q = Nobody /\ UNCHANGED <<main, ask>>
               \/ /\ q \in Procs /\ At(q, "check") /\ ask[q] = p
                  /\ ask' = [ask EXCEPT ![q] = Nobody]
        BY <2>4, AnswersTo
      <3>2. CASE q = Nobody /\ UNCHANGED <<main, ask>>
        <4>1. Serves'
          BY <1>0, <1>t, <1>i, <3>1, <3>2
        <4>2. Waits'
          BY <1>0, <3>2
        <4> QED BY <1>z, <4>1, <4>2
      <3>3. CASE /\ q \in Procs /\ At(q, "check") /\ ask[q] = p
                 /\ ask' = [ask EXCEPT ![q] = Nobody]
        <4>0. /\ main'[q] = "check" /\ \A r \in Procs : r # q => main'[r] = main[r]
          BY <3>3, AtEffect DEF MainPCs
        <4>1. Waits'
          BY <1>0, <1>t, <3>3, <4>0
        <4>2. ASSUME NEW c \in Procs, cap'[c].by # Nobody PROVE ask'[cap'[c].by] = c
          <5>1. c # p /\ cap'[c] = cap[c]
            BY <1>i, <1>t, <3>1, <4>2
          <5>2. cap[c].by \in Procs /\ ask[cap[c].by] = c
            BY <1>0, <1>t, <4>2, <5>1
          <5>3. cap[c].by # q
            BY <3>3, <5>1, <5>2
          <5> QED BY <1>t, <3>3, <5>1, <5>2, <5>3
        <4>3. Serves'
          BY <4>2
        <4> QED BY <1>z, <4>1, <4>3
      <3> QED BY <3>1, <3>2, <3>3
    <2>5. CASE TriggerFires(p) \/ OrphanFires(p)
      <3>1. PICK c \in Procs, q \in Procs \cup {Nobody}, x \in 0..MaxExchanges :
              /\ cap' = [cap EXCEPT ![c] = Copy(c, q, x)]
              /\ q # Nobody => ask[q] = c
        BY <2>5, FireCases
      <3>2. UNCHANGED <<main, ask>>
        BY <2>5, FireCases
      <3>3. Copy(c, q, x).by = q
        BY CopyTyped
      <3>4. Serves'
        BY <1>0, <1>t, <3>1, <3>2, <3>3
      <3>5. Waits'
        BY <1>0, <3>2
      <3> QED BY <1>z, <3>4, <3>5
    <2>6. CASE Launch(p) \/ Boot(p) \/ WaitReady(p) \/ Attach(p) \/ ConnectReturns(p)
                 \/ StartCommand(p) \/ StopRecording(p) \/ Stop(p)
      <3>1. /\ main[p] # "asked" /\ main'[p] # "asked"
            /\ \A q \in Procs : q # p => main'[q] = main[q]
        BY <2>6, MoveCases, AtEffect
      <3>2. UNCHANGED <<ask, cap>>
        BY <2>6, HandlersStill
      <3> QED BY <1>0, <1>z, <3>1, <3>2
    <2>7. CASE Check(p)
      <3>1. /\ main[p] # "asked" /\ main'[p] # "asked"
            /\ \A q \in Procs : q # p => main'[q] = main[q]
        BY <2>7, CheckTries, AtEffect
      <3>2. UNCHANGED <<ask, cap>>
        BY <2>7, HandlersStill
      <3> QED BY <1>0, <1>z, <3>1, <3>2
    <2>8. CASE ListenGRPC(p) \/ ListenHTTP(p) \/ GracefulStop(p) \/ CloseListener(p)
                 \/ Drained(p) \/ Interrupt(p) \/ Age(p)
      <3>1. UNCHANGED main
        BY <2>8, MainStill DEF Interrupt
      <3> QED BY <1>a, <2>8, <3>1, HandlersStill
    <2> QED BY <2>0, <2>1, <2>2, <2>3, <2>4, <2>5, <2>6, <2>7, <2>8 DEF ProcStep
  <1>2. CASE \E p \in Recorders : CommandExits(p)
    <2>0. PICK p \in Recorders : CommandExits(p)
      BY <1>2
    <2>1. p \in Procs /\ "save" \in MainPCs
      BY NobodyElse DEF MainPCs
    <2>2. main[p] = "recording" /\ At(p, "save") /\ UNCHANGED <<ask, cap>>
      BY <2>0, CommandTries
    <2>3. main'[p] = "save" /\ \A q \in Procs : q # p => main'[q] = main[q]
      BY <2>1, <2>2, AtEffect
    <2> QED BY <1>0, <1>z, <2>1, <2>2, <2>3
  <1>3. CASE \/ \E e \in Events, p \in Recorders : Emit(e, p)
             \/ \E e \in Events : Ingest(e)
    BY <1>a, <1>3, MainStill, Sending
  <1>4. CASE \E x \in Exchanges : ExchangeStep(x)
    <2>0. PICK x \in Exchanges : ExchangeStep(x)
      BY <1>4
    <2>1. CASE RuleFires(x)
      <3>1. PICK c \in Procs, q \in Procs \cup {Nobody}, y \in 0..MaxExchanges :
              /\ cap' = [cap EXCEPT ![c] = Copy(c, q, y)]
              /\ q # Nobody => ask[q] = c
        BY <2>1, FireCases
      <3>2. UNCHANGED <<main, ask>>
        BY <2>1, FireCases
      <3>3. Copy(c, q, y).by = q
        BY CopyTyped
      <3>4. Serves'
        BY <1>0, <1>t, <3>1, <3>2, <3>3
      <3>5. Waits'
        BY <1>0, <3>2
      <3> QED BY <1>z, <3>4, <3>5
    <2>2. CASE PostAnswered(x) \/ PostTimesOut(x) \/ TopFrame(x) \/ TopFrameReturns(x)
      <3>1. UNCHANGED <<ask, cap>>
        BY <2>2 DEF PostAnswered, PostTimesOut, TopFrame, TopFrameReturns, handlerVars
      <3>2. UNCHANGED main
        BY <2>0, MainStill
      <3> QED BY <1>a, <3>1, <3>2
    <2> QED BY <2>0, <2>1, <2>2 DEF ExchangeStep
  <1> QED BY <1>1, <1>2, <1>3, <1>4, NextCases

(* The part of the inductive invariant that TypeOK needs.                  *)
Typed == TypeOK /\ TryInv /\ AskInv /\ AgeInv

(* It holds at the start,                                                  *)
LEMMA InitTyped ==
    ASSUME Init
    PROVE  Typed
  <1>1. /\ load \in Workloads
        /\ main = [p \in Procs |-> IF p \in Recorders \/ load.asks THEN "idle"
                                                                   ELSE "exited"]
        /\ faults = load.faults /\ mode \in [Recorders -> load.modes]
        /\ via \in [Exchanges -> Recorders]
    BY DEF Init
  <1>2. load \in Workload /\ load.faults \in Nat /\ load.modes \subseteq Modes
    <2>1. load \in Workload
      BY <1>1, LocalCaptureAssumption
    <2>2. load.faults \in Nat /\ load.modes \in SUBSET Modes
      BY <2>1 DEF Workload
    <2> QED BY <2>1, <2>2
  <1>3. Fresh \in Outcomes /\ Fresh.try = 0
    BY DEF Fresh, Outcomes
  <1>4. MainType
    <2>1. main \in [Procs -> MainPCs]
      BY <1>1 DEF MainPCs, Over
    <2>2. outcome \in [Procs -> Outcomes]
      BY <1>3 DEF Init
    <2>3. mode \in [Recorders -> Modes]
      BY <1>1, <1>2
    <2>4. interrupted \in [Procs -> BOOLEAN] /\ recorded \in [Procs -> BOOLEAN]
      BY DEF Init
    <2> QED BY <1>1, <1>2, <2>1, <2>2, <2>3, <2>4 DEF MainType
  <1>5. CollType
    BY DEF Init, CollType
  <1>6. BufType /\ AgeInv
    <2>1. \A p \in Procs : buf[p] = <<>> /\ old[p] = 0
      BY DEF Init
    <2>2. AgeInv
      BY <2>1 DEF AgeInv
    <2> QED BY <2>2 DEF Init, BufType
  <1>7. HandlerType
    BY IdleTyped DEF Init, HandlerType
  <1>8. AppType
    BY DEF Init, AppType, NoArchive, Stages
  <1>9. HistType
    BY <1>1, <1>2 DEF Init, HistType
  <1>10. TryInv
    <2>1. ASSUME NEW p \in Procs
          PROVE  main[p] \in {"idle", "exited"} /\ outcome[p].try = 0
      BY <1>1, <1>3 DEF Init
    <2> QED BY <2>1 DEF TryInv, TryOK
  <1>11. AskInv
    <2>1. ASSUME NEW p \in Procs
          PROVE  main[p] # "asked" /\ ask[p] = Nobody /\ cap[p].by = Nobody
      BY <1>1 DEF Init, Idle
    <2> QED BY <2>1 DEF AskInv
  <1> QED BY <1>4, <1>5, <1>6, <1>7, <1>8, <1>9, <1>10, <1>11, TypeParts DEF Typed

(* and is kept by every step.                                              *)
LEMMA TypedStep ==
    ASSUME Typed, [Next]_vars
    PROVE  Typed'
  <1>0. /\ MainType /\ CollType /\ BufType /\ HandlerType /\ AppType /\ HistType
        /\ TryInv /\ AskInv /\ AgeInv
    BY TypeParts DEF Typed
  <1>z. ASSUME MainType', CollType', BufType', HandlerType', AppType', HistType',
               TryInv', AskInv', AgeInv'
        PROVE  Typed'
    <2>1. TypeOK'
      BY <1>z, TypeParts, PTL
    <2> QED BY <1>z, <2>1 DEF Typed
  <1>1. CASE Next
    <2>1. MainType' /\ TryInv'
      BY <1>0, <1>1, MainStep
    <2>2. CollType'
      BY <1>0, <1>1, CollStep
    <2>3. BufType' /\ AgeInv'
      BY <1>0, <1>1, BufStep
    <2>4. HandlerType'
      BY <1>0, <1>1, HandlerStep
    <2>5. AppType'
      BY <1>0, <1>1, AppStep
    <2>6. HistType'
      BY <1>0, <1>1, HistStep
    <2>7. AskInv'
      BY <1>0, <1>1, AskInvStep
    <2> QED BY <1>z, <2>1, <2>2, <2>3, <2>4, <2>5, <2>6, <2>7
  <1>2. CASE UNCHANGED vars
    <2>1. /\ UNCHANGED <<load, mode, via, main, interrupted, outcome, recorded>>
          /\ UNCHANGED <<bridge, coll, grpcPort, httpPort, proxyPort>>
          /\ UNCHANGED <<buf, old, aged>>
          /\ UNCHANGED <<ask, arriving, post, orphans, cap, link, listed, stage>>
          /\ UNCHANGED <<due, saved, faults>>
      BY <1>2 DEF vars, mainVars, givenVars, portVars, bufVars, handlerVars,
                  diskVars, histVars
    <2>2. MainType' /\ TryInv'
      BY <1>0, <2>1 DEF MainType, TryInv, TryOK
    <2>3. CollType' /\ BufType' /\ AgeInv'
      BY <1>0, <2>1 DEF CollType, BufType, AgeInv
    <2>4. HandlerType' /\ AskInv'
      BY <1>0, <2>1 DEF HandlerType, AskInv
    <2>5. AppType' /\ HistType'
      BY <1>0, <2>1 DEF AppType, HistType
    <2> QED BY <1>z, <2>2, <2>3, <2>4, <2>5
  <1> QED BY <1>1, <1>2

(* TypeOK: main of a process, its collector, its handlers and the history  *)
(* stay in their types.  That triggerSnapshot is tried at most twice       *)
(* depends on where main is (TryInv) and on a trigger being posted only    *)
(* while main waits for it (AskInv).                                       *)
THEOREM TypeCorrect == Spec => []TypeOK
  <1>1. Init => Typed
    BY InitTyped
  <1>2. Typed /\ [Next]_vars => Typed'
    BY TypedStep
  <1>3. Typed => TypeOK
    BY DEF Typed
  <1> QED BY <1>1, <1>2, <1>3, PTL DEF Spec

(* A process that has ended stays so, and only Exit ends one.              *)
LEMMA OverKept ==
    ASSUME MainType, TryInv, AskInv, HandlerType, Next, NEW c \in Procs
    PROVE  /\ main[c] \in Over => main'[c] \in Over
           /\ main'[c] \in Over => \/ main[c] \in Over
                                   \/ \E how \in Over : Exit(c, how)
  <1>a. ASSUME NEW p \in Procs, NEW l \in MainPCs, At(p, l), l \notin Over,
               main[p] \notin Over
        PROVE  /\ main[c] \in Over => main'[c] \in Over
               /\ main'[c] \in Over => main[c] \in Over
    BY <1>a, AtEffect
  <1>1. CASE \E p \in Procs : ProcStep(p)
    <2>0. PICK p \in Procs : ProcStep(p)
      BY <1>1
    <2>1. CASE StartFails(p) \/ Leave(p) \/ Join(p)
      <3>0. PICK how \in Over : Exit(p, how) /\ main[p] \in {"wait", "leave", "join"}
        BY <2>1, ExitCases
      <3>1. main' = [q \in Procs |-> IF q = p THEN how
                                ELSE IF ask[q] = p THEN Refused(q, outcome[q].try)
                                ELSE main[q]]
        BY <3>0 DEF Exit
      <3>2. CASE c = p
        BY <3>0, <3>1, <3>2
      <3>3. CASE c # p /\ ask[c] = p
        <4>1. main[c] = "asked"
          BY <3>3, NobodyElse DEF AskInv
        <4>2. outcome[c].try \in 1..2
          BY <4>1 DEF TryInv, TryOK
        <4>3. main'[c] = Refused(c, outcome[c].try)
          BY <3>1, <3>3
        <4> QED BY <4>1, <4>2, <4>3, RefusedGoes DEF Over
      <3>4. CASE c # p /\ ask[c] # p
        BY <3>1, <3>4
      <3> QED BY <3>2, <3>3, <3>4
    <2>2. CASE Launch(p) \/ Boot(p) \/ WaitReady(p) \/ Attach(p) \/ ConnectReturns(p)
                 \/ StartCommand(p) \/ StopRecording(p) \/ Stop(p)
      <3>1. main[p] \notin Over /\ \E l \in MainPCs : At(p, l) /\ l \notin Over
        BY <2>2, MoveCases
      <3> QED BY <1>a, <3>1
    <2>3. CASE TriggerSnapshot(p)
      <3>1. main[p] = "save" /\ \E l \in MainPCs : At(p, l) /\ l \notin Over
        BY <2>3, TriggerTries
      <3> QED BY <1>a, <3>1 DEF Over
    <2>4. CASE TriggerTimesOut(p)
      <3>1. main[p] = "asked" /\ \E l \in MainPCs : At(p, l) /\ l \notin Over
        BY <2>4, TimeoutTries
      <3> QED BY <1>a, <3>1 DEF Over
    <2>5. CASE Check(p)
      <3>1. main[p] = "check" /\ \E l \in MainPCs : At(p, l) /\ l \notin Over
        BY <2>5, CheckTries
      <3> QED BY <1>a, <3>1 DEF Over
    <2>6. CASE Export(p) \/ ExportFails(p)
      <3> DEFINE q == cap[p].by
      <3>1. \/ UNCHANGED main
            \/ q \in Procs /\ main[q] = "asked" /\ At(q, "check")
        BY <2>6, AnswersTo
      <3> HIDE DEF q
      <3> QED BY <1>a, <3>1 DEF Over, MainPCs
    <2>7. CASE ListenGRPC(p) \/ ListenHTTP(p) \/ GracefulStop(p) \/ CloseListener(p)
                 \/ Drained(p) \/ TriggerFires(p) \/ OrphanFires(p) \/ Interrupt(p)
                 \/ Age(p)
      <3>1. UNCHANGED main
        BY <2>7, MainStill DEF Interrupt
      <3> QED BY <3>1
    <2> QED BY <2>0, <2>1, <2>2, <2>3, <2>4, <2>5, <2>6, <2>7 DEF ProcStep
  <1>2. CASE \E p \in Recorders : CommandExits(p)
    <2>1. PICK p \in Recorders : main[p] = "recording" /\ At(p, "save")
      BY <1>2, CommandTries
    <2> QED BY <1>a, <2>1, NobodyElse DEF Over, MainPCs
  <1>3. CASE \/ \E e \in Events, p \in Recorders : Emit(e, p)
             \/ \E e \in Events : Ingest(e)
    BY <1>3, MainStill
  <1>4. CASE \E x \in Exchanges : ExchangeStep(x)
    BY <1>4, MainStill
  <1> QED BY <1>1, <1>2, <1>3, <1>4, NextCases
----------------------------------------------------------------------------
(*                     The order of an exchange's events                   *)

(* The exchanges that go through a record proxy.                           *)
Proxied == {x \in Exchanges : mode[via[x]] = "spawn"}

(* No response of an exchange of X comes before its request.               *)
Ordered(s, X) ==
    \A x \in X : \A i, j \in DOMAIN s :
        s[i] = Request(x) /\ s[j] = Response(x) => i < j

(* How far the events of exchange x are: the response is posted after the  *)
(* request's post has ended, and as long as the proxy's process runs the   *)
(* request's post has not ended before the event is added; what is added   *)
(* or under way has been posted.                                           *)
Sequenced(x) ==
    /\ stage[Response(x)] # "none" =>
         stage[Request(x)] = "done" /\ arriving[Request(x)] = Nobody
    /\ arriving[Request(x)] # Nobody /\ main[via[x]] \notin Over =>
         stage[Request(x)] = "waiting"
    /\ arriving[Response(x)] # Nobody => stage[Response(x)] # "none"
    /\ \A c \in Procs : Response(x) \in ToSet(buf[c]) => stage[Response(x)] # "none"

(* The buffers are ordered, because the proxies keep to the sequence.      *)
SequenceInv == \A x \in Proxied : Sequenced(x)
BufInv == \A c \in Procs : Ordered(buf[c], Proxied)

(* How an exchange is recorded never changes.                              *)
LEMMA GivenKept ==
    ASSUME Next
    PROVE  UNCHANGED <<mode, via>> /\ Proxied' = Proxied
  <1>1. UNCHANGED <<mode, via>>
    <2>1. CASE \E p \in Procs : ProcStep(p)
      <3>0. PICK p \in Procs : ProcStep(p)
        BY <2>1
      <3>1. CASE StartFails(p) \/ Leave(p) \/ Join(p)
        BY <3>1, ExitCases DEF Exit, givenVars
      <3>2. CASE Launch(p) \/ Interrupt(p) \/ TriggerTimesOut(p) \/ StartCommand(p)
                   \/ StopRecording(p) \/ TriggerSnapshot(p) \/ Check(p)
                   \/ Boot(p) \/ WaitReady(p) \/ Attach(p) \/ ConnectReturns(p) \/ Stop(p)
        BY <3>2 DEF Launch, Interrupt, TriggerTimesOut, StartCommand, StopRecording,
                    TriggerSnapshot, Check, Only, Boot, WaitReady, Attach,
                    ConnectReturns, Stop, givenVars
      <3>3. CASE ListenGRPC(p) \/ ListenHTTP(p) \/ GracefulStop(p) \/ CloseListener(p)
                   \/ Drained(p) \/ TriggerFires(p) \/ OrphanFires(p) \/ Age(p)
        BY <3>3, MainStill
      <3>4. CASE Export(p) \/ ExportFails(p)
        BY <3>4 DEF Export, ExportFails, Answers, givenVars
      <3> QED BY <3>0, <3>1, <3>2, <3>3, <3>4 DEF ProcStep
    <2>2. CASE \E p \in Recorders : CommandExits(p)
      BY <2>2 DEF CommandExits, givenVars
    <2>3. CASE \/ \E e \in Events, p \in Recorders : Emit(e, p)
               \/ \E e \in Events : Ingest(e)
               \/ \E x \in Exchanges : ExchangeStep(x)
      BY <2>3, MainStill
    <2> QED BY <2>1, <2>2, <2>3, NextCases
  <1> QED BY <1>1 DEF Proxied, Exchanges

(* A post begins with Emit and ends before the end of the process it is at.*)
LEMMA ArrivingCases ==
    ASSUME MainType, TryInv, AskInv, HandlerType, Next, NEW e \in Events
    PROVE  \/ arriving'[e] \in {arriving[e], Nobody}
           \/ \E p \in Recorders : Emit(e, p)
  <1>t. arriving = [f \in Events |-> arriving[f]]
    BY DEF HandlerType
  <1>1. CASE \E p \in Procs : ProcStep(p)
    <2>0. PICK p \in Procs : ProcStep(p)
      BY <1>1
    <2>1. CASE StartFails(p) \/ Leave(p) \/ Join(p)
      <3>1. arriving' = [f \in Events |-> IF arriving[f] = p THEN Nobody ELSE arriving[f]]
        BY <2>1, ExitCases DEF Exit
      <3> QED BY <3>1
    <2>2. CASE TriggerSnapshot(p) \/ TriggerTimesOut(p)
      BY <2>2 DEF TriggerSnapshot, TriggerTimesOut
    <2>3. CASE Export(p) \/ ExportFails(p)
      BY <2>3, AnswersTo
    <2>4. CASE TriggerFires(p) \/ OrphanFires(p)
      BY <2>4 DEF TriggerFires, OrphanFires
    <2>5. CASE \/ Launch(p) \/ Interrupt(p) \/ Boot(p) \/ WaitReady(p) \/ Attach(p)
               \/ ConnectReturns(p) \/ Age(p) \/ StartCommand(p) \/ StopRecording(p)
               \/ Check(p) \/ Stop(p)
               \/ ListenGRPC(p) \/ ListenHTTP(p) \/ GracefulStop(p) \/ CloseListener(p)
               \/ Drained(p)
      BY <2>5, HandlersStill
    <2> QED BY <2>0, <2>1, <2>2, <2>3, <2>4, <2>5 DEF ProcStep
  <1>2. CASE \E p \in Recorders : CommandExits(p)
    BY <1>2, HandlersStill
  <1>3. CASE \E f \in Events, p \in Recorders : Emit(f, p)
    <2>1. PICK f \in Events, p \in Recorders : Emit(f, p)
      BY <1>3
    <2>2. arriving' = [arriving EXCEPT ![f] = httpPort]
      BY <2>1, Sending
    <2>3. CASE f = e
      BY <2>1, <2>3
    <2>4. CASE f # e
      BY <1>t, <2>2, <2>4
    <2> QED BY <2>3, <2>4
  <1>4. CASE \E f \in Events : Ingest(f)
    <2>1. PICK f \in Events : arriving' = [arriving EXCEPT ![f] = Nobody]
      BY <1>4, Sending
    <2> QED BY <1>t, <2>1
  <1>5. CASE \E x \in Exchanges : ExchangeStep(x)
    BY <1>5 DEF ExchangeStep, RuleFires, PostAnswered, PostTimesOut, TopFrame,
                TopFrameReturns, handlerVars
  <1> QED BY <1>1, <1>2, <1>3, <1>4, <1>5, NextCases

(* The poster of a request waits until the request is added, unless its    *)
(* process or the collector's ends.                                        *)
LEMMA RequestWaits ==
    ASSUME MainType, AppType, HandlerType, Next, NEW x \in Exchanges,
           stage[Request(x)] = "waiting"
    PROVE  \/ stage'[Request(x)] = "waiting"
           \/ arriving'[Request(x)] = Nobody
           \/ main'[via[x]] \in Over
  <1> DEFINE a == Request(x)
  <1>0. /\ a \in Events /\ a[1] = x /\ a[2] # "response"
        /\ \A y \in Exchanges : Response(y) \in Events /\ Response(y) # a
    BY DEF Request, Response, Events
  <1>t. /\ stage = [e \in Events |-> stage[e]] /\ arriving = [e \in Events |-> arriving[e]]
        /\ stage[a] = "waiting"
    BY DEF AppType, HandlerType
  <1>v. via[x] \in Procs
    BY NobodyElse DEF MainType
  <1> HIDE DEF a
  <1>s. ASSUME NEW e \in Events, e # a, NEW l, stage' = [stage EXCEPT ![e] = l]
        PROVE  stage'[a] = "waiting"
    BY <1>0, <1>t, <1>s
  <1>r. ASSUME NEW y \in Exchanges, Replied(Response(y)) PROVE stage'[a] = "waiting"
    BY <1>0, <1>r, <1>s DEF Replied
  <1>1. CASE \E p \in Procs : ProcStep(p)
    <2>0. PICK p \in Procs : ProcStep(p)
      BY <1>1
    <2>1. CASE StartFails(p) \/ Leave(p) \/ Join(p)
      <3>0. PICK how \in Over : Exit(p, how)
        BY <2>1, ExitCases
      <3>1. /\ main' = [q \in Procs |-> IF q = p THEN how
                                ELSE IF ask[q] = p THEN Refused(q, outcome[q].try)
                                ELSE main[q]]
            /\ arriving' = [e \in Events |-> IF arriving[e] = p THEN Nobody
                                                                ELSE arriving[e]]
            /\ stage' = [e \in Events |->
                   IF stage[e] \in {"none", "done"} THEN stage[e]
                   ELSE IF via[e[1]] = p THEN "done"
                   ELSE IF stage[e] = "waiting" /\ Handles(p, e) THEN AfterFailure(e)
                   ELSE stage[e]]
        BY <3>0 DEF Exit
      <3>2. CASE via[x] = p
        BY <1>v, <3>1, <3>2 DEF a
      <3>3. CASE via[x] # p /\ arriving[a] = p
        BY <1>0, <3>1, <3>3 DEF a
      <3>4. CASE via[x] # p /\ arriving[a] # p
        <4>1. ~ Handles(p, a)
          BY <1>0, <3>4 DEF Handles
        <4>2. stage'[a] = "waiting"
          BY <1>0, <1>t, <3>1, <3>4, <4>1
        <4> QED BY <4>2 DEF a
      <3> QED BY <3>2, <3>3, <3>4
    <2>2. CASE Export(p) \/ ExportFails(p)
      <3>1. UNCHANGED stage \/ \E y \in Exchanges : Replied(Response(y))
        BY <2>2, AnswersPost
      <3> QED BY <1>r, <1>t, <3>1 DEF a
    <2>3. CASE Launch(p) \/ Interrupt(p) \/ TriggerTimesOut(p) \/ StartCommand(p)
                 \/ StopRecording(p) \/ TriggerSnapshot(p) \/ Check(p)
                 \/ Boot(p) \/ WaitReady(p) \/ Attach(p) \/ ConnectReturns(p) \/ Stop(p)
                 \/ ListenGRPC(p) \/ ListenHTTP(p) \/ GracefulStop(p) \/ CloseListener(p)
                 \/ Drained(p) \/ TriggerFires(p) \/ OrphanFires(p) \/ Age(p)
      BY <2>3, StageStill
    <2> QED BY <2>0, <2>1, <2>2, <2>3 DEF ProcStep
  <1>2. CASE \E p \in Recorders : CommandExits(p)
    BY <1>2, StageStill
  <1>3. CASE \E e \in Events, p \in Recorders : Emit(e, p)
    <2>1. PICK e \in Events, p \in Recorders : Emit(e, p)
      BY <1>3
    <2>2. stage[e] = "none" /\ \E l : stage' = [stage EXCEPT ![e] = l]
      BY <2>1 DEF Emit
    <2> QED BY <1>s, <1>t, <2>2 DEF a
  <1>4. CASE \E e \in Events : Ingest(e)
    <2>1. PICK e \in Events : Ingest(e)
      BY <1>4
    <2>2. CASE e = a
      <3>1. arriving' = [arriving EXCEPT ![a] = Nobody]
        BY <2>1, <2>2, Sending
      <3> QED BY <1>0, <1>t, <3>1 DEF a
    <2>3. CASE e # a
      <3>1. UNCHANGED stage \/ \E l : stage' = [stage EXCEPT ![e] = l]
        BY <2>1 DEF Ingest, Replied
      <3> QED BY <1>s, <1>t, <2>3, <3>1 DEF a
    <2> QED BY <2>2, <2>3
  <1>5. CASE \E y \in Exchanges : ExchangeStep(y)
    <2>0. PICK y \in Exchanges : ExchangeStep(y)
      BY <1>5
    <2>1. CASE RuleFires(y) \/ PostAnswered(y)
      <3>1. UNCHANGED stage \/ Replied(Response(y))
        BY <2>1 DEF RuleFires, PostAnswered
      <3> QED BY <1>r, <1>t, <3>1 DEF a
    <2>2. CASE PostTimesOut(y) \/ TopFrame(y) \/ TopFrameReturns(y)
      <3>1. \E l : stage' = [stage EXCEPT ![Response(y)] = l]
        BY <2>2 DEF PostTimesOut, TopFrame, TopFrameReturns
      <3> QED BY <1>0, <1>s, <3>1 DEF a
    <2> QED BY <2>0, <2>1, <2>2 DEF ExchangeStep
  <1> QED BY <1>1, <1>2, <1>3, <1>4, <1>5, NextCases

(* Appending keeps the order if it is not a request after its response.    *)
LEMMA AppendOrdered ==
    ASSUME NEW X \in SUBSET Exchanges, NEW s \in Seq(Events), Ordered(s, X),
           NEW e \in Events,
           \A x \in X : e = Request(x) => Response(x) \notin ToSet(s)
    PROVE  Ordered(Append(s, e), X)
  <1> DEFINE t == Append(s, e)
  <1>1. /\ DOMAIN s = 1..Len(s) /\ Len(s) \in Nat
        /\ DOMAIN t = 1..(Len(s) + 1)
        /\ \A i \in 1..Len(s) : t[i] = s[i]
        /\ t[Len(s) + 1] = e
    BY AppendProperties
  <1> HIDE DEF t
  <1>2. ASSUME NEW x \in X, NEW i \in DOMAIN t, NEW j \in DOMAIN t,
               t[i] = Request(x), t[j] = Response(x)
        PROVE  i < j
    <2>1. i # j
      BY <1>2 DEF Request, Response
    <2>2. CASE i \in 1..Len(s) /\ j \in 1..Len(s)
      BY <1>1, <1>2, <2>2 DEF Ordered
    <2>3. CASE i \in 1..Len(s) /\ j = Len(s) + 1
      BY <1>1, <2>3
    <2>4. CASE i = Len(s) + 1 /\ j \in 1..Len(s)
      <3>1. e = Request(x) /\ s[j] = Response(x)
        BY <1>1, <1>2, <2>4
      <3>2. Response(x) \in ToSet(s)
        BY <1>1, <2>4, <3>1 DEF ToSet
      <3> QED BY <3>1, <3>2
    <2> QED BY <1>1, <2>1, <2>2, <2>3, <2>4
  <1>3. Ordered(t, X)
    BY <1>2 DEF Ordered
  <1> QED BY <1>3 DEF t

(* What is left after an eviction is in order.                             *)
LEMMA RestOrdered ==
    ASSUME NEW X, NEW s \in Seq(Events), Ordered(s, X), NEW n \in Nat, n <= Len(s)
    PROVE  Ordered(Rest(s, n), X)
  <1> DEFINE t == Rest(s, n)
  <1>0. Len(s) \in Nat /\ DOMAIN s = 1..Len(s)
    OBVIOUS
  <1>1. /\ t \in Seq(Events) /\ Len(t) = Len(s) - n
        /\ \A i \in 1..(Len(s) - n) : t[i] = s[n + i]
    BY RestEvents
  <1> HIDE DEF t
  <1>2. DOMAIN t = 1..(Len(s) - n)
    BY <1>1
  <1>3. ASSUME NEW x \in X, NEW i \in DOMAIN t, NEW j \in DOMAIN t,
               t[i] = Request(x), t[j] = Response(x)
        PROVE  i < j
    <2>1. n + i \in DOMAIN s /\ n + j \in DOMAIN s /\ i \in Nat /\ j \in Nat
      BY <1>0, <1>2
    <2>2. s[n + i] = Request(x) /\ s[n + j] = Response(x)
      BY <1>1, <1>2, <1>3
    <2>3. n + i < n + j
      BY <2>1, <2>2 DEF Ordered
    <2> QED BY <2>1, <2>3
  <1>4. Ordered(t, X)
    BY <1>3 DEF Ordered
  <1> QED BY <1>4 DEF t

(* What is new in a buffer has just been added.                            *)
LEMMA BufHas ==
    ASSUME BufType, AgeInv, HandlerType, Next, NEW c \in Procs, NEW e \in Events,
           e \in ToSet(buf'[c])
    PROVE  e \in ToSet(buf[c]) \/ arriving[e] # Nobody
  <1>1. CASE UNCHANGED buf
    BY <1>1
  <1>2. CASE \E p \in Procs : buf' = [buf EXCEPT ![p] = <<>>]
    <2>1. PICK p \in Procs : buf' = [buf EXCEPT ![p] = <<>>]
      BY <1>2
    <2>2. ToSet(<<>>) = {}
      BY DEF ToSet
    <2>3. buf'[c] = IF c = p THEN <<>> ELSE buf[c]
      BY <2>1 DEF BufType
    <2> QED BY <2>2, <2>3
  <1>3. CASE \E f \in Events : arriving[f] # Nobody /\ Add(arriving[f], f)
    <2>0. PICK f \in Events : arriving[f] # Nobody /\ Add(arriving[f], f)
      BY <1>3
    <2> DEFINE d == arriving[f]
    <2>1. d \in Procs /\ Add(d, f)
      BY <2>0, IngestAt
    <2> HIDE DEF d
    <2>2. /\ Rest(buf[d], old[d]) \in Seq(Events)
          /\ ToSet(Rest(buf[d], old[d])) \subseteq ToSet(buf[d])
          /\ buf'[c] = IF c = d THEN Append(Rest(buf[d], old[d]), f) ELSE buf[c]
      BY <2>1, AddEffect
    <2>3. CASE c = d
      <3>1. ToSet(buf'[c]) = ToSet(Rest(buf[d], old[d])) \cup {f}
        BY <2>2, <2>3, AppendEvents
      <3> QED BY <2>0, <2>2, <2>3, <3>1
    <2>4. CASE c # d
      BY <2>2, <2>4
    <2> QED BY <2>3, <2>4
  <1> QED BY <1>1, <1>2, <1>3, BufCases

(* Every step keeps to the sequence.                                       *)
LEMMA SequenceStep ==
    ASSUME MainType, TryInv, AskInv, CollType, BufType, AgeInv, HandlerType, AppType,
           SequenceInv, Next
    PROVE  SequenceInv'
  <1>0. UNCHANGED <<mode, via>> /\ Proxied' = Proxied
    BY GivenKept
  <1>1. ASSUME NEW x \in Proxied PROVE Sequenced(x)'
    <2> DEFINE a == Request(x)
               r == Response(x)
    <2>0. x \in Exchanges /\ mode[via[x]] = "spawn" /\ via[x] \in Procs
      BY NobodyElse DEF Proxied, MainType
    <2>1. /\ a \in Events /\ r \in Events /\ a # r /\ a[1] = x /\ r[1] = x
          /\ a[2] = "request" /\ r[2] = "response"
      BY <2>0 DEF Request, Response, Events
    <2>2. /\ stage[r] # "none" => stage[a] = "done" /\ arriving[a] = Nobody
          /\ arriving[a] # Nobody /\ main[via[x]] \notin Over => stage[a] = "waiting"
          /\ arriving[r] # Nobody => stage[r] # "none"
          /\ \A c \in Procs : r \in ToSet(buf[c]) => stage[r] # "none"
      BY DEF SequenceInv, Sequenced
    <2>3. /\ \A e \in Events : Onward(e)
          /\ \A e \in Events : stage[e] = "none" /\ stage'[e] # "none" =>
                \E p \in Recorders : Emit(e, p)
      BY StageGoes
    <2>4. main'[via[x]] \notin Over => main[via[x]] \notin Over
      BY <2>0, OverKept
    <2>e. ASSUME NEW e \in {a, r}, NEW p \in Recorders, Emit(e, p)
          PROVE  /\ stage[e] = "none"
                 /\ e = r => main[via[x]] \notin Over /\ stage[a] = "done"
                 /\ arriving'[e] = httpPort
                 /\ \A f \in Events : f # e => arriving'[f] = arriving[f]
                                               /\ stage'[f] = stage[f]
                 /\ stage'[e] # "none"
                 /\ httpPort # Nobody => stage'[e] = "waiting"
      <3>1. /\ stage[e] = "none" /\ via[x] = p /\ InTurn(e, p)
            /\ arriving' = [arriving EXCEPT ![e] = httpPort]
            /\ stage' = [stage EXCEPT ![e] = IF httpPort = Nobody THEN AfterFailure(e)
                                    ELSE IF mode[p] = "preload" THEN "done"
                                    ELSE "waiting"]
        BY <2>e, <2>1 DEF Emit
      <3>2. e = r => main[via[x]] \notin Over /\ stage[a] = "done"
        BY <2>0, <2>1, <3>1 DEF InTurn
      <3>3. AfterFailure(e) # "none"
        BY DEF AfterFailure, AfterPost
      <3>4. e \in Events /\ mode[p] = "spawn"
        BY <2>0, <2>1, <3>1
      <3>5. /\ arriving'[e] = httpPort
            /\ \A f \in Events : f # e => arriving'[f] = arriving[f]
        BY <3>1, <3>4 DEF HandlerType
      <3>6. /\ \A f \in Events : f # e => stage'[f] = stage[f]
            /\ stage'[e] = IF httpPort = Nobody THEN AfterFailure(e) ELSE "waiting"
        BY <3>1, <3>4 DEF AppType
      <3> QED BY <3>1, <3>2, <3>3, <3>5, <3>6
    <2> HIDE DEF a, r
    <2>5. stage'[r] # "none" => stage'[a] = "done" /\ arriving'[a] = Nobody
      <3> SUFFICES ASSUME stage'[r] # "none"
                   PROVE  stage'[a] = "done" /\ arriving'[a] = Nobody
        OBVIOUS
      <3>1. CASE stage[r] # "none"
        <4>1. stage[a] = "done" /\ arriving[a] = Nobody
          BY <2>2, <3>1
        <4>2. ~ \E p \in Recorders : Emit(a, p)
          BY <2>e, <4>1
        <4>3. arriving'[a] = Nobody
          BY <2>1, <4>1, <4>2, ArrivingCases
        <4> QED BY <2>1, <2>3, <4>1, <4>3 DEF Onward
      <3>2. CASE stage[r] = "none"
        <4>1. PICK p \in Recorders : Emit(r, p)
          BY <2>1, <2>3, <3>2
        <4>2. /\ main[via[x]] \notin Over /\ stage[a] = "done"
              /\ arriving'[a] = arriving[a] /\ stage'[a] = stage[a]
          BY <2>1, <2>e, <4>1
        <4> QED BY <2>2, <4>2
      <3> QED BY <3>1, <3>2
    <2>6. arriving'[a] # Nobody /\ main'[via[x]] \notin Over => stage'[a] = "waiting"
      <3> SUFFICES ASSUME arriving'[a] # Nobody, main'[via[x]] \notin Over
                   PROVE  stage'[a] = "waiting"
        OBVIOUS
      <3>1. CASE \E p \in Recorders : Emit(a, p)
        BY <2>e, <3>1
      <3>2. CASE ~ \E p \in Recorders : Emit(a, p)
        <4>1. arriving[a] # Nobody
          BY <2>1, <3>2, ArrivingCases
        <4>2. stage[a] = "waiting"
          BY <2>2, <2>4, <4>1
        <4> QED BY <2>0, <4>2, RequestWaits DEF a
      <3> QED BY <3>1, <3>2
    <2>7. arriving'[r] # Nobody => stage'[r] # "none"
      <3>1. CASE \E p \in Recorders : Emit(r, p)
        BY <2>e, <3>1
      <3>2. CASE ~ \E p \in Recorders : Emit(r, p)
        BY <2>1, <2>2, <2>3, <3>2, ArrivingCases DEF Onward
      <3> QED BY <3>1, <3>2
    <2>8. ASSUME NEW c \in Procs, r \in ToSet(buf'[c]) PROVE stage'[r] # "none"
      <3>1. stage[r] # "none"
        BY <2>1, <2>2, <2>8, BufHas
      <3> QED BY <2>1, <2>3, <3>1 DEF Onward
    <2> QED BY <1>0, <2>5, <2>6, <2>7, <2>8
            DEF Sequenced, a, r, Request, Response, Nobody, Over, Procs
  <1> QED BY <1>0, <1>1 DEF SequenceInv

(* The buffers stay ordered.                                               *)
LEMMA BufInvStep ==
    ASSUME HandlerType, BufType, AgeInv, SequenceInv, BufInv, Next
    PROVE  BufInv'
  <1>0. Proxied' = Proxied /\ Proxied \in SUBSET Exchanges
    BY GivenKept DEF Proxied
  <1>1. ASSUME \A c \in Procs : Ordered(buf'[c], Proxied) PROVE BufInv'
    BY <1>0, <1>1 DEF BufInv, Ordered, Request, Response, Procs
  <1>2. CASE UNCHANGED buf
    BY <1>1, <1>2 DEF BufInv
  <1>3. CASE \E p \in Procs : buf' = [buf EXCEPT ![p] = <<>>]
    <2>1. PICK p \in Procs : buf' = [buf EXCEPT ![p] = <<>>]
      BY <1>3
    <2>2. Ordered(<<>>, Proxied)
      BY DEF Ordered
    <2>3. ASSUME NEW c \in Procs PROVE buf'[c] = IF c = p THEN <<>> ELSE buf[c]
      BY <2>1 DEF BufType
    <2> QED BY <1>1, <2>2, <2>3 DEF BufInv
  <1>4. CASE \E e \in Events : arriving[e] # Nobody /\ Add(arriving[e], e)
    <2>0. PICK e \in Events : arriving[e] # Nobody /\ Add(arriving[e], e)
      BY <1>4
    <2> DEFINE d == arriving[e]
    <2>1. d \in Procs /\ Add(d, e)
      BY <2>0, IngestAt
    <2> HIDE DEF d
    <2> DEFINE s == Rest(buf[d], old[d])
    <2>2. /\ s \in Seq(Events) /\ ToSet(s) \subseteq ToSet(buf[d])
          /\ \A c \in Procs : buf'[c] = IF c = d THEN Append(s, e) ELSE buf[c]
      BY <2>1, AddEffect
    <2>3. Ordered(s, Proxied)
      BY <2>1, RestOrdered DEF BufInv, BufType, AgeInv
    <2> HIDE DEF s
    <2>4. ASSUME NEW x \in Proxied, e = Request(x) PROVE Response(x) \notin ToSet(s)
      BY <2>0, <2>1, <2>2, <2>4 DEF SequenceInv, Sequenced
    <2>5. Ordered(Append(s, e), Proxied)
      BY <1>0, <2>2, <2>3, <2>4, AppendOrdered
    <2> QED BY <1>1, <2>2, <2>5 DEF BufInv
  <1> QED BY <1>2, <1>3, <1>4, BufCases

(* What a collector has in hand is what it had, nothing, or a copy of its  *)
(* buffer.                                                                 *)
LEMMA CapCases ==
    ASSUME MainType, TryInv, AskInv, HandlerType, BufType, Next, NEW c \in Procs
    PROVE  \/ cap'[c].events = cap[c].events
           \/ cap'[c] = Idle
           \/ cap'[c].events = buf[c]
  <1>t. cap = [d \in Procs |-> cap[d]]
    BY DEF HandlerType
  <1>1. CASE \E p \in Procs : ProcStep(p)
    <2>0. PICK p \in Procs : ProcStep(p)
      BY <1>1
    <2>1. CASE StartFails(p) \/ Leave(p) \/ Join(p)
      <3>1. cap' = [Unclaimed(p) EXCEPT ![p] = Idle]
        BY <2>1, ExitCases DEF Exit
      <3>2. cap'[c] = Idle \/ cap'[c] = Unclaimed(p)[c]
        BY <3>1, Abandoned
      <3> QED BY <3>2, Abandoned
    <2>2. CASE TriggerTimesOut(p)
      BY <2>2, Abandoned DEF TriggerTimesOut
    <2>3. CASE Export(p) \/ ExportFails(p)
      <3>1. cap' = [cap EXCEPT ![p] = Idle]
        BY <2>3, AnswersTo
      <3> QED BY <1>t, <3>1
    <2>4. CASE TriggerFires(p) \/ OrphanFires(p)
      <3>1. PICK d \in Procs, q \in Procs \cup {Nobody}, x \in 0..MaxExchanges :
              cap' = [cap EXCEPT ![d] = Copy(d, q, x)]
        BY <2>4, FireCases
      <3>2. CASE c = d
        <4>1. cap'[c] = Copy(c, q, x)
          BY <1>t, <3>1, <3>2
        <4>2. Copy(c, q, x).events = buf[c]
          BY CopyTyped
        <4> QED BY <4>1, <4>2
      <3>3. CASE c # d
        <4>1. cap'[c] = cap[c]
          BY <1>t, <3>1, <3>3
        <4> QED BY <4>1
      <3> QED BY <3>2, <3>3
    <2>5. CASE \/ Launch(p) \/ Interrupt(p) \/ Boot(p) \/ WaitReady(p) \/ Attach(p)
               \/ ConnectReturns(p) \/ Age(p)
               \/ StartCommand(p) \/ StopRecording(p) \/ Check(p) \/ Stop(p)
               \/ ListenGRPC(p) \/ ListenHTTP(p) \/ GracefulStop(p) \/ CloseListener(p)
               \/ Drained(p)
      BY <2>5, HandlersStill
    <2>6. CASE TriggerSnapshot(p)
      BY <2>6 DEF TriggerSnapshot
    <2> QED BY <2>0, <2>1, <2>2, <2>3, <2>4, <2>5, <2>6 DEF ProcStep
  <1>2. CASE \E p \in Recorders : CommandExits(p)
    BY <1>2, HandlersStill
  <1>3. CASE \/ \E e \in Events, p \in Recorders : Emit(e, p)
             \/ \E e \in Events : Ingest(e)
    BY <1>3, Sending
  <1>4. CASE \E x \in Exchanges : ExchangeStep(x)
    <2>0. PICK x \in Exchanges : ExchangeStep(x)
      BY <1>4
    <2>1. CASE RuleFires(x)
      <3>1. PICK d \in Procs, q \in Procs \cup {Nobody}, y \in 0..MaxExchanges :
              cap' = [cap EXCEPT ![d] = Copy(d, q, y)]
        BY <2>1, FireCases
      <3>2. CASE c = d
        <4>1. cap'[c] = Copy(c, q, y)
          BY <1>t, <3>1, <3>2
        <4>2. Copy(c, q, y).events = buf[c]
          BY CopyTyped
        <4> QED BY <4>1, <4>2
      <3>3. CASE c # d
        <4>1. cap'[c] = cap[c]
          BY <1>t, <3>1, <3>3
        <4> QED BY <4>1
      <3> QED BY <3>2, <3>3
    <2>2. CASE PostAnswered(x) \/ PostTimesOut(x) \/ TopFrame(x) \/ TopFrameReturns(x)
      <3>1. UNCHANGED cap
        BY <2>2 DEF PostAnswered, PostTimesOut, TopFrame, TopFrameReturns, handlerVars
      <3> QED BY <3>1
    <2> QED BY <2>0, <2>1, <2>2 DEF ExchangeStep
  <1> QED BY <1>1, <1>2, <1>3, <1>4, NextCases

(* What is being archived is in order because the buffer was.              *)
LEMMA OrderedStep ==
    ASSUME MainType, TryInv, AskInv, HandlerType, BufType, BufInv, ExchangeOrdered,
           Next
    PROVE  ExchangeOrdered'
  <1>0. UNCHANGED <<mode, via>>
    BY GivenKept
  <1>1. ASSUME NEW c \in Procs PROVE Ordered(cap'[c].events, Proxied)
    <2>1. Ordered(cap[c].events, Proxied)
      BY DEF ExchangeOrdered, Ordered, Proxied
    <2>2. Ordered(buf[c], Proxied)
      BY DEF BufInv
    <2>3. Ordered(Idle.events, Proxied)
      BY DEF Idle, Ordered
    <2> QED BY <2>1, <2>2, <2>3, CapCases
  <1>2. ASSUME NEW c \in Procs, NEW x \in Exchanges, mode'[via'[x]] = "spawn",
               NEW i \in DOMAIN cap'[c].events, NEW j \in DOMAIN cap'[c].events,
               cap'[c].events[i] = Request(x), cap'[c].events[j] = Response(x)
        PROVE  i < j
    <2>1. x \in Proxied
      BY <1>0, <1>2 DEF Proxied
    <2> QED BY <1>1, <1>2, <2>1 DEF Ordered
  <1> QED BY <1>2 DEF ExchangeOrdered, Exchanges, Procs, Request, Response

(* ExchangeOrdered: whatever proxies, collectors, evictions and ends of    *)
(* processes interleave, and although the request may be posted to one     *)
(* collector and the response to another, an archive has the request of a  *)
(* proxy's exchange before its response if it has both.  The argument is   *)
(* the proxy's: it does not pass the exchange on before the post of the    *)
(* request has ended, and while its process runs that post does not end    *)
(* with the request still to be added.                                     *)
THEOREM ArchivesOrdered == Spec => []ExchangeOrdered
  <1> DEFINE I == Typed /\ SequenceInv /\ BufInv /\ ExchangeOrdered
  <1>1. Init => I
    <2>1. ASSUME Init PROVE SequenceInv /\ BufInv
      <3>1. /\ \A c \in Procs : buf[c] = <<>>
            /\ \A e \in Events : stage[e] = "none" /\ arriving[e] = Nobody
        BY <2>1 DEF Init
      <3>2. \A x \in Proxied : Request(x) \in Events /\ Response(x) \in Events
        BY ExchangeEvents DEF Proxied
      <3>3. ToSet(<<>>) = {}
        BY DEF ToSet
      <3>4. SequenceInv
        BY <3>1, <3>2, <3>3 DEF SequenceInv, Sequenced
      <3> QED BY <3>1, <3>4 DEF BufInv, Ordered
    <2>2. ASSUME Init PROVE ExchangeOrdered
      <3>1. \A c \in Procs : cap[c].events = <<>>
        BY <2>2 DEF Init, Idle
      <3> QED BY <3>1 DEF ExchangeOrdered
    <2> QED BY <2>1, <2>2, InitTyped
  <1>2. I /\ [Next]_vars => I'
    <2> SUFFICES ASSUME I, [Next]_vars PROVE I'
      OBVIOUS
    <2>1. Typed'
      BY TypedStep
    <2>2. /\ MainType /\ CollType /\ BufType /\ HandlerType /\ AppType
          /\ TryInv /\ AskInv /\ AgeInv
      BY TypeParts DEF Typed
    <2>3. CASE Next
      BY <2>1, <2>2, <2>3, SequenceStep, BufInvStep, OrderedStep
    <2>4. CASE UNCHANGED vars
      <3>1. UNCHANGED <<mode, via, main, buf, stage, arriving, cap>>
        BY <2>4 DEF vars, mainVars, givenVars, bufVars, handlerVars
      <3>2. Proxied' = Proxied
        BY <3>1 DEF Proxied, Exchanges
      <3>3. SequenceInv'
        BY <3>1, <3>2 DEF SequenceInv, Sequenced
      <3>4. BufInv'
        BY <3>1, <3>2 DEF BufInv, Ordered
      <3>5. ExchangeOrdered'
        BY <3>1 DEF ExchangeOrdered
      <3> QED BY <2>1, <3>3, <3>4, <3>5
    <2> QED BY <2>3, <2>4
  <1>3. I => ExchangeOrdered
    OBVIOUS
  <1> QED BY <1>1, <1>2, <1>3, PTL DEF Spec
----------------------------------------------------------------------------
(*                      What a reported snapshot covers                    *)

(* Nothing is going on at the collector of c, and it has no port.          *)
Quiet(c) ==
    /\ httpPort # c /\ coll[c] \in {"none", "down"}
    /\ orphans[c] = 0 /\ cap[c] = Idle
    /\ \A p \in Procs : ask[p] # c
    /\ \A e \in Events : arriving[e] # c
    /\ \A x \in Exchanges : post[x] # c

(* A process that has ended handles nothing.                               *)
OverInv == \A c \in Procs : main[c] \in Over => Quiet(c)

(* The end of a process leaves its collector quiet.                        *)
LEMMA ExitQuiet ==
    ASSUME CollType, HandlerType, NEW c \in Procs, NEW how \in Over, Exit(c, how)
    PROVE  Quiet(c)'
  <1>1. /\ coll' = [coll EXCEPT ![c] = "down"] /\ httpPort' = Freed(httpPort, c)
        /\ ask' = [q \in Procs |-> IF q = c \/ ask[q] = c THEN Nobody ELSE ask[q]]
        /\ orphans' = [Orphaned(c) EXCEPT ![c] = 0]
        /\ cap' = [Unclaimed(c) EXCEPT ![c] = Idle]
        /\ arriving' = [e \in Events |-> IF arriving[e] = c THEN Nobody ELSE arriving[e]]
        /\ post' = [x \in Exchanges |-> IF post[x] = c THEN Nobody ELSE post[x]]
    BY DEF Exit
  <1>2. coll'[c] = "down" /\ httpPort' # c
    BY <1>1, NobodyElse DEF CollType, Freed
  <1>3. orphans'[c] = 0 /\ cap'[c] = Idle
    BY <1>1, Abandoned
  <1>4. \A q \in Procs : ask'[q] # c
    BY <1>1, NobodyElse
  <1>5. /\ \A x \in Exchanges : post'[x] # c
        /\ \A e \in Events : arriving'[e] # c
    BY <1>1, NobodyElse
  <1>6. Idle' = Idle
    BY DEF Idle, Nobody
  <1> QED BY <1>2, <1>3, <1>4, <1>5, <1>6 DEF Quiet, Procs, Exchanges, Events

(* A collector that is quiet stays quiet when its process has ended: it    *)
(* can neither start nor get the port, and nobody can reach it.            *)
LEMMA QuietPort ==
    ASSUME CollType, MainType, NEW c \in Procs, main[c] \in Over, Quiet(c), Next
    PROVE  httpPort' # c /\ coll'[c] \in {"none", "down"}
  <1>0. httpPort # c /\ coll[c] \in {"none", "down"}
    BY DEF Quiet
  <1>t. coll = [p \in Procs |-> coll[p]]
    BY DEF CollType
  <1>a. ASSUME UNCHANGED <<coll, httpPort>>
        PROVE  httpPort' # c /\ coll'[c] \in {"none", "down"}
    BY <1>0, <1>a
  <1>1. CASE \E p \in Procs : ProcStep(p)
    <2>0. PICK p \in Procs : ProcStep(p)
      BY <1>1
    <2>1. CASE StartFails(p) \/ Leave(p) \/ Join(p)
      <3>1. coll' = [coll EXCEPT ![p] = "down"] /\ httpPort' = Freed(httpPort, p)
        BY <2>1, ExitCases DEF Exit
      <3> QED BY <1>0, <1>t, <3>1, NobodyElse DEF Freed
    <2>2. CASE Boot(p)
      <3>1. /\ main[p] = "boot" /\ coll' = [coll EXCEPT ![p] = "starting"]
            /\ UNCHANGED httpPort
        BY <2>2 DEF Boot, portVars
      <3>2. c # p
        BY <3>1 DEF Over
      <3> QED BY <1>0, <1>t, <3>1, <3>2
    <2>3. CASE ListenGRPC(p) \/ ListenHTTP(p) \/ GracefulStop(p) \/ CloseListener(p)
                 \/ Drained(p)
      <3>1. /\ coll[p] \in {"starting", "grpc", "serving", "deaf", "stopping", "draining"}
            /\ \E l : coll' = [coll EXCEPT ![p] = l]
            /\ httpPort' \in {httpPort, p, Nobody}
        BY <2>3 DEF ListenGRPC, ListenHTTP, GracefulStop, CloseListener, Drained,
                    CollectorGoes, Freed
      <3>2. c # p
        BY <1>0, <3>1
      <3> QED BY <1>0, <1>t, <3>1, <3>2, NobodyElse
    <2>4. CASE Launch(p) \/ Interrupt(p) \/ TriggerTimesOut(p) \/ StartCommand(p)
                 \/ StopRecording(p) \/ TriggerSnapshot(p) \/ Check(p)
                 \/ WaitReady(p) \/ Attach(p) \/ ConnectReturns(p) \/ Stop(p)
      BY <1>a, <2>4 DEF Launch, Interrupt, TriggerTimesOut, StartCommand,
                  StopRecording, TriggerSnapshot, Check, Only, WaitReady, Attach,
                  ConnectReturns, Stop, portVars
    <2>5. CASE Export(p) \/ ExportFails(p) \/ TriggerFires(p) \/ OrphanFires(p) \/ Age(p)
      BY <1>a, <2>5 DEF Export, ExportFails, TriggerFires, OrphanFires, Answers,
                  Age, portVars
    <2> QED BY <2>0, <2>1, <2>2, <2>3, <2>4, <2>5 DEF ProcStep
  <1>2. CASE \E p \in Recorders : CommandExits(p)
    BY <1>a, <1>2 DEF CommandExits, portVars
  <1>3. CASE \/ \E e \in Events, p \in Recorders : Emit(e, p)
             \/ \E e \in Events : Ingest(e)
    BY <1>a, <1>3 DEF Emit, Ingest, portVars
  <1>4. CASE \E x \in Exchanges : ExchangeStep(x)
    BY <1>a, <1>4 DEF ExchangeStep, RuleFires, PostAnswered, PostTimesOut, TopFrame,
                TopFrameReturns, portVars
  <1> QED BY <1>1, <1>2, <1>3, <1>4, NextCases

(* ... and gets nothing to do.                                             *)
LEMMA QuietHandlers ==
    ASSUME CollType, MainType, TryInv, AskInv, BufType, HandlerType,
           NEW c \in Procs, Quiet(c), Next
    PROVE  /\ orphans'[c] = 0 /\ cap'[c] = Idle
           /\ \A p \in Procs : ask'[p] # c
           /\ \A e \in Events : arriving'[e] # c
           /\ \A x \in Exchanges : post'[x] # c
  <1> DEFINE Goal == /\ orphans'[c] = 0 /\ cap'[c] = Idle
                     /\ \A p \in Procs : ask'[p] # c
                     /\ \A e \in Events : arriving'[e] # c
                     /\ \A x \in Exchanges : post'[x] # c
  <1>0. /\ httpPort # c /\ orphans[c] = 0 /\ cap[c] = Idle
        /\ \A p \in Procs : ask[p] # c
        /\ \A e \in Events : arriving[e] # c
        /\ \A x \in Exchanges : post[x] # c
    BY DEF Quiet
  <1>t. /\ ask = [p \in Procs |-> ask[p]] /\ cap = [p \in Procs |-> cap[p]]
        /\ arriving = [e \in Events |-> arriving[e]]
        /\ post = [x \in Exchanges |-> post[x]]
        /\ orphans = [p \in Procs |-> orphans[p]]
        /\ c # Nobody
    BY NobodyElse DEF HandlerType
  <1>a. ASSUME UNCHANGED <<ask, arriving, post, orphans, cap>> PROVE Goal
    BY <1>0, <1>a
  <1>b. ASSUME NEW p \in Procs
        PROVE  Orphaned(p)[c] = 0 /\ Unclaimed(p)[c] = Idle
    <2>1. ask[p] # c /\ cap[c].by # p
      BY <1>0, NobodyElse DEF Idle
    <2> QED BY <1>0, <2>1, Abandoned
  <1>c. ASSUME \/ \E p \in Procs : TriggerFires(p) \/ OrphanFires(p)
               \/ \E x \in Exchanges : RuleFires(x)
        PROVE  Goal
    <2>0. UNCHANGED <<ask, arriving, post>>
      BY <1>c, FireCases
    <2>1. PICK d \in Procs, q \in Procs \cup {Nobody}, x \in 0..MaxExchanges :
            /\ cap' = [cap EXCEPT ![d] = Copy(d, q, x)]
            /\ \/ ask[q] = d /\ q \in Procs /\ UNCHANGED orphans
               \/ orphans[d] > 0 /\ orphans' = [orphans EXCEPT ![d] = @ - 1]
               \/ x \in Exchanges /\ post[x] = d /\ UNCHANGED orphans
      BY <1>c, FireCases
    <2>2. d # c
      BY <1>0, <2>1
    <2>3. orphans'[c] = 0 /\ cap'[c] = Idle
      BY <1>0, <1>t, <2>1, <2>2
    <2> QED BY <1>0, <2>0, <2>3
  <1>1. CASE \E p \in Procs : ProcStep(p)
    <2>0. PICK p \in Procs : ProcStep(p)
      BY <1>1
    <2>1. CASE StartFails(p) \/ Leave(p) \/ Join(p)
      <3>1. /\ ask' = [q \in Procs |-> IF q = p \/ ask[q] = p THEN Nobody ELSE ask[q]]
            /\ orphans' = [Orphaned(p) EXCEPT ![p] = 0]
            /\ cap' = [Unclaimed(p) EXCEPT ![p] = Idle]
            /\ arriving' = [e \in Events |-> IF arriving[e] = p THEN Nobody
                                                                ELSE arriving[e]]
            /\ post' = [x \in Exchanges |-> IF post[x] = p THEN Nobody ELSE post[x]]
        BY <2>1, ExitCases DEF Exit
      <3>2. orphans'[c] = 0 /\ cap'[c] = Idle
        BY <1>b, <3>1, Abandoned
      <3>3. /\ \A q \in Procs : ask'[q] # c
            /\ \A e \in Events : arriving'[e] # c
            /\ \A x \in Exchanges : post'[x] # c
        BY <1>0, <1>t, <3>1
      <3> QED BY <3>2, <3>3
    <2>2. CASE TriggerSnapshot(p)
      <3>1. ask' = [ask EXCEPT ![p] = httpPort]
            /\ UNCHANGED <<arriving, post, orphans, cap>>
        BY <2>2 DEF TriggerSnapshot
      <3> QED BY <1>0, <1>t, <3>1
    <2>3. CASE TriggerTimesOut(p)
      <3>1. /\ ask' = [ask EXCEPT ![p] = Nobody] /\ UNCHANGED <<arriving, post>>
            /\ orphans' = Orphaned(p) /\ cap' = Unclaimed(p)
        BY <2>3 DEF TriggerTimesOut
      <3> QED BY <1>0, <1>t, <1>b, <3>1
    <2>4. CASE Export(p) \/ ExportFails(p)
      <3>1. /\ cap' = [cap EXCEPT ![p] = Idle] /\ UNCHANGED <<arriving, orphans>>
            /\ \/ UNCHANGED ask
               \/ \E q \in Procs : ask' = [ask EXCEPT ![q] = Nobody]
        BY <2>4, AnswersTo
      <3>2. UNCHANGED post \/ \E x \in Exchanges : post' = [post EXCEPT ![x] = Nobody]
        BY <2>4, AnswersPost
      <3>3. \A q \in Procs : ask'[q] # c
        BY <1>0, <1>t, <3>1
      <3>4. \A x \in Exchanges : post'[x] # c
        BY <1>0, <1>t, <3>2
      <3> QED BY <1>0, <1>t, <3>1, <3>3, <3>4
    <2>5. CASE TriggerFires(p) \/ OrphanFires(p)
      BY <1>c, <2>5
    <2>6. CASE \/ Launch(p) \/ Interrupt(p) \/ Boot(p) \/ WaitReady(p) \/ Attach(p)
               \/ ConnectReturns(p) \/ Age(p)
               \/ StartCommand(p) \/ StopRecording(p) \/ Check(p) \/ Stop(p)
               \/ ListenGRPC(p) \/ ListenHTTP(p) \/ GracefulStop(p) \/ CloseListener(p)
               \/ Drained(p)
      BY <1>a, <2>6, HandlersStill
    <2> QED BY <2>0, <2>1, <2>2, <2>3, <2>4, <2>5, <2>6 DEF ProcStep
  <1>2. CASE \E p \in Recorders : CommandExits(p)
    BY <1>a, <1>2, HandlersStill
  <1>3. CASE \E e \in Events, p \in Recorders : Emit(e, p)
    <2>1. PICK e \in Events, p \in Recorders : Emit(e, p)
      BY <1>3
    <2>2. /\ arriving' = [arriving EXCEPT ![e] = httpPort]
          /\ UNCHANGED <<ask, post, orphans, cap>>
      BY <2>1, Sending
    <2> QED BY <1>0, <1>t, <2>2
  <1>5. CASE \E e \in Events : Ingest(e)
    <2>1. PICK e \in Events : Ingest(e)
      BY <1>5
    <2>2. /\ arriving' = [arriving EXCEPT ![e] = Nobody]
          /\ \/ UNCHANGED post
             \/ e[1] \in Exchanges /\ post' = [post EXCEPT ![e[1]] = arriving[e]]
          /\ UNCHANGED <<ask, orphans, cap>>
      BY <2>1, Sending
    <2>3. \A x \in Exchanges : post'[x] # c
      BY <1>0, <1>t, <2>2
    <2>4. \A f \in Events : arriving'[f] # c
      BY <1>0, <1>t, <2>2
    <2> QED BY <1>0, <2>2, <2>3, <2>4
  <1>4. CASE \E x \in Exchanges : ExchangeStep(x)
    <2>0. PICK x \in Exchanges : ExchangeStep(x)
      BY <1>4
    <2>1. CASE PostAnswered(x)
      <3>1. /\ UNCHANGED <<ask, arriving, orphans, cap>>
            /\ post' = [post EXCEPT ![x] = Nobody]
        BY <2>1 DEF PostAnswered
      <3> QED BY <1>0, <1>t, <3>1
    <2>2. CASE RuleFires(x)
      BY <1>c, <2>2
    <2>3. CASE PostTimesOut(x) \/ TopFrame(x) \/ TopFrameReturns(x)
      BY <1>a, <2>3, HandlersStill
    <2> QED BY <2>0, <2>1, <2>2, <2>3 DEF ExchangeStep
  <1> QED BY <1>1, <1>2, <1>3, <1>4, <1>5, NextCases

(* A process that has ended handles nothing, in every step.                *)
LEMMA OverInvStep ==
    ASSUME CollType, MainType, TryInv, AskInv, BufType, HandlerType, OverInv, Next
    PROVE  OverInv'
  <1>1. ASSUME NEW c \in Procs, main'[c] \in Over PROVE Quiet(c)'
    <2>1. CASE \E how \in Over : Exit(c, how)
      BY <2>1, ExitQuiet
    <2>2. CASE main[c] \in Over
      <3>1. Quiet(c)
        BY <2>2 DEF OverInv
      <3>2. Idle' = Idle
        BY DEF Idle, Nobody
      <3> QED BY <2>2, <3>1, <3>2, QuietPort, QuietHandlers DEF Quiet
    <2> QED BY <1>1, <2>1, <2>2, OverKept
  <1> QED BY <1>1 DEF OverInv, Procs, Over

(* s holds the events of d but for those of a.                             *)
Holds(d, a, s) == d \ a \subseteq ToSet(s)

(* What the last trigger of p had to cover: while it is posted at c it is  *)
(* in the buffer of c, but for what has left the window; once a capture is *)
(* made for it, in the copy, but for what had left the window then; and    *)
(* once c has exported it, it is likewise in the latest link as long as    *)
(* that is c's, in the buffer c would copy next, and in what c is          *)
(* exporting now, so that a later archive of the same collector covers it  *)
(* too.                                                                    *)
Covers(p, c) ==
    /\ ask[p] = c => Holds(due[p], aged, buf[c])
    /\ cap[c].by = p => Holds(due[p], cap[c].aged, cap[c].events)
    /\ saved[p] = c =>
         /\ ask[p] = Nobody
         /\ main[c] \notin Over => Holds(due[p], aged, buf[c])
         /\ cap[c] # Idle => Holds(due[p], cap[c].aged, cap[c].events)
         /\ link.owner = c => Holds(due[p], link.aged, link.events)

CoverInv == \A p \in Procs : \A c \in Procs : Covers(p, c)

(* While its process runs a buffer loses only what has left the window.    *)
LEMMA BufGrows ==
    ASSUME BufType, AgeInv, HandlerType, Next
    PROVE  \/ \E p \in Procs, how \in Over : Exit(p, how)
           \/ \A c \in Procs : \A d :
                Holds(d, aged, buf[c]) => Holds(d, aged', buf'[c])
  <1>0. ASSUME aged \subseteq aged', NEW c \in Procs, NEW d, Holds(d, aged, buf[c]),
               ToSet(buf[c]) \ aged' \subseteq ToSet(buf'[c])
        PROVE  Holds(d, aged', buf'[c])
    BY <1>0 DEF Holds
  <1>1. CASE UNCHANGED <<buf, aged>>
    BY <1>0, <1>1
  <1>2. CASE UNCHANGED buf /\ aged \subseteq aged'
    BY <1>0, <1>2
  <1>3. CASE \E e \in Events : arriving[e] # Nobody /\ Add(arriving[e], e)
    <2>0. PICK e \in Events : arriving[e] # Nobody /\ Add(arriving[e], e)
      BY <1>3
    <2> DEFINE b == arriving[e]
    <2>1. b \in Procs /\ Add(b, e)
      BY <2>0, IngestAt
    <2> HIDE DEF b
    <2>2. /\ Rest(buf[b], old[b]) \in Seq(Events) /\ aged' = aged
          /\ ToSet(buf[b]) \ aged \subseteq ToSet(Rest(buf[b], old[b]))
          /\ \A c \in Procs :
                buf'[c] = IF c = b THEN Append(Rest(buf[b], old[b]), e) ELSE buf[c]
      BY <2>1, AddEffect
    <2>3. ToSet(Rest(buf[b], old[b])) \subseteq ToSet(Append(Rest(buf[b], old[b]), e))
      BY <2>2, AppendEvents
    <2>4. ASSUME NEW c \in Procs PROVE ToSet(buf[c]) \ aged' \subseteq ToSet(buf'[c])
      <3>1. CASE c = b
        BY <2>2, <2>3, <3>1
      <3>2. CASE c # b
        BY <2>2, <3>2
      <3> QED BY <3>1, <3>2
    <2> QED BY <1>0, <2>2, <2>4
  <1> QED BY <1>1, <1>2, <1>3, BufCases

(* The end of a process: what it had exported is still in the link.        *)
LEMMA CoverExit ==
    ASSUME Typed, CoverInv, NEW q \in Procs, NEW how \in Over, Exit(q, how),
           \A c \in Procs : main[c] \in Over => main'[c] \in Over
    PROVE  CoverInv'
  <1>0. /\ MainType /\ CollType /\ BufType /\ HandlerType /\ AppType /\ HistType
        /\ TryInv /\ AskInv
    BY TypeParts DEF Typed
  <1>1. /\ ask' = [p \in Procs |-> IF p = q \/ ask[p] = q THEN Nobody ELSE ask[p]]
        /\ cap' = [Unclaimed(q) EXCEPT ![q] = Idle]
        /\ buf' = [buf EXCEPT ![q] = <<>>] /\ UNCHANGED aged
        /\ due' = [due EXCEPT ![q] = {}]
        /\ saved' = [saved EXCEPT ![q] = Nobody]
        /\ main'[q] = how
        /\ UNCHANGED link
    BY DEF Exit
  <1>2. ASSUME NEW p \in Procs, NEW c \in Procs PROVE Covers(p, c)'
    <2>0. Covers(p, c)
      BY DEF CoverInv
    <2>i. Idle' = Idle /\ Idle.by = Nobody /\ c # Nobody /\ p # Nobody
      BY NobodyElse DEF Idle, Nobody
    <2>1. CASE p = q
      <3>1. due'[p] = {}
        BY <1>0, <1>1, <2>1 DEF HistType
      <3>2. saved'[p] # c
        BY <1>0, <1>1, <2>1, NobodyElse DEF HistType
      <3>3. \A a, s : Holds(due'[p], a, s)
        BY <3>1 DEF Holds
      <3> QED BY <3>2, <3>3 DEF Covers
    <2>2. CASE p # q /\ c = q
      <3>1. ask'[p] # c
        BY <1>1, <2>2, NobodyElse
      <3>2. cap'[c] = Idle
        BY <1>0, <1>1, <2>2, Abandoned
      <3>3. due'[p] = due[p] /\ saved'[p] = saved[p]
        BY <1>0, <1>1, <2>2 DEF HistType
      <3>4. main'[c] \in Over
        BY <1>1, <2>2
      <3>5. ask[p] = Nobody => ask'[p] = Nobody
        BY <1>1
      <3>6. saved[p] = c => ask'[p] = Nobody /\
              (link'.owner = c => Holds(due[p], link'.aged, link'.events))
        BY <1>1, <2>0, <3>5 DEF Covers
      <3> QED BY <2>i, <3>1, <3>2, <3>3, <3>4, <3>6 DEF Covers, Over
    <2>3. CASE p # q /\ c # q
      <3>1. /\ due'[p] = due[p] /\ saved'[p] = saved[p] /\ buf'[c] = buf[c]
        BY <1>0, <1>1, <2>3 DEF HistType, BufType
      <3>2. /\ ask'[p] = c => ask[p] = c
            /\ ask[p] = Nobody => ask'[p] = Nobody
        BY <1>1, <2>3, NobodyElse
      <3>3. cap'[c] = Unclaimed(q)[c]
        BY <1>0, <1>1, <2>3, Abandoned
      <3>4. /\ cap'[c].events = cap[c].events
            /\ cap'[c].aged = cap[c].aged
            /\ cap'[c].by = p => cap[c].by = p
            /\ cap'[c] # Idle => cap[c] # Idle
        <4>1. CASE cap[c].by = q
          <5>1. cap'[c].by = Nobody /\ cap[c] # Idle
            BY <1>0, <2>i, <3>3, <4>1, Abandoned, NobodyElse
          <5> QED BY <1>0, <2>i, <3>3, <5>1, Abandoned
        <4>2. CASE cap[c].by # q
          BY <1>0, <3>3, <4>2, Abandoned
        <4> QED BY <4>1, <4>2
      <3>5. main'[c] \notin Over => main[c] \notin Over
        OBVIOUS
      <3> QED BY <1>1, <2>0, <2>i, <3>1, <3>2, <3>4, <3>5 DEF Covers, Over
    <2> QED BY <2>1, <2>2, <2>3
  <1> QED BY <1>2 DEF CoverInv, Procs

(* The other steps.                                                        *)
LEMMA CoverStep ==
    ASSUME Typed, OverInv, CoverInv, Next,
           ~ \E p \in Procs, how \in Over : Exit(p, how)
    PROVE  CoverInv'
  <1>0. /\ MainType /\ CollType /\ BufType /\ HandlerType /\ AppType /\ HistType
        /\ TryInv /\ AskInv /\ AgeInv
    BY TypeParts DEF Typed
  <1>g. \A c \in Procs : \A d : Holds(d, aged, buf[c]) => Holds(d, aged', buf'[c])
    BY <1>0, BufGrows
  <1>t. /\ ask = [p \in Procs |-> ask[p]] /\ cap = [p \in Procs |-> cap[p]]
        /\ due = [p \in Procs |-> due[p]] /\ saved = [p \in Procs |-> saved[p]]
        /\ \A p \in Procs : ask[p] \in Procs \cup {Nobody}
        /\ \A p \in Procs : cap[p].by \in Procs \cup {Nobody}
    BY <1>0 DEF HandlerType, HistType, Captures
  <1>m. \A c \in Procs : main'[c] \notin Over => main[c] \notin Over
    BY <1>0, OverKept
  <1>i. Idle' = Idle /\ Idle.by = Nobody
    BY DEF Idle, Nobody
  <1>z. ASSUME \A p \in Procs : \A c \in Procs : Covers(p, c)' PROVE CoverInv'
    BY <1>z DEF CoverInv, Procs
  <1>a. ASSUME UNCHANGED <<ask, cap, due, saved, link>> PROVE CoverInv'
    <2>1. ASSUME NEW p \in Procs, NEW c \in Procs PROVE Covers(p, c)'
      <3>1. Covers(p, c)
        BY DEF CoverInv
      <3>2. Nobody' = Nobody /\ Over' = Over
        BY DEF Nobody, Over
      <3>3. \A d : Holds(d, aged, buf[c]) => Holds(d, aged', buf'[c])
        BY <1>g
      <3>4. main'[c] \notin Over => main[c] \notin Over
        BY <1>m
      <3> QED BY <1>a, <1>i, <3>1, <3>2, <3>3, <3>4 DEF Covers
    <2> QED BY <1>z, <2>1
  <1>b. ASSUME \/ \E p \in Procs : TriggerFires(p) \/ OrphanFires(p)
               \/ \E x \in Exchanges : RuleFires(x)
        PROVE  CoverInv'
    <2>0. UNCHANGED <<ask, due, saved, link, buf, aged, main>>
      BY <1>0, <1>b, FireCases
    <2>1. PICK d \in Procs, q \in Procs \cup {Nobody}, x \in 0..MaxExchanges :
            /\ cap' = [cap EXCEPT ![d] = Copy(d, q, x)]
            /\ q # Nobody => ask[q] = d
            /\ \/ ask[q] = d /\ q \in Procs
               \/ orphans[d] > 0
               \/ x \in Exchanges /\ post[x] = d
      BY <1>0, <1>b, FireCases
    <2>2. main[d] \notin Over
      BY <2>1 DEF OverInv, Quiet
    <2>3. /\ Copy(d, q, x).events = buf[d] /\ Copy(d, q, x).by = q
          /\ Copy(d, q, x).aged = aged
      BY <1>0, CopyTyped
    <2>4. ASSUME NEW p \in Procs, NEW c \in Procs PROVE Covers(p, c)'
      <3>1. Covers(p, c)
        BY DEF CoverInv
      <3>2. CASE c # d
        <4>1. cap'[c] = cap[c]
          BY <1>t, <2>1, <3>2
        <4> QED BY <1>i, <2>0, <3>1, <4>1 DEF Covers
      <3>3. CASE c = d
        <4>1. cap'[c].events = buf[c] /\ cap'[c].by = q /\ cap'[c].aged = aged
          BY <1>t, <2>1, <2>3, <3>3
        <4>2. q = p => ask[p] = c
          BY <2>1, <3>3, NobodyElse
        <4>3. main[c] \notin Over
          BY <2>2, <3>3
        <4> QED BY <1>i, <2>0, <3>1, <4>1, <4>2, <4>3 DEF Covers
      <3> QED BY <3>2, <3>3
    <2> QED BY <1>z, <2>4
  <1>1. ASSUME NEW q \in Procs, TriggerSnapshot(q) PROVE CoverInv'
    <2>1. /\ main[q] = "save" /\ saved' = [saved EXCEPT ![q] = Nobody]
          /\ ask' = [ask EXCEPT ![q] = httpPort]
          /\ due' = [due EXCEPT ![q] = IF httpPort = Nobody THEN {}
                                       ELSE ToSet(buf[httpPort])]
          /\ UNCHANGED <<cap, link, buf, aged>>
      BY <1>1 DEF TriggerSnapshot, bufVars, diskVars
    <2>2. ASSUME NEW p \in Procs, NEW c \in Procs PROVE Covers(p, c)'
      <3>1. Covers(p, c) /\ c # Nobody
        BY NobodyElse DEF CoverInv
      <3>2. CASE p # q
        <4>1. ask'[p] = ask[p] /\ due'[p] = due[p] /\ saved'[p] = saved[p]
          BY <1>t, <2>1, <3>2
        <4> QED BY <1>i, <1>m, <2>1, <3>1, <4>1 DEF Covers, Over
      <3>3. CASE p = q
        <4>1. saved'[p] # c
          BY <1>t, <2>1, <3>1, <3>3
        <4>2. ask'[p] = httpPort
              /\ (httpPort # Nobody => due'[p] = ToSet(buf[httpPort]))
          BY <1>t, <2>1, <3>3
        <4>3. ask'[p] = c => Holds(due'[p], aged', buf'[c])
          BY <2>1, <3>1, <4>2 DEF Holds
        <4>4. cap'[c].by # p
          BY <1>0, <2>1, <3>1, <3>3, NobodyElse DEF AskInv
        <4> QED BY <4>1, <4>3, <4>4 DEF Covers
      <3> QED BY <3>2, <3>3
    <2> QED BY <1>z, <2>2
  <1>2. ASSUME NEW q \in Procs, TriggerTimesOut(q) PROVE CoverInv'
    <2>1. /\ ask' = [ask EXCEPT ![q] = Nobody] /\ cap' = Unclaimed(q)
          /\ UNCHANGED <<due, saved, link, buf, aged>>
      BY <1>2 DEF TriggerTimesOut, bufVars, diskVars
    <2>2. ASSUME NEW p \in Procs, NEW c \in Procs PROVE Covers(p, c)'
      <3>1. Covers(p, c) /\ c # Nobody /\ p # Nobody
        BY NobodyElse DEF CoverInv
      <3>2. /\ ask'[p] = c => ask[p] = c
            /\ ask[p] = Nobody => ask'[p] = Nobody
        BY <1>t, <2>1, <3>1
      <3>3. /\ cap'[c].events = cap[c].events
            /\ cap'[c].aged = cap[c].aged
            /\ cap'[c].by = p => cap[c].by = p
            /\ cap'[c] # Idle => cap[c] # Idle
        <4>1. CASE cap[c].by = q
          <5>1. cap'[c].by = Nobody /\ cap[c] # Idle
            BY <1>0, <1>i, <2>1, <4>1, Abandoned, NobodyElse
          <5> QED BY <1>0, <2>1, <3>1, <5>1, Abandoned
        <4>2. CASE cap[c].by # q
          BY <1>0, <2>1, <4>2, Abandoned
        <4> QED BY <4>1, <4>2
      <3> QED BY <1>i, <1>m, <2>1, <3>1, <3>2, <3>3 DEF Covers, Over
    <2> QED BY <1>z, <2>2
  <1>3. ASSUME NEW d \in Procs, Export(d) \/ ExportFails(d) PROVE CoverInv'
    <2> DEFINE q == cap[d].by
    <2>1. /\ cap' = [cap EXCEPT ![d] = Idle] /\ UNCHANGED <<buf, aged, due>>
          /\ \/ q = Nobody /\ UNCHANGED <<ask, saved>>
             \/ /\ q \in Procs /\ ask[q] = d
                /\ ask' = [ask EXCEPT ![q] = Nobody]
                /\ \/ saved' = [saved EXCEPT ![q] = Nobody]
                   \/ Exports(d) /\ saved' = [saved EXCEPT ![q] = d]
      BY <1>0, <1>3, AnswersTo
    <2>2. \/ UNCHANGED link
          \/ link' = [owner |-> d, events |-> cap[d].events, aged |-> cap[d].aged]
      BY <1>3 DEF Export, ExportFails, diskVars
    <2>3. cap[d] # Idle /\ cap'[d] = Idle /\ \A c \in Procs : c # d => cap'[c] = cap[c]
      BY <1>3, <1>t, <2>1 DEF Export, ExportFails
    <2>l. \/ link' = link
          \/ link'.owner = d /\ link'.events = cap[d].events /\ link'.aged = cap[d].aged
      BY <2>2
    <2>4. ASSUME NEW p \in Procs, NEW c \in Procs PROVE Covers(p, c)'
      <3>1. Covers(p, c) /\ c # Nobody /\ p # Nobody /\ d # Nobody
        BY NobodyElse DEF CoverInv
      <3>2. CASE p # q
        <4>1. ask'[p] = ask[p] /\ saved'[p] = saved[p] /\ due'[p] = due[p]
          BY <1>t, <2>1, <3>2
        <4>2. /\ cap'[c].by = p => cap'[c] = cap[c]
              /\ cap'[c] # Idle => cap'[c] = cap[c]
          BY <1>i, <2>3, <3>1
        <4>3. saved[p] = c /\ link'.owner = c => Holds(due[p], link'.aged, link'.events)
          <5>1. CASE link' = link
            BY <3>1, <5>1 DEF Covers
          <5>2. CASE link'.owner = d /\ link'.events = cap[d].events /\ link'.aged = cap[d].aged
            BY <2>3, <3>1, <5>2 DEF Covers
          <5> QED BY <2>l, <5>1, <5>2
        <4> QED BY <1>i, <1>m, <2>1, <3>1, <4>1, <4>2, <4>3 DEF Covers, Over
      <3>3. CASE p = q
        <4>0. q \in Procs /\ ask[p] = d /\ ask'[p] = Nobody /\ due'[p] = due[p]
              /\ saved[p] # c
          <5>1. q \in Procs /\ ask[p] = d /\ ask' = [ask EXCEPT ![q] = Nobody]
            BY <2>1, <3>1, <3>3
          <5>2. ask'[p] = Nobody /\ due'[p] = due[p]
            BY <1>t, <2>1, <3>3, <5>1
          <5>3. saved[p] # c
            BY <3>1, <5>1 DEF Covers
          <5> QED BY <3>3, <5>1, <5>2, <5>3
        <4>1. cap'[c].by # p
          <5>1. CASE c = d
            BY <1>i, <2>3, <3>1, <5>1
          <5>2. CASE c # d
            <6>1. cap[c].by = p => ask[p] = c
              BY <1>0, <3>1 DEF AskInv
            <6> QED BY <2>3, <4>0, <5>2, <6>1
          <5> QED BY <5>1, <5>2
        <4>2. CASE saved'[p] # c
          BY <3>1, <4>0, <4>1, <4>2 DEF Covers
        <4>3. CASE saved'[p] = c
          <5>1. Exports(d) /\ c = d
            BY <1>t, <2>1, <3>1, <3>3, <4>3
          <5>2. /\ Holds(due[p], aged, buf[c])
                /\ Holds(due[p], cap[c].aged, cap[c].events)
            BY <3>1, <3>3, <4>0, <5>1 DEF Covers
          <5>3. link' = [owner |-> d, events |-> cap[d].events, aged |-> cap[d].aged]
            BY <5>1 DEF Exports
          <5>4. link'.events = cap[c].events /\ link'.aged = cap[c].aged
            BY <5>1, <5>3
          <5> QED BY <1>i, <2>1, <2>3, <4>0, <4>1, <5>1, <5>2, <5>4, <3>1
                  DEF Covers, Nobody
        <4> QED BY <4>2, <4>3
      <3> QED BY <3>2, <3>3
    <2> QED BY <1>z, <2>4
  <1>4. ASSUME ~ \E p \in Procs : \/ TriggerSnapshot(p) \/ TriggerTimesOut(p)
                                  \/ Export(p) \/ ExportFails(p)
                                  \/ TriggerFires(p) \/ OrphanFires(p),
               ~ \E x \in Exchanges : RuleFires(x)
        PROVE  CoverInv'
    <2>1. UNCHANGED link
      BY <1>4, LinkCases DEF Exports
    <2>2. UNCHANGED <<due, saved>>
      BY <1>0, <1>4, DueCases
    <2>3. UNCHANGED <<ask, cap>>
      <3>1. CASE \E p \in Procs : ProcStep(p)
        <4>1. PICK p \in Procs : ProcStep(p)
          BY <3>1
        <4>2. ~ (StartFails(p) \/ Leave(p) \/ Join(p))
          BY <1>4, ExitCases
        <4> QED BY <1>4, <4>1, <4>2, HandlersStill DEF ProcStep
      <3>2. CASE \E p \in Recorders : CommandExits(p)
        BY <3>2, HandlersStill
      <3>3. CASE \/ \E e \in Events, p \in Recorders : Emit(e, p)
                 \/ \E e \in Events : Ingest(e)
        BY <3>3, Sending
      <3>4. CASE \E x \in Exchanges : ExchangeStep(x)
        BY <1>4, <3>4 DEF ExchangeStep, PostAnswered, PostTimesOut, TopFrame,
                          TopFrameReturns, handlerVars
      <3> QED BY <3>1, <3>2, <3>3, <3>4, NextCases
    <2> QED BY <1>a, <2>1, <2>2, <2>3
  <1> QED BY <1>b, <1>1, <1>2, <1>3, <1>4

(* The inductive invariant of ReportedCovers.                              *)
IInv == Typed /\ OverInv /\ CoverInv

(* It holds at the start,                                                  *)
LEMMA InitCovers ==
    ASSUME Init
    PROVE  IInv
  <1>1. \A p \in Procs : /\ ask[p] = Nobody /\ cap[p] = Idle /\ orphans[p] = 0
                         /\ saved[p] = Nobody /\ due[p] = {} /\ coll[p] = "none"
    BY DEF Init
  <1>2. /\ httpPort = Nobody /\ \A x \in Exchanges : post[x] = Nobody
        /\ \A e \in Events : arriving[e] = Nobody
    BY DEF Init
  <1>3. OverInv
    BY <1>1, <1>2, NobodyElse DEF OverInv, Quiet
  <1>4. CoverInv
    <2>1. ASSUME NEW p \in Procs, NEW c \in Procs PROVE Covers(p, c)
      BY <1>1, NobodyElse DEF Covers, Idle
    <2> QED BY <2>1 DEF CoverInv
  <1> QED BY <1>3, <1>4, InitTyped DEF IInv

(* and every step keeps it.                                                *)
LEMMA IInvStep ==
    ASSUME IInv, [Next]_vars
    PROVE  IInv'
  <1>0. /\ MainType /\ CollType /\ BufType /\ HandlerType /\ AppType /\ HistType
        /\ TryInv /\ AskInv /\ Typed /\ OverInv /\ CoverInv
    BY TypeParts DEF IInv, Typed
  <1>1. Typed'
    BY <1>0, TypedStep
  <1>2. CASE Next
    <2>1. OverInv'
      BY <1>0, <1>2, OverInvStep
    <2>2. CoverInv'
      <3>1. CASE ~ \E p \in Procs, how \in Over : Exit(p, how)
        BY <1>0, <1>2, <3>1, CoverStep
      <3>2. CASE \E p \in Procs, how \in Over : Exit(p, how)
        BY <1>0, <1>2, <3>2, CoverExit, OverKept
      <3> QED BY <3>1, <3>2
    <2> QED BY <1>1, <2>1, <2>2 DEF IInv
  <1>3. CASE UNCHANGED vars
    <2>1. UNCHANGED <<main, coll, httpPort, buf, aged, ask, arriving, post, orphans,
                      cap, link, due, saved>>
      BY <1>3 DEF vars, mainVars, portVars, bufVars, handlerVars, diskVars, histVars
    <2>2. Idle' = Idle
      BY DEF Idle, Nobody
    <2>3. OverInv'
      BY <1>0, <2>1, <2>2 DEF OverInv, Quiet
    <2>4. CoverInv'
      BY <1>0, <2>1, <2>2 DEF CoverInv, Covers
    <2> QED BY <1>1, <2>3, <2>4 DEF IInv
  <1> QED BY <1>2, <1>3

(* IInv holds in every reachable state.                                    *)
THEOREM Invariance == Spec => []IInv
  <1>1. Init => IInv
    BY InitCovers
  <1>2. IInv /\ [Next]_vars => IInv'
    BY IInvStep
  <1> QED BY <1>1, <1>2, PTL DEF Spec

(* ReportedCovers: the snapshot that `bugit record' or `bugit snapshot'    *)
(* reports holds every event that the collector it asked had acknowledged  *)
(* and that was still within the window when the archive's copy was made,  *)
(* even though the trigger may have waited for another capture, events may *)
(* have been added and evicted meanwhile, other captures of the same       *)
(* collector may have replaced the link since, and that collector's        *)
(* process may have ended.                                                 *)
THEOREM ReportedSnapshotCovers == Spec => []ReportedCovers
  <1>1. IInv => ReportedCovers
    <2> SUFFICES ASSUME IInv, NEW p \in Procs, outcome[p].reported,
                        saved[p] # Nobody, link.owner = saved[p]
                 PROVE  due[p] \ link.aged \subseteq ToSet(link.events)
      BY DEF ReportedCovers
    <2>1. saved[p] \in Procs
      BY TypeParts DEF IInv, Typed, HistType
    <2>2. Covers(p, saved[p])
      BY <2>1 DEF IInv, CoverInv
    <2> QED BY <2>2 DEF Covers, Holds
  <1> QED BY <1>1, Invariance, PTL
=============================================================================
