------------------------------- MODULE Replay -------------------------------
(***************************************************************************)
(* A replay session of dre-replay-cli: the debugger sync API (one          *)
(* goroutine per connection), orchestrator.Session with its cursor and     *)
(* breakpoints, the MultiServer proxy that answers the replayed program    *)
(* from the recording (one goroutine per connection), and the time-freeze  *)
(* engine.  Session.mu (`mu') is held across Seek's calls into proxy and   *)
(* clock; MultiServer.mu is only held inside single actions.               *)
(***************************************************************************)
EXTENDS Integers, Sequences, FiniteSets

CONSTANTS
    Debuggers,    \* goroutines serving debugger connections
    Conns,        \* goroutines serving proxy connections
    Free,         \* value of mu when nobody holds Session.mu
    Keys,         \* request keys ("GET /a"); NoKey = not an HTTP request
    NoKey,
    Hosts,        \* values of the Host header; NoHost = none
    NoHost,
    Recordings,   \* the recordings that may be replayed
    Filters,      \* host filters of the listeners, NoHost = none
    TimeFreeze,   \* replay.yaml time_freeze.enabled
    Methods,      \* bound: debugger methods in use
    Indexes,      \* bound: indexes debugger clients send
    MaxAsks,      \* bound: debugger requests
    MaxRequests   \* bound: proxy requests

(* ioevent.IsWrite: 0 read, 1 write (with or without payload), 2 marker,   *)
(* 3 clock_gettime.                                                        *)
Kinds == {"read", "write", "empty", "marker", "clock"}
Events == [kind : Kinds, key : Keys \cup {NoKey}, host : Hosts \cup {NoHost},
           ts : Nat]
Requests == [key : Keys \cup {NoKey}, host : Hosts \cup {NoHost}]
AllMethods == {"StepForward", "StepBackward", "Seek", "GetState",
               "RunToEvent", "SetBreakpoint", "UnsetBreakpoint",
               "ClearBreakpoints"}

ASSUME ReplayAssumption ==
    /\ Free \notin Debuggers \cup Conns
    /\ Debuggers \cap Conns = {}
    /\ NoKey \notin Keys
    /\ NoHost \notin Hosts
    /\ Recordings \subseteq Seq(Events)
    /\ \A r \in Recordings : \A i \in DOMAIN r : r[i].ts > 0
    /\ Filters \subseteq Hosts \cup {NoHost}
    /\ TimeFreeze \in BOOLEAN
    /\ Methods \subseteq AllMethods
    /\ Indexes \subseteq Int
    /\ MaxAsks \in Nat
    /\ MaxRequests \in Nat

VARIABLES
    events,       \* Snap.Events, fixed for the session
    cursor,       \* Session.cursor
    breakpoints,  \* Session.breakpoints
    mu,           \* holder of Session.mu across actions
    pcursor,      \* MultiServer.cursor
    consumed,     \* MultiServer.consumed
    frozen,       \* DRE_FROZEN_TIME_NS, 0 = unset
    dpc, method, at,   \* debugger goroutines: place, method, index in hand
    reply,        \* reply[d]: last answer sent to d
    ppc, request, filter, read,  \* proxy goroutines; read = cursorFn()
    asks, sent,   \* counts up to MaxAsks, MaxRequests
    start, kept,  \* history: where a run began, breakpoints set ever since
    low,          \* history: lowest Session.cursor during p's request
    moved,        \* history: the debugger has moved the cursor
    synced,       \* history: the cursor the clock was last set for
    served,       \* history: the responses given, in order
    given         \* history: given[j]: times j was served since a rewind

sessionVars == <<events, cursor, breakpoints, mu, frozen>>
proxyVars == <<pcursor, consumed>>
debugVars == <<dpc, method, at, reply>>
connVars == <<ppc, request, filter, read>>
boundVars == <<asks, sent>>
histVars == <<start, kept, low, moved, synced, served, given>>
vars == <<sessionVars, proxyVars, debugVars, connVars, boundVars, histVars>>

None == 0 - 1
N == Len(events)
At(i) == events[i + 1]
Lowest(S) == CHOOSE i \in S : \A j \in S : i <= j
Highest(S) == CHOOSE i \in S : \A j \in S : i >= j

DebugPCs == {"idle", "breakpoint", "cursor", "run", "end", "seek", "proxy",
             "time", "reason", "stamp"}
ConnPCs == {"idle", "cursor", "set", "match"}
Replies == [index : Int, stopped : BOOLEAN, clock : Nat, frozen : Nat]
Served == [key : Keys \cup {NoKey}, index : Int, low : Int, inOrder : BOOLEAN]

TypeOK ==
    /\ events \in Recordings
    /\ cursor \in 0..N
    /\ breakpoints \subseteq Int
    /\ mu \in Debuggers \cup {Free}
    /\ pcursor \in 0..N
    /\ consumed \subseteq 0..(N - 1)
    /\ frozen \in Nat
    /\ dpc \in [Debuggers -> DebugPCs]
    /\ method \in [Debuggers -> AllMethods]
    /\ at \in [Debuggers -> Int]
    /\ reply \in [Debuggers -> Replies]
    /\ ppc \in [Conns -> ConnPCs]
    /\ request \in [Conns -> Requests]
    /\ filter \in [Conns -> Hosts \cup {NoHost}]
    /\ read \in [Conns -> 0..N]
    /\ asks \in Nat /\ sent \in Nat
    /\ start \in [Debuggers -> Int]
    /\ kept \in [Debuggers -> SUBSET Int]
    /\ low \in [Conns -> 0..N]
    /\ moved \in BOOLEAN
    /\ synced \in 0..N
    /\ served \in Seq(Served)
    /\ given \in [0..(N - 1) -> Nat]
----------------------------------------------------------------------------
(*                     Time freeze: timefreeze.Engine                      *)

(* The clock timeline the exporter put into the archive: the clock_gettime *)
(* events if there are any, else every event that is not a marker.         *)
Timeline ==
    LET clocks == {i \in 0..(N - 1) : At(i).kind = "clock"}
    IN IF clocks # {} THEN clocks
       ELSE {i \in 0..(N - 1) : At(i).kind # "marker"}

(* Mutant: the last entry up to the cursor instead of the latest time. *)
TimestampOfLastEntry(c) ==
    LET past == {i \in Timeline : i <= c}
    IN IF past # {} THEN At(Highest(past)).ts
       ELSE IF Timeline # {} THEN At(Lowest(Timeline)).ts ELSE At(0).ts

timestampForCursor(c) ==
    LET past == {At(i).ts : i \in {j \in Timeline : j <= c}}
    IN CASE past # {} -> Highest(past)
         [] past = {} /\ Timeline # {} -> At(Lowest(Timeline)).ts
         [] Timeline = {} /\ c < N -> At(c).ts
         [] Timeline = {} /\ c >= N /\ N > 0 -> At(0).ts
         [] OTHER -> 0

ClockIndex(c) ==
    LET past == {i \in Timeline : i <= c}
    IN IF past = {} THEN 0 ELSE Cardinality(past) - 1

(* SyncToCursor leaves the variable alone when there is no time to set. *)
SyncToCursor(c) ==
    frozen' = IF TimeFreeze /\ timestampForCursor(c) # 0
              THEN timestampForCursor(c) ELSE frozen
----------------------------------------------------------------------------
(* Session.Start with the recording just opened: cursor 0, clock in step.  *)
Init ==
    /\ events \in Recordings
    /\ cursor = 0 /\ breakpoints = {} /\ mu = Free
    /\ pcursor = 0 /\ consumed = {}
    /\ frozen = IF TimeFreeze THEN timestampForCursor(0) ELSE 0
    /\ dpc = [d \in Debuggers |-> "idle"]
    /\ method = [d \in Debuggers |-> "GetState"]
    /\ at = [d \in Debuggers |-> 0]
    /\ reply = [d \in Debuggers |->
                  [index |-> 0, stopped |-> FALSE, clock |-> 0, frozen |-> 0]]
    /\ ppc = [p \in Conns |-> "idle"]
    /\ request = [p \in Conns |-> [key |-> NoKey, host |-> NoHost]]
    /\ filter = [p \in Conns |-> NoHost]
    /\ read = [p \in Conns |-> 0]
    /\ asks = 0 /\ sent = 0
    /\ start = [d \in Debuggers |-> 0]
    /\ kept = [d \in Debuggers |-> {}]
    /\ low = [p \in Conns |-> 0]
    /\ moved = FALSE
    /\ synced = 0
    /\ served = <<>>
    /\ given = [j \in 0..(N - 1) |-> 0]

DebugGoto(d, label) == dpc' = [dpc EXCEPT ![d] = label]
ConnGoto(p, label) == ppc' = [ppc EXCEPT ![p] = label]

(* MultiServer.SetCursor, one critical section of MultiServer.mu: going    *)
(* back makes the responses from there on available again.                 *)
SetCursor(index) ==
    /\ pcursor' = index
    /\ consumed' = IF index < pcursor THEN {j \in consumed : j < index}
                   ELSE consumed
    /\ given' = [j \in DOMAIN given |->
                   IF index < pcursor /\ j >= index THEN 0 ELSE given[j]]
----------------------------------------------------------------------------
(*                  debugger.Server.dispatch, one request                  *)

FirstPlace(m) ==
    CASE m \in {"SetBreakpoint", "UnsetBreakpoint", "ClearBreakpoints"}
           -> "breakpoint"
      [] m = "Seek" -> "seek"
      [] OTHER -> "cursor"

Ask(d, m, index) ==
    /\ dpc[d] = "idle"
    /\ asks < MaxAsks
    /\ asks' = asks + 1
    /\ method' = [method EXCEPT ![d] = m]
    /\ at' = [at EXCEPT ![d] = index]
    /\ DebugGoto(d, FirstPlace(m))
    /\ UNCHANGED <<sessionVars, proxyVars, reply, connVars, sent, histVars>>

(* Session.SetBreakpoint and ClearBreakpoints. *)
ChangeBreakpoints(d) ==
    /\ dpc[d] = "breakpoint"
    /\ mu = Free
    /\ breakpoints' = CASE method[d] = "SetBreakpoint" -> breakpoints \cup {at[d]}
                        [] method[d] = "UnsetBreakpoint" -> breakpoints \ {at[d]}
                        [] OTHER -> {}
    /\ kept' = [e \in Debuggers |-> kept[e] \cap breakpoints']
    /\ DebugGoto(d, "cursor")
    /\ UNCHANGED <<events, cursor, mu, frozen, proxyVars, method, at, reply,
                   connVars, boundVars, start, low, moved, synced, served,
                   given>>

(* Mutant: runToIOEvent looks from the second event after the cursor. *)
ReadCursorRunningLate(d) ==
    /\ dpc[d] = "cursor"
    /\ mu = Free
    /\ at' = [at EXCEPT ![d] =
                CASE method[d] = "StepForward" -> cursor + 1
                  [] method[d] = "StepBackward" -> cursor - 1
                  [] method[d] = "RunToEvent" -> cursor + 2
                  [] OTHER -> cursor]
    /\ DebugGoto(d, CASE method[d] \in {"StepForward", "StepBackward"} -> "seek"
                      [] method[d] = "RunToEvent" -> "run"
                      [] OTHER -> "reason")
    /\ start' = [start EXCEPT ![d] = cursor]
    /\ kept' = [kept EXCEPT ![d] = breakpoints]
    /\ UNCHANGED <<sessionVars, proxyVars, method, reply, connVars, boundVars,
                   low, moved, synced, served, given>>

(* Session.Cursor, on its own critical section: Step then seeks relative   *)
(* to the value read, runToIOEvent starts one past it.                     *)
ReadCursor(d) ==
    /\ dpc[d] = "cursor"
    /\ mu = Free
    /\ at' = [at EXCEPT ![d] =
                CASE method[d] \in {"StepForward", "RunToEvent"} -> cursor + 1
                  [] method[d] = "StepBackward" -> cursor - 1
                  [] OTHER -> cursor]
    /\ DebugGoto(d, CASE method[d] \in {"StepForward", "StepBackward"} -> "seek"
                      [] method[d] = "RunToEvent" -> "run"
                      [] OTHER -> "reason")
    /\ start' = [start EXCEPT ![d] = cursor]
    /\ kept' = [kept EXCEPT ![d] = breakpoints]
    /\ UNCHANGED <<sessionVars, proxyVars, method, reply, connVars, boundVars,
                   low, moved, synced, served, given>>

IsIO(i) == At(i).kind \in {"read", "write", "empty"}

(* One turn of runToIOEvent's loop: StoppedReason takes Session.mu. *)
RunTurn(d) ==
    /\ dpc[d] = "run"
    /\ \/ /\ at[d] >= N
          /\ DebugGoto(d, "end") /\ UNCHANGED at
       \/ /\ at[d] < N /\ mu = Free
          /\ at[d] \in breakpoints \/ IsIO(at[d])
          /\ DebugGoto(d, "seek") /\ UNCHANGED at
       \/ /\ at[d] < N /\ mu = Free
          /\ at[d] \notin breakpoints /\ ~IsIO(at[d])
          /\ at' = [at EXCEPT ![d] = at[d] + 1] /\ UNCHANGED dpc
    /\ UNCHANGED <<sessionVars, proxyVars, method, reply, connVars, boundVars,
                   histVars>>

(* Nothing to stop at: runToIOEvent answers with the cursor. *)
RunEnd(d) ==
    /\ dpc[d] = "end"
    /\ mu = Free
    /\ at' = [at EXCEPT ![d] = cursor]
    /\ DebugGoto(d, "reason")
    /\ UNCHANGED <<sessionVars, proxyVars, method, reply, connVars, boundVars,
                   histVars>>

(* Mutant: Seek clamps only from below. *)
ClampBelow(i) == IF i < 0 THEN 0 ELSE i

Clamp(i) == IF i < 0 THEN 0 ELSE IF i > N THEN N ELSE i

(* Session.Seek: lock, clamp, move; then, still locked, the proxy and the  *)
(* clock follow.                                                           *)
SeekLock(d) ==
    /\ dpc[d] = "seek"
    /\ mu = Free
    /\ mu' = d
    /\ cursor' = Clamp(at[d])
    /\ at' = [at EXCEPT ![d] = Clamp(at[d])]
    /\ low' = [p \in Conns |-> IF cursor' < low[p] THEN cursor' ELSE low[p]]
    /\ moved' = (moved \/ cursor' # cursor)
    /\ DebugGoto(d, "proxy")
    /\ UNCHANGED <<events, breakpoints, frozen, proxyVars, method, reply,
                   connVars, boundVars, start, kept, synced, served, given>>

SeekProxy(d) ==
    /\ dpc[d] = "proxy"
    /\ SetCursor(cursor)
    /\ DebugGoto(d, "time")
    /\ UNCHANGED <<sessionVars, method, at, reply, connVars, boundVars, start,
                   kept, low, moved, synced, served>>

(* Mutant: Seek returns without unlocking. *)
SeekTimeLocked(d) ==
    /\ dpc[d] = "time"
    /\ SyncToCursor(cursor)
    /\ synced' = cursor
    /\ DebugGoto(d, "reason")
    /\ UNCHANGED <<events, cursor, breakpoints, mu, proxyVars, method, at,
                   reply, connVars, boundVars, start, kept, low, moved,
                   served, given>>

SeekTime(d) ==
    /\ dpc[d] = "time"
    /\ SyncToCursor(cursor)
    /\ synced' = cursor
    /\ mu' = Free
    /\ DebugGoto(d, "reason")
    /\ UNCHANGED <<events, cursor, breakpoints, proxyVars, method, at, reply,
                   connVars, boundVars, start, kept, low, moved, served, given>>

(* The rest of dispatch: StoppedReason under Session.mu, then the clock,   *)
(* which no lock protects.                                                 *)
StoppedReason(d) ==
    /\ dpc[d] = "reason"
    /\ mu = Free
    /\ reply' = [reply EXCEPT ![d] =
                   [index |-> at[d], stopped |-> at[d] \in breakpoints,
                    clock |-> ClockIndex(at[d]), frozen |-> reply[d].frozen]]
    /\ DebugGoto(d, "stamp")
    /\ UNCHANGED <<sessionVars, proxyVars, method, at, connVars, boundVars,
                   histVars>>

Stamp(d) ==
    /\ dpc[d] = "stamp"
    /\ reply' = [reply EXCEPT ![d] =
                   [index |-> reply[d].index, stopped |-> reply[d].stopped,
                    clock |-> reply[d].clock, frozen |-> frozen]]
    /\ DebugGoto(d, "idle")
    /\ UNCHANGED <<sessionVars, proxyVars, method, at, connVars, boundVars,
                   histVars>>
----------------------------------------------------------------------------
(*               MultiServer.handle and matchResponse                      *)

Request(p, r, f) ==
    /\ ppc[p] = "idle"
    /\ sent < MaxRequests
    /\ sent' = sent + 1
    /\ request' = [request EXCEPT ![p] = r]
    /\ filter' = [filter EXCEPT ![p] = f]
    /\ low' = [low EXCEPT ![p] = cursor]
    /\ ConnGoto(p, "cursor")
    /\ UNCHANGED <<sessionVars, proxyVars, debugVars, read, asks, start, kept,
                   moved, synced, served, given>>

CursorFn(p) ==
    /\ ppc[p] = "cursor"
    /\ mu = Free
    /\ read' = [read EXCEPT ![p] = cursor]
    /\ ConnGoto(p, "set")
    /\ UNCHANGED <<sessionVars, proxyVars, debugVars, request, filter,
                   boundVars, histVars>>

(* A request for another host than the listener's is not answered. *)
HostAccepted(p) ==
    filter[p] = NoHost \/ request[p].host \in {NoHost, filter[p]}

MoveProxy(p) ==
    /\ ppc[p] = "set"
    /\ SetCursor(read[p])
    /\ ConnGoto(p, IF HostAccepted(p) THEN "match" ELSE "idle")
    /\ UNCHANGED <<sessionVars, debugVars, request, filter, read, boundVars,
                   start, kept, low, moved, synced, served>>

IsResponse(j) == At(j).kind = "write" /\ j \notin consumed

Asked(i, r) ==
    /\ At(i).kind = "read"
    /\ At(i).key = r.key
    /\ r.host = NoHost \/ At(i).host \in {NoHost, r.host}

(* Mutant: the search goes on from the request most recently recorded. *)
MatchLast(r) ==
    LET Responses(i) == {j \in (i + 1)..(N - 1) : IsResponse(j)}
        reads == {i \in pcursor..(N - 1) : Asked(i, r) /\ Responses(i) # {}}
        free == {j \in pcursor..(N - 1) : IsResponse(j)}
    IN CASE r.key = NoKey /\ free # {} -> Lowest(free)
         [] r.key # NoKey /\ reads # {} -> Lowest(Responses(Highest(reads)))
         [] OTHER -> None

(* Mutant: the cursor is ignored. *)
MatchFromStart(r) ==
    LET Responses(i) == {j \in (i + 1)..(N - 1) : IsResponse(j)}
        reads == {i \in 0..(N - 1) : Asked(i, r) /\ Responses(i) # {}}
        free == {j \in 0..(N - 1) : IsResponse(j)}
    IN CASE r.key = NoKey /\ free # {} -> Lowest(free)
         [] r.key # NoKey /\ reads # {} -> Lowest(Responses(Lowest(reads)))
         [] OTHER -> None

(* The response to r: from the first request recorded like it at or after  *)
(* the cursor, the next response that was not served yet; for what is not  *)
(* HTTP, simply the next response.  None = the connection is closed.       *)
matchResponse(r) ==
    LET Responses(i) == {j \in (i + 1)..(N - 1) : IsResponse(j)}
        reads == {i \in pcursor..(N - 1) : Asked(i, r) /\ Responses(i) # {}}
        free == {j \in pcursor..(N - 1) : IsResponse(j)}
    IN CASE r.key = NoKey /\ free # {} -> Lowest(free)
         [] r.key # NoKey /\ reads # {} -> Lowest(Responses(Lowest(reads)))
         [] OTHER -> None

(* The requests the recording has, in order. *)
Recorded == {i \in 0..(N - 1) : At(i).kind = "read"}

(* r is the request the recording has next after the ones served so far.   *)
IsNext(r) ==
    \E i \in Recorded :
        /\ Cardinality({j \in Recorded : j < i}) = Len(served)
        /\ At(i).key = r.key
        /\ At(i).host \in {NoHost, r.host}

(* Mutant: the response is not marked as served. *)
MatchUnmarked(p) ==
    /\ ppc[p] = "match"
    /\ LET j == matchResponse(request[p]) IN
        /\ given' = IF j = None THEN given
                    ELSE [given EXCEPT ![j] = given[j] + 1]
        /\ served' = Append(served,
                       [key |-> request[p].key, index |-> j, low |-> low[p],
                        inOrder |-> IsNext(request[p])])
    /\ ConnGoto(p, "idle")
    /\ UNCHANGED <<sessionVars, proxyVars, debugVars, request, filter, read,
                   boundVars, start, kept, low, moved, synced>>

Match(p) ==
    /\ ppc[p] = "match"
    /\ LET j == matchResponse(request[p]) IN
        /\ consumed' = IF j = None THEN consumed ELSE consumed \cup {j}
        /\ given' = IF j = None THEN given
                    ELSE [given EXCEPT ![j] = given[j] + 1]
        /\ served' = Append(served,
                       [key |-> request[p].key, index |-> j, low |-> low[p],
                        inOrder |-> IsNext(request[p])])
    /\ ConnGoto(p, "idle")
    /\ UNCHANGED <<sessionVars, pcursor, debugVars, request, filter, read,
                   boundVars, start, kept, low, moved, synced>>
----------------------------------------------------------------------------
Dispatch(d) ==
    \/ ChangeBreakpoints(d)
    \/ ReadCursor(d)
    \/ RunTurn(d)
    \/ RunEnd(d)
    \/ SeekLock(d)
    \/ SeekProxy(d)
    \/ SeekTime(d)
    \/ StoppedReason(d)
    \/ Stamp(d)

Serve(p) ==
    \/ CursorFn(p)
    \/ MoveProxy(p)
    \/ Match(p)

Next ==
    \/ \E d \in Debuggers, m \in Methods, index \in Indexes : Ask(d, m, index)
    \/ \E d \in Debuggers : Dispatch(d)
    \/ \E p \in Conns, r \in Requests, f \in Filters : Request(p, r, f)
    \/ \E p \in Conns : Serve(p)

Spec == Init /\ [][Next]_vars

(* As long as some goroutine of the session can run, one of them does:     *)
(* that no wait is for ever is then the code's own doing.                  *)
Fairness ==
    WF_vars((\E d \in Debuggers : Dispatch(d)) \/ (\E p \in Conns : Serve(p)))

FairSpec == Spec /\ Fairness
----------------------------------------------------------------------------
(*                               Properties                                *)

(* The proxy gives each recorded response at most once between two rewinds *)
(* of its cursor, however many connections ask at the same time.           *)
ServedOnce == \A j \in DOMAIN given : given[j] <= 1

(* PRD-v2 "Cursor stepping changes proxy output", and multi_test.go:       *)
(* "cursor past events should not match".  A request is answered from the  *)
(* recording at or after a position the debugger's cursor had while the    *)
(* request was being served.                                               *)
ServedFromCursor ==
    \A k \in DOMAIN served :
        served[k].index # None => served[k].index >= served[k].low

(* The recording is made of exchanges: a request and then its response.    *)
IsSequential ==
    /\ \A i \in Recorded : i + 1 < N /\ At(i + 1).kind = "write"
    /\ \A j \in 0..(N - 1) : At(j).kind = "write" => j - 1 \in Recorded

(* demo-walkthrough "it receives the same responses that were recorded":   *)
(* a program that repeats the requests of a sequential recording in order, *)
(* while the debugger leaves the cursor alone, is given exactly the        *)
(* recorded responses, in order.                                           *)
InOrderFaithful ==
    \A k \in DOMAIN served :
        /\ IsSequential /\ ~moved
        /\ \A l \in 1..k : served[l].inOrder /\ served[l].key # NoKey
        => \E i \in Recorded :
              /\ Cardinality({j \in Recorded : j < i}) = k - 1
              /\ served[k].index = i + 1

(* PRD-v2 "`SetBreakpoint` stops stepping at event index": RunToEvent does *)
(* not seek past a breakpoint that was set all along, although it looks at *)
(* the breakpoints one lock at a time while other clients change them.     *)
RunStopsAtBreakpoint ==
    \A d \in Debuggers :
        dpc[d] = "seek" /\ method[d] = "RunToEvent" =>
            \A b \in kept[d] : start[d] < b => at[d] <= b

(* PRD-v2 "Clock timeline advances on step": with a timeline in the        *)
(* archive the frozen clock never goes back while the cursor goes forward, *)
(* even if the recorded time stamps are out of order.                      *)
ClockNeverGoesBack ==
    [][synced' >= synced /\ Timeline # {} => frozen' >= frozen]_<<synced, frozen>>

(* dispatch returns: every debugger request is answered, although Seek     *)
(* holds Session.mu while it calls the proxy and the proxy calls back for  *)
(* the cursor.                                                             *)
DebuggerAnswered == \A d \in Debuggers : dpc[d] # "idle" ~> dpc[d] = "idle"

(* matchResponse returns: every proxy request is served or refused.        *)
RequestServed == \A p \in Conns : ppc[p] # "idle" ~> ppc[p] = "idle"
=============================================================================
