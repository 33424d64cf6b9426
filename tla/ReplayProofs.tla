---------------------------- MODULE ReplayProofs ----------------------------
(***************************************************************************)
(* Proofs about module Replay, for every recording, every set of debuggers *)
(* and connections and every bound.                                        *)
(***************************************************************************)
EXTENDS Replay, FiniteSetTheorems, SequenceTheorems, WellFoundedInduction,
        TLAPS

----------------------------------------------------------------------------
(*                  The least and the greatest of a set                    *)

(* A set of natural numbers has a least element, which Lowest chooses.     *)
LEMMA LowestOf ==
    ASSUME NEW S, S \subseteq Nat, S # {}
    PROVE  Lowest(S) \in S /\ \A j \in S : Lowest(S) <= j
  <1>1. PICK x \in S : \A y \in S : ~ (<<y, x>> \in OpToRel(<, Nat))
    BY NatLessThanWellFounded, WFMin, Zenon
  <1>2. \A y \in S : ~ (y < x)
    BY <1>1 DEF OpToRel
  <1>3. \A y \in S : x <= y
    BY <1>2
  <1> QED BY <1>3 DEF Lowest

(* A bounded set of natural numbers has a greatest element.                *)
LEMMA HighestOf ==
    ASSUME NEW S, S \subseteq Nat, S # {}, NEW m \in Nat, \A j \in S : j <= m
    PROVE  Highest(S) \in S /\ \A j \in S : Highest(S) >= j
  <1> DEFINE Bounds == {n \in Nat : \A j \in S : j <= n}
             u == Lowest(Bounds)
  <1>1. u \in Bounds /\ \A n \in Bounds : u <= n
    <2>1. m \in Bounds /\ Bounds \subseteq Nat
      OBVIOUS
    <2> QED BY <2>1, LowestOf, Zenon
  <1>2. u \in Nat /\ \A j \in S : j <= u
    BY <1>1
  <1> HIDE DEF u
  <1>3. u \in S
    <2> SUFFICES ASSUME u \notin S PROVE FALSE
      OBVIOUS
    <2>1. PICK j \in S : TRUE
      OBVIOUS
    <2>2. u > 0 /\ u - 1 \in Nat
      BY <1>2, <2>1
    <2>3. u - 1 \in Bounds
      BY <1>2, <2>2
    <2> QED BY <1>1, <1>2, <2>3
  <1>4. \A j \in S : u >= j
    BY <1>2
  <1> QED BY <1>3, <1>4 DEF Highest

(* Finitely many natural numbers have a bound.                             *)
LEMMA Bounded ==
    ASSUME NEW n \in Nat, NEW f \in [0..(n - 1) -> Nat]
    PROVE  \E m \in Nat : \A i \in 0..(n - 1) : f[i] <= m
  <1> DEFINE HasBound(k) == \E m \in Nat : \A i \in 0..(k - 1) : f[i] <= m
             Bad == {k \in 0..n : ~HasBound(k)}
  <1> SUFFICES Bad = {}
    <2>1. n \in 0..n
      OBVIOUS
    <2> QED BY <2>1
  <1> SUFFICES ASSUME Bad # {} PROVE FALSE
    OBVIOUS
  <1> DEFINE k == Lowest(Bad)
  <1>1. k \in Bad /\ \A j \in Bad : k <= j
    <2>1. Bad \subseteq Nat
      OBVIOUS
    <2> HIDE DEF Bad
    <2> QED BY <2>1, LowestOf
  <1> HIDE DEF k
  <1>2. k \in 0..n /\ ~HasBound(k)
    BY <1>1
  <1>3. k # 0
    <2>1. 0 \in Nat /\ \A i \in 0..(0 - 1) : f[i] <= 0
      OBVIOUS
    <2>2. HasBound(0)
      BY <2>1, Zenon
    <2> HIDE DEF HasBound
    <2> QED BY <1>2, <2>2
  <1> HIDE DEF HasBound
  <1>4. k - 1 \in 0..n /\ k - 1 \in 0..(n - 1) /\ ~(k <= k - 1)
    BY <1>2, <1>3
  <1>5. HasBound(k - 1)
    BY <1>1, <1>4
  <1>6. PICK m \in Nat : \A i \in 0..((k - 1) - 1) : f[i] <= m
    BY <1>5 DEF HasBound
  <1>7. PICK b \in Nat : m <= b /\ f[k - 1] <= b
    <2>1. \A x, y \in Nat : x + y \in Nat /\ x <= x + y /\ y <= x + y
      OBVIOUS
    <2>2. f[k - 1] \in Nat
      BY <1>4
    <2>3. m + f[k - 1] \in Nat
      BY <2>1, <2>2
    <2> WITNESS m + f[k - 1] \in Nat
    <2> QED BY <2>1, <2>2
  <1>8. \A i \in 0..(k - 1) : f[i] <= b
    <2> SUFFICES ASSUME NEW i \in 0..(k - 1) PROVE f[i] <= b
      OBVIOUS
    <2>0. k \in 0..n
      BY <1>2
    <2>1. i \in 0..(n - 1) /\ f[i] \in Nat
      BY <2>0
    <2>2. CASE i = k - 1
      BY <1>7, <2>2
    <2>3. CASE i # k - 1
      <3>1. i \in 0..((k - 1) - 1)
        BY <1>2, <2>3
      <3> QED BY <1>6, <1>7, <2>1, <3>1
    <2> QED BY <2>2, <2>3
  <1> QED BY <1>2, <1>8 DEF HasBound
----------------------------------------------------------------------------
(*                       The model's operators                             *)

(* The recording is a sequence of events with positive time stamps.        *)
LEMMA EventsTyped ==
    ASSUME events \in Recordings
    PROVE  /\ N \in Nat /\ DOMAIN events = 1..N
           /\ \A i \in 0..(N - 1) :
                 /\ At(i) \in Events /\ At(i).ts \in Nat /\ At(i).ts > 0
                 /\ i + 1 \in 1..N
  <1>1. events \in Seq(Events) /\ \A i \in DOMAIN events : events[i].ts > 0
    BY ReplayAssumption
  <1>2. N \in Nat /\ DOMAIN events = 1..N
    BY <1>1 DEF N
  <1>3. ASSUME NEW i \in 0..(N - 1)
        PROVE  /\ At(i) \in Events /\ At(i).ts \in Nat /\ At(i).ts > 0
               /\ i + 1 \in 1..N
    <2>1. i + 1 \in 1..N
      BY <1>2
    <2>2. events[i + 1] \in Events
      BY <1>1, <1>2, <2>1, ElementOfSeq DEF N
    <2>3. events[i + 1].ts \in Nat
      BY <2>2 DEF Events
    <2> QED BY <1>1, <1>2, <2>1, <2>2, <2>3 DEF At
  <1> QED BY <1>2, <1>3

(* The timeline is a set of positions in the recording.                    *)
LEMMA TimelineTyped == Timeline \subseteq 0..(N - 1)
  BY DEF Timeline

(* The clock at a cursor with part of the timeline behind it is the latest *)
(* time stamp of that part.                                                *)
LEMMA TimestampOfPast ==
    ASSUME events \in Recordings, NEW c \in Nat,
           NEW i \in Timeline, i <= c
    PROVE  /\ \E j \in Timeline : j <= c /\ timestampForCursor(c) = At(j).ts
           /\ \A j \in Timeline : j <= c => At(j).ts <= timestampForCursor(c)
  <1> DEFINE past == {At(j).ts : j \in {k \in Timeline : k <= c}}
             f == [j \in 0..(N - 1) |-> At(j).ts]
  <1>1. /\ N \in Nat /\ f \in [0..(N - 1) -> Nat]
        /\ \A j \in Timeline : At(j).ts \in Nat /\ f[j] = At(j).ts
    BY EventsTyped, TimelineTyped
  <1>2. PICK m \in Nat : \A j \in 0..(N - 1) : f[j] <= m
    <2> HIDE DEF f
    <2> QED BY <1>1, Bounded
  <1>3. past \subseteq Nat /\ past # {} /\ \A t \in past : t <= m
    BY <1>1, <1>2, TimelineTyped
  <1>4. Highest(past) \in past /\ \A t \in past : Highest(past) >= t
    <2> HIDE DEF past
    <2> QED BY <1>3, HighestOf
  <1>5. timestampForCursor(c) = Highest(past)
    BY <1>3 DEF timestampForCursor
  <1> DEFINE h == Highest(past)
  <1> HIDE DEF h
  <1>6. h \in past /\ (\A t \in past : t <= h) /\ timestampForCursor(c) = h
    BY <1>3, <1>4, <1>5 DEF h
  <1>7. \E j \in Timeline : j <= c /\ h = At(j).ts
    BY <1>6
  <1>8. \A j \in Timeline : j <= c => At(j).ts <= h
    BY <1>6
  <1> QED BY <1>6, <1>7, <1>8

(* Before the timeline begins the clock shows its first time stamp.        *)
LEMMA TimestampOfFirst ==
    ASSUME events \in Recordings, NEW c, Timeline # {},
           \A i \in Timeline : ~(i <= c)
    PROVE  timestampForCursor(c) = At(Lowest(Timeline)).ts
  <1>1. {At(j).ts : j \in {k \in Timeline : k <= c}} = {}
    OBVIOUS
  <1> QED BY <1>1 DEF timestampForCursor

(* The clock can be set for every cursor Seek may choose.                  *)
LEMMA TimestampTyped ==
    ASSUME events \in Recordings, NEW c \in 0..N
    PROVE  /\ timestampForCursor(c) \in Nat
           /\ Timeline # {} => timestampForCursor(c) > 0
  <1>0. N \in Nat /\ c \in Nat
        /\ \A i \in 0..(N - 1) : At(i).ts \in Nat /\ At(i).ts > 0
    BY EventsTyped
  <1>1. CASE \E i \in Timeline : i <= c
    BY <1>0, <1>1, TimestampOfPast, TimelineTyped
  <1>2. CASE Timeline # {} /\ \A i \in Timeline : ~(i <= c)
    <2>1. Timeline \subseteq Nat
      BY <1>0, TimelineTyped
    <2>2. Lowest(Timeline) \in Timeline
      BY <1>2, <2>1, LowestOf
    <2> QED BY <1>0, <1>2, <2>2, TimestampOfFirst, TimelineTyped
  <1>3. CASE Timeline = {}
    <2>1. {At(j).ts : j \in {k \in Timeline : k <= c}} = {}
      BY <1>3
    <2>2. CASE c < N
      <3>1. timestampForCursor(c) = At(c).ts
        BY <1>3, <2>1, <2>2, <1>0 DEF timestampForCursor
      <3> QED BY <1>0, <1>3, <2>2, <3>1
    <2>3. CASE c >= N /\ N > 0
      <3>1. timestampForCursor(c) = At(0).ts
        BY <1>3, <2>1, <2>3, <1>0 DEF timestampForCursor
      <3> QED BY <1>0, <1>3, <2>3, <3>1
    <2>4. CASE c >= N /\ N = 0
      <3>1. timestampForCursor(c) = 0
        BY <1>3, <2>1, <2>4, <1>0 DEF timestampForCursor
      <3> QED BY <1>3, <3>1
    <2> QED BY <1>0, <2>2, <2>3, <2>4
  <1> QED BY <1>1, <1>2, <1>3

(* The index into the clock timeline that a reply carries.                 *)
LEMMA ClockIndexTyped ==
    ASSUME events \in Recordings, NEW c
    PROVE  ClockIndex(c) \in Nat
  <1> DEFINE past == {i \in Timeline : i <= c}
  <1>1. IsFiniteSet(0..(N - 1))
    <2>1. 0 \in Int /\ N - 1 \in Int
      BY EventsTyped
    <2> QED BY <2>1, FS_Interval
  <1>2. past \subseteq 0..(N - 1)
    BY TimelineTyped
  <1>3. IsFiniteSet(past)
    BY <1>1, <1>2, FS_Subset
  <1>4. Cardinality(past) \in Nat /\ (Cardinality(past) = 0 <=> past = {})
    BY <1>3, FS_CardinalityType, FS_EmptySet
  <1>5. ClockIndex(c) = IF past = {} THEN 0 ELSE Cardinality(past) - 1
    BY DEF ClockIndex
  <1> HIDE DEF past
  <1> QED BY <1>4, <1>5

(* matchResponse finds a response at or after the proxy's cursor that was  *)
(* not served yet, or none.                                                *)
LEMMA MatchTyped ==
    ASSUME events \in Recordings, pcursor \in 0..N, NEW r
    PROVE  \/ matchResponse(r) = None
           \/ /\ matchResponse(r) \in 0..(N - 1)
              /\ matchResponse(r) >= pcursor
              /\ matchResponse(r) \notin consumed
  <1> DEFINE Responses(i) == {j \in (i + 1)..(N - 1) : IsResponse(j)}
             reads == {i \in pcursor..(N - 1) : Asked(i, r) /\ Responses(i) # {}}
             free == {j \in pcursor..(N - 1) : IsResponse(j)}
  <1>0. N \in Nat /\ pcursor \in Nat /\ pcursor <= N
    BY EventsTyped
  <1>1. CASE r.key = NoKey /\ free # {}
    <2>1. matchResponse(r) = Lowest(free)
      BY <1>1 DEF matchResponse
    <2>2. free \subseteq Nat
      BY <1>0
    <2>3. Lowest(free) \in free
      BY <1>1, <2>2, LowestOf
    <2> QED BY <1>0, <2>1, <2>3 DEF IsResponse
  <1>2. CASE r.key # NoKey /\ reads # {}
    <2> DEFINE i == Lowest(reads)
    <2>1. matchResponse(r) = Lowest(Responses(i))
      BY <1>2 DEF matchResponse
    <2>2. i \in reads
      <3>1. reads \subseteq Nat
        BY <1>0
      <3> HIDE DEF reads
      <3> QED BY <1>2, <3>1, LowestOf
    <2> HIDE DEF i
    <2>3. i \in pcursor..(N - 1) /\ Responses(i) # {} /\ Responses(i) \subseteq Nat
      BY <1>0, <2>2
    <2>4. Lowest(Responses(i)) \in Responses(i)
      <3> HIDE DEF Responses
      <3> QED BY <2>3, LowestOf
    <2> QED BY <1>0, <2>1, <2>3, <2>4 DEF IsResponse
  <1>3. CASE ~(r.key = NoKey /\ free # {}) /\ ~(r.key # NoKey /\ reads # {})
    BY <1>3 DEF matchResponse
  <1> QED BY <1>1, <1>2, <1>3
----------------------------------------------------------------------------
(*                            Type correctness                             *)

(* Next, spelled out as the alternatives the proofs go through.            *)
LEMMA NextCases ==
    ASSUME Next
    PROVE  \/ \E d \in Debuggers : \E m \in Methods, index \in Indexes :
                 Ask(d, m, index)
           \/ \E d \in Debuggers :
                 \/ ChangeBreakpoints(d) \/ ReadCursor(d) \/ RunTurn(d)
                 \/ RunEnd(d) \/ SeekLock(d) \/ SeekProxy(d) \/ SeekTime(d)
                 \/ StoppedReason(d) \/ Stamp(d)
           \/ \E p \in Conns : \E r \in Requests, f \in Filters :
                 Request(p, r, f)
           \/ \E p \in Conns : CursorFn(p) \/ MoveProxy(p) \/ Match(p)
  BY Zenon DEF Next, Dispatch, Serve

(* What TypeOK says of the parts, one by one.                              *)
SessionType ==
    /\ events \in Recordings
    /\ cursor \in 0..N
    /\ breakpoints \subseteq Int
    /\ mu \in Debuggers \cup {Free}
    /\ frozen \in Nat
    /\ moved \in BOOLEAN
    /\ synced \in 0..N

ProxyType ==
    /\ pcursor \in 0..N
    /\ consumed \subseteq 0..(N - 1)
    /\ given \in [0..(N - 1) -> Nat]
    /\ served \in Seq(Served)

DebugType ==
    /\ dpc \in [Debuggers -> DebugPCs]
    /\ method \in [Debuggers -> AllMethods]
    /\ at \in [Debuggers -> Int]
    /\ reply \in [Debuggers -> Replies]
    /\ start \in [Debuggers -> Int]
    /\ kept \in [Debuggers -> SUBSET Int]

ConnType ==
    /\ ppc \in [Conns -> ConnPCs]
    /\ request \in [Conns -> Requests]
    /\ filter \in [Conns -> Hosts \cup {NoHost}]
    /\ read \in [Conns -> 0..N]
    /\ low \in [Conns -> 0..N]

CountType == asks \in Nat /\ sent \in Nat

(* The four groups of variables cover TypeOK.                              *)
LEMMA TypeParts ==
    TypeOK <=> SessionType /\ ProxyType /\ DebugType /\ ConnType /\ CountType
  BY DEF TypeOK, SessionType, ProxyType, DebugType, ConnType, CountType

(* The recording is the same throughout a session.                         *)
LEMMA EventsFixed ==
    ASSUME [Next]_vars
    PROVE  events' = events /\ N' = N
  <1>1. ASSUME NEW d, NEW m, NEW index, Ask(d, m, index) PROVE events' = events
    BY <1>1 DEF Ask, sessionVars
  <1>2. ASSUME NEW d,
               \/ ChangeBreakpoints(d) \/ ReadCursor(d) \/ RunTurn(d)
               \/ RunEnd(d) \/ SeekLock(d) \/ SeekProxy(d) \/ SeekTime(d)
               \/ StoppedReason(d) \/ Stamp(d)
        PROVE  events' = events
    BY <1>2
    DEF ChangeBreakpoints, ReadCursor, RunTurn, RunEnd, SeekLock, SeekProxy,
        SeekTime, StoppedReason, Stamp, sessionVars
  <1>3. ASSUME NEW p, NEW r, NEW f, Request(p, r, f) PROVE events' = events
    BY <1>3 DEF Request, sessionVars
  <1>4. ASSUME NEW p, CursorFn(p) \/ MoveProxy(p) \/ Match(p)
        PROVE  events' = events
    BY <1>4 DEF CursorFn, MoveProxy, Match, sessionVars
  <1>5. UNCHANGED vars => events' = events
    BY DEF vars, sessionVars
  <1>6. events' = events
    BY <1>1, <1>2, <1>3, <1>4, <1>5, NextCases, Zenon
  <1> QED BY <1>6 DEF N

(* Seek clamps what a client sends to the recording.                       *)
LEMMA ClampTyped ==
    ASSUME events \in Recordings, NEW i \in Int
    PROVE  Clamp(i) \in 0..N
  BY EventsTyped DEF Clamp

(* Session: the cursor stays inside the recording, whoever seeks.          *)
LEMMA SessionStep ==
    ASSUME SessionType, DebugType, [Next]_vars
    PROVE  SessionType'
  <1>0. events' = events /\ N' = N
    BY EventsFixed
  <1>1. ASSUME NEW d \in Debuggers, ChangeBreakpoints(d) PROVE SessionType'
    <2>1. /\ breakpoints' \subseteq breakpoints \cup {at[d]}
          /\ UNCHANGED <<cursor, mu, frozen, moved, synced>>
      BY <1>1 DEF ChangeBreakpoints
    <2>2. at[d] \in Int
      BY DEF DebugType
    <2> QED BY <1>0, <2>1, <2>2 DEF SessionType
  <1>2. ASSUME NEW d \in Debuggers, SeekLock(d) PROVE SessionType'
    <2>1. at[d] \in Int
      BY DEF DebugType
    <2>2. /\ cursor' = Clamp(at[d]) /\ mu' = d
          /\ moved' = (moved \/ cursor' # cursor)
          /\ UNCHANGED <<breakpoints, frozen, synced>>
      BY <1>2 DEF SeekLock
    <2>3. cursor' \in 0..N
      BY <2>1, <2>2, ClampTyped DEF SessionType
    <2>4. moved' \in BOOLEAN
      BY <2>2
    <2> QED BY <1>0, <2>2, <2>3, <2>4 DEF SessionType
  <1>3. ASSUME NEW d \in Debuggers, SeekTime(d) PROVE SessionType'
    <2>1. /\ synced' = cursor /\ mu' = Free
          /\ UNCHANGED <<cursor, breakpoints, moved>>
          /\ frozen' = timestampForCursor(cursor) \/ frozen' = frozen
      BY <1>3 DEF SeekTime, SyncToCursor
    <2>2. frozen' \in Nat
      BY <2>1, TimestampTyped DEF SessionType
    <2> QED BY <1>0, <2>1, <2>2 DEF SessionType
  <1>4. CASE UNCHANGED <<cursor, breakpoints, mu, frozen, moved, synced>>
    BY <1>0, <1>4 DEF SessionType
  <1>5. ASSUME NEW d, NEW m, NEW index, Ask(d, m, index)
        PROVE  UNCHANGED <<cursor, breakpoints, mu, frozen, moved, synced>>
    BY <1>5 DEF Ask, sessionVars, histVars
  <1>6. ASSUME NEW d,
               \/ ReadCursor(d) \/ RunTurn(d) \/ RunEnd(d) \/ SeekProxy(d)
               \/ StoppedReason(d) \/ Stamp(d)
        PROVE  UNCHANGED <<cursor, breakpoints, mu, frozen, moved, synced>>
    BY <1>6 DEF ReadCursor, RunTurn, RunEnd, SeekProxy, StoppedReason, Stamp,
                sessionVars, histVars
  <1>7. ASSUME NEW p, NEW r, NEW f, Request(p, r, f)
        PROVE  UNCHANGED <<cursor, breakpoints, mu, frozen, moved, synced>>
    BY <1>7 DEF Request, sessionVars
  <1>8. ASSUME NEW p, CursorFn(p) \/ MoveProxy(p) \/ Match(p)
        PROVE  UNCHANGED <<cursor, breakpoints, mu, frozen, moved, synced>>
    BY <1>8 DEF CursorFn, MoveProxy, Match, sessionVars, histVars
  <1>9. UNCHANGED vars
           => UNCHANGED <<cursor, breakpoints, mu, frozen, moved, synced>>
    BY DEF vars, sessionVars, histVars
  <1> QED
    BY <1>1, <1>2, <1>3, <1>4, <1>5, <1>6, <1>7, <1>8, <1>9, NextCases, Zenon

(* MultiServer.SetCursor keeps the proxy well typed.                       *)
LEMMA SetCursorTyped ==
    ASSUME ProxyType, events' = events, N' = N, NEW c \in 0..N, SetCursor(c),
           served' = served
    PROVE  ProxyType'
  <1>1. /\ pcursor' = c /\ consumed' \subseteq consumed
        /\ given' = [j \in DOMAIN given |->
                       IF c < pcursor /\ j >= c THEN 0 ELSE given[j]]
    BY DEF SetCursor
  <1>2. given' \in [0..(N - 1) -> Nat]
    BY <1>1 DEF ProxyType
  <1> QED BY <1>1, <1>2 DEF ProxyType

(* MultiServer: it serves positions of the recording only.                 *)
LEMMA ProxyStep ==
    ASSUME SessionType, ProxyType, ConnType, [Next]_vars
    PROVE  ProxyType'
  <1>0. events' = events /\ N' = N
    BY EventsFixed
  <1>1. ASSUME NEW d \in Debuggers, SeekProxy(d) PROVE ProxyType'
    <2>1. SetCursor(cursor) /\ served' = served
      BY <1>1 DEF SeekProxy
    <2>2. cursor \in 0..N
      BY DEF SessionType
    <2> QED BY <1>0, <2>1, <2>2, SetCursorTyped
  <1>2. ASSUME NEW p \in Conns, MoveProxy(p) PROVE ProxyType'
    <2>1. SetCursor(read[p]) /\ served' = served
      BY <1>2 DEF MoveProxy
    <2>2. read[p] \in 0..N
      BY DEF ConnType
    <2> QED BY <1>0, <2>1, <2>2, SetCursorTyped
  <1>3. ASSUME NEW p \in Conns, Match(p) PROVE ProxyType'
    <2> DEFINE j == matchResponse(request[p])
               s == [key |-> request[p].key, index |-> j, low |-> low[p],
                     inOrder |-> IsNext(request[p])]
    <2>1. /\ pcursor' = pcursor
          /\ consumed' = IF j = None THEN consumed ELSE consumed \cup {j}
          /\ given' = IF j = None THEN given
                      ELSE [given EXCEPT ![j] = given[j] + 1]
          /\ served' = Append(served, s)
      BY <1>3 DEF Match
    <2>2. j = None \/ j \in 0..(N - 1)
      BY MatchTyped DEF SessionType, ProxyType
    <2>3. s \in Served
      <3>1. request[p].key \in Keys \cup {NoKey} /\ low[p] \in 0..N
        BY DEF ConnType, Requests
      <3>2. j \in Int /\ N \in Nat
        BY <2>2, EventsTyped DEF None, SessionType
      <3>3. IsNext(request[p]) \in BOOLEAN
        BY DEF IsNext
      <3> HIDE DEF j
      <3> QED BY <3>1, <3>2, <3>3 DEF Served
    <2> HIDE DEF j, s
    <2>4. consumed' \subseteq 0..(N - 1)
      BY <2>1, <2>2 DEF ProxyType
    <2>5. given' \in [0..(N - 1) -> Nat]
      BY <2>1, <2>2 DEF ProxyType
    <2>6. served' \in Seq(Served)
      BY <2>1, <2>3, AppendProperties DEF ProxyType
    <2> QED BY <1>0, <2>1, <2>4, <2>5, <2>6 DEF ProxyType
  <1>4. CASE UNCHANGED <<pcursor, consumed, given, served>>
    BY <1>0, <1>4 DEF ProxyType
  <1>5. ASSUME NEW d, NEW m, NEW index, Ask(d, m, index)
        PROVE  UNCHANGED <<pcursor, consumed, given, served>>
    BY <1>5 DEF Ask, proxyVars, histVars
  <1>6. ASSUME NEW d,
               \/ ChangeBreakpoints(d) \/ ReadCursor(d) \/ RunTurn(d)
               \/ RunEnd(d) \/ SeekLock(d) \/ SeekTime(d)
               \/ StoppedReason(d) \/ Stamp(d)
        PROVE  UNCHANGED <<pcursor, consumed, given, served>>
    BY <1>6 DEF ChangeBreakpoints, ReadCursor, RunTurn, RunEnd, SeekLock,
                SeekTime, StoppedReason, Stamp, proxyVars, histVars
  <1>7. ASSUME NEW p, NEW r, NEW f, Request(p, r, f)
        PROVE  UNCHANGED <<pcursor, consumed, given, served>>
    BY <1>7 DEF Request, proxyVars
  <1>8. ASSUME NEW p, CursorFn(p)
        PROVE  UNCHANGED <<pcursor, consumed, given, served>>
    BY <1>8 DEF CursorFn, proxyVars, histVars
  <1>9. UNCHANGED vars => UNCHANGED <<pcursor, consumed, given, served>>
    BY DEF vars, proxyVars, histVars
  <1> QED
    BY <1>1, <1>2, <1>3, <1>4, <1>5, <1>6, <1>7, <1>8, <1>9, NextCases, Zenon

(* The debugger's goroutines.                                              *)
LEMMA DebugStep ==
    ASSUME SessionType, DebugType, [Next]_vars
    PROVE  DebugType'
  <1>1. ASSUME NEW d \in Debuggers, NEW m \in Methods, NEW index \in Indexes,
               Ask(d, m, index)
        PROVE  DebugType'
    <2>1. m \in AllMethods /\ index \in Int
      BY ReplayAssumption
    <2>2. FirstPlace(m) \in DebugPCs
      BY DEF FirstPlace, DebugPCs
    <2> QED
      BY <1>1, <2>1, <2>2 DEF DebugType, Ask, DebugGoto, histVars
  <1>2. ASSUME NEW d \in Debuggers, ChangeBreakpoints(d) PROVE DebugType'
    <2>1. /\ dpc' = [dpc EXCEPT ![d] = "cursor"]
          /\ kept' = [e \in Debuggers |-> kept[e] \cap breakpoints']
          /\ UNCHANGED <<method, at, reply, start>>
      BY <1>2 DEF ChangeBreakpoints, DebugGoto
    <2>2. kept' \in [Debuggers -> SUBSET Int]
      BY <2>1 DEF DebugType
    <2>3. dpc' \in [Debuggers -> DebugPCs]
      BY <2>1 DEF DebugType, DebugPCs
    <2> QED BY <2>1, <2>2, <2>3 DEF DebugType
  <1>3. ASSUME NEW d \in Debuggers, ReadCursor(d) PROVE DebugType'
    <2>0. cursor \in Int /\ cursor + 1 \in Int /\ cursor - 1 \in Int
          /\ breakpoints \subseteq Int
      BY EventsTyped DEF SessionType
    <2>1. PICK i \in Int, l \in DebugPCs :
             /\ at' = [at EXCEPT ![d] = i] /\ dpc' = [dpc EXCEPT ![d] = l]
      <3> DEFINE i == CASE method[d] \in {"StepForward", "RunToEvent"} -> cursor + 1
                        [] method[d] = "StepBackward" -> cursor - 1
                        [] OTHER -> cursor
                 l == CASE method[d] \in {"StepForward", "StepBackward"} -> "seek"
                        [] method[d] = "RunToEvent" -> "run"
                        [] OTHER -> "reason"
      <3>1. at' = [at EXCEPT ![d] = i] /\ dpc' = [dpc EXCEPT ![d] = l]
        BY <1>3 DEF ReadCursor, DebugGoto
      <3>2. i \in Int
        BY <2>0
      <3>3. l \in DebugPCs
        BY DEF DebugPCs
      <3> HIDE DEF i, l
      <3> QED BY <3>1, <3>2, <3>3
    <2>2. /\ start' = [start EXCEPT ![d] = cursor]
          /\ kept' = [kept EXCEPT ![d] = breakpoints]
          /\ UNCHANGED <<method, reply>>
      BY <1>3 DEF ReadCursor
    <2>3. dpc' \in [Debuggers -> DebugPCs] /\ at' \in [Debuggers -> Int]
      BY <2>1 DEF DebugType
    <2>4. start' \in [Debuggers -> Int] /\ kept' \in [Debuggers -> SUBSET Int]
      BY <2>0, <2>2 DEF DebugType
    <2> QED BY <2>2, <2>3, <2>4 DEF DebugType
  <1>4. ASSUME NEW d \in Debuggers,
               RunTurn(d) \/ RunEnd(d) \/ SeekLock(d) \/ SeekProxy(d)
               \/ SeekTime(d)
        PROVE  DebugType'
    <2>0. at[d] \in Int /\ at[d] + 1 \in Int /\ cursor \in Int
          /\ Clamp(at[d]) \in Int
      BY EventsTyped, ClampTyped DEF SessionType, DebugType
    <2>1. /\ \E l \in DebugPCs : dpc' = [dpc EXCEPT ![d] = l] \/ dpc' = dpc
          /\ \/ at' = at
             \/ \E i \in Int : at' = [at EXCEPT ![d] = i]
          /\ UNCHANGED <<method, reply, start, kept>>
      BY <1>4, <2>0
      DEF RunTurn, RunEnd, SeekLock, SeekProxy, SeekTime, DebugGoto, DebugPCs,
          histVars
    <2>2. dpc' \in [Debuggers -> DebugPCs] /\ at' \in [Debuggers -> Int]
      BY <2>1 DEF DebugType
    <2> QED BY <2>1, <2>2 DEF DebugType
  <1>5. ASSUME NEW d \in Debuggers, StoppedReason(d) \/ Stamp(d)
        PROVE  DebugType'
    <2>0. /\ at[d] \in Int /\ reply[d] \in Replies
          /\ (at[d] \in breakpoints) \in BOOLEAN
          /\ frozen \in Nat
      BY DEF SessionType, DebugType
    <2>1. ClockIndex(at[d]) \in Nat
      BY ClockIndexTyped DEF SessionType
    <2>2. PICK r \in Replies : reply' = [reply EXCEPT ![d] = r]
      <3>1. CASE StoppedReason(d)
        <4> DEFINE r == [index |-> at[d], stopped |-> at[d] \in breakpoints,
                         clock |-> ClockIndex(at[d]),
                         frozen |-> reply[d].frozen]
        <4>1. reply' = [reply EXCEPT ![d] = r]
          BY <3>1 DEF StoppedReason
        <4>2. r \in Replies
          BY <2>0, <2>1 DEF Replies
        <4> HIDE DEF r
        <4> QED BY <4>1, <4>2
      <3>2. CASE Stamp(d)
        <4> DEFINE r == [index |-> reply[d].index,
                         stopped |-> reply[d].stopped,
                         clock |-> reply[d].clock, frozen |-> frozen]
        <4>1. reply' = [reply EXCEPT ![d] = r]
          BY <3>2 DEF Stamp
        <4>2. r \in Replies
          BY <2>0 DEF Replies
        <4> HIDE DEF r
        <4> QED BY <4>1, <4>2
      <3> QED BY <1>5, <3>1, <3>2
    <2>3. /\ \E l \in DebugPCs : dpc' = [dpc EXCEPT ![d] = l]
          /\ UNCHANGED <<method, at, start, kept>>
      BY <1>5 DEF StoppedReason, Stamp, DebugGoto, DebugPCs, histVars
    <2>4. dpc' \in [Debuggers -> DebugPCs] /\ reply' \in [Debuggers -> Replies]
      BY <2>2, <2>3 DEF DebugType
    <2> QED BY <2>3, <2>4 DEF DebugType
  <1>6. CASE UNCHANGED <<debugVars, start, kept>>
    BY <1>6 DEF DebugType, debugVars
  <1>7. ASSUME NEW p, NEW r, NEW f, Request(p, r, f)
        PROVE  UNCHANGED <<debugVars, start, kept>>
    BY <1>7 DEF Request
  <1>8. ASSUME NEW p, CursorFn(p) \/ MoveProxy(p) \/ Match(p)
        PROVE  UNCHANGED <<debugVars, start, kept>>
    BY <1>8 DEF CursorFn, MoveProxy, Match, histVars
  <1>9. UNCHANGED vars => UNCHANGED <<debugVars, start, kept>>
    BY DEF vars, histVars
  <1> QED
    BY <1>1, <1>2, <1>3, <1>4, <1>5, <1>6, <1>7, <1>8, <1>9, NextCases, Zenon

(* The proxy's goroutines.                                                 *)
LEMMA ConnStep ==
    ASSUME SessionType, ConnType, DebugType, [Next]_vars
    PROVE  ConnType'
  <1>0. N' = N /\ N \in Nat /\ cursor \in 0..N
    BY EventsFixed, EventsTyped DEF SessionType
  <1>1. ASSUME NEW p \in Conns, NEW r \in Requests, NEW f \in Filters,
               Request(p, r, f)
        PROVE  ConnType'
    <2>1. f \in Hosts \cup {NoHost} /\ "cursor" \in ConnPCs
      BY ReplayAssumption DEF ConnPCs
    <2> QED BY <1>0, <1>1, <2>1 DEF ConnType, Request, ConnGoto
  <1>2. ASSUME NEW p \in Conns, CursorFn(p) PROVE ConnType'
    <2>1. "set" \in ConnPCs
      BY DEF ConnPCs
    <2> QED BY <1>0, <1>2, <2>1 DEF ConnType, CursorFn, ConnGoto, histVars
  <1>3. ASSUME NEW p \in Conns, MoveProxy(p) \/ Match(p) PROVE ConnType'
    <2>1. /\ \E l \in ConnPCs : ppc' = [ppc EXCEPT ![p] = l]
          /\ UNCHANGED <<request, filter, read, low>>
      BY <1>3 DEF MoveProxy, Match, ConnGoto, ConnPCs
    <2>2. ppc' \in [Conns -> ConnPCs]
      BY <2>1 DEF ConnType
    <2> QED BY <1>0, <2>1, <2>2 DEF ConnType
  <1>4. ASSUME NEW d \in Debuggers, SeekLock(d) PROVE ConnType'
    <2>1. /\ cursor' = Clamp(at[d])
          /\ low' = [p \in Conns |-> IF cursor' < low[p] THEN cursor' ELSE low[p]]
          /\ UNCHANGED connVars
      BY <1>4 DEF SeekLock
    <2>2. cursor' \in 0..N
      BY <2>1, ClampTyped DEF SessionType, DebugType
    <2>3. low' \in [Conns -> 0..N]
      BY <2>1, <2>2 DEF ConnType
    <2> QED BY <1>0, <2>1, <2>3 DEF ConnType, connVars
  <1>5. CASE UNCHANGED <<connVars, low>>
    BY <1>0, <1>5 DEF ConnType, connVars
  <1>6. ASSUME NEW d, NEW m, NEW index, Ask(d, m, index)
        PROVE  UNCHANGED <<connVars, low>>
    BY <1>6 DEF Ask, histVars
  <1>7. ASSUME NEW d,
               \/ ChangeBreakpoints(d) \/ ReadCursor(d) \/ RunTurn(d)
               \/ RunEnd(d) \/ SeekProxy(d) \/ SeekTime(d)
               \/ StoppedReason(d) \/ Stamp(d)
        PROVE  UNCHANGED <<connVars, low>>
    BY <1>7 DEF ChangeBreakpoints, ReadCursor, RunTurn, RunEnd, SeekProxy,
                SeekTime, StoppedReason, Stamp, histVars
  <1>8. UNCHANGED vars => UNCHANGED <<connVars, low>>
    BY DEF vars, histVars
  <1> QED
    BY <1>1, <1>2, <1>3, <1>4, <1>5, <1>6, <1>7, <1>8, NextCases, Zenon

(* The counts of requests.                                                 *)
LEMMA CountStep ==
    ASSUME CountType, [Next]_vars
    PROVE  CountType'
  <1>1. ASSUME NEW d, NEW m, NEW index, Ask(d, m, index) PROVE CountType'
    BY <1>1 DEF Ask, CountType
  <1>2. ASSUME NEW p, NEW r, NEW f, Request(p, r, f) PROVE CountType'
    BY <1>2 DEF Request, CountType
  <1>3. CASE UNCHANGED boundVars
    BY <1>3 DEF CountType, boundVars
  <1>4. ASSUME NEW d,
               \/ ChangeBreakpoints(d) \/ ReadCursor(d) \/ RunTurn(d)
               \/ RunEnd(d) \/ SeekLock(d) \/ SeekProxy(d) \/ SeekTime(d)
               \/ StoppedReason(d) \/ Stamp(d)
        PROVE  UNCHANGED boundVars
    BY <1>4
    DEF ChangeBreakpoints, ReadCursor, RunTurn, RunEnd, SeekLock, SeekProxy,
        SeekTime, StoppedReason, Stamp
  <1>5. ASSUME NEW p, CursorFn(p) \/ MoveProxy(p) \/ Match(p)
        PROVE  UNCHANGED boundVars
    BY <1>5 DEF CursorFn, MoveProxy, Match
  <1>6. UNCHANGED vars => UNCHANGED boundVars
    BY DEF vars
  <1> QED BY <1>1, <1>2, <1>3, <1>4, <1>5, <1>6, NextCases, Zenon

(* Every step of the session keeps it well typed.                          *)
LEMMA TypeStep ==
    ASSUME TypeOK, [Next]_vars
    PROVE  TypeOK'
  <1>1. SessionType /\ ProxyType /\ DebugType /\ ConnType /\ CountType
    BY TypeParts
  <1>2. SessionType' /\ ProxyType' /\ DebugType' /\ ConnType' /\ CountType'
    BY <1>1, SessionStep, ProxyStep, DebugStep, ConnStep, CountStep
  <1> QED
    BY <1>2
    DEF TypeOK, SessionType, ProxyType, DebugType, ConnType, CountType

(* Session.Start leaves a well typed session.                              *)
LEMMA InitType == Init => TypeOK
  <1> SUFFICES ASSUME Init PROVE TypeOK
    OBVIOUS
  <1>1. events \in Recordings /\ N \in Nat /\ 0 \in 0..N
    BY EventsTyped DEF Init
  <1>2. frozen \in Nat
    BY <1>1, TimestampTyped DEF Init
  <1>3. SessionType
    BY <1>1, <1>2 DEF Init, SessionType
  <1>4. ProxyType
    <2>1. served \in Seq(Served)
      BY DEF Init
    <2> QED BY <1>1, <2>1 DEF Init, ProxyType
  <1>5. DebugType
    <2>1. [index |-> 0, stopped |-> FALSE, clock |-> 0, frozen |-> 0] \in Replies
      BY DEF Replies
    <2>2. reply \in [Debuggers -> Replies]
      BY <2>1 DEF Init
    <2>3. "idle" \in DebugPCs /\ "GetState" \in AllMethods
      BY DEF DebugPCs, AllMethods
    <2> QED BY <2>2, <2>3 DEF Init, DebugType
  <1>6. ConnType
    <2>1. [key |-> NoKey, host |-> NoHost] \in Requests /\ "idle" \in ConnPCs
      BY DEF Requests, ConnPCs
    <2> QED BY <1>1, <2>1 DEF Init, ConnType
  <1>7. CountType
    BY DEF Init, CountType
  <1> QED BY <1>3, <1>4, <1>5, <1>6, <1>7, TypeParts

(* Every reachable state of a replay session is well typed; in particular  *)
(* no request, seek or step takes a cursor outside the recording.          *)
THEOREM TypeCorrect == Spec => []TypeOK
  <1>1. TypeOK /\ [Next]_vars => TypeOK'
    BY TypeStep
  <1> QED BY <1>1, InitType, PTL DEF Spec
----------------------------------------------------------------------------
(*                        The inductive invariant                          *)

(* A response that was given and is still marked as served was given once; *)
(* one that is not marked was not given since the rewind.                  *)
ServeInv ==
    \A j \in 0..(N - 1) :
        given[j] <= 1 /\ (j \notin consumed => given[j] = 0)

(* A run has passed no breakpoint that was set since it began.             *)
RunInv ==
    \A d \in Debuggers :
        /\ kept[d] \subseteq breakpoints
        /\ \/ dpc[d] = "run"
           \/ dpc[d] = "seek" /\ method[d] = "RunToEvent"
           => \A b \in kept[d] : start[d] < b => at[d] <= b

(* The frozen clock is the one of the cursor it was last set for.          *)
ClockInv ==
    Timeline # {} =>
        frozen = IF TimeFreeze THEN timestampForCursor(synced) ELSE 0

IInv == TypeOK /\ ServeInv /\ RunInv /\ ClockInv

(* Going back with the proxy's cursor forgets and unmarks the same         *)
(* responses.                                                              *)
LEMMA SetCursorServes ==
    ASSUME ProxyType, N \in Nat, N' = N, ServeInv, NEW c \in 0..N, SetCursor(c)
    PROVE  ServeInv'
  <1>0. /\ pcursor \in 0..N /\ given \in [0..(N - 1) -> Nat]
    BY DEF ProxyType
  <1> SUFFICES ASSUME NEW j \in 0..(N - 1)
               PROVE  given'[j] <= 1 /\ (j \notin consumed' => given'[j] = 0)
    BY DEF ServeInv
  <1>1. given'[j] = IF c < pcursor /\ j >= c THEN 0 ELSE given[j]
    BY <1>0 DEF SetCursor
  <1>2. consumed' = IF c < pcursor THEN {k \in consumed : k < c} ELSE consumed
    BY DEF SetCursor
  <1>3. given[j] <= 1 /\ (j \notin consumed => given[j] = 0)
    BY DEF ServeInv
  <1> QED BY <1>0, <1>1, <1>2, <1>3

(* The proxy's critical sections keep marks and history in step.           *)
LEMMA ServeStep ==
    ASSUME SessionType, ProxyType, ConnType, ServeInv, [Next]_vars
    PROVE  ServeInv'
  <1>0. N' = N /\ N \in Nat
    BY EventsFixed, EventsTyped DEF SessionType
  <1>1. ASSUME NEW d \in Debuggers, SeekProxy(d) PROVE ServeInv'
    <2>1. SetCursor(cursor) /\ cursor \in 0..N
      BY <1>1 DEF SeekProxy, SessionType
    <2> QED BY <1>0, <2>1, SetCursorServes
  <1>2. ASSUME NEW p \in Conns, MoveProxy(p) PROVE ServeInv'
    <2>1. SetCursor(read[p]) /\ read[p] \in 0..N
      BY <1>2 DEF MoveProxy, ConnType
    <2> QED BY <1>0, <2>1, SetCursorServes
  <1>3. ASSUME NEW p \in Conns, Match(p) PROVE ServeInv'
    <2> DEFINE j == matchResponse(request[p])
    <2>1. /\ consumed' = IF j = None THEN consumed ELSE consumed \cup {j}
          /\ given' = IF j = None THEN given
                      ELSE [given EXCEPT ![j] = given[j] + 1]
      BY <1>3 DEF Match
    <2>2. j = None \/ (j \in 0..(N - 1) /\ j \notin consumed)
      BY MatchTyped DEF SessionType, ProxyType
    <2> HIDE DEF j
    <2>3. CASE j = None
      BY <1>0, <2>1, <2>3 DEF ServeInv
    <2>4. CASE j # None
      <3>1. given[j] = 0 /\ j \in 0..(N - 1)
        BY <2>2, <2>4 DEF ServeInv
      <3>2. /\ given'[j] = 1
            /\ \A k \in 0..(N - 1) : k # j => given'[k] = given[k]
            /\ consumed' = consumed \cup {j}
        BY <2>1, <2>4, <3>1 DEF ProxyType
      <3> QED BY <1>0, <3>2 DEF ServeInv
    <2> QED BY <2>3, <2>4
  <1>4. CASE UNCHANGED <<consumed, given>>
    BY <1>0, <1>4 DEF ServeInv
  <1>5. ASSUME NEW d, NEW m, NEW index, Ask(d, m, index)
        PROVE  UNCHANGED <<consumed, given>>
    BY <1>5 DEF Ask, proxyVars, histVars
  <1>6. ASSUME NEW d,
               \/ ChangeBreakpoints(d) \/ ReadCursor(d) \/ RunTurn(d)
               \/ RunEnd(d) \/ SeekLock(d) \/ SeekTime(d)
               \/ StoppedReason(d) \/ Stamp(d)
        PROVE  UNCHANGED <<consumed, given>>
    BY <1>6 DEF ChangeBreakpoints, ReadCursor, RunTurn, RunEnd, SeekLock,
                SeekTime, StoppedReason, Stamp, proxyVars, histVars
  <1>7. ASSUME NEW p, NEW r, NEW f, Request(p, r, f)
        PROVE  UNCHANGED <<consumed, given>>
    BY <1>7 DEF Request, proxyVars
  <1>8. ASSUME NEW p, CursorFn(p) PROVE UNCHANGED <<consumed, given>>
    BY <1>8 DEF CursorFn, proxyVars, histVars
  <1>9. UNCHANGED vars => UNCHANGED <<consumed, given>>
    BY DEF vars, proxyVars, histVars
  <1> QED
    BY <1>1, <1>2, <1>3, <1>4, <1>5, <1>6, <1>7, <1>8, <1>9, NextCases, Zenon

(* runToIOEvent looks at one index per turn and leaves it only when no     *)
(* breakpoint is there; another client can only take breakpoints away from *)
(* those that were set all along.                                          *)
LEMMA RunStep ==
    ASSUME SessionType, DebugType, RunInv, [Next]_vars
    PROVE  RunInv'
  <1> DEFINE Runs(d) == \/ dpc[d] = "run"
                        \/ dpc[d] = "seek" /\ method[d] = "RunToEvent"
             Holds(d) == \A b \in kept[d] : start[d] < b => at[d] <= b
  <1>0. \A e \in Debuggers : kept[e] \subseteq breakpoints /\ (Runs(e) => Holds(e))
    BY DEF RunInv
  <1>1. ASSUME NEW d \in Debuggers, NEW m, NEW index, Ask(d, m, index)
        PROVE  RunInv'
    <2>1. /\ dpc' = [dpc EXCEPT ![d] = FirstPlace(m)]
          /\ method' = [method EXCEPT ![d] = m]
          /\ at' = [at EXCEPT ![d] = index]
          /\ UNCHANGED <<breakpoints, start, kept>>
      BY <1>1 DEF Ask, DebugGoto, sessionVars, histVars
    <2>2. FirstPlace(m) # "run"
          /\ (FirstPlace(m) = "seek" => m # "RunToEvent")
      BY DEF FirstPlace
    <2>3. ASSUME NEW e \in Debuggers
          PROVE  kept'[e] \subseteq breakpoints' /\ (Runs(e)' => Holds(e)')
      <3>1. CASE e = d
        BY <1>0, <2>1, <2>2, <3>1 DEF DebugType
      <3>2. CASE e # d
        BY <1>0, <2>1, <3>2 DEF DebugType
      <3> QED BY <3>1, <3>2
    <2> QED BY <2>3 DEF RunInv
  <1>2. ASSUME NEW d \in Debuggers, ChangeBreakpoints(d) PROVE RunInv'
    <2>1. /\ dpc' = [dpc EXCEPT ![d] = "cursor"]
          /\ kept' = [e \in Debuggers |-> kept[e] \cap breakpoints']
          /\ UNCHANGED <<method, at, start>>
      BY <1>2 DEF ChangeBreakpoints, DebugGoto
    <2>2. ASSUME NEW e \in Debuggers
          PROVE  kept'[e] \subseteq breakpoints' /\ (Runs(e)' => Holds(e)')
      <3>1. kept'[e] = kept[e] \cap breakpoints'
        BY <2>1
      <3>2. Runs(e)' => Runs(e)
        BY <2>1 DEF DebugType
      <3> QED BY <1>0, <2>1, <3>1, <3>2
    <2> QED BY <2>2 DEF RunInv
  <1>3. ASSUME NEW d \in Debuggers, ReadCursor(d) PROVE RunInv'
    <2>1. /\ start' = [start EXCEPT ![d] = cursor]
          /\ kept' = [kept EXCEPT ![d] = breakpoints]
          /\ UNCHANGED <<method, breakpoints>>
          /\ \E i : at' = [at EXCEPT ![d] = i]
          /\ \E l : dpc' = [dpc EXCEPT ![d] = l]
      BY <1>3 DEF ReadCursor, DebugGoto, sessionVars
    <2>2. cursor \in Int /\ breakpoints \subseteq Int
      BY EventsTyped DEF SessionType
    <2>3. Runs(d)' => at'[d] = cursor + 1
      <3>1. CASE method[d] = "RunToEvent"
        BY <1>3, <3>1 DEF ReadCursor, DebugType
      <3>2. CASE method[d] # "RunToEvent"
        <4>1. dpc'[d] # "run" /\ method'[d] # "RunToEvent"
          BY <1>3, <2>1, <3>2 DEF ReadCursor, DebugGoto, DebugType
        <4> QED BY <4>1
      <3> QED BY <3>1, <3>2
    <2>4. kept'[d] = breakpoints /\ start'[d] = cursor
      BY <2>1 DEF DebugType
    <2>5. Runs(d)' => Holds(d)'
      <3>1. \A b \in breakpoints : cursor < b => cursor + 1 <= b
        BY <2>2
      <3> SUFFICES ASSUME Runs(d)', NEW b \in kept'[d], start'[d] < b
                   PROVE  at'[d] <= b
        OBVIOUS
      <3>2. at'[d] = cursor + 1
        BY <2>3
      <3> QED BY <2>4, <3>1, <3>2
    <2>6. ASSUME NEW e \in Debuggers, e # d
          PROVE  /\ kept'[e] = kept[e] /\ start'[e] = start[e]
                 /\ at'[e] = at[e] /\ dpc'[e] = dpc[e]
      BY <2>1, <2>6 DEF DebugType
    <2>7. ASSUME NEW e \in Debuggers
          PROVE  kept'[e] \subseteq breakpoints' /\ (Runs(e)' => Holds(e)')
      <3>1. CASE e = d
        BY <2>1, <2>4, <2>5, <3>1
      <3>2. CASE e # d
        BY <1>0, <2>1, <2>6, <3>2
      <3> QED BY <3>1, <3>2
    <2> QED BY <2>7 DEF RunInv
  <1>4. ASSUME NEW d \in Debuggers, RunTurn(d) PROVE RunInv'
    <2>1. /\ dpc[d] = "run" /\ UNCHANGED <<method, breakpoints, start, kept>>
          /\ \A e \in Debuggers : e # d => at'[e] = at[e] /\ dpc'[e] = dpc[e]
      BY <1>4 DEF RunTurn, DebugGoto, DebugType, sessionVars, histVars
    <2>2. \/ at'[d] = at[d]
          \/ at'[d] = at[d] + 1 /\ at[d] \notin breakpoints
      BY <1>4 DEF RunTurn, DebugType
    <2>3. Holds(d) /\ kept[d] \subseteq breakpoints
      BY <1>0, <2>1
    <2>4. Holds(d)'
      <3>1. /\ at[d] \in Int /\ kept[d] \subseteq Int
            /\ kept'[d] = kept[d] /\ start'[d] = start[d]
        BY <2>1 DEF DebugType
      <3>2. CASE at'[d] = at[d]
        BY <2>3, <3>1, <3>2
      <3>3. CASE at'[d] = at[d] + 1 /\ at[d] \notin breakpoints
        <4> SUFFICES ASSUME NEW b \in kept[d], start[d] < b
                     PROVE  at[d] + 1 <= b
          BY <3>1, <3>3
        <4>1. at[d] <= b /\ at[d] # b /\ b \in Int
          BY <2>3, <3>1, <3>3
        <4> QED BY <3>1, <4>1
      <3> QED BY <2>2, <3>2, <3>3
    <2>5. ASSUME NEW e \in Debuggers
          PROVE  kept'[e] \subseteq breakpoints' /\ (Runs(e)' => Holds(e)')
      <3>1. CASE e = d
        BY <2>1, <2>3, <2>4, <3>1
      <3>2. CASE e # d
        BY <1>0, <2>1, <3>2
      <3> QED BY <3>1, <3>2
    <2> QED BY <2>5 DEF RunInv
  <1>5. ASSUME NEW d \in Debuggers,
               RunEnd(d) \/ SeekLock(d) \/ SeekProxy(d) \/ SeekTime(d)
               \/ StoppedReason(d) \/ Stamp(d)
        PROVE  RunInv'
    <2>1. /\ UNCHANGED <<method, breakpoints, start, kept>>
          /\ dpc'[d] \notin {"run", "seek"}
          /\ \A e \in Debuggers : e # d => at'[e] = at[e] /\ dpc'[e] = dpc[e]
      BY <1>5
      DEF RunEnd, SeekLock, SeekProxy, SeekTime, StoppedReason, Stamp,
          DebugGoto, DebugType, sessionVars, histVars
    <2>2. ASSUME NEW e \in Debuggers
          PROVE  kept'[e] \subseteq breakpoints' /\ (Runs(e)' => Holds(e)')
      <3>1. CASE e = d
        BY <1>0, <2>1, <3>1
      <3>2. CASE e # d
        BY <1>0, <2>1, <3>2
      <3> QED BY <3>1, <3>2
    <2> QED BY <2>2 DEF RunInv
  <1>6. CASE UNCHANGED <<breakpoints, dpc, method, at, start, kept>>
    BY <1>6 DEF RunInv
  <1>7. ASSUME NEW p, NEW r, NEW f, Request(p, r, f)
        PROVE  UNCHANGED <<breakpoints, dpc, method, at, start, kept>>
    BY <1>7 DEF Request, sessionVars, debugVars
  <1>8. ASSUME NEW p, CursorFn(p) \/ MoveProxy(p) \/ Match(p)
        PROVE  UNCHANGED <<breakpoints, dpc, method, at, start, kept>>
    BY <1>8 DEF CursorFn, MoveProxy, Match, sessionVars, debugVars, histVars
  <1>9. UNCHANGED vars
          => UNCHANGED <<breakpoints, dpc, method, at, start, kept>>
    BY DEF vars, sessionVars, debugVars, histVars
  <1> QED
    BY <1>1, <1>2, <1>3, <1>4, <1>5, <1>6, <1>7, <1>8, <1>9, NextCases, Zenon

(* SyncToCursor is the only writer of the frozen clock and sets it for the *)
(* cursor it is given, if there is a timeline to set it from.              *)
LEMMA ClockStep ==
    ASSUME SessionType, ClockInv, [Next]_vars
    PROVE  /\ ClockInv'
           /\ \/ UNCHANGED <<synced, frozen>>
              \/ /\ synced' \in 0..N
                 /\ TimeFreeze /\ Timeline # {}
                       => frozen' = timestampForCursor(synced')
                 /\ ~TimeFreeze => frozen' = frozen
  <1> DEFINE Goal == /\ ClockInv'
                     /\ \/ UNCHANGED <<synced, frozen>>
                        \/ /\ synced' \in 0..N
                           /\ TimeFreeze /\ Timeline # {}
                                 => frozen' = timestampForCursor(synced')
                           /\ ~TimeFreeze => frozen' = frozen
  <1>0. events' = events /\ N' = N
    BY EventsFixed
  <1>1. /\ Timeline' = Timeline
        /\ \A c : timestampForCursor(c)' = timestampForCursor(c)
    BY <1>0 DEF Timeline, timestampForCursor, At, N
  <1>2. ASSUME NEW d \in Debuggers, SeekTime(d) PROVE Goal
    <2>1. /\ synced' = cursor /\ cursor' = cursor
          /\ frozen' = IF TimeFreeze /\ timestampForCursor(cursor) # 0
                       THEN timestampForCursor(cursor) ELSE frozen
      BY <1>2 DEF SeekTime, SyncToCursor
    <2>2. /\ cursor \in 0..N
          /\ Timeline # {} => timestampForCursor(cursor) > 0
      BY TimestampTyped DEF SessionType
    <2>3. Timeline # {} => timestampForCursor(cursor) # 0
      BY <2>2
    <2>4. TimeFreeze /\ Timeline # {} => frozen' = timestampForCursor(synced')
      BY <2>1, <2>3
    <2>5. ~TimeFreeze => frozen' = frozen
      BY <2>1
    <2>6. timestampForCursor(synced)' = timestampForCursor(synced')
      BY <1>0 DEF timestampForCursor, Timeline, At, N
    <2>7. ClockInv'
      BY <1>1, <2>4, <2>5, <2>6 DEF ClockInv
    <2> QED BY <2>1, <2>2, <2>4, <2>5, <2>7
  <1>3. ASSUME UNCHANGED <<synced, frozen>> PROVE Goal
    <2>1. timestampForCursor(synced)' = timestampForCursor(synced)
      BY <1>0, <1>3 DEF timestampForCursor, Timeline, At, N
    <2> QED BY <1>1, <1>3, <2>1 DEF ClockInv
  <1>4. ASSUME NEW d, NEW m, NEW index, Ask(d, m, index)
        PROVE  UNCHANGED <<synced, frozen>>
    BY <1>4 DEF Ask, sessionVars, histVars
  <1>5. ASSUME NEW d,
               \/ ChangeBreakpoints(d) \/ ReadCursor(d) \/ RunTurn(d)
               \/ RunEnd(d) \/ SeekLock(d) \/ SeekProxy(d)
               \/ StoppedReason(d) \/ Stamp(d)
        PROVE  UNCHANGED <<synced, frozen>>
    BY <1>5 DEF ChangeBreakpoints, ReadCursor, RunTurn, RunEnd, SeekLock,
                SeekProxy, StoppedReason, Stamp, sessionVars, histVars
  <1>6. ASSUME NEW p, NEW r, NEW f, Request(p, r, f)
        PROVE  UNCHANGED <<synced, frozen>>
    BY <1>6 DEF Request, sessionVars
  <1>7. ASSUME NEW p, CursorFn(p) \/ MoveProxy(p) \/ Match(p)
        PROVE  UNCHANGED <<synced, frozen>>
    BY <1>7 DEF CursorFn, MoveProxy, Match, sessionVars, histVars
  <1>8. UNCHANGED vars => UNCHANGED <<synced, frozen>>
    BY DEF vars, sessionVars, histVars
  <1> HIDE DEF Goal
  <1>9. Goal
    BY <1>2, <1>3, <1>4, <1>5, <1>6, <1>7, <1>8, NextCases, Zenon
  <1> QED BY <1>9 DEF Goal

(* The latest time stamp behind the cursor grows with the cursor.          *)
LEMMA TimestampMonotone ==
    ASSUME events \in Recordings, Timeline # {},
           NEW c \in Nat, NEW e \in Nat, c <= e
    PROVE  timestampForCursor(c) <= timestampForCursor(e)
  <1>0. N \in Nat /\ Timeline \subseteq Nat
    BY EventsTyped, TimelineTyped
  <1>1. CASE \E i \in Timeline : i <= c
    <2>1. PICK j \in Timeline : j <= c /\ timestampForCursor(c) = At(j).ts
      BY <1>1, TimestampOfPast
    <2>2. j <= e
      BY <1>0, <2>1
    <2> QED BY <2>1, <2>2, TimestampOfPast
  <1>2. CASE \A i \in Timeline : ~(i <= c)
    <2> DEFINE first == Lowest(Timeline)
    <2>1. first \in Timeline /\ \A i \in Timeline : first <= i
      BY <1>0, LowestOf
    <2>2. timestampForCursor(c) = At(first).ts
      BY <1>2, TimestampOfFirst
    <2> HIDE DEF first
    <2>3. CASE \E i \in Timeline : i <= e
      <3>1. first <= e
        BY <1>0, <2>1, <2>3
      <3> QED BY <2>1, <2>2, <3>1, TimestampOfPast
    <2>4. CASE \A i \in Timeline : ~(i <= e)
      <3>1. timestampForCursor(e) = At(first).ts
        BY <2>4, TimestampOfFirst DEF first
      <3>2. At(first).ts \in Nat
        BY <2>1, EventsTyped, TimelineTyped
      <3> QED BY <2>2, <3>1, <3>2
    <2> QED BY <2>3, <2>4
  <1> QED BY <1>1, <1>2

(* A session starts with nothing served, no breakpoint and the clock set.  *)
LEMMA InitIInv == Init => IInv
  <1> SUFFICES ASSUME Init PROVE IInv
    OBVIOUS
  <1>1. ServeInv
    BY DEF Init, ServeInv
  <1>2. RunInv
    BY DEF Init, RunInv
  <1>3. ClockInv
    BY DEF Init, ClockInv
  <1> QED BY <1>1, <1>2, <1>3, InitType DEF IInv

(* The invariant is inductive.                                             *)
THEOREM Invariance == Spec => []IInv
  <1>1. ASSUME IInv, [Next]_vars PROVE IInv'
    <2>1. TypeOK /\ ServeInv /\ RunInv /\ ClockInv
      BY <1>1 DEF IInv
    <2>2. SessionType /\ ProxyType /\ DebugType /\ ConnType
      BY <2>1, TypeParts
    <2>3. TypeOK'
      BY <1>1, <2>1, TypeStep
    <2>4. ServeInv'
      BY <1>1, <2>1, <2>2, ServeStep
    <2>5. RunInv'
      BY <1>1, <2>1, <2>2, RunStep
    <2>6. ClockInv'
      BY <1>1, <2>1, <2>2, ClockStep
    <2> QED BY <2>3, <2>4, <2>5, <2>6 DEF IInv
  <1> QED BY <1>1, InitIInv, PTL DEF Spec

(* MultiServer.matchResponse gives a recorded response at most once until  *)
(* the cursor goes back, for any number of connections and debuggers.      *)
THEOREM ResponsesServedOnce == Spec => []ServedOnce
  <1>1. ASSUME IInv PROVE ServedOnce
    <2>1. DOMAIN given = 0..(N - 1)
      BY <1>1 DEF IInv, TypeOK
    <2> QED BY <1>1, <2>1 DEF IInv, ServeInv, ServedOnce
  <1> QED BY <1>1, Invariance, PTL

(* runToIOEvent never seeks past a breakpoint that was set all along, for  *)
(* any number of debugger clients changing breakpoints and cursor.         *)
THEOREM RunsStopAtBreakpoints == Spec => []RunStopsAtBreakpoint
  <1>1. IInv => RunStopsAtBreakpoint
    BY DEF IInv, RunInv, RunStopsAtBreakpoint
  <1> QED BY <1>1, Invariance, PTL

(* The frozen clock never goes back while the cursor goes forward, for any *)
(* recording with a timeline, its time stamps in any order.                *)
THEOREM ClockMonotone == Spec => ClockNeverGoesBack
  <1>1. ASSUME IInv, [Next]_vars
        PROVE  [synced' >= synced /\ Timeline # {} => frozen' >= frozen]_<<synced, frozen>>
    <2> SUFFICES ASSUME ~UNCHANGED <<synced, frozen>>, synced' >= synced,
                        Timeline # {}
                 PROVE  frozen' >= frozen
      OBVIOUS
    <2>0. SessionType /\ ClockInv
      BY <1>1, TypeParts DEF IInv
    <2>1. /\ synced' \in 0..N
          /\ TimeFreeze => frozen' = timestampForCursor(synced')
          /\ ~TimeFreeze => frozen' = frozen
      BY <1>1, <2>0, ClockStep
    <2>2. /\ events \in Recordings /\ N \in Nat /\ synced \in 0..N
          /\ frozen \in Nat
      BY <2>0, EventsTyped DEF SessionType
    <2>3. CASE TimeFreeze
      <3>1. frozen = timestampForCursor(synced)
        BY <2>0, <2>3 DEF ClockInv
      <3>2. synced \in Nat /\ synced' \in Nat /\ synced <= synced'
        BY <2>1, <2>2
      <3>3. timestampForCursor(synced) <= timestampForCursor(synced')
        BY <2>2, <3>2, TimestampMonotone
      <3>4. timestampForCursor(synced') \in Nat
        BY <2>1, <2>2, TimestampTyped
      <3> QED BY <2>1, <2>2, <2>3, <3>1, <3>3, <3>4
    <2>4. CASE ~TimeFreeze
      BY <2>1, <2>2, <2>4
    <2> QED BY <2>3, <2>4
  <1> QED BY <1>1, Invariance, PTL DEF Spec, ClockNeverGoesBack
----------------------------------------------------------------------------
(*                       A program with one connection                     *)

(* What a goroutine of the proxy knows is no older than its request.       *)
CursorInv ==
    \A p \in Conns :
        /\ ppc[p] # "idle" => low[p] <= cursor
        /\ ppc[p] = "set" => low[p] <= read[p]
        /\ ppc[p] = "match" => low[p] <= pcursor

OneConnection == \A p, q \in Conns : p = q

(* With one connection nobody but Seek moves the proxy's cursor between    *)
(* MoveProxy and Match, and Seek moves it to the session's cursor.         *)
LEMMA CursorStep ==
    ASSUME OneConnection, SessionType, ProxyType, DebugType, ConnType,
           CursorInv, [Next]_vars
    PROVE  CursorInv'
  <1>0. /\ N' = N /\ N \in Nat /\ cursor \in Int /\ pcursor \in Int
        /\ \A p \in Conns : low[p] \in Int /\ read[p] \in Int
    BY EventsFixed, EventsTyped DEF SessionType, ProxyType, ConnType
  <1>1. ASSUME NEW d \in Debuggers, SeekLock(d) PROVE CursorInv'
    <2>1. /\ cursor' = Clamp(at[d])
          /\ low' = [p \in Conns |-> IF cursor' < low[p] THEN cursor' ELSE low[p]]
          /\ UNCHANGED <<ppc, read, pcursor>>
      BY <1>1 DEF SeekLock, connVars, proxyVars
    <2>2. cursor' \in Int
      BY <1>0, <2>1, ClampTyped DEF SessionType, DebugType
    <2>3. \A p \in Conns : low'[p] <= cursor' /\ low'[p] <= low[p]
                           /\ low'[p] \in Int
      BY <1>0, <2>1, <2>2
    <2> QED BY <1>0, <2>1, <2>2, <2>3 DEF CursorInv
  <1>2. ASSUME NEW d \in Debuggers, SeekProxy(d) PROVE CursorInv'
    <2>1. pcursor' = cursor /\ UNCHANGED <<cursor, ppc, read, low>>
      BY <1>2 DEF SeekProxy, SetCursor, sessionVars, connVars
    <2> QED BY <2>1 DEF CursorInv
  <1>3. ASSUME NEW p \in Conns, NEW r \in Requests, NEW f \in Filters,
               Request(p, r, f)
        PROVE  CursorInv'
    <2>1. /\ ppc'[p] = "cursor" /\ low'[p] = cursor
          /\ UNCHANGED <<cursor, pcursor>>
      BY <1>3 DEF Request, ConnGoto, ConnType, sessionVars, proxyVars
    <2>2. low'[p] <= cursor'
      BY <1>0, <2>1
    <2> QED BY <2>1, <2>2 DEF CursorInv, OneConnection
  <1>4. ASSUME NEW p \in Conns, CursorFn(p) PROVE CursorInv'
    <2>1. /\ ppc[p] = "cursor" /\ ppc'[p] = "set" /\ read'[p] = cursor
          /\ UNCHANGED <<cursor, pcursor, low>>
      BY <1>4 DEF CursorFn, ConnGoto, ConnType, sessionVars, proxyVars, histVars
    <2> QED BY <2>1 DEF CursorInv, OneConnection
  <1>5. ASSUME NEW p \in Conns, MoveProxy(p) PROVE CursorInv'
    <2>1. /\ ppc[p] = "set" /\ ppc'[p] \in {"match", "idle"}
          /\ pcursor' = read[p] /\ UNCHANGED <<cursor, read, low>>
      BY <1>5 DEF MoveProxy, SetCursor, ConnGoto, ConnType, sessionVars
    <2> QED BY <2>1 DEF CursorInv, OneConnection
  <1>6. ASSUME NEW p \in Conns, Match(p) PROVE CursorInv'
    <2>1. ppc'[p] = "idle"
      BY <1>6 DEF Match, ConnGoto, ConnType
    <2> QED BY <2>1 DEF CursorInv, OneConnection
  <1>7. CASE UNCHANGED <<cursor, pcursor, ppc, read, low>>
    BY <1>7 DEF CursorInv
  <1>8. ASSUME NEW d, NEW m, NEW index, Ask(d, m, index)
        PROVE  UNCHANGED <<cursor, pcursor, ppc, read, low>>
    BY <1>8 DEF Ask, sessionVars, proxyVars, connVars, histVars
  <1>9. ASSUME NEW d,
               \/ ChangeBreakpoints(d) \/ ReadCursor(d) \/ RunTurn(d)
               \/ RunEnd(d) \/ SeekTime(d) \/ StoppedReason(d) \/ Stamp(d)
        PROVE  UNCHANGED <<cursor, pcursor, ppc, read, low>>
    BY <1>9 DEF ChangeBreakpoints, ReadCursor, RunTurn, RunEnd, SeekTime,
                StoppedReason, Stamp, sessionVars, proxyVars, connVars,
                histVars
  <1>10. UNCHANGED vars => UNCHANGED <<cursor, pcursor, ppc, read, low>>
    BY DEF vars, sessionVars, proxyVars, connVars, histVars
  <1> QED
    BY <1>1, <1>2, <1>3, <1>4, <1>5, <1>6, <1>7, <1>8, <1>9, <1>10, NextCases,
       Zenon

(* matchResponse searches from the proxy's cursor, which is at least the   *)
(* lowest the session's cursor was during the request.                     *)
LEMMA ServedStep ==
    ASSUME SessionType, ProxyType, ConnType, CursorInv, ServedFromCursor,
           [Next]_vars
    PROVE  ServedFromCursor'
  <1>0. served \in Seq(Served)
    BY DEF ProxyType
  <1>1. ASSUME NEW p \in Conns, Match(p) PROVE ServedFromCursor'
    <2> DEFINE j == matchResponse(request[p])
               s == [key |-> request[p].key, index |-> j, low |-> low[p],
                     inOrder |-> IsNext(request[p])]
    <2>1. served' = Append(served, s) /\ ppc[p] = "match"
      BY <1>1 DEF Match
    <2>2. s.index # None => s.index >= s.low
      <3>1. j = None \/ (j \in 0..(N - 1) /\ j >= pcursor)
        BY MatchTyped DEF SessionType, ProxyType
      <3>2. /\ low[p] <= pcursor /\ low[p] \in Int /\ pcursor \in Int
            /\ N \in Nat
        BY <2>1, EventsTyped DEF CursorInv, SessionType, ProxyType, ConnType
      <3>3. s.index = j /\ s.low = low[p]
        OBVIOUS
      <3> HIDE DEF j, s
      <3> QED BY <3>1, <3>2, <3>3
    <2> HIDE DEF j, s
    <2> DEFINE n == Len(served)
    <2>3. /\ n \in Nat /\ DOMAIN served = 1..n /\ DOMAIN served' = 1..(n + 1)
          /\ \A k \in 1..n : served'[k] = served[k]
          /\ served'[n + 1] = s
      BY <1>0, <2>1
    <2>4. \A k \in 1..(n + 1) : k \in 1..n \/ k = n + 1
      BY <2>3
    <2> HIDE DEF n
    <2> QED BY <2>2, <2>3, <2>4 DEF ServedFromCursor
  <1>2. CASE served' = served
    BY <1>2 DEF ServedFromCursor
  <1>3. ASSUME NEW d, NEW m, NEW index, Ask(d, m, index)
        PROVE  served' = served
    BY <1>3 DEF Ask, histVars
  <1>4. ASSUME NEW d,
               \/ ChangeBreakpoints(d) \/ ReadCursor(d) \/ RunTurn(d)
               \/ RunEnd(d) \/ SeekLock(d) \/ SeekProxy(d) \/ SeekTime(d)
               \/ StoppedReason(d) \/ Stamp(d)
        PROVE  served' = served
    BY <1>4
    DEF ChangeBreakpoints, ReadCursor, RunTurn, RunEnd, SeekLock, SeekProxy,
        SeekTime, StoppedReason, Stamp, histVars
  <1>5. ASSUME NEW p, NEW r, NEW f, Request(p, r, f) PROVE served' = served
    BY <1>5 DEF Request
  <1>6. ASSUME NEW p, CursorFn(p) \/ MoveProxy(p) PROVE served' = served
    BY <1>6 DEF CursorFn, MoveProxy, histVars
  <1>7. UNCHANGED vars => served' = served
    BY DEF vars, histVars
  <1> QED
    BY <1>1, <1>2, <1>3, <1>4, <1>5, <1>6, <1>7, NextCases, Zenon

(* A program that opens one connection at a time is answered from the      *)
(* recording at or after a position the cursor had during the request,     *)
(* whatever the debuggers do.  With two connections this is false: the run *)
(* replay_stale_cursor shows the counterexample.                           *)
THEOREM OneConnectionServedFromCursor ==
    ASSUME OneConnection
    PROVE  Spec => []ServedFromCursor
  <1> DEFINE J == TypeOK /\ CursorInv /\ ServedFromCursor
  <1>1. Init => J
    <2> SUFFICES ASSUME Init PROVE J
      OBVIOUS
    <2>1. CursorInv
      BY DEF Init, CursorInv
    <2>2. ServedFromCursor
      BY DEF Init, ServedFromCursor
    <2> QED BY <2>1, <2>2, InitType
  <1>2. J /\ [Next]_vars => J'
    <2> SUFFICES ASSUME J, [Next]_vars PROVE J'
      OBVIOUS
    <2>1. SessionType /\ ProxyType /\ DebugType /\ ConnType
      BY TypeParts
    <2>2. TypeOK'
      BY TypeStep
    <2>3. CursorInv'
      BY <2>1, CursorStep
    <2>4. ServedFromCursor'
      BY <2>1, ServedStep
    <2> QED BY <2>2, <2>3, <2>4
  <1> QED BY <1>1, <1>2, PTL DEF Spec
----------------------------------------------------------------------------
(*                 A program that repeats the recording                    *)

(* The number of requests the recording has before i.                      *)
Rank(i) == Cardinality({j \in Recorded : j < i})

(* Until the debugger moves the cursor, everybody's cursor is 0.           *)
StillInv ==
    ~moved => cursor = 0 /\ pcursor = 0 /\ \A p \in Conns : read[p] = 0

InOrderSoFar ==
    \A l \in 1..Len(served) : served[l].inOrder /\ served[l].key # NoKey

(* The responses marked as served are those of the first requests.         *)
AnsweredInv ==
    IsSequential /\ ~moved /\ InOrderSoFar =>
        consumed = {j \in 1..(N - 1) :
                       j - 1 \in Recorded /\ Rank(j - 1) < Len(served)}

(* Later requests have a higher rank.                                      *)
LEMMA RankLess ==
    ASSUME events \in Recordings
    PROVE  /\ Recorded \subseteq 0..(N - 1) /\ N \in Nat
           /\ \A i \in Recorded : Rank(i) \in Nat
           /\ \A i, k \in Recorded : i < k => Rank(i) < Rank(k)
           /\ \A i, k \in Recorded : Rank(i) = Rank(k) => i = k
  <1>1. N \in Nat /\ Recorded \subseteq 0..(N - 1) /\ Recorded \subseteq Int
    BY EventsTyped DEF Recorded
  <1>2. IsFiniteSet(Recorded)
    <2>1. 0 \in Int /\ N - 1 \in Int
      BY <1>1
    <2>2. IsFiniteSet(0..(N - 1))
      BY <2>1, FS_Interval
    <2> QED BY <1>1, <2>2, FS_Subset
  <1> DEFINE Before(i) == {j \in Recorded : j < i}
  <1>3. \A i \in Recorded : IsFiniteSet(Before(i)) /\ Rank(i) \in Nat
    <2> SUFFICES ASSUME NEW i \in Recorded
                 PROVE  IsFiniteSet(Before(i)) /\ Rank(i) \in Nat
      OBVIOUS
    <2>1. IsFiniteSet(Before(i))
      BY <1>2, FS_Subset
    <2>2. Cardinality(Before(i)) \in Nat
      BY <2>1, FS_CardinalityType
    <2> QED BY <2>1, <2>2 DEF Rank
  <1>4. ASSUME NEW i \in Recorded, NEW k \in Recorded, i < k
        PROVE  Rank(i) < Rank(k)
    <2>1. /\ Before(i) \in SUBSET Before(k)
          /\ i \in Before(k) /\ i \notin Before(i)
      <3>1. i \in Int /\ k \in Int /\ ~(i < i)
        BY <1>1
      <3>2. \A j \in Recorded : j < i => j < k
        BY <1>1, <1>4, <3>1
      <3> QED BY <1>4, <3>1, <3>2, Zenon
    <2>2. /\ Cardinality(Before(i)) <= Cardinality(Before(k))
          /\ Cardinality(Before(k)) = Cardinality(Before(i))
                => Before(k) = Before(i)
      BY <1>3, <2>1, FS_Subset
    <2>3. Before(k) # Before(i)
      BY <2>1
    <2>4. Rank(i) <= Rank(k) /\ Rank(k) # Rank(i)
      BY <2>2, <2>3 DEF Rank
    <2>5. Rank(i) \in Nat /\ Rank(k) \in Nat
      BY <1>3
    <2> QED BY <2>4, <2>5
  <1>5. ASSUME NEW i \in Recorded, NEW k \in Recorded, Rank(i) = Rank(k)
        PROVE  i = k
    <2>1. Rank(i) \in Nat /\ Rank(k) \in Nat /\ i \in Int /\ k \in Int
      BY <1>1, <1>3
    <2>2. ~(i < k)
      BY <1>4, <1>5, <2>1
    <2>3. ~(k < i)
      BY <1>4, <1>5, <2>1
    <2> QED BY <2>1, <2>2, <2>3
  <1> QED BY <1>1, <1>3, <1>4, <1>5

(* With the responses to the requests before i marked, the next request of *)
(* a sequential recording is answered by the response recorded for it, even*)
(* if an earlier request has the same key.                                 *)
LEMMA MatchNext ==
    ASSUME events \in Recordings, IsSequential, pcursor = 0,
           NEW r, r.key # NoKey,
           NEW i \in Recorded, At(i).key = r.key, At(i).host \in {NoHost, r.host},
           consumed = {j \in 1..(N - 1) :
                          j - 1 \in Recorded /\ Rank(j - 1) < Rank(i)}
    PROVE  matchResponse(r) = i + 1 /\ i + 1 \in 1..(N - 1)
  <1> DEFINE Responses(k) == {j \in (k + 1)..(N - 1) : IsResponse(j)}
             reads == {k \in pcursor..(N - 1) : Asked(k, r) /\ Responses(k) # {}}
             i0 == Lowest(reads)
  <1>0. /\ N \in Nat /\ i \in 0..(N - 1) /\ i + 1 \in 1..(N - 1)
        /\ At(i).kind = "read" /\ At(i + 1).kind = "write" /\ Rank(i) \in Nat
    BY RankLess DEF IsSequential, Recorded
  <1>1. i + 1 \notin consumed
    <2>1. (i + 1) - 1 = i /\ ~(Rank(i) < Rank(i))
      BY <1>0
    <2> QED BY <2>1
  <1>2. IsResponse(i + 1)
    BY <1>0, <1>1 DEF IsResponse
  <1>3. \A j \in 0..(N - 1) : IsResponse(j) => i + 1 <= j
    <2> SUFFICES ASSUME NEW j \in 0..(N - 1), IsResponse(j), ~(i + 1 <= j)
                 PROVE  FALSE
      OBVIOUS
    <2>1. At(j).kind = "write" /\ j \notin consumed
      BY DEF IsResponse
    <2>2. j - 1 \in Recorded
      BY <2>1 DEF IsSequential
    <2>3. j - 1 \in 0..(N - 1)
      BY <2>2, RankLess
    <2>4. j - 1 < i /\ j \in 1..(N - 1)
      BY <1>0, <2>3
    <2>5. Rank(j - 1) < Rank(i)
      BY <2>2, <2>4, RankLess
    <2> QED BY <2>1, <2>2, <2>4, <2>5
  <1>4. i \in reads
    <2>1. i + 1 \in Responses(i)
      BY <1>0, <1>2
    <2>2. Asked(i, r)
      BY <1>0 DEF Asked
    <2>3. i \in pcursor..(N - 1)
      BY <1>0
    <2> QED BY <2>1, <2>2, <2>3
  <1>5. i0 \in reads /\ i0 <= i
    <2>1. reads \subseteq Nat /\ reads # {}
      <3>1. \A k \in reads : k \in 0..(N - 1)
        <4> HIDE DEF Responses
        <4> QED OBVIOUS
      <3>2. \A k \in 0..(N - 1) : k \in Nat
        BY <1>0
      <3> HIDE DEF reads
      <3> QED BY <1>4, <3>1, <3>2
    <2> HIDE DEF reads
    <2> QED BY <1>4, <2>1, LowestOf
  <1>6. matchResponse(r) = Lowest(Responses(i0))
    BY <1>4 DEF matchResponse
  <1> HIDE DEF i0
  <1>7. i0 \in 0..(N - 1)
    BY <1>5
  <1>8. /\ i + 1 \in Responses(i0) /\ Responses(i0) \subseteq Nat
        /\ \A j \in Responses(i0) : i + 1 <= j
    <2>1. i + 1 \in (i0 + 1)..(N - 1)
      BY <1>0, <1>5, <1>7
    <2>2. \A j \in (i0 + 1)..(N - 1) : j \in 0..(N - 1) /\ j \in Nat
      BY <1>0, <1>7
    <2> QED BY <1>2, <1>3, <2>1, <2>2
  <1> HIDE DEF Responses
  <1>9. /\ Lowest(Responses(i0)) \in Responses(i0)
        /\ Lowest(Responses(i0)) <= i + 1
    BY <1>8, LowestOf
  <1>10. Lowest(Responses(i0)) = i + 1
    <2>1. \A x, y \in Nat : x <= y /\ y <= x => x = y
      OBVIOUS
    <2> QED BY <1>8, <1>9, <2>1
  <1> QED BY <1>0, <1>6, <1>10

(* Seek to where the cursor already is moves nothing.                      *)
LEMMA StillStep ==
    ASSUME SessionType, DebugType, ConnType, StillInv, [Next]_vars
    PROVE  StillInv' /\ (~moved' => ~moved)
  <1> DEFINE Goal == StillInv' /\ (~moved' => ~moved)
  <1>1. ASSUME NEW d \in Debuggers, SeekLock(d) PROVE Goal
    <2>1. /\ moved' = (moved \/ cursor' # cursor)
          /\ UNCHANGED <<pcursor, read>>
      BY <1>1 DEF SeekLock, proxyVars, connVars
    <2> QED BY <2>1 DEF StillInv
  <1>2. ASSUME NEW d \in Debuggers, SeekProxy(d) PROVE Goal
    <2>1. pcursor' = cursor /\ UNCHANGED <<cursor, read, moved>>
      BY <1>2 DEF SeekProxy, SetCursor, sessionVars, connVars
    <2> QED BY <2>1 DEF StillInv
  <1>3. ASSUME NEW p \in Conns, CursorFn(p) PROVE Goal
    <2>1. /\ read' = [read EXCEPT ![p] = cursor]
          /\ UNCHANGED <<cursor, pcursor, moved>>
      BY <1>3 DEF CursorFn, sessionVars, proxyVars, histVars
    <2> QED BY <2>1 DEF StillInv, ConnType
  <1>4. ASSUME NEW p \in Conns, MoveProxy(p) PROVE Goal
    <2>1. pcursor' = read[p] /\ UNCHANGED <<cursor, read, moved>>
      BY <1>4 DEF MoveProxy, SetCursor, sessionVars
    <2> QED BY <2>1 DEF StillInv
  <1>5. ASSUME UNCHANGED <<cursor, pcursor, read, moved>> PROVE Goal
    BY <1>5 DEF StillInv
  <1>6. ASSUME NEW d, NEW m, NEW index, Ask(d, m, index)
        PROVE  UNCHANGED <<cursor, pcursor, read, moved>>
    BY <1>6 DEF Ask, sessionVars, proxyVars, connVars, histVars
  <1>7. ASSUME NEW d,
               \/ ChangeBreakpoints(d) \/ ReadCursor(d) \/ RunTurn(d)
               \/ RunEnd(d) \/ SeekTime(d) \/ StoppedReason(d) \/ Stamp(d)
        PROVE  UNCHANGED <<cursor, pcursor, read, moved>>
    BY <1>7 DEF ChangeBreakpoints, ReadCursor, RunTurn, RunEnd, SeekTime,
                StoppedReason, Stamp, sessionVars, proxyVars, connVars,
                histVars
  <1>8. ASSUME NEW p, NEW r, NEW f, Request(p, r, f)
        PROVE  UNCHANGED <<cursor, pcursor, read, moved>>
    BY <1>8 DEF Request, sessionVars, proxyVars
  <1>9. ASSUME NEW p, Match(p) PROVE UNCHANGED <<cursor, pcursor, read, moved>>
    BY <1>9 DEF Match, sessionVars
  <1>10. UNCHANGED vars => UNCHANGED <<cursor, pcursor, read, moved>>
    BY DEF vars, sessionVars, proxyVars, connVars, histVars
  <1> HIDE DEF Goal
  <1>11. Goal
    BY <1>1, <1>2, <1>3, <1>4, <1>5, <1>6, <1>7, <1>8, <1>9, <1>10, NextCases,
       Zenon
  <1> QED BY <1>11 DEF Goal

(* Only Match adds to what was served; without a rewind only Match marks.  *)
LEMMA ServedFrame ==
    ASSUME StillInv, [Next]_vars,
           ~ \E p \in Conns : Match(p)
    PROVE  served' = served /\ (~moved => consumed' = consumed)
  <1> DEFINE Goal == served' = served /\ (~moved => consumed' = consumed)
  <1>1. ASSUME NEW d, SeekProxy(d) PROVE Goal
    <2>1. /\ served' = served
          /\ consumed' = IF cursor < pcursor THEN {j \in consumed : j < cursor}
                         ELSE consumed
      BY <1>1 DEF SeekProxy, SetCursor
    <2>2. ~moved => ~(cursor < pcursor)
      BY DEF StillInv
    <2> QED BY <2>1, <2>2
  <1>2. ASSUME NEW p \in Conns, MoveProxy(p) PROVE Goal
    <2>1. /\ served' = served
          /\ consumed' = IF read[p] < pcursor THEN {j \in consumed : j < read[p]}
                         ELSE consumed
      BY <1>2 DEF MoveProxy, SetCursor
    <2>2. ~moved => ~(read[p] < pcursor)
      BY DEF StillInv
    <2> QED BY <2>1, <2>2
  <1>3. ASSUME UNCHANGED <<served, consumed>> PROVE Goal
    BY <1>3
  <1>4. ASSUME NEW d, NEW m, NEW index, Ask(d, m, index)
        PROVE  UNCHANGED <<served, consumed>>
    BY <1>4 DEF Ask, proxyVars, histVars
  <1>5. ASSUME NEW d,
               \/ ChangeBreakpoints(d) \/ ReadCursor(d) \/ RunTurn(d)
               \/ RunEnd(d) \/ SeekLock(d) \/ SeekTime(d)
               \/ StoppedReason(d) \/ Stamp(d)
        PROVE  UNCHANGED <<served, consumed>>
    BY <1>5 DEF ChangeBreakpoints, ReadCursor, RunTurn, RunEnd, SeekLock,
                SeekTime, StoppedReason, Stamp, proxyVars, histVars
  <1>6. ASSUME NEW p, NEW r, NEW f, Request(p, r, f)
        PROVE  UNCHANGED <<served, consumed>>
    BY <1>6 DEF Request, proxyVars
  <1>7. ASSUME NEW p, CursorFn(p) PROVE UNCHANGED <<served, consumed>>
    BY <1>7 DEF CursorFn, proxyVars, histVars
  <1>8. UNCHANGED vars => UNCHANGED <<served, consumed>>
    BY DEF vars, proxyVars, histVars
  <1> HIDE DEF Goal
  <1>9. Goal
    BY <1>1, <1>2, <1>3, <1>4, <1>5, <1>6, <1>7, <1>8, NextCases, Zenon
  <1> QED BY <1>9 DEF Goal

(* As long as the program keeps to the order of the recording, each answer *)
(* is the recorded one, and it is the next response to be marked.          *)
LEMMA FaithfulStep ==
    ASSUME SessionType, ProxyType, ConnType, DebugType, StillInv, AnsweredInv,
           InOrderFaithful, [Next]_vars
    PROVE  AnsweredInv' /\ InOrderFaithful'
  <1> DEFINE n == Len(served)
             Upto(k) == \A l \in 1..k : served[l].inOrder /\ served[l].key # NoKey
             Marked(k) == {j \in 1..(N - 1) : j - 1 \in Recorded /\ Rank(j - 1) < k}
  <1>0. events' = events /\ N' = N /\ (~moved' => ~moved)
    BY EventsFixed, StillStep
  <1>1. /\ Recorded' = Recorded /\ IsSequential' = IsSequential
        /\ \A i : Rank(i)' = Rank(i)
    BY <1>0 DEF Recorded, IsSequential, Rank, At, N
  <1>2. /\ n \in Nat /\ DOMAIN served = 1..n /\ served \in Seq(Served)
        /\ events \in Recordings
    BY DEF ProxyType, SessionType
  <1>3. CASE ~ \E p \in Conns : Match(p)
    <2>1. served' = served /\ (~moved => consumed' = consumed)
      BY <1>3, ServedFrame
    <2>2. AnsweredInv'
      BY <1>0, <1>1, <2>1 DEF AnsweredInv, InOrderSoFar
    <2>3. InOrderFaithful'
      BY <1>0, <1>1, <2>1 DEF InOrderFaithful
    <2> QED BY <2>2, <2>3
  <1>4. ASSUME NEW p \in Conns, Match(p)
        PROVE  AnsweredInv' /\ InOrderFaithful'
    <2> DEFINE j == matchResponse(request[p])
               s == [key |-> request[p].key, index |-> j, low |-> low[p],
                     inOrder |-> IsNext(request[p])]
    <2>1. /\ consumed' = IF j = None THEN consumed ELSE consumed \cup {j}
          /\ served' = Append(served, s) /\ moved' = moved
      BY <1>4 DEF Match
    <2>2. /\ s.key = request[p].key /\ s.index = j
          /\ s.inOrder = IsNext(request[p])
      OBVIOUS
    <2> HIDE DEF s
    <2>3. /\ Len(served') = n + 1 /\ DOMAIN served' = 1..(n + 1)
          /\ \A k \in 1..n : served'[k] = served[k]
          /\ served'[n + 1] = s
      BY <1>2, <2>1
    <2>4. /\ \A k \in 1..(n + 1) : k \in 1..n \/ k = n + 1
          /\ \A k \in 1..n : k \in 1..(n + 1) /\ \A l \in 1..k : l \in 1..n
          /\ n + 1 \in 1..(n + 1)
      BY <1>2
    <2>5. ASSUME IsSequential, ~moved, Upto(n), s.inOrder, s.key # NoKey
          PROVE  /\ consumed' = Marked(n + 1)
                 /\ \E i \in Recorded : Rank(i) = n /\ s.index = i + 1
      <3>1. PICK i \in Recorded : /\ Rank(i) = n /\ At(i).key = request[p].key
                                  /\ At(i).host \in {NoHost, request[p].host}
        BY <2>2, <2>5 DEF IsNext, Rank
      <3>2. consumed = Marked(n)
        BY <2>5 DEF AnsweredInv, InOrderSoFar
      <3>3. pcursor = 0
        BY <2>5 DEF StillInv
      <3>4. j = i + 1 /\ i + 1 \in 1..(N - 1)
        BY <1>2, <2>2, <2>5, <3>1, <3>2, <3>3, MatchNext
      <3> HIDE DEF j
      <3>5. j # None /\ j - 1 = i
        BY <3>4, RankLess, <1>2 DEF None
      <3>6. consumed' = Marked(n) \cup {j}
        BY <2>1, <3>2, <3>5
      <3>7. Marked(n) \cup {j} = Marked(n + 1)
        <4>1. \A k \in Recorded : Rank(k) \in Nat
          BY <1>2, RankLess
        <4>2. \A k \in Recorded : Rank(k) < n + 1 <=> Rank(k) < n \/ Rank(k) = n
          BY <1>2, <4>1
        <4>3. \A k \in Recorded : Rank(k) = n <=> k = i
          BY <1>2, <3>1, RankLess
        <4>4. \A l \in 1..(N - 1) : l - 1 = i <=> l = j
          BY <3>4, <1>2, RankLess
        <4>5. \A l \in 1..(N - 1) : l \in Marked(n + 1) <=> l \in Marked(n) \/ l = j
          BY <3>1, <4>2, <4>3, <4>4
        <4>6. j \in 1..(N - 1)
          BY <3>4
        <4> QED BY <4>5, <4>6
      <3> QED BY <2>2, <3>1, <3>4, <3>6, <3>7
    <2> HIDE DEF j
    <2>6. AnsweredInv'
      <3> SUFFICES ASSUME IsSequential', ~moved', InOrderSoFar'
                   PROVE  consumed' = Marked(n + 1)
        BY <1>0, <1>1, <2>3 DEF AnsweredInv
      <3>1. \A l \in 1..(n + 1) : served'[l].inOrder /\ served'[l].key # NoKey
        BY <2>3 DEF InOrderSoFar
      <3>2. Upto(n)
        BY <2>3, <2>4, <3>1
      <3>3. s.inOrder /\ s.key # NoKey
        BY <2>3, <2>4, <3>1
      <3> QED BY <1>0, <1>1, <2>5, <3>2, <3>3
    <2>7. InOrderFaithful'
      <3> SUFFICES ASSUME NEW k \in 1..(n + 1), IsSequential, ~moved,
                          \A l \in 1..k : served'[l].inOrder
                                          /\ served'[l].key # NoKey
                   PROVE  \E i \in Recorded : Rank(i) = k - 1
                                              /\ served'[k].index = i + 1
        BY <1>1, <2>1, <2>3 DEF InOrderFaithful, Rank
      <3>1. CASE k \in 1..n
        <4>1. Upto(k) /\ served'[k] = served[k]
          BY <2>3, <2>4, <3>1
        <4> QED BY <1>2, <3>1, <4>1 DEF InOrderFaithful, Rank
      <3>2. CASE k = n + 1
        <4>1. Upto(n) /\ s.inOrder /\ s.key # NoKey
          BY <2>3, <2>4, <3>2
        <4>2. \E i \in Recorded : Rank(i) = n /\ s.index = i + 1
          BY <2>5, <4>1
        <4>3. k - 1 = n
          BY <1>2, <3>2
        <4> QED BY <2>3, <3>2, <4>2, <4>3
      <3> QED BY <2>4, <3>1, <3>2
    <2> QED BY <2>6, <2>7
  <1> QED BY <1>3, <1>4

(* The replay promise, for every sequential recording: a program that      *)
(* repeats its requests in order, on any number of connections, is given   *)
(* exactly the recorded responses in order, until the debugger moves the   *)
(* cursor.                                                                 *)
THEOREM ReplayIsFaithful == Spec => []InOrderFaithful
  <1> DEFINE J == TypeOK /\ StillInv /\ AnsweredInv /\ InOrderFaithful
  <1>1. Init => J
    <2> SUFFICES ASSUME Init PROVE J
      OBVIOUS
    <2>1. served = <<>> /\ consumed = {} /\ events \in Recordings
      BY DEF Init
    <2>2. StillInv
      BY DEF Init, StillInv
    <2>3. AnsweredInv
      <3>1. Len(served) = 0
        BY <2>1
      <3>2. \A i \in Recorded : ~(Rank(i) < 0)
        BY <2>1, RankLess
      <3> QED BY <2>1, <3>1, <3>2 DEF AnsweredInv
    <2>4. InOrderFaithful
      <3>1. DOMAIN served = {}
        BY <2>1
      <3> QED BY <3>1 DEF InOrderFaithful
    <2> QED BY <2>2, <2>3, <2>4, InitType
  <1>2. J /\ [Next]_vars => J'
    <2> SUFFICES ASSUME J, [Next]_vars PROVE J'
      OBVIOUS
    <2>1. SessionType /\ ProxyType /\ DebugType /\ ConnType
      BY TypeParts
    <2>2. TypeOK'
      BY TypeStep
    <2>3. StillInv'
      BY <2>1, StillStep
    <2>4. AnsweredInv' /\ InOrderFaithful'
      BY <2>1, FaithfulStep
    <2> QED BY <2>2, <2>3, <2>4
  <1> QED BY <1>1, <1>2, PTL DEF Spec
============================================================================
