---------------------------- MODULE AgentProofs ----------------------------
(***************************************************************************)
(* Proofs about module Agent, for every size of ring buffer and channel,   *)
(* every ratio and window of the monitor and every bound.                  *)
(***************************************************************************)
EXTENDS Agent, SequenceTheorems, TLAPS

(* The identities in a queue, and that they go up along it.                *)
Ids(s) == {s[i].id : i \in 1..Len(s)}
Ascending(s) == \A i, j \in 1..Len(s) : i < j => s[i].id < s[j].id
AllBelow(A, B) == \A a \in A, b \in B : a < b

(* Where an event can be, by identity: in the hand of the forwarder, in    *)
(* the channel, in the hand of Loader.Run, in the ring buffer, on a stream,*)
(* at the collector.                                                       *)
OutIds == IF fpc = "send" THEN {out.id} ELSE {}
HandIds == IF rpc = "read" THEN {} ELSE {hand.id}
AgentIds == OutIds \cup Ids(chan) \cup HandIds \cup Ids(ring)
WireIds == UNION {Ids(wire[k]) : k \in 1..Len(wire)}
ArrivedIds == {received[i].event.id : i \in 1..Len(received)}
----------------------------------------------------------------------------
(*                     Lemmas about queues of records                      *)

(* The fields of a record the proofs reason about.                         *)
LEMMA RecordFields == \A r \in Records : r.id \in Nat /\ r.len \in Nat
  BY DEF Records

(* The queues are sequences of records with identities in Nat.             *)
LEMMA IdsTyped ==
    ASSUME NEW s \in Seq(Records)
    PROVE  Ids(s) \subseteq Nat /\ \A i \in 1..Len(s) : s[i].id \in Nat
  <1>1. \A i \in 1..Len(s) : s[i] \in Records
    OBVIOUS
  <1>2. \A i \in 1..Len(s) : s[i].id \in Nat
    BY <1>1, RecordFields, Zenon
  <1> QED BY <1>2 DEF Ids

(* An empty queue has no identities and is in order.                       *)
LEMMA EmptyIds == Ids(<<>>) = {} /\ Ascending(<<>>)
  BY DEF Ids, Ascending

(* A record newer than the rest, put at the end.                           *)
LEMMA AppendIds ==
    ASSUME NEW s \in Seq(Records), NEW r \in Records
    PROVE  /\ Append(s, r) \in Seq(Records)
           /\ Len(Append(s, r)) = Len(s) + 1
           /\ Ids(Append(s, r)) = Ids(s) \cup {r.id}
           /\ Ascending(s) /\ AllBelow(Ids(s), {r.id})
                 => Ascending(Append(s, r))
  <1> DEFINE t == Append(s, r)
             n == Len(s)
  <1>1. /\ t \in Seq(Records) /\ n \in Nat /\ Len(t) = n + 1
        /\ \A i \in 1..n : t[i] = s[i]
        /\ t[n + 1] = r
    BY AppendProperties
  <1>2. \A i \in 1..(n + 1) : i \in 1..n \/ i = n + 1
    BY <1>1
  <1>3. \A i \in 1..n : i \in 1..(n + 1) /\ n + 1 \in 1..(n + 1)
    BY <1>1
  <1> HIDE DEF t
  <1>4. Ids(t) = Ids(s) \cup {r.id}
    <2>1. ASSUME NEW i \in 1..(n + 1) PROVE t[i].id \in Ids(s) \cup {r.id}
      BY <1>1, <1>2 DEF Ids
    <2>2. ASSUME NEW i \in 1..n PROVE s[i].id \in Ids(t)
      BY <1>1, <1>3 DEF Ids
    <2>3. r.id \in Ids(t)
      <3>1. n + 1 \in 1..Len(t)
        BY <1>1
      <3>2. t[n + 1].id \in Ids(t)
        BY <3>1 DEF Ids
      <3> QED BY <1>1, <3>2
    <2> QED BY <1>1, <2>1, <2>2, <2>3 DEF Ids
  <1>5. ASSUME Ascending(s), AllBelow(Ids(s), {r.id}) PROVE Ascending(t)
    <2> SUFFICES ASSUME NEW i \in 1..(n + 1), NEW j \in 1..(n + 1), i < j
                 PROVE  t[i].id < t[j].id
      BY <1>1 DEF Ascending
    <2>1. i \in 1..n /\ t[i] = s[i]
      BY <1>1
    <2>2. CASE j \in 1..n
      BY <1>1, <1>5, <2>1, <2>2 DEF Ascending
    <2>3. CASE j = n + 1
      <3>1. s[i].id \in Ids(s)
        BY <2>1 DEF Ids
      <3>2. s[i].id < r.id
        BY <1>5, <3>1 DEF AllBelow
      <3> QED BY <1>1, <2>1, <2>3, <3>2
    <2> QED BY <1>2, <2>2, <2>3
  <1> QED BY <1>1, <1>4, <1>5 DEF t

(* The record at the head of a queue is the oldest.                        *)
LEMMA TailIds ==
    ASSUME NEW s \in Seq(Records), s # <<>>, Ascending(s)
    PROVE  /\ Head(s) \in Records
           /\ Tail(s) \in Seq(Records) /\ Len(Tail(s)) = Len(s) - 1
           /\ Ids(s) = Ids(Tail(s)) \cup {Head(s).id}
           /\ Ascending(Tail(s))
           /\ AllBelow({Head(s).id}, Ids(Tail(s)))
           /\ \A i \in 1..Len(Tail(s)) : \E j \in 1..Len(s) : Tail(s)[i] = s[j]
           /\ Head(s) = s[1] /\ 1 \in 1..Len(s)
  <1> DEFINE t == Tail(s)
             n == Len(s)
  <1>1. /\ Head(s) \in Records /\ Head(s) = s[1]
        /\ t \in Seq(Records) /\ n \in Nat /\ n > 0 /\ Len(t) = n - 1
        /\ \A i \in 1..(n - 1) : t[i] = s[i + 1]
    BY HeadTailProperties, EmptySeq
  <1>2. \A i \in 1..(n - 1) : i + 1 \in 1..n /\ 1 < i + 1 /\ 1 \in 1..n
    BY <1>1
  <1> HIDE DEF t
  <1>3. Ids(s) = Ids(t) \cup {Head(s).id}
    <2>1. ASSUME NEW i \in 1..n PROVE s[i].id \in Ids(t) \cup {Head(s).id}
      <3>1. CASE i = 1
        BY <1>1, <3>1
      <3>2. CASE i # 1
        <4>1. i - 1 \in 1..(n - 1) /\ (i - 1) + 1 = i
          BY <1>1, <3>2
        <4>2. t[i - 1] = s[i]
          BY <1>1, <4>1
        <4>3. t[i - 1].id \in Ids(t)
          BY <1>1, <4>1 DEF Ids
        <4> QED BY <4>2, <4>3
      <3> QED BY <3>1, <3>2
    <2>2. ASSUME NEW i \in 1..(n - 1) PROVE t[i].id \in Ids(s)
      BY <1>1, <1>2 DEF Ids
    <2>3. s[1].id \in Ids(s)
      <3>1. 1 \in 1..n
        BY <1>1
      <3> QED BY <3>1 DEF Ids
    <2> QED BY <1>1, <2>1, <2>2, <2>3 DEF Ids
  <1>4. Ascending(t)
    <2> SUFFICES ASSUME NEW i \in 1..(n - 1), NEW j \in 1..(n - 1), i < j
                 PROVE  t[i].id < t[j].id
      BY <1>1 DEF Ascending
    <2>1. i + 1 < j + 1
      OBVIOUS
    <2> QED BY <1>1, <1>2, <2>1 DEF Ascending
  <1>5. AllBelow({Head(s).id}, Ids(t))
    <2>1. ASSUME NEW i \in 1..(n - 1) PROVE s[1].id < t[i].id
      BY <1>1, <1>2 DEF Ascending
    <2> QED BY <1>1, <2>1 DEF Ids, AllBelow
  <1>6. \A i \in 1..Len(t) : \E j \in 1..Len(s) : t[i] = s[j]
    BY <1>1, <1>2
  <1>7. 1 \in 1..Len(s)
    BY <1>1
  <1> QED BY <1>1, <1>3, <1>4, <1>5, <1>6, <1>7 DEF t

(* What a broken stream still delivers of a queue is a prefix of it.       *)
LEMMA PrefixIds ==
    ASSUME NEW s \in Seq(Records), NEW k \in 0..Len(s)
    PROVE  /\ SubSeq(s, 1, k) \in Seq(Records)
           /\ Ids(SubSeq(s, 1, k)) \subseteq Ids(s)
           /\ Ids(s) \subseteq Ids(SubSeq(s, 1, k))
                                \cup {s[i].id : i \in (k + 1)..Len(s)}
           /\ Ascending(s) => Ascending(SubSeq(s, 1, k))
           /\ \A i \in 1..Len(SubSeq(s, 1, k)) :
                 \E j \in 1..Len(s) : SubSeq(s, 1, k)[i] = s[j]
  <1> DEFINE t == SubSeq(s, 1, k)
             n == Len(s)
  <1>1. n \in Nat /\ k \in Nat /\ k <= n /\ \A i \in 1..k : s[i] \in Records
    OBVIOUS
  <1>2. /\ t \in Seq(Records)
        /\ Len(t) = IF 1 <= k THEN k - 1 + 1 ELSE 0
        /\ \A i \in 1..(k - 1 + 1) : t[i] = s[1 + i - 1]
    BY <1>1, SubSeqProperties
  <1> HIDE DEF t
  <1>3. Len(t) = k /\ \A i \in 1..k : t[i] = s[i] /\ i \in 1..n
    <2>1. k - 1 + 1 = k /\ \A i \in 1..k : 1 + i - 1 = i /\ i \in 1..n
      BY <1>1
    <2>2. \A i \in 1..k : t[i] = s[1 + i - 1]
      BY <1>2, <2>1
    <2> QED BY <1>1, <1>2, <2>1, <2>2
  <1>4. \A i \in 1..n : i \in 1..k \/ i \in (k + 1)..n
    BY <1>1
  <1>5. Ids(t) \subseteq Ids(s)
    BY <1>3 DEF Ids
  <1>6. Ids(s) \subseteq Ids(t) \cup {s[i].id : i \in (k + 1)..n}
    <2>1. ASSUME NEW i \in 1..n
          PROVE  s[i].id \in Ids(t) \cup {s[j].id : j \in (k + 1)..n}
      <3>1. CASE i \in 1..k
        BY <1>3, <3>1 DEF Ids
      <3>2. CASE i \in (k + 1)..n
        BY <3>2
      <3> QED BY <1>4, <3>1, <3>2
    <2> QED BY <2>1 DEF Ids
  <1>7. Ascending(s) => Ascending(t)
    BY <1>3 DEF Ascending
  <1> QED BY <1>2, <1>3, <1>5, <1>6, <1>7 DEF t
----------------------------------------------------------------------------
(*                            Type correctness                             *)

(* Next, spelled out as the alternatives the proofs go through.            *)
LEMMA NextCases ==
    ASSUME Next
    PROVE  \/ \E kind \in InputKinds, count \in InputCounts, fault \in BOOLEAN :
                 Probe(kind, count, fault)
           \/ ReadRecord \/ HandleMarker \/ SendToChannel \/ ReadError
           \/ OpenStream \/ TakeEvent \/ SendOK \/ SendError
           \/ BreakStream
           \/ \E k \in DOMAIN wire : Deliver(k)
           \/ Environment
           \/ TickBypassed \/ TickPressure
           \/ TickDrops(emitted, drops) \/ TickDrops(0, 0)
           \/ Restart
  BY DEF Next, Run, RunForwarder, MonitorTick

(* The record of an empty hand is a record.                                *)
LEMMA NoRecordTyped == NoRecord \in Records /\ NoRecord.id = 0
  BY DEF NoRecord, Records, Kinds

(* A probe writes a record.                                                *)
LEMMA ProbeRecordTyped ==
    ASSUME NEW id \in Nat, NEW kind \in InputKinds, NEW count \in InputCounts,
           NEW fault \in BOOLEAN
    PROVE  [id |-> id, kind |-> kind, count |-> count, fault |-> fault,
            len |-> IF fault \/ kind \in Markers THEN 0 ELSE PayloadLen(count)]
              \in Records
  <1>1. kind \in Kinds /\ count \in Nat /\ MaxPayload \in Nat
    BY AgentAssumption
  <1>2. PayloadLen(count) \in Nat
    BY <1>1 DEF PayloadLen
  <1> QED BY <1>1, <1>2 DEF Records

(* The message of an event is a record of the same event, its payload      *)
(* within the maximum.                                                     *)
LEMMA SentTyped ==
    ASSUME NEW r \in Records, NEW len \in SentLengths(r)
    PROVE  /\ Sent(r, len) \in Records
           /\ Sent(r, len).id = r.id
           /\ Sent(r, len).len <= MaxPayload
  <1>1. r.len \in Nat /\ MaxPayload \in Nat /\ HeaderLen \in Nat
    BY AgentAssumption, RecordFields
  <1>2. len \in Nat /\ len <= MaxPayload
    BY <1>1 DEF SentLengths, Capped
  <1> QED BY <1>2 DEF Sent, Records

(* What TypeOK says of the parts, one by one.                              *)
PipeType ==
    /\ ring \in Seq(Records) /\ Len(ring) <= RingSize
    /\ probesOff \in BOOLEAN
    /\ rpc \in {"read", "marker", "send"} /\ hand \in Records
    /\ chan \in Seq(Records) /\ Len(chan) <= ChanSize
    /\ fpc \in {"open", "select", "send"} /\ out \in Records

NetType ==
    /\ broken \in Seq(BOOLEAN)
    /\ wire \in Seq(Seq(Records)) /\ Len(wire) = Len(broken)
    /\ fpc # "open" => Len(wire) > 0
    /\ received \in Seq([event : Records, stream : Nat])

MonitorType ==
    /\ bypass \in BOOLEAN /\ pressure \in BOOLEAN /\ answering \in BOOLEAN
    /\ lastEmitted \in Nat /\ lastDrops \in Nat /\ age \in 0..DropWindow
    /\ samples \subseteq Counters
    /\ decided \in [why : {"none", "memory", "drops"}, emitted : Nat,
                    drops : Nat]

CountType ==
    /\ emitted \in Nat /\ drops \in Nat
    /\ nextId \in Nat /\ readErrors \in Nat /\ outages \in Nat
    /\ restarts \in Nat
    /\ captured \subseteq Nat /\ lost \subseteq Nat

(* The four groups of variables cover TypeOK.                              *)
LEMMA TypeParts == TypeOK <=> PipeType /\ NetType /\ MonitorType /\ CountType
  BY DEF TypeOK, PipeType, NetType, MonitorType, CountType

(* Every step of the agent, its probes and its environment keeps the       *)
(* pipeline well typed and within its bounds.                              *)
LEMMA PipeStep ==
    ASSUME PipeType, CountType, [Next]_vars
    PROVE  PipeType'
  <1> USE DEF PipeType
  <1>0. /\ NoRecord \in Records /\ <<>> \in Seq(Records) /\ Len(<<>>) = 0
        /\ Len(ring) \in Nat /\ Len(chan) \in Nat
        /\ RingSize \in Nat /\ ChanSize \in Nat
    BY AgentAssumption, NoRecordTyped, EmptySeq
  <1>1. ASSUME NEW kind \in InputKinds, NEW count \in InputCounts,
               NEW fault \in BOOLEAN, Probe(kind, count, fault)
        PROVE  PipeType'
    <2> DEFINE r == [id |-> nextId, kind |-> kind, count |-> count,
                     fault |-> fault,
                     len |-> IF fault \/ kind \in Markers THEN 0
                             ELSE PayloadLen(count)]
    <2>1. r \in Records
      BY ProbeRecordTyped DEF CountType
    <2>2. \/ ring' = ring
          \/ ring' = Append(ring, r) /\ Len(ring) < RingSize
      BY <1>1 DEF Probe
    <2>3. UNCHANGED <<probesOff, rpc, hand, chan, fpc, out>>
      BY <1>1 DEF Probe
    <2> HIDE DEF r
    <2>4. ring' \in Seq(Records) /\ Len(ring') <= RingSize
      BY <1>0, <2>1, <2>2, AppendProperties
    <2> QED BY <2>3, <2>4
  <1>2. CASE ReadRecord
    <2>1. Head(ring) \in Records /\ Tail(ring) \in Seq(Records)
          /\ Len(Tail(ring)) = Len(ring) - 1
      BY <1>2, HeadTailProperties DEF ReadRecord
    <2> QED BY <1>0, <1>2, <2>1 DEF ReadRecord
  <1>3. CASE HandleMarker
    BY <1>0, <1>3 DEF HandleMarker
  <1>4. CASE SendToChannel
    <2>1. chan' \in Seq(Records) /\ Len(chan') = Len(chan) + 1
      BY <1>4, AppendProperties DEF SendToChannel
    <2> QED BY <1>0, <1>4, <2>1 DEF SendToChannel
  <1>5. CASE OpenStream
    BY <1>5 DEF OpenStream
  <1>6. CASE TakeEvent
    <2>1. Head(chan) \in Records /\ Tail(chan) \in Seq(Records)
          /\ Len(Tail(chan)) = Len(chan) - 1
      BY <1>6, HeadTailProperties DEF TakeEvent
    <2> QED BY <1>0, <1>6, <2>1 DEF TakeEvent
  <1>7. CASE SendOK
    BY <1>0, <1>7 DEF SendOK
  <1>8. CASE SendError
    BY <1>0, <1>8 DEF SendError
  <1>9. CASE TickPressure
    <2>1. /\ probesOff' \in {TRUE, probesOff}
          /\ UNCHANGED <<ring, rpc, hand, chan, fpc, out>>
      BY <1>9 DEF TickPressure, SetBypass
    <2> QED BY <2>1
  <1>10. ASSUME NEW e, NEW d, TickDrops(e, d)
         PROVE  PipeType'
    <2>1. /\ probesOff' \in {TRUE, probesOff}
          /\ UNCHANGED <<ring, rpc, hand, chan, fpc, out>>
      BY <1>10 DEF TickDrops, SetBypass
    <2> QED BY <2>1
  <1>11. CASE Restart
    <2>1. /\ ring' = <<>> /\ probesOff' = FALSE
          /\ rpc' = "read" /\ hand' = NoRecord /\ chan' = <<>>
          /\ fpc' = "open" /\ out' = NoRecord
      BY <1>11 DEF Restart
    <2>2. /\ ring' \in Seq(Records) /\ Len(ring') = 0
          /\ chan' \in Seq(Records) /\ Len(chan') = 0
      BY <2>1, EmptySeq
    <2>3. Len(ring') <= RingSize /\ Len(chan') <= ChanSize
      BY <1>0, <2>2
    <2>4. probesOff' \in BOOLEAN /\ hand' \in Records /\ out' \in Records
      BY <1>0, <2>1
    <2> QED BY <2>1, <2>2, <2>3, <2>4
  <1>12. CASE UNCHANGED pipeVars
    BY <1>12 DEF pipeVars
  <1>13. ASSUME NEW k, Deliver(k) PROVE UNCHANGED pipeVars
    BY <1>13 DEF Deliver
  <1>14. ReadError \/ BreakStream \/ Environment \/ TickBypassed
            \/ UNCHANGED vars => UNCHANGED pipeVars
    BY DEF ReadError, BreakStream, Environment, TickBypassed, vars
  <1> QED
    BY <1>1, <1>2, <1>3, <1>4, <1>5, <1>6, <1>7, <1>8, <1>9, <1>10, <1>11,
       <1>12, <1>13, <1>14, NextCases

(* The same of the streams and of what the collector has received.         *)
LEMMA NetStep ==
    ASSUME PipeType, NetType, [Next]_vars
    PROVE  NetType'
  <1> USE DEF NetType
  <1>0. /\ Len(wire) \in Nat /\ Len(broken) \in Nat
        /\ DOMAIN wire = 1..Len(wire) /\ DOMAIN broken = 1..Len(broken)
        /\ \A k \in 1..Len(wire) : wire[k] \in Seq(Records)
        /\ out \in Records
    BY DEF PipeType
  <1>1. CASE OpenStream
    <2>1. wire' = Append(wire, <<>>) /\ broken' = Append(broken, FALSE)
          /\ received' = received
      BY <1>1 DEF OpenStream
    <2>2. <<>> \in Seq(Records)
      OBVIOUS
    <2>3. wire' \in Seq(Seq(Records)) /\ Len(wire') = Len(wire) + 1
      BY <2>1, <2>2, AppendProperties
    <2>4. broken' \in Seq(BOOLEAN) /\ Len(broken') = Len(broken) + 1
      BY <2>1, AppendProperties
    <2> QED BY <1>0, <2>1, <2>3, <2>4
  <1>2. CASE SendOK
    <2>1. Len(wire) > 0 /\ fpc' # "open" /\ UNCHANGED <<broken, received>>
      BY <1>2 DEF SendOK
    <2>2. CASE wire' = wire
      BY <2>1, <2>2
    <2>3. ASSUME NEW len \in SentLengths(out),
                 wire' = [wire EXCEPT ![Current] =
                            Append(wire[Current], Sent(out, len))]
          PROVE  NetType'
      <3>1. Current \in 1..Len(wire)
        BY <1>0, <2>1 DEF Current
      <3>2. Append(wire[Current], Sent(out, len)) \in Seq(Records)
        BY <1>0, <3>1, SentTyped, AppendProperties
      <3>3. wire' \in Seq(Seq(Records)) /\ Len(wire') = Len(wire)
        BY <2>3, <3>1, <3>2, ExceptSeq
      <3> QED BY <2>1, <3>3
    <2> QED BY <1>2, <2>2, <2>3 DEF SendOK
  <1>3. CASE BreakStream
    <2>1. PICK k \in 0..Len(wire[Current]) :
             wire' = [wire EXCEPT ![Current] = SubSeq(wire[Current], 1, k)]
      BY <1>3 DEF BreakStream
    <2>2. /\ Current \in 1..Len(wire) /\ Current \in 1..Len(broken)
          /\ broken' = [broken EXCEPT ![Current] = TRUE]
          /\ UNCHANGED <<fpc, received>>
      BY <1>0, <1>3 DEF BreakStream, Current, pipeVars
    <2>3. SubSeq(wire[Current], 1, k) \in Seq(Records)
      BY <1>0, <2>2, PrefixIds
    <2>4. wire' \in Seq(Seq(Records)) /\ Len(wire') = Len(wire)
      BY <2>1, <2>2, <2>3, ExceptSeq
    <2>5. broken' \in Seq(BOOLEAN) /\ Len(broken') = Len(broken)
      BY <2>2, ExceptSeq
    <2> QED BY <2>2, <2>4, <2>5
  <1>4. ASSUME NEW k \in DOMAIN wire, Deliver(k) PROVE NetType'
    <2>1. /\ k \in 1..Len(wire) /\ k \in Nat /\ wire[k] # <<>>
          /\ received' = Append(received,
                                [event |-> Head(wire[k]), stream |-> k])
          /\ wire' = [wire EXCEPT ![k] = Tail(wire[k])]
          /\ UNCHANGED <<fpc, broken>>
      BY <1>0, <1>4 DEF Deliver, pipeVars
    <2>2. Head(wire[k]) \in Records /\ Tail(wire[k]) \in Seq(Records)
      BY <1>0, <2>1, HeadTailProperties
    <2>3. wire' \in Seq(Seq(Records)) /\ Len(wire') = Len(wire)
      BY <2>1, <2>2, ExceptSeq
    <2>4. received' \in Seq([event : Records, stream : Nat])
      BY <2>1, <2>2, AppendProperties
    <2> QED BY <2>1, <2>3, <2>4
  <1>5. CASE Restart
    <2>1. /\ broken' = [k \in 1..Len(broken) |-> TRUE] /\ fpc' = "open"
          /\ UNCHANGED <<wire, received>>
      BY <1>0, <1>5 DEF Restart
    <2>2. broken' \in Seq(BOOLEAN) /\ Len(broken') = Len(broken)
      BY <1>0, <2>1
    <2> QED BY <2>1, <2>2
  <1>6. CASE TakeEvent
    BY <1>6 DEF TakeEvent, netVars
  <1>7. CASE SendError
    BY <1>7 DEF SendError, netVars
  <1>8. CASE UNCHANGED <<fpc, netVars>>
    BY <1>8 DEF netVars
  <1>9. ASSUME NEW kind, NEW count, NEW fault, Probe(kind, count, fault)
        PROVE  UNCHANGED <<fpc, netVars>>
    BY <1>9 DEF Probe
  <1>10. ASSUME NEW e, NEW d, TickDrops(e, d) PROVE UNCHANGED <<fpc, netVars>>
    BY <1>10 DEF TickDrops
  <1>11. ReadRecord \/ HandleMarker \/ SendToChannel \/ ReadError
            \/ Environment \/ TickBypassed \/ TickPressure \/ UNCHANGED vars
            => UNCHANGED <<fpc, netVars>>
    BY DEF ReadRecord, HandleMarker, SendToChannel, ReadError, Environment,
           TickBypassed, TickPressure, pipeVars, vars
  <1> QED
    BY <1>1, <1>2, <1>3, <1>4, <1>5, <1>6, <1>7, <1>8, <1>9, <1>10, <1>11,
       NextCases

(* The same of the monitor: its window never grows older than DropWindow.  *)
LEMMA MonitorTypeStep ==
    ASSUME MonitorType, CountType, [Next]_vars
    PROVE  MonitorType'
  <1> USE DEF MonitorType
  <1>0. /\ DropWindow \in Nat /\ 0 \in 0..DropWindow /\ Older \in 0..DropWindow
        /\ emitted \in Nat /\ drops \in Nat
        /\ [emitted |-> emitted, drops |-> drops] \in Counters
        /\ [emitted |-> 0, drops |-> 0] \in Counters
    BY AgentAssumption DEF CountType, Older, Counters
  <1>1. CASE TickBypassed
    <2>1. /\ age' = Older
          /\ UNCHANGED <<bypass, pressure, answering, lastEmitted, lastDrops,
                         samples, decided>>
      BY <1>1 DEF TickBypassed, envVars
    <2> QED BY <1>0, <2>1
  <1>2. ASSUME NEW why \in {"memory", "drops"}, SetBypass(why)
        PROVE  /\ bypass' \in BOOLEAN
               /\ decided' \in [why : {"none", "memory", "drops"},
                                 emitted : Nat, drops : Nat]
    BY <1>0, <1>2 DEF SetBypass
  <1>3. CASE TickPressure
    <2>1. /\ age' = Older /\ SetBypass("memory")
          /\ UNCHANGED <<pressure, answering, lastEmitted, lastDrops, samples>>
      BY <1>3 DEF TickPressure, envVars
    <2> QED BY <1>0, <1>2, <2>1
  <1>4. ASSUME NEW e \in Nat, NEW d \in Nat, TickDrops(e, d)
        PROVE  MonitorType'
    <2>1. /\ age' \in {0, Older} /\ UNCHANGED <<pressure, answering>>
          /\ lastEmitted' \in {e, lastEmitted} /\ lastDrops' \in {d, lastDrops}
          /\ samples' \in {samples, samples \cup
                                      {[emitted |-> emitted, drops |-> drops]}}
      BY <1>4 DEF TickDrops, envVars
    <2>2. SetBypass("drops") \/ UNCHANGED <<bypass, decided>>
      BY <1>4 DEF TickDrops
    <2>3. /\ bypass' \in BOOLEAN
          /\ decided' \in [why : {"none", "memory", "drops"},
                            emitted : Nat, drops : Nat]
      BY <1>2, <2>2
    <2> QED BY <1>0, <2>1, <2>3
  <1>5. CASE Restart
    <2>1. /\ bypass' = FALSE /\ lastEmitted' = 0 /\ lastDrops' = 0
          /\ age' = 0 /\ decided' = Nothing
          /\ samples' = {[emitted |-> 0, drops |-> 0]}
          /\ UNCHANGED <<pressure, answering>>
      BY <1>5 DEF Restart, envVars
    <2> QED BY <1>0, <2>1 DEF Nothing
  <1>6. CASE Environment
    BY <1>6 DEF Environment, monitorVars
  <1>7. CASE UNCHANGED <<monitorVars, envVars>>
    BY <1>7 DEF monitorVars, envVars
  <1>8. ASSUME NEW kind, NEW count, NEW fault, Probe(kind, count, fault)
        PROVE  UNCHANGED <<monitorVars, envVars>>
    BY <1>8 DEF Probe
  <1>9. ASSUME NEW k, Deliver(k) PROVE UNCHANGED <<monitorVars, envVars>>
    BY <1>9 DEF Deliver
  <1>10. ReadRecord \/ HandleMarker \/ SendToChannel \/ ReadError
            \/ OpenStream \/ TakeEvent \/ SendOK \/ SendError \/ BreakStream
            \/ UNCHANGED vars => UNCHANGED <<monitorVars, envVars>>
    BY DEF ReadRecord, HandleMarker, SendToChannel, ReadError, OpenStream,
           TakeEvent, SendOK, SendError, BreakStream, vars
  <1> QED
    BY <1>0, <1>1, <1>3, <1>4, <1>5, <1>6, <1>7, <1>8, <1>9, <1>10, NextCases

(* The same of the counters and the history.                               *)
LEMMA CountStep ==
    ASSUME PipeType, NetType, CountType, [Next]_vars
    PROVE  CountType'
  <1> USE DEF CountType
  <1>0. /\ hand.id \in Nat /\ out.id \in Nat
        /\ \A k \in 1..Len(wire) : wire[k] \in Seq(Records)
        /\ Len(wire) \in Nat
    BY RecordFields DEF PipeType, NetType
  <1>1. ASSUME NEW kind, NEW count, NEW fault, Probe(kind, count, fault)
        PROVE  CountType'
    <2>1. /\ nextId' = nextId + 1
          /\ captured' = captured \/ captured' = captured \cup {nextId}
          /\ UNCHANGED <<readErrors, outages, restarts, emitted, drops, lost>>
      BY <1>1 DEF Probe
    <2>2. captured' \subseteq Nat
      BY <2>1, Zenon
    <2> QED BY <2>1, <2>2
  <1>2. CASE ReadRecord
    BY <1>2 DEF ReadRecord, boundVars
  <1>3. CASE ReadError
    BY <1>3 DEF ReadError
  <1>4. CASE SendOK \/ SendError
    <2>1. /\ lost' \in {lost, lost \cup {out.id}}
          /\ UNCHANGED <<boundVars, emitted, drops, captured>>
      BY <1>4 DEF SendOK, SendError
    <2> QED BY <1>0, <2>1 DEF boundVars
  <1>5. CASE BreakStream
    <2>1. PICK k \in 0..Len(wire[Current]) :
             lost' = lost \cup {wire[Current][i].id :
                                  i \in (k + 1)..Len(wire[Current])}
      BY <1>5 DEF BreakStream
    <2>2. wire[Current] \in Seq(Records)
      BY <1>0, <1>5 DEF BreakStream, Current
    <2>3. Len(wire[Current]) \in Nat
      BY <2>2
    <2>4. \A i \in (k + 1)..Len(wire[Current]) : i \in 1..Len(wire[Current])
      BY <2>3
    <2>5. lost' \subseteq Nat
      BY <2>1, <2>2, <2>4, IdsTyped
    <2>6. /\ outages' = outages + 1
          /\ UNCHANGED <<nextId, readErrors, restarts, emitted, drops, captured>>
      BY <1>5 DEF BreakStream
    <2> QED BY <2>5, <2>6
  <1>6. CASE Restart
    <2>1. \A r \in Range(ring) \cup Range(chan) : r \in Records
      BY DEF PipeType, Range
    <2>2. lost' \subseteq Nat
      <3>1. lost' = lost \cup {r.id : r \in Range(ring) \cup Range(chan)}
                    \cup {r.id : r \in {x \in {hand, out} : x # NoRecord}}
        BY <1>6 DEF Restart
      <3>2. \A r \in Range(ring) \cup Range(chan) : r.id \in Nat
        BY <2>1, RecordFields, Zenon
      <3> QED BY <1>0, <3>1, <3>2
    <2>3. /\ emitted' = 0 /\ drops' = 0 /\ restarts' = restarts + 1
          /\ UNCHANGED <<nextId, readErrors, outages, captured>>
      BY <1>6 DEF Restart
    <2> QED BY <2>2, <2>3
  <1>7. CASE UNCHANGED <<boundVars, emitted, drops, captured, lost>>
    BY <1>7 DEF boundVars
  <1>8. ASSUME NEW k, Deliver(k)
        PROVE  UNCHANGED <<boundVars, emitted, drops, captured, lost>>
    BY <1>8 DEF Deliver
  <1>9. ASSUME NEW e, NEW d, TickDrops(e, d)
        PROVE  UNCHANGED <<boundVars, emitted, drops, captured, lost>>
    BY <1>9 DEF TickDrops
  <1>10. HandleMarker \/ SendToChannel \/ OpenStream \/ TakeEvent
            \/ Environment \/ TickBypassed \/ TickPressure \/ UNCHANGED vars
            => UNCHANGED <<boundVars, emitted, drops, captured, lost>>
    BY DEF HandleMarker, SendToChannel, OpenStream, TakeEvent, Environment,
           TickBypassed, TickPressure, vars
  <1> QED
    BY <1>1, <1>2, <1>3, <1>4, <1>5, <1>6, <1>7, <1>8, <1>9, <1>10, NextCases

(* Every step keeps the whole state well typed.                            *)
LEMMA TypeStep ==
    ASSUME TypeOK, [Next]_vars
    PROVE  TypeOK'
  <1>1. PipeType /\ NetType /\ MonitorType /\ CountType
    BY TypeParts
  <1>2. PipeType' /\ NetType' /\ MonitorType' /\ CountType'
    BY <1>1, PipeStep, NetStep, MonitorTypeStep, CountStep
  <1> QED
    BY <1>2 DEF TypeOK, PipeType, NetType, MonitorType, CountType

(* main starts the agent well typed.                                       *)
LEMMA InitType == Init => TypeOK
  <1> SUFFICES ASSUME Init PROVE TypeOK
    OBVIOUS
  <1>1. /\ ring = <<>> /\ chan = <<>> /\ broken = <<>> /\ wire = <<>>
        /\ received = <<>> /\ fpc = "open"
    BY DEF Init, InitMemory
  <1>2. PipeType
    <2>1. /\ ring \in Seq(Records) /\ Len(ring) = 0
          /\ chan \in Seq(Records) /\ Len(chan) = 0
      BY <1>1, EmptySeq
    <2>2. Len(ring) <= RingSize /\ Len(chan) <= ChanSize
      BY <2>1, AgentAssumption
    <2> QED BY <2>1, <2>2, NoRecordTyped DEF Init, InitMemory, PipeType
  <1>3. NetType
    <2>1. wire \in Seq(Seq(Records)) /\ broken \in Seq(BOOLEAN)
      BY <1>1
    <2>2. received \in Seq([event : Records, stream : Nat])
      BY <1>1, EmptySeq
    <2> QED BY <1>1, <2>1, <2>2 DEF NetType
  <1>4. MonitorType
    <2>1. /\ samples = {[emitted |-> 0, drops |-> 0]} /\ decided = Nothing
          /\ bypass = FALSE /\ pressure = FALSE /\ answering = TRUE
          /\ lastEmitted = 0 /\ lastDrops = 0 /\ age = 0
      BY DEF Init, InitMemory
    <2>2. age \in 0..DropWindow
      BY <2>1, AgentAssumption
    <2>3. samples \subseteq Counters
      BY <2>1 DEF Counters
    <2>4. decided \in [why : {"none", "memory", "drops"}, emitted : Nat,
                      drops : Nat]
      BY <2>1 DEF Nothing
    <2> QED BY <2>1, <2>2, <2>3, <2>4 DEF MonitorType
  <1>5. CountType
    BY DEF Init, InitMemory, CountType
  <1> QED BY <1>2, <1>3, <1>4, <1>5, TypeParts

(* Every reachable state of the agent is well typed; in particular the     *)
(* ring buffer and the channel never exceed their capacity.                *)
THEOREM TypeCorrect == Spec => []TypeOK
  <1>1. TypeOK /\ [Next]_vars => TypeOK'
    BY TypeStep
  <1> QED BY <1>1, InitType, PTL DEF Spec
----------------------------------------------------------------------------
(*                        The inductive invariant                          *)

(* Identities go up from the collector's end of the agent to the probes'.  *)
QueueInv ==
    /\ nextId > 0
    /\ Ascending(ring) /\ Ascending(chan)
    /\ AllBelow(OutIds, Ids(chan)) /\ AllBelow(OutIds, HandIds)
    /\ AllBelow(OutIds, Ids(ring))
    /\ AllBelow(Ids(chan), HandIds) /\ AllBelow(Ids(chan), Ids(ring))
    /\ AllBelow(HandIds, Ids(ring))
    /\ AgentIds \subseteq 1..(nextId - 1)

(* What is on the streams is older than what is in the agent, and older    *)
(* the earlier the stream was opened.                                      *)
WireInv ==
    /\ \A k \in 1..Len(wire) :
          /\ Ascending(wire[k])
          /\ AllBelow(Ids(wire[k]), AgentIds)
          /\ Ids(wire[k]) \subseteq 1..(nextId - 1)
    /\ \A k, l \in 1..Len(wire) : k < l => AllBelow(Ids(wire[k]), Ids(wire[l]))

(* What arrived is older than the rest of its stream and than all later    *)
(* streams, and newer than what earlier streams still deliver.             *)
ArrivalInv ==
    /\ \A i \in 1..Len(received) :
          /\ received[i].stream \in 1..Len(wire)
          /\ received[i].event.id \in 1..(nextId - 1)
          /\ AllBelow({received[i].event.id}, AgentIds)
          /\ \A k \in 1..Len(wire) :
                IF k < received[i].stream
                THEN AllBelow(Ids(wire[k]), {received[i].event.id})
                ELSE AllBelow({received[i].event.id}, Ids(wire[k]))
    /\ \A i, j \in 1..Len(received) :
          \/ received[i].stream < received[j].stream
          \/ i < j /\ received[i].stream = received[j].stream
          => received[i].event.id < received[j].event.id

(* A captured event is somewhere, a marker is not a captured event, and    *)
(* streams are down only after an outage or a restart.                     *)
LossInv ==
    /\ captured \subseteq 1..(nextId - 1)
    /\ captured \ lost \subseteq AgentIds \cup WireIds \cup ArrivedIds
    /\ \A i \in 1..Len(ring) :
          ring[i].kind \in Markers => ring[i].id \notin captured
    /\ rpc = "marker" => hand.id \notin captured
    /\ outages = 0 /\ restarts = 0 =>
          lost = {} /\ \A k \in 1..Len(broken) : ~broken[k]

(* The monitor's baseline is a pair of counters it saw at the end of a     *)
(* window, or zeros, which are the counters the agent started with.        *)
MonitorInv ==
    /\ [emitted |-> 0, drops |-> 0] \in samples
    /\ [emitted |-> lastEmitted, drops |-> lastDrops] \in samples
    /\ BypassJustified

OrderInv == QueueInv /\ WireInv /\ ArrivalInv

IInv ==
    /\ TypeOK
    /\ OrderInv
    /\ LossInv
    /\ PayloadBounded
    /\ MonitorInv
----------------------------------------------------------------------------
(*                                 Order                                   *)

(* The steps that move a record inside the agent; no other touches the     *)
(* queues.                                                                 *)
LEMMA QueueFrame ==
    ASSUME [Next]_vars
    PROVE  \/ \E kind \in InputKinds, count \in InputCounts, fault \in BOOLEAN :
                 Probe(kind, count, fault)
           \/ ReadRecord \/ HandleMarker \/ SendToChannel
           \/ OpenStream \/ TakeEvent \/ SendOK \/ SendError
           \/ Restart
           \/ UNCHANGED <<ring, rpc, hand, chan, fpc, out, nextId>>
  <1>1. ASSUME NEW k, Deliver(k)
        PROVE  UNCHANGED <<ring, rpc, hand, chan, fpc, out, nextId>>
    BY <1>1 DEF Deliver, pipeVars, boundVars
  <1>2. ASSUME NEW e, NEW d, TickDrops(e, d)
        PROVE  UNCHANGED <<ring, rpc, hand, chan, fpc, out, nextId>>
    BY <1>2 DEF TickDrops, boundVars
  <1>3. ReadError \/ BreakStream \/ Environment \/ TickBypassed \/ TickPressure
           \/ UNCHANGED vars
           => UNCHANGED <<ring, rpc, hand, chan, fpc, out, nextId>>
    BY DEF ReadError, BreakStream, Environment, TickBypassed, TickPressure,
           pipeVars, boundVars, vars
  <1> QED BY <1>1, <1>2, <1>3, NextCases

(* A step takes records from one end of the agent's queues to the other;   *)
(* only a probe adds one, and it is newer than all.                        *)
LEMMA QueueStep ==
    ASSUME PipeType, CountType, QueueInv, [Next]_vars
    PROVE  /\ QueueInv'
           /\ \/ nextId' = nextId /\ AgentIds' \subseteq AgentIds
              \/ nextId' = nextId + 1 /\ AgentIds' \subseteq AgentIds \cup {nextId}
  <1> DEFINE Goal ==
        /\ QueueInv'
        /\ \/ nextId' = nextId /\ AgentIds' \subseteq AgentIds
           \/ nextId' = nextId + 1 /\ AgentIds' \subseteq AgentIds \cup {nextId}
  <1>0. /\ nextId \in Nat
        /\ ring \in Seq(Records) /\ chan \in Seq(Records)
        /\ hand \in Records /\ out \in Records
        /\ Ids(ring) \subseteq Nat /\ Ids(chan) \subseteq Nat
        /\ HandIds \subseteq Nat /\ OutIds \subseteq Nat
    BY IdsTyped, RecordFields DEF PipeType, CountType, HandIds, OutIds
  <1>1. ASSUME NEW kind \in InputKinds, NEW count \in InputCounts,
               NEW fault \in BOOLEAN, Probe(kind, count, fault)
        PROVE  Goal
    <2> DEFINE r == [id |-> nextId, kind |-> kind, count |-> count,
                     fault |-> fault,
                     len |-> IF fault \/ kind \in Markers THEN 0
                             ELSE PayloadLen(count)]
    <2>1. r \in Records /\ r.id = nextId
      BY <1>0, ProbeRecordTyped
    <2>2. /\ nextId' = nextId + 1
          /\ ring' = ring \/ ring' = Append(ring, r)
          /\ Ids(chan') = Ids(chan) /\ Ascending(chan') = Ascending(chan)
          /\ HandIds' = HandIds /\ OutIds' = OutIds
      BY <1>1 DEF Probe, HandIds, OutIds
    <2> HIDE DEF r
    <2>3. CASE ring' = ring
      BY <1>0, <2>2, <2>3 DEF QueueInv, AgentIds
    <2>4. CASE ring' = Append(ring, r)
      <3>1. AllBelow(Ids(ring), {r.id})
        BY <1>0, <2>1 DEF QueueInv, AgentIds, AllBelow
      <3>2. Ids(ring') = Ids(ring) \cup {nextId} /\ Ascending(ring')
        BY <1>0, <2>1, <2>4, <3>1, AppendIds DEF QueueInv
      <3> QED BY <1>0, <2>2, <3>2 DEF QueueInv, AgentIds, AllBelow
    <2> QED BY <2>2, <2>3, <2>4
  <1>2. CASE ReadRecord
    <2>1. /\ ring # <<>> /\ hand' = Head(ring) /\ ring' = Tail(ring)
          /\ rpc = "read" /\ rpc' # "read" /\ nextId' = nextId
          /\ Ids(chan') = Ids(chan) /\ Ascending(chan') = Ascending(chan)
          /\ OutIds' = OutIds
      BY <1>2 DEF ReadRecord, OutIds, boundVars
    <2>2. /\ Ids(ring) = Ids(ring') \cup {hand'.id} /\ Ascending(ring')
          /\ AllBelow({hand'.id}, Ids(ring'))
      BY <1>0, <2>1, TailIds DEF QueueInv
    <2>3. HandIds' = {hand'.id} /\ HandIds = {}
      BY <2>1 DEF HandIds
    <2> QED BY <1>0, <2>1, <2>2, <2>3 DEF QueueInv, AgentIds, AllBelow
  <1>3. CASE HandleMarker
    <2>1. /\ HandIds' = {} /\ nextId' = nextId
          /\ Ids(chan') = Ids(chan) /\ Ascending(chan') = Ascending(chan)
          /\ Ids(ring') = Ids(ring) /\ Ascending(ring') = Ascending(ring)
          /\ OutIds' = OutIds
      BY <1>3 DEF HandleMarker, HandIds, OutIds, boundVars
    <2> QED BY <1>0, <2>1 DEF QueueInv, AgentIds, AllBelow
  <1>4. CASE SendToChannel
    <2>1. /\ chan' = Append(chan, hand) /\ HandIds = {hand.id} /\ HandIds' = {}
          /\ Ids(ring') = Ids(ring) /\ Ascending(ring') = Ascending(ring)
          /\ OutIds' = OutIds /\ nextId' = nextId
      BY <1>4 DEF SendToChannel, HandIds, OutIds, boundVars
    <2>2. Ids(chan') = Ids(chan) \cup HandIds /\ Ascending(chan')
      BY <1>0, <2>1, AppendIds DEF QueueInv
    <2> QED BY <1>0, <2>1, <2>2 DEF QueueInv, AgentIds, AllBelow
  <1>5. CASE TakeEvent
    <2>1. /\ chan # <<>> /\ out' = Head(chan) /\ chan' = Tail(chan)
          /\ OutIds = {} /\ OutIds' = {out'.id} /\ nextId' = nextId
          /\ Ids(ring') = Ids(ring) /\ Ascending(ring') = Ascending(ring)
          /\ HandIds' = HandIds
      BY <1>5 DEF TakeEvent, HandIds, OutIds, boundVars
    <2>2. /\ Ids(chan) = Ids(chan') \cup OutIds' /\ Ascending(chan')
          /\ AllBelow(OutIds', Ids(chan'))
      BY <1>0, <2>1, TailIds DEF QueueInv
    <2> QED BY <1>0, <2>1, <2>2 DEF QueueInv, AgentIds, AllBelow
  <1>6. CASE OpenStream \/ SendOK \/ SendError
    <2>1. /\ OutIds' = {} /\ nextId' = nextId
          /\ Ids(chan') = Ids(chan) /\ Ascending(chan') = Ascending(chan)
          /\ Ids(ring') = Ids(ring) /\ Ascending(ring') = Ascending(ring)
          /\ HandIds' = HandIds
      BY <1>6 DEF OpenStream, SendOK, SendError, HandIds, OutIds, boundVars
    <2> QED BY <1>0, <2>1 DEF QueueInv, AgentIds, AllBelow
  <1>7. CASE Restart
    <2>1. /\ ring' = <<>> /\ chan' = <<>> /\ HandIds' = {} /\ OutIds' = {}
          /\ nextId' = nextId
      BY <1>7 DEF Restart, HandIds, OutIds
    <2>2. /\ Ids(ring') = {} /\ Ids(chan') = {}
          /\ Ascending(ring') /\ Ascending(chan')
      BY <2>1, EmptyIds
    <2> QED BY <1>0, <2>1, <2>2 DEF QueueInv, AgentIds, AllBelow
  <1>8. CASE UNCHANGED <<ring, rpc, hand, chan, fpc, out, nextId>>
    BY <1>8 DEF QueueInv, AgentIds, HandIds, OutIds
  <1> QED
    BY <1>1, <1>2, <1>3, <1>4, <1>5, <1>6, <1>7, <1>8, QueueFrame

(* What a step may do to the streams and the collector without adding to   *)
(* them: only take away from what the streams carry.                       *)
StreamsShrink ==
    /\ received' = received
    /\ Len(wire') = Len(wire)
    /\ \A k \in 1..Len(wire) :
          /\ Ids(wire'[k]) \subseteq Ids(wire[k])
          /\ Ascending(wire[k]) => Ascending(wire'[k])

(* Every other step opens a stream, sends on the current one or delivers.  *)
LEMMA WireFrame ==
    ASSUME NetType, [Next]_vars
    PROVE  \/ StreamsShrink
           \/ OpenStream
           \/ SendOK
           \/ \E k \in 1..Len(wire) : Deliver(k)
  <1>0. /\ Len(wire) \in Nat /\ DOMAIN wire = 1..Len(wire)
        /\ \A k \in 1..Len(wire) : wire[k] \in Seq(Records)
    BY DEF NetType
  <1>1. CASE UNCHANGED <<wire, received>>
    BY <1>1 DEF StreamsShrink
  <1>2. CASE BreakStream
    <2>1. PICK k \in 0..Len(wire[Current]) :
             wire' = [wire EXCEPT ![Current] = SubSeq(wire[Current], 1, k)]
      BY <1>2 DEF BreakStream
    <2>2. Current \in 1..Len(wire) /\ received' = received
      BY <1>0, <1>2 DEF BreakStream, Current
    <2> DEFINE p == SubSeq(wire[Current], 1, k)
    <2>3. /\ p \in Seq(Records) /\ Ids(p) \subseteq Ids(wire[Current])
          /\ Ascending(wire[Current]) => Ascending(p)
      BY <1>0, <2>2, PrefixIds
    <2> HIDE DEF p
    <2>4. wire' = [wire EXCEPT ![Current] = p]
      BY <2>1 DEF p
    <2>5. /\ Len(wire') = Len(wire)
          /\ \A l \in 1..Len(wire) : wire'[l] = IF l = Current THEN p ELSE wire[l]
      BY <2>2, <2>3, <2>4, ExceptSeq DEF NetType
    <2> QED BY <2>2, <2>3, <2>5 DEF StreamsShrink
  <1>3. ASSUME NEW kind, NEW count, NEW fault, Probe(kind, count, fault)
        PROVE  UNCHANGED <<wire, received>>
    BY <1>3 DEF Probe, netVars
  <1>4. ASSUME NEW e, NEW d, TickDrops(e, d) PROVE UNCHANGED <<wire, received>>
    BY <1>4 DEF TickDrops, netVars
  <1>5. ReadRecord \/ HandleMarker \/ SendToChannel \/ ReadError \/ TakeEvent
           \/ SendError \/ Environment \/ TickBypassed \/ TickPressure
           \/ Restart \/ UNCHANGED vars => UNCHANGED <<wire, received>>
    BY DEF ReadRecord, HandleMarker, SendToChannel, ReadError, TakeEvent,
           SendError, Environment, TickBypassed, TickPressure, Restart,
           netVars, vars
  <1> QED BY <1>0, <1>1, <1>2, <1>3, <1>4, <1>5, NextCases

(* stream.Send puts the event in hand at the end of the current stream, or *)
(* loses it.                                                               *)
LEMMA SendOKEffect ==
    ASSUME PipeType, NetType, SendOK
    PROVE  /\ received' = received /\ Len(wire') = Len(wire)
           /\ Current \in 1..Len(wire)
           /\ \A k \in 1..Len(wire) : k # Current => wire'[k] = wire[k]
           /\ OutIds = {out.id} /\ OutIds' = {}
           /\ \/ wire' = wire /\ broken[Current] /\ lost' = lost \cup {out.id}
              \/ /\ \E m \in Records : /\ m.id = out.id /\ m.len <= MaxPayload
                                       /\ wire'[Current] = Append(wire[Current], m)
                 /\ lost' = lost
  <1>0. /\ Len(wire) \in Nat /\ out \in Records /\ fpc = "send" /\ Len(wire) > 0
        /\ wire \in Seq(Seq(Records))
        /\ \A k \in 1..Len(wire) : wire[k] \in Seq(Records)
    BY DEF PipeType, NetType, SendOK
  <1>1. Current \in 1..Len(wire)
    BY <1>0 DEF Current
  <1>2. received' = received /\ OutIds = {out.id} /\ OutIds' = {}
    BY DEF SendOK, OutIds
  <1>3. \/ wire' = wire /\ broken[Current] /\ lost' = lost \cup {out.id}
        \/ \E len \in SentLengths(out) :
              /\ wire' = [wire EXCEPT ![Current] =
                            Append(wire[Current], Sent(out, len))]
              /\ lost' = lost
    BY DEF SendOK
  <1>4. CASE wire' = wire /\ broken[Current] /\ lost' = lost \cup {out.id}
    BY <1>1, <1>2, <1>4
  <1>5. ASSUME NEW len \in SentLengths(out), lost' = lost,
               wire' = [wire EXCEPT ![Current] =
                          Append(wire[Current], Sent(out, len))]
        PROVE  /\ Len(wire') = Len(wire)
               /\ \A k \in 1..Len(wire) : k # Current => wire'[k] = wire[k]
               /\ wire'[Current] = Append(wire[Current], Sent(out, len))
    <2>1. Append(wire[Current], Sent(out, len)) \in Seq(Records)
      BY <1>0, <1>1, SentTyped, AppendProperties
    <2> QED BY <1>0, <1>1, <1>5, <2>1, ExceptSeq
  <1> QED BY <1>0, <1>1, <1>2, <1>3, <1>4, <1>5, SentTyped

(* The collector ingests the head of a stream.                             *)
LEMMA DeliverEffect ==
    ASSUME NetType, NEW k \in 1..Len(wire), Deliver(k),
           Ascending(wire[k])
    PROVE  /\ Len(wire') = Len(wire)
           /\ \A l \in 1..Len(wire) : l # k => wire'[l] = wire[l]
           /\ Len(received') = Len(received) + 1 /\ Len(received) \in Nat
           /\ \A i \in 1..Len(received) : received'[i] = received[i]
           /\ \E h \in Records :
                 /\ received'[Len(received) + 1] = [event |-> h, stream |-> k]
                 /\ Ids(wire[k]) = Ids(wire'[k]) \cup {h.id}
                 /\ AllBelow({h.id}, Ids(wire'[k]))
                 /\ Ascending(wire'[k])
                 /\ h = wire[k][1] /\ 1 \in 1..Len(wire[k])
                 /\ \A i \in 1..Len(wire'[k]) : \E j \in 1..Len(wire[k]) :
                       wire'[k][i] = wire[k][j]
  <1>0. /\ Len(wire) \in Nat /\ wire \in Seq(Seq(Records))
        /\ wire[k] \in Seq(Records) /\ k \in Nat
        /\ received \in Seq([event : Records, stream : Nat])
        /\ wire[k] # <<>>
        /\ received' = Append(received, [event |-> Head(wire[k]), stream |-> k])
        /\ wire' = [wire EXCEPT ![k] = Tail(wire[k])]
    BY DEF NetType, Deliver
  <1>1. /\ Head(wire[k]) \in Records /\ Tail(wire[k]) \in Seq(Records)
        /\ Ids(wire[k]) = Ids(Tail(wire[k])) \cup {Head(wire[k]).id}
        /\ Ascending(Tail(wire[k]))
        /\ AllBelow({Head(wire[k]).id}, Ids(Tail(wire[k])))
        /\ Head(wire[k]) = wire[k][1] /\ 1 \in 1..Len(wire[k])
        /\ \A i \in 1..Len(Tail(wire[k])) : \E j \in 1..Len(wire[k]) :
              Tail(wire[k])[i] = wire[k][j]
    BY <1>0, TailIds
  <1>2. /\ Len(wire') = Len(wire) /\ wire'[k] = Tail(wire[k])
        /\ \A l \in 1..Len(wire) : l # k => wire'[l] = wire[l]
    BY <1>0, <1>1, ExceptSeq
  <1> DEFINE x == [event |-> Head(wire[k]), stream |-> k]
  <1>3. x \in [event : Records, stream : Nat]
    BY <1>0, <1>1
  <1>4. received' = Append(received, x)
    BY <1>0
  <1> HIDE DEF x
  <1>5. /\ Len(received') = Len(received) + 1 /\ Len(received) \in Nat
        /\ \A i \in 1..Len(received) : received'[i] = received[i]
        /\ received'[Len(received) + 1] = x
    BY <1>0, <1>3, <1>4, AppendProperties
  <1> QED BY <1>1, <1>2, <1>5 DEF x

(* Streams keep carrying what is older than all that is in the agent, each *)
(* after the streams before it.                                            *)
LEMMA WireStep ==
    ASSUME PipeType, NetType, CountType, QueueInv, WireInv, [Next]_vars
    PROVE  WireInv'
  <1>0. /\ nextId \in Nat /\ Len(wire) \in Nat
        /\ \A k \in 1..Len(wire) :
              wire[k] \in Seq(Records) /\ Ids(wire[k]) \subseteq Nat
    BY IdsTyped DEF NetType, CountType
  <1>1. /\ nextId' \in {nextId, nextId + 1}
        /\ AgentIds' \subseteq AgentIds \cup {nextId}
        /\ nextId' = nextId => AgentIds' \subseteq AgentIds
    BY <1>0, QueueStep
  <1>2. \A k \in 1..Len(wire) : /\ AllBelow(Ids(wire[k]), AgentIds')
                                /\ Ids(wire[k]) \subseteq 1..(nextId' - 1)
    <2> SUFFICES ASSUME NEW k \in 1..Len(wire)
                 PROVE  /\ AllBelow(Ids(wire[k]), AgentIds')
                        /\ Ids(wire[k]) \subseteq 1..(nextId' - 1)
      OBVIOUS
    <2>1. AllBelow(Ids(wire[k]), AgentIds) /\ Ids(wire[k]) \subseteq 1..(nextId - 1)
      BY DEF WireInv
    <2>2. AllBelow(Ids(wire[k]), {nextId})
      BY <1>0, <2>1 DEF AllBelow
    <2> QED BY <1>0, <1>1, <2>1, <2>2 DEF AllBelow
  <1>3. CASE StreamsShrink
    <2>1. Len(wire') = Len(wire)
      BY <1>3 DEF StreamsShrink
    <2>2. ASSUME NEW k \in 1..Len(wire)
          PROVE  /\ Ascending(wire'[k]) /\ AllBelow(Ids(wire'[k]), AgentIds')
                 /\ Ids(wire'[k]) \subseteq 1..(nextId' - 1)
      BY <1>2, <1>3 DEF StreamsShrink, WireInv, AllBelow
    <2>3. ASSUME NEW k \in 1..Len(wire), NEW l \in 1..Len(wire), k < l
          PROVE  AllBelow(Ids(wire'[k]), Ids(wire'[l]))
      BY <1>3, <2>3 DEF StreamsShrink, WireInv, AllBelow
    <2> QED BY <2>1, <2>2, <2>3 DEF WireInv
  <1>4. CASE OpenStream
    <2> DEFINE n == Len(wire)
    <2>1. wire' = Append(wire, <<>>) /\ <<>> \in Seq(Records)
      BY <1>4 DEF OpenStream
    <2>2. /\ Len(wire') = n + 1 /\ \A k \in 1..n : wire'[k] = wire[k]
          /\ wire'[n + 1] = <<>>
      BY <2>1, AppendProperties DEF NetType
    <2>3. Ids(wire'[n + 1]) = {} /\ Ascending(wire'[n + 1])
      BY <2>2, EmptyIds
    <2>4. \A k \in 1..(n + 1) : k \in 1..n \/ k = n + 1
      BY <1>0
    <2>5. ASSUME NEW k \in 1..(n + 1)
          PROVE  /\ Ascending(wire'[k]) /\ AllBelow(Ids(wire'[k]), AgentIds')
                 /\ Ids(wire'[k]) \subseteq 1..(nextId' - 1)
      <3>1. CASE k \in 1..n
        BY <1>2, <2>2, <3>1 DEF WireInv
      <3>2. CASE k = n + 1
        BY <2>3, <3>2 DEF AllBelow
      <3> QED BY <2>4, <3>1, <3>2
    <2>6. ASSUME NEW k \in 1..(n + 1), NEW l \in 1..(n + 1), k < l
          PROVE  AllBelow(Ids(wire'[k]), Ids(wire'[l]))
      <3>1. CASE l \in 1..n
        <4>1. k \in 1..n
          BY <1>0, <2>6, <3>1
        <4> QED BY <2>2, <2>6, <3>1, <4>1 DEF WireInv
      <3>2. CASE l = n + 1
        BY <2>3, <3>2 DEF AllBelow
      <3> QED BY <2>4, <3>1, <3>2
    <2> QED BY <2>2, <2>5, <2>6 DEF WireInv
  <1>5. CASE SendOK
    <2> DEFINE c == Current
    <2>0. c = Len(wire)
      BY DEF Current
    <2>1. /\ Len(wire') = Len(wire) /\ c \in 1..Len(wire)
          /\ \A k \in 1..Len(wire) : k # c => wire'[k] = wire[k]
          /\ OutIds = {out.id} /\ OutIds' = {}
          /\ \/ wire' = wire
             \/ \E m \in Records : m.id = out.id
                                   /\ wire'[c] = Append(wire[c], m)
      BY <1>5, SendOKEffect
    <2>2. CASE wire' = wire
      BY <1>2, <2>2 DEF WireInv
    <2>3. ASSUME NEW m \in Records, m.id = out.id, wire'[c] = Append(wire[c], m)
          PROVE  WireInv'
      <3>1. out.id \in AgentIds /\ out.id \in Nat
        BY <2>1, RecordFields DEF AgentIds, PipeType
      <3>2. AllBelow(Ids(wire[c]), {m.id}) /\ Ascending(wire[c])
        BY <2>1, <2>3, <3>1 DEF WireInv, AllBelow
      <3>3. Ids(wire'[c]) = Ids(wire[c]) \cup {out.id} /\ Ascending(wire'[c])
        BY <1>0, <2>1, <2>3, <3>2, AppendIds
      <3>4. AllBelow({out.id}, AgentIds') /\ out.id \in 1..(nextId' - 1)
        <4>1. /\ nextId' = nextId /\ Ids(chan') = Ids(chan)
              /\ HandIds' = HandIds /\ Ids(ring') = Ids(ring)
          BY <1>5 DEF SendOK, HandIds, boundVars
        <4>2. AgentIds' = Ids(chan) \cup HandIds \cup Ids(ring)
          BY <2>1, <4>1 DEF AgentIds
        <4> QED BY <2>1, <3>1, <4>1, <4>2 DEF QueueInv, AllBelow
      <3>5. ASSUME NEW k \in 1..Len(wire)
            PROVE  /\ Ascending(wire'[k]) /\ AllBelow(Ids(wire'[k]), AgentIds')
                   /\ Ids(wire'[k]) \subseteq 1..(nextId' - 1)
        <4>1. CASE k = c
          BY <1>2, <2>1, <3>3, <3>4, <4>1 DEF AllBelow
        <4>2. CASE k # c
          BY <1>2, <2>1, <4>2 DEF WireInv
        <4> QED BY <4>1, <4>2
      <3>6. ASSUME NEW k \in 1..Len(wire), NEW l \in 1..Len(wire), k < l
            PROVE  AllBelow(Ids(wire'[k]), Ids(wire'[l]))
        <4>1. k # c /\ wire'[k] = wire[k]
          BY <1>0, <2>0, <2>1, <3>6
        <4>2. AllBelow(Ids(wire[k]), Ids(wire[l]))
          BY <3>6 DEF WireInv
        <4>3. AllBelow(Ids(wire[k]), {out.id})
          BY <3>1 DEF WireInv, AllBelow
        <4>4. CASE l = c
          BY <3>3, <4>1, <4>2, <4>3, <4>4 DEF AllBelow
        <4>5. CASE l # c
          BY <2>1, <4>1, <4>2, <4>5
        <4> QED BY <4>4, <4>5
      <3> QED BY <2>1, <3>5, <3>6 DEF WireInv
    <2> QED BY <2>1, <2>2, <2>3
  <1>6. ASSUME NEW k \in 1..Len(wire), Deliver(k) PROVE WireInv'
    <2>1. /\ Len(wire') = Len(wire)
          /\ \A l \in 1..Len(wire) : l # k => wire'[l] = wire[l]
          /\ Ids(wire'[k]) \subseteq Ids(wire[k]) /\ Ascending(wire'[k])
      BY <1>6, DeliverEffect DEF WireInv
    <2>2. ASSUME NEW l \in 1..Len(wire)
          PROVE  Ids(wire'[l]) \subseteq Ids(wire[l]) /\ Ascending(wire'[l])
      BY <2>1 DEF WireInv
    <2>3. ASSUME NEW l \in 1..Len(wire)
          PROVE  /\ AllBelow(Ids(wire'[l]), AgentIds')
                 /\ Ids(wire'[l]) \subseteq 1..(nextId' - 1)
      BY <1>2, <2>2 DEF AllBelow
    <2>4. ASSUME NEW l \in 1..Len(wire), NEW m \in 1..Len(wire), l < m
          PROVE  AllBelow(Ids(wire'[l]), Ids(wire'[m]))
      BY <2>2, <2>4 DEF WireInv, AllBelow
    <2> QED BY <2>1, <2>2, <2>3, <2>4 DEF WireInv
  <1> QED BY <1>3, <1>4, <1>5, <1>6, WireFrame

(* What arrived keeps its place among the streams.                         *)
LEMMA ArrivalStep ==
    ASSUME PipeType, NetType, CountType, QueueInv, WireInv, ArrivalInv,
           [Next]_vars
    PROVE  ArrivalInv'
  <1> DEFINE id(i) == received[i].event.id
             at(i) == received[i].stream
             n == Len(received)
  <1>0. /\ nextId \in Nat /\ Len(wire) \in Nat /\ n \in Nat
        /\ \A k \in 1..Len(wire) :
              wire[k] \in Seq(Records) /\ Ids(wire[k]) \subseteq Nat
        /\ \A i \in 1..n : at(i) \in 1..Len(wire) /\ id(i) \in 1..(nextId - 1)
    <2>1. /\ nextId \in Nat /\ Len(wire) \in Nat /\ n \in Nat
          /\ \A k \in 1..Len(wire) : wire[k] \in Seq(Records)
      BY DEF NetType, CountType
    <2>2. \A k \in 1..Len(wire) : Ids(wire[k]) \subseteq Nat
      BY <2>1, IdsTyped
    <2>3. \A i \in 1..n : at(i) \in 1..Len(wire) /\ id(i) \in 1..(nextId - 1)
      BY DEF ArrivalInv
    <2> QED BY <2>1, <2>2, <2>3
  <1>1. /\ nextId' \in {nextId, nextId + 1}
        /\ AgentIds' \subseteq AgentIds \cup {nextId}
        /\ nextId' = nextId => AgentIds' \subseteq AgentIds
    BY <1>0, QueueStep
  <1>2. \A i \in 1..n : /\ AllBelow({id(i)}, AgentIds')
                        /\ id(i) \in 1..(nextId' - 1)
    <2> SUFFICES ASSUME NEW i \in 1..n
                 PROVE  AllBelow({id(i)}, AgentIds') /\ id(i) \in 1..(nextId' - 1)
      OBVIOUS
    <2>1. AllBelow({id(i)}, AgentIds)
      BY DEF ArrivalInv
    <2> HIDE DEF id
    <2> QED BY <1>0, <1>1, <2>1 DEF AllBelow
  <1>3. \A i, j \in 1..n :
          at(i) < at(j) \/ (i < j /\ at(i) = at(j)) => id(i) < id(j)
    BY DEF ArrivalInv
  <1>4. \A i \in 1..n, k \in 1..Len(wire) :
          IF k < at(i) THEN AllBelow(Ids(wire[k]), {id(i)})
          ELSE AllBelow({id(i)}, Ids(wire[k]))
    BY DEF ArrivalInv
  <1>5. ASSUME received' = received, Len(wire') >= Len(wire), Len(wire') \in Nat,
               \A i \in 1..n, k \in 1..Len(wire') :
                 IF k < at(i) THEN AllBelow(Ids(wire'[k]), {id(i)})
                 ELSE AllBelow({id(i)}, Ids(wire'[k]))
        PROVE  ArrivalInv'
    <2>1. \A i \in 1..n : at(i) \in 1..Len(wire')
      BY <1>0, <1>5
    <2> QED BY <1>2, <1>3, <1>5, <2>1 DEF ArrivalInv
  <1>6. CASE StreamsShrink
    <2>1. /\ received' = received /\ Len(wire') = Len(wire)
          /\ \A k \in 1..Len(wire) : Ids(wire'[k]) \subseteq Ids(wire[k])
      BY <1>6 DEF StreamsShrink
    <2>2. ASSUME NEW i \in 1..n, NEW k \in 1..Len(wire)
          PROVE  IF k < at(i) THEN AllBelow(Ids(wire'[k]), {id(i)})
                 ELSE AllBelow({id(i)}, Ids(wire'[k]))
      <3> HIDE DEF id, at
      <3> QED BY <1>4, <2>1 DEF AllBelow
    <2>3. \A i \in 1..n, k \in 1..Len(wire') :
            IF k < at(i) THEN AllBelow(Ids(wire'[k]), {id(i)})
            ELSE AllBelow({id(i)}, Ids(wire'[k]))
      BY <2>1, <2>2, Zenon
    <2>5. Len(wire') >= Len(wire) /\ Len(wire') \in Nat
      BY <1>0, <2>1
    <2> QED BY <1>5, <2>1, <2>3, <2>5
  <1>7. CASE OpenStream
    <2>1. wire' = Append(wire, <<>>) /\ <<>> \in Seq(Records)
          /\ received' = received
      BY <1>7 DEF OpenStream
    <2>2. /\ Len(wire') = Len(wire) + 1
          /\ \A k \in 1..Len(wire) : wire'[k] = wire[k]
          /\ wire'[Len(wire) + 1] = <<>>
      BY <2>1, AppendProperties DEF NetType
    <2>3. Ids(wire'[Len(wire) + 1]) = {}
      BY <2>2, EmptyIds
    <2>4. ASSUME NEW i \in 1..n, NEW k \in 1..Len(wire')
          PROVE  IF k < at(i) THEN AllBelow(Ids(wire'[k]), {id(i)})
                 ELSE AllBelow({id(i)}, Ids(wire'[k]))
      <3>1. CASE k \in 1..Len(wire)
        BY <1>4, <2>2, <3>1
      <3>2. CASE k = Len(wire) + 1
        BY <2>3, <3>2 DEF AllBelow
      <3> QED BY <1>0, <2>2, <3>1, <3>2
    <2>5. Len(wire') >= Len(wire) /\ Len(wire') \in Nat
      BY <1>0, <2>2
    <2> QED BY <1>5, <2>1, <2>4, <2>5
  <1>8. CASE SendOK
    <2> DEFINE c == Current
    <2>0. c = Len(wire)
      BY DEF Current
    <2>1. /\ received' = received /\ Len(wire') = Len(wire) /\ c \in 1..Len(wire)
          /\ \A k \in 1..Len(wire) : k # c => wire'[k] = wire[k]
          /\ OutIds = {out.id}
          /\ \/ wire' = wire
             \/ \E m \in Records : m.id = out.id
                                   /\ wire'[c] = Append(wire[c], m)
      BY <1>8, SendOKEffect
    <2>2. Ids(wire'[c]) \subseteq Ids(wire[c]) \cup {out.id}
      BY <1>0, <2>1, AppendIds
    <2>3. ASSUME NEW i \in 1..n, NEW k \in 1..Len(wire)
          PROVE  IF k < at(i) THEN AllBelow(Ids(wire'[k]), {id(i)})
                 ELSE AllBelow({id(i)}, Ids(wire'[k]))
      <3>1. CASE k # c
        BY <1>4, <2>1, <3>1
      <3>2. CASE k = c
        <4>1. ~(k < at(i))
          BY <1>0, <2>0, <3>2
        <4>2. id(i) < out.id
          <5>1. out.id \in AgentIds
            BY <2>1 DEF AgentIds
          <5> QED BY <5>1 DEF ArrivalInv, AllBelow
        <4>3. AllBelow({id(i)}, Ids(wire[c]))
          BY <1>4, <3>2, <4>1
        <4> HIDE DEF id, at, c
        <4>4. AllBelow({id(i)}, Ids(wire'[c]))
          BY <2>2, <4>2, <4>3 DEF AllBelow
        <4> QED BY <3>2, <4>1, <4>4
      <3> QED BY <3>1, <3>2
    <2>4. \A i \in 1..n, k \in 1..Len(wire') :
            IF k < at(i) THEN AllBelow(Ids(wire'[k]), {id(i)})
            ELSE AllBelow({id(i)}, Ids(wire'[k]))
      BY <2>1, <2>3, Zenon
    <2>5. Len(wire') >= Len(wire) /\ Len(wire') \in Nat
      BY <1>0, <2>1
    <2> QED BY <1>5, <2>1, <2>4, <2>5
  <1>9. ASSUME NEW k \in 1..Len(wire), Deliver(k) PROVE ArrivalInv'
    <2>1. Ascending(wire[k])
      BY DEF WireInv
    <2>2. /\ Len(wire') = Len(wire)
          /\ \A l \in 1..Len(wire) : l # k => wire'[l] = wire[l]
          /\ Len(received') = n + 1
          /\ \A i \in 1..n : received'[i] = received[i]
      BY <1>9, <2>1, DeliverEffect
    <2>3. PICK h \in Records :
             /\ received'[n + 1] = [event |-> h, stream |-> k]
             /\ Ids(wire[k]) = Ids(wire'[k]) \cup {h.id}
             /\ AllBelow({h.id}, Ids(wire'[k]))
      BY <1>9, <2>1, DeliverEffect
    <2> DEFINE newId(i) == received'[i].event.id
               newAt(i) == received'[i].stream
    <2>4. /\ newId(n + 1) = h.id /\ newAt(n + 1) = k
          /\ \A i \in 1..n : newId(i) = id(i) /\ newAt(i) = at(i)
      BY <2>2, <2>3
    <2>5. \A i \in 1..(n + 1) : i \in 1..n \/ i = n + 1
      BY <1>0
    <2>6. h.id \in Ids(wire[k]) /\ h.id \in Nat
      BY <1>0, <2>3
    <2> HIDE DEF id, at, newId, newAt
    <2>7. AllBelow({h.id}, AgentIds') /\ h.id \in 1..(nextId' - 1)
      <3>1. AllBelow(Ids(wire[k]), AgentIds) /\ h.id \in 1..(nextId - 1)
        BY <2>6 DEF WireInv
      <3> QED BY <1>0, <1>1, <2>6, <3>1 DEF AllBelow
    <2>8. ASSUME NEW l \in 1..Len(wire)
          PROVE  Ids(wire'[l]) \subseteq Ids(wire[l])
      BY <2>2, <2>3
    <2>9. ASSUME NEW l \in 1..Len(wire)
          PROVE  IF l < k THEN AllBelow(Ids(wire'[l]), {h.id})
                 ELSE AllBelow({h.id}, Ids(wire'[l]))
      <3>1. CASE l < k
        <4>1. AllBelow(Ids(wire[l]), Ids(wire[k]))
          BY <3>1 DEF WireInv
        <4> QED BY <2>6, <2>8, <3>1, <4>1 DEF AllBelow
      <3>2. CASE l = k
        BY <2>3, <3>2
      <3>3. CASE k < l
        <4>1. AllBelow(Ids(wire[k]), Ids(wire[l]))
          BY <3>3 DEF WireInv
        <4>2. AllBelow({h.id}, Ids(wire'[l]))
          BY <2>6, <2>8, <4>1 DEF AllBelow
        <4> QED BY <3>3, <4>2
      <3> QED BY <3>1, <3>2, <3>3
    <2>10. ASSUME NEW i \in 1..n, NEW l \in 1..Len(wire)
           PROVE  IF l < at(i) THEN AllBelow(Ids(wire'[l]), {id(i)})
                  ELSE AllBelow({id(i)}, Ids(wire'[l]))
      BY <1>4, <2>8 DEF AllBelow
    <2>11. ASSUME NEW i \in 1..(n + 1)
           PROVE  /\ newAt(i) \in 1..Len(wire')
                  /\ newId(i) \in 1..(nextId' - 1)
                  /\ AllBelow({newId(i)}, AgentIds')
                  /\ \A l \in 1..Len(wire') :
                        IF l < newAt(i) THEN AllBelow(Ids(wire'[l]), {newId(i)})
                        ELSE AllBelow({newId(i)}, Ids(wire'[l]))
      <3>1. CASE i \in 1..n
        BY <1>0, <1>2, <2>2, <2>4, <2>10, <3>1
      <3>2. CASE i = n + 1
        BY <2>2, <2>4, <2>7, <2>9, <3>2
      <3> QED BY <2>5, <3>1, <3>2
    <2>12. ASSUME NEW i \in 1..n
           PROVE  IF k < at(i) THEN h.id < id(i) ELSE id(i) < h.id
      BY <1>4, <2>6 DEF AllBelow
    <2>13. ASSUME NEW i \in 1..(n + 1), NEW j \in 1..(n + 1),
                  newAt(i) < newAt(j) \/ (i < j /\ newAt(i) = newAt(j))
           PROVE  newId(i) < newId(j)
      <3>1. CASE i \in 1..n /\ j \in 1..n
        BY <1>3, <2>4, <2>13, <3>1
      <3>2. CASE i = n + 1 /\ j \in 1..n
        <4>1. k < at(j)
          BY <1>0, <2>4, <2>13, <3>2
        <4> QED BY <2>4, <2>12, <3>2, <4>1
      <3>3. CASE i \in 1..n /\ j = n + 1
        <4>1. ~(k < at(i))
          BY <1>0, <2>4, <2>13, <3>3
        <4> QED BY <2>4, <2>12, <3>3, <4>1
      <3>4. CASE i = n + 1 /\ j = n + 1
        BY <1>0, <2>4, <2>13, <3>4
      <3> QED BY <2>5, <3>1, <3>2, <3>3, <3>4
    <2> QED BY <2>2, <2>11, <2>13 DEF ArrivalInv, newId, newAt
  <1> QED BY <1>6, <1>7, <1>8, <1>9, WireFrame
----------------------------------------------------------------------------
(*                         Loss and payload sizes                          *)

(* Where an event can be, all places together.                             *)
Places == AgentIds \cup WireIds \cup ArrivedIds

(* The queues inside the agent lose an event only to the streams, to an    *)
(* error or a restart, or if it is a marker.                               *)
LEMMA AgentKeeps ==
    ASSUME PipeType, QueueInv, ReadRecord \/ SendToChannel \/ TakeEvent
    PROVE  AgentIds' = AgentIds
  <1>0. /\ ring \in Seq(Records) /\ chan \in Seq(Records) /\ hand \in Records
        /\ Ascending(ring) /\ Ascending(chan)
    BY DEF PipeType, QueueInv
  <1>1. CASE ReadRecord
    <2>1. /\ ring # <<>> /\ hand' = Head(ring) /\ ring' = Tail(ring)
          /\ HandIds = {} /\ HandIds' = {hand'.id}
          /\ Ids(chan') = Ids(chan) /\ OutIds' = OutIds
      BY <1>1 DEF ReadRecord, HandIds, OutIds
    <2>2. Ids(ring) = Ids(ring') \cup {hand'.id}
      BY <1>0, <2>1, TailIds
    <2> QED BY <2>1, <2>2 DEF AgentIds
  <1>2. CASE SendToChannel
    <2>1. /\ chan' = Append(chan, hand) /\ HandIds = {hand.id} /\ HandIds' = {}
          /\ Ids(ring') = Ids(ring) /\ OutIds' = OutIds
      BY <1>2 DEF SendToChannel, HandIds, OutIds
    <2>2. Ids(chan') = Ids(chan) \cup {hand.id}
      BY <1>0, <2>1, AppendIds
    <2> QED BY <2>1, <2>2 DEF AgentIds
  <1>3. CASE TakeEvent
    <2>1. /\ chan # <<>> /\ out' = Head(chan) /\ chan' = Tail(chan)
          /\ OutIds = {} /\ OutIds' = {out'.id}
          /\ Ids(ring') = Ids(ring) /\ HandIds' = HandIds
      BY <1>3 DEF TakeEvent, HandIds, OutIds
    <2>2. Ids(chan) = Ids(chan') \cup {out'.id}
      BY <1>0, <2>1, TailIds
    <2> QED BY <2>1, <2>2 DEF AgentIds
  <1> QED BY <1>1, <1>2, <1>3

(* An event leaves every place only when it is lost or is a marker.        *)
LEMMA PlacesKept ==
    ASSUME PipeType, NetType, CountType, QueueInv, WireInv, LossInv,
           [Next]_vars
    PROVE  /\ \A x \in Places : x \in Places' \/ x \in lost' \/ x \notin captured
           /\ lost \subseteq lost'
  <1> DEFINE Goal ==
        /\ \A x \in Places : x \in Places' \/ x \in lost' \/ x \notin captured
        /\ lost \subseteq lost'
  <1>0. /\ ring \in Seq(Records) /\ chan \in Seq(Records)
        /\ hand \in Records /\ out \in Records
        /\ Len(ring) \in Nat /\ Len(wire) \in Nat /\ Len(received) \in Nat
        /\ wire \in Seq(Seq(Records))
        /\ \A k \in 1..Len(wire) : wire[k] \in Seq(Records)
    BY DEF PipeType, NetType
  <1>1. ASSUME NEW kind \in InputKinds, NEW count \in InputCounts,
               NEW fault \in BOOLEAN, Probe(kind, count, fault)
        PROVE  Goal
    <2> DEFINE r == [id |-> nextId, kind |-> kind, count |-> count,
                     fault |-> fault,
                     len |-> IF fault \/ kind \in Markers THEN 0
                             ELSE PayloadLen(count)]
    <2>1. r \in Records
      BY ProbeRecordTyped DEF CountType
    <2>2. /\ ring' = ring \/ ring' = Append(ring, r)
          /\ Ids(chan') = Ids(chan) /\ HandIds' = HandIds /\ OutIds' = OutIds
          /\ WireIds' = WireIds /\ ArrivedIds' = ArrivedIds /\ lost' = lost
      BY <1>1 DEF Probe, HandIds, OutIds, WireIds, ArrivedIds, netVars
    <2> HIDE DEF r
    <2>3. Ids(ring) \subseteq Ids(ring')
      BY <1>0, <2>1, <2>2, AppendIds
    <2> QED BY <2>2, <2>3 DEF Places, AgentIds
  <1>2. CASE ReadRecord \/ SendToChannel \/ TakeEvent
    <2>1. WireIds' = WireIds /\ ArrivedIds' = ArrivedIds /\ lost' = lost
      BY <1>2 DEF ReadRecord, SendToChannel, TakeEvent, WireIds, ArrivedIds,
                  netVars
    <2> QED BY <1>2, <2>1, AgentKeeps DEF Places
  <1>3. CASE HandleMarker
    <2>1. /\ HandIds = {hand.id} /\ hand.id \notin captured
          /\ Ids(chan') = Ids(chan) /\ Ids(ring') = Ids(ring)
          /\ OutIds' = OutIds
          /\ WireIds' = WireIds /\ ArrivedIds' = ArrivedIds /\ lost' = lost
      BY <1>3 DEF HandleMarker, HandIds, OutIds, WireIds, ArrivedIds, netVars,
                  LossInv
    <2> QED BY <2>1 DEF Places, AgentIds
  <1>4. CASE OpenStream
    <2>1. wire' = Append(wire, <<>>) /\ <<>> \in Seq(Records)
      BY <1>4 DEF OpenStream
    <2>2. /\ Len(wire') = Len(wire) + 1
          /\ \A k \in 1..Len(wire) : wire'[k] = wire[k]
      BY <1>0, <2>1, AppendProperties
    <2>3. \A k \in 1..Len(wire) : k \in 1..Len(wire')
      BY <1>0, <2>2
    <2>4. WireIds \subseteq WireIds'
      BY <2>2, <2>3 DEF WireIds
    <2>5. /\ OutIds = {} /\ HandIds' = HandIds /\ Ids(chan') = Ids(chan)
          /\ Ids(ring') = Ids(ring) /\ ArrivedIds' = ArrivedIds /\ lost' = lost
      BY <1>4 DEF OpenStream, OutIds, HandIds, ArrivedIds
    <2> QED BY <2>4, <2>5 DEF Places, AgentIds
  <1>5. CASE SendOK
    <2> DEFINE c == Current
    <2>1. /\ received' = received /\ Len(wire') = Len(wire) /\ c \in 1..Len(wire)
          /\ \A k \in 1..Len(wire) : k # c => wire'[k] = wire[k]
          /\ OutIds = {out.id}
          /\ \/ wire' = wire /\ lost' = lost \cup {out.id}
             \/ /\ \E m \in Records : m.id = out.id
                                      /\ wire'[c] = Append(wire[c], m)
                /\ lost' = lost
      BY <1>5, SendOKEffect
    <2>2. /\ HandIds' = HandIds /\ Ids(chan') = Ids(chan)
          /\ Ids(ring') = Ids(ring) /\ ArrivedIds' = ArrivedIds
      BY <1>5 DEF SendOK, HandIds, ArrivedIds
    <2>3. CASE wire' = wire /\ lost' = lost \cup {out.id}
      BY <2>1, <2>2, <2>3 DEF Places, AgentIds, WireIds
    <2>4. ASSUME NEW m \in Records, m.id = out.id, lost' = lost,
                 wire'[c] = Append(wire[c], m)
          PROVE  Goal
      <3>1. Ids(wire'[c]) = Ids(wire[c]) \cup {out.id}
        BY <1>0, <2>1, <2>4, AppendIds
      <3>2. \A k \in 1..Len(wire) : Ids(wire[k]) \subseteq Ids(wire'[k])
        BY <2>1, <3>1
      <3>3. WireIds \cup {out.id} \subseteq WireIds'
        BY <2>1, <3>1, <3>2 DEF WireIds
      <3> QED BY <2>1, <2>2, <2>4, <3>3 DEF Places, AgentIds
    <2> QED BY <2>1, <2>3, <2>4
  <1>6. CASE SendError
    <2>1. /\ OutIds = {out.id} /\ lost' = lost \cup {out.id}
          /\ HandIds' = HandIds /\ Ids(chan') = Ids(chan)
          /\ Ids(ring') = Ids(ring) /\ ArrivedIds' = ArrivedIds
          /\ WireIds' = WireIds
      BY <1>6 DEF SendError, HandIds, OutIds, WireIds, ArrivedIds, netVars
    <2> QED BY <2>1 DEF Places, AgentIds
  <1>7. CASE BreakStream
    <2> DEFINE c == Current
    <2>1. PICK k \in 0..Len(wire[c]) :
             /\ wire' = [wire EXCEPT ![c] = SubSeq(wire[c], 1, k)]
             /\ lost' = lost \cup {wire[c][i].id : i \in (k + 1)..Len(wire[c])}
      BY <1>7 DEF BreakStream
    <2>2. /\ c \in 1..Len(wire) /\ AgentIds' = AgentIds
          /\ ArrivedIds' = ArrivedIds
      BY <1>0, <1>7 DEF BreakStream, Current, AgentIds, HandIds, OutIds,
                        ArrivedIds, pipeVars
    <2> HIDE DEF c
    <2>3. /\ SubSeq(wire[c], 1, k) \in Seq(Records)
          /\ Ids(wire[c]) \subseteq Ids(SubSeq(wire[c], 1, k))
                            \cup {wire[c][i].id : i \in (k + 1)..Len(wire[c])}
      BY <1>0, <2>2, PrefixIds
    <2>4. /\ Len(wire') = Len(wire) /\ wire'[c] = SubSeq(wire[c], 1, k)
          /\ \A l \in 1..Len(wire) : l # c => wire'[l] = wire[l]
      BY <1>0, <2>1, <2>2, <2>3, ExceptSeq
    <2>5. Ids(wire[c]) \subseteq Ids(wire'[c]) \cup lost' /\ lost \subseteq lost'
      BY <2>1, <2>3, <2>4
    <2>6. \A l \in 1..Len(wire) : Ids(wire[l]) \subseteq Ids(wire'[l]) \cup lost'
      BY <2>4, <2>5
    <2>7. WireIds \subseteq WireIds' \cup lost'
      BY <2>4, <2>6 DEF WireIds
    <2> QED BY <2>2, <2>5, <2>7 DEF Places
  <1>8. ASSUME NEW k \in 1..Len(wire), Deliver(k) PROVE Goal
    <2>1. Ascending(wire[k])
      BY DEF WireInv
    <2> DEFINE n == Len(received)
    <2>2. /\ Len(wire') = Len(wire)
          /\ \A l \in 1..Len(wire) : l # k => wire'[l] = wire[l]
          /\ Len(received') = n + 1 /\ n \in Nat
          /\ \A i \in 1..n : received'[i] = received[i]
      BY <1>8, <2>1, DeliverEffect
    <2>3. PICK h \in Records :
             /\ received'[n + 1] = [event |-> h, stream |-> k]
             /\ Ids(wire[k]) = Ids(wire'[k]) \cup {h.id}
      BY <1>8, <2>1, DeliverEffect
    <2>4. AgentIds' = AgentIds /\ lost' = lost
      BY <1>8 DEF Deliver, AgentIds, HandIds, OutIds, pipeVars
    <2>5. received'[n + 1].event.id = h.id
      BY <2>3
    <2>6. n + 1 \in 1..(n + 1) /\ \A i \in 1..n : i \in 1..(n + 1)
      BY <2>2
    <2>7. ArrivedIds \cup {h.id} \subseteq ArrivedIds'
      <3>1. h.id \in ArrivedIds'
        BY <2>2, <2>5, <2>6 DEF ArrivedIds
      <3>2. ASSUME NEW i \in 1..n PROVE received[i].event.id \in ArrivedIds'
        BY <2>2, <2>6 DEF ArrivedIds
      <3> QED BY <3>1, <3>2 DEF ArrivedIds
    <2>8. \A l \in 1..Len(wire) : Ids(wire[l]) \subseteq Ids(wire'[l]) \cup {h.id}
      BY <2>2, <2>3
    <2>9. WireIds \subseteq WireIds' \cup {h.id}
      BY <2>2, <2>8 DEF WireIds
    <2> QED BY <2>4, <2>7, <2>9 DEF Places
  <1>9. CASE Restart
    <2>1. /\ lost' = lost \cup {r.id : r \in Range(ring) \cup Range(chan)}
                    \cup {r.id : r \in {x \in {hand, out} : x # NoRecord}}
          /\ WireIds' = WireIds /\ ArrivedIds' = ArrivedIds
      BY <1>9 DEF Restart, WireIds, ArrivedIds
    <2>2. Ids(ring) \subseteq lost' /\ Ids(chan) \subseteq lost'
      <3>1. \A i \in 1..Len(ring) : ring[i] \in Range(ring)
        BY <1>0 DEF Range
      <3>2. \A i \in 1..Len(chan) : chan[i] \in Range(chan)
        BY <1>0 DEF Range
      <3> QED BY <2>1, <3>1, <3>2 DEF Ids
    <2>3. HandIds \subseteq lost'
      <3>1. CASE HandIds = {}
        BY <3>1
      <3>2. CASE HandIds = {hand.id}
        <4>1. hand.id \in AgentIds /\ NoRecord.id = 0
          BY <3>2, NoRecordTyped DEF AgentIds
        <4>2. hand.id # NoRecord.id
          BY <4>1 DEF QueueInv
        <4>3. hand # NoRecord
          BY <4>2
        <4> QED BY <2>1, <3>2, <4>3
      <3> QED BY <3>1, <3>2 DEF HandIds
    <2>4. OutIds \subseteq lost'
      <3>1. CASE OutIds = {}
        BY <3>1
      <3>2. CASE OutIds = {out.id}
        <4>1. out.id \in AgentIds /\ NoRecord.id = 0
          BY <3>2, NoRecordTyped DEF AgentIds
        <4>2. out.id # NoRecord.id
          BY <4>1 DEF QueueInv
        <4>3. out # NoRecord
          BY <4>2
        <4> QED BY <2>1, <3>2, <4>3
      <3> QED BY <3>1, <3>2 DEF OutIds
    <2> QED BY <2>1, <2>2, <2>3, <2>4 DEF Places, AgentIds
  <1>10. CASE UNCHANGED <<ring, rpc, hand, chan, fpc, out, wire, received, lost>>
    BY <1>10 DEF Places, AgentIds, HandIds, OutIds, WireIds, ArrivedIds
  <1>11. ASSUME NEW e, NEW d, TickDrops(e, d)
         PROVE  UNCHANGED <<ring, rpc, hand, chan, fpc, out, wire, received, lost>>
    BY <1>11 DEF TickDrops, netVars
  <1>12. ReadError \/ Environment \/ TickBypassed \/ TickPressure
           \/ UNCHANGED vars
           => UNCHANGED <<ring, rpc, hand, chan, fpc, out, wire, received, lost>>
    BY DEF ReadError, Environment, TickBypassed, TickPressure, pipeVars,
           netVars, vars
  <1>13. DOMAIN wire = 1..Len(wire)
    BY <1>0
  <1> QED
    BY <1>1, <1>2, <1>3, <1>4, <1>5, <1>6, <1>7, <1>8, <1>9, <1>10, <1>11,
       <1>12, <1>13, NextCases

(* Markers stay apart from captured events on their way through the agent. *)
MarkerInv ==
    /\ \A i \in 1..Len(ring) :
          ring[i].kind \in Markers => ring[i].id \notin captured
    /\ rpc = "marker" => hand.id \notin captured

(* A marker never gets the number of a captured event.                     *)
LEMMA MarkerStep ==
    ASSUME PipeType, CountType, QueueInv, MarkerInv,
           captured \subseteq 1..(nextId - 1), [Next]_vars
    PROVE  MarkerInv'
  <1>0. /\ nextId \in Nat /\ ring \in Seq(Records) /\ Len(ring) \in Nat
        /\ Ids(ring) \subseteq 1..(nextId - 1) /\ HandIds \subseteq 1..(nextId - 1)
        /\ \A i \in 1..Len(ring) : ring[i].id \in Ids(ring)
    BY DEF PipeType, CountType, QueueInv, AgentIds, Ids
  <1>1. ASSUME NEW kind \in InputKinds, NEW count \in InputCounts,
               NEW fault \in BOOLEAN, Probe(kind, count, fault)
        PROVE  MarkerInv'
    <2> DEFINE r == [id |-> nextId, kind |-> kind, count |-> count,
                     fault |-> fault,
                     len |-> IF fault \/ kind \in Markers THEN 0
                             ELSE PayloadLen(count)]
               n == Len(ring)
    <2>1. r \in Records /\ r.id = nextId /\ r.kind = kind
      BY <1>0, ProbeRecordTyped
    <2>2. /\ UNCHANGED <<rpc, hand>>
          /\ \/ UNCHANGED <<ring, captured>>
             \/ /\ ring' = Append(ring, r)
                /\ captured' = IF kind \in Markers THEN captured
                               ELSE captured \cup {nextId}
      BY <1>1 DEF Probe
    <2> HIDE DEF r
    <2>3. CASE UNCHANGED <<ring, captured>>
      BY <2>2, <2>3 DEF MarkerInv
    <2>4. CASE /\ ring' = Append(ring, r)
               /\ captured' = IF kind \in Markers THEN captured
                              ELSE captured \cup {nextId}
      <3>1. /\ Len(ring') = n + 1 /\ \A i \in 1..n : ring'[i] = ring[i]
            /\ ring'[n + 1] = r
        BY <1>0, <2>1, <2>4, AppendProperties
      <3>2. ASSUME NEW i \in 1..(n + 1), ring'[i].kind \in Markers
            PROVE  ring'[i].id \notin captured'
        <4>1. CASE i \in 1..n
          <5>1. ring[i].id # nextId
            BY <1>0, <4>1
          <5>2. ring[i].id \notin captured
            BY <3>1, <3>2, <4>1 DEF MarkerInv
          <5> QED BY <2>4, <3>1, <4>1, <5>1, <5>2
        <4>2. CASE i = n + 1
          <5>1. captured' = captured /\ ring'[i].id = nextId
            BY <2>1, <2>4, <3>1, <3>2, <4>2
          <5>2. nextId \notin captured
            BY <1>0
          <5> QED BY <5>1, <5>2
        <4> QED BY <1>0, <4>1, <4>2
      <3>3. rpc' = "marker" => hand'.id \notin captured'
        <4> SUFFICES ASSUME rpc' = "marker" PROVE hand'.id \notin captured'
          OBVIOUS
        <4>1. rpc = "marker" /\ hand' = hand /\ hand.id \in HandIds
          BY <2>2 DEF HandIds
        <4>2. hand.id # nextId /\ hand.id \notin captured
          BY <1>0, <4>1 DEF MarkerInv
        <4> QED BY <2>4, <4>1, <4>2
      <3> QED BY <3>1, <3>2, <3>3 DEF MarkerInv
    <2> QED BY <2>2, <2>3, <2>4
  <1>2. CASE ReadRecord
    <2>1. /\ ring # <<>> /\ hand' = Head(ring) /\ ring' = Tail(ring)
          /\ rpc' = "marker" => Head(ring).kind \in Markers
          /\ captured' = captured
      BY <1>2 DEF ReadRecord
    <2>2. /\ Head(ring) = ring[1] /\ 1 \in 1..Len(ring)
          /\ \A i \in 1..Len(ring') : \E j \in 1..Len(ring) : ring'[i] = ring[j]
      BY <1>0, <2>1, TailIds DEF QueueInv
    <2>3. rpc' = "marker" => hand'.id \notin captured'
      BY <2>1, <2>2 DEF MarkerInv
    <2>4. ASSUME NEW i \in 1..Len(ring'), ring'[i].kind \in Markers
          PROVE  ring'[i].id \notin captured'
      <3>1. PICK j \in 1..Len(ring) : ring'[i] = ring[j]
        BY <2>2
      <3> QED BY <2>1, <2>4, <3>1 DEF MarkerInv
    <2> QED BY <2>3, <2>4 DEF MarkerInv
  <1>3. CASE HandleMarker \/ SendToChannel
    BY <1>3 DEF HandleMarker, SendToChannel, MarkerInv
  <1>4. CASE Restart
    <2>1. rpc' = "read" /\ ring' = <<>>
      BY <1>4 DEF Restart
    <2> QED BY <2>1 DEF MarkerInv
  <1>5. CASE UNCHANGED <<ring, rpc, hand, captured>>
    BY <1>5 DEF MarkerInv
  <1>6. ASSUME NEW e, NEW d, TickDrops(e, d)
        PROVE  UNCHANGED <<ring, rpc, hand, captured>>
    BY <1>6 DEF TickDrops
  <1>7. ASSUME NEW k, Deliver(k) PROVE UNCHANGED <<ring, rpc, hand, captured>>
    BY <1>7 DEF Deliver, pipeVars
  <1>8. ReadError \/ OpenStream \/ TakeEvent \/ SendOK \/ SendError
          \/ BreakStream \/ Environment \/ TickBypassed \/ TickPressure
          \/ UNCHANGED vars => UNCHANGED <<ring, rpc, hand, captured>>
    BY DEF ReadError, OpenStream, TakeEvent, SendOK, SendError, BreakStream,
           Environment, TickBypassed, TickPressure, pipeVars, vars
  <1> QED BY <1>1, <1>2, <1>3, <1>4, <1>5, <1>6, <1>7, <1>8, NextCases

(* Nothing is lost and no stream is down before the first outage.          *)
OutageInv ==
    outages = 0 /\ restarts = 0 =>
        lost = {} /\ \A k \in 1..Len(broken) : ~broken[k]

(* Only an outage or a restart of the agent takes a stream down.           *)
LEMMA OutageStep ==
    ASSUME PipeType, NetType, CountType, OutageInv, [Next]_vars
    PROVE  OutageInv'
  <1>0. /\ outages \in Nat /\ restarts \in Nat
        /\ Len(wire) \in Nat /\ Len(broken) = Len(wire)
        /\ broken \in Seq(BOOLEAN)
    BY DEF NetType, CountType
  <1>1. CASE OpenStream
    <2>1. broken' = Append(broken, FALSE) /\ UNCHANGED <<outages, restarts, lost>>
      BY <1>1 DEF OpenStream, boundVars
    <2>2. /\ Len(broken') = Len(broken) + 1
          /\ \A k \in 1..Len(broken) : broken'[k] = broken[k]
          /\ broken'[Len(broken) + 1] = FALSE
      <3>1. /\ Len(Append(broken, FALSE)) = Len(broken) + 1
            /\ \A k \in 1..Len(broken) : Append(broken, FALSE)[k] = broken[k]
            /\ Append(broken, FALSE)[Len(broken) + 1] = FALSE
        <4>1. ASSUME NEW b \in BOOLEAN
              PROVE  /\ Len(Append(broken, b)) = Len(broken) + 1
                     /\ \A k \in 1..Len(broken) : Append(broken, b)[k] = broken[k]
                     /\ Append(broken, b)[Len(broken) + 1] = b
          BY <1>0, AppendProperties
        <4> QED BY <4>1
      <3> QED BY <2>1, <3>1, Zenon
    <2>3. \A k \in 1..Len(broken') : k \in 1..Len(broken) \/ k = Len(broken) + 1
      BY <1>0, <2>2
    <2>4. (\A k \in 1..Len(broken) : ~broken[k])
             => \A k \in 1..Len(broken') : ~broken'[k]
      BY <2>2, <2>3, Zenon
    <2> QED BY <2>1, <2>4 DEF OutageInv
  <1>2. CASE SendOK
    <2>1. /\ Current \in 1..Len(broken)
          /\ broken[Current] \/ lost' = lost
          /\ UNCHANGED <<outages, restarts, broken>>
      BY <1>0, <1>2, SendOKEffect DEF SendOK, boundVars
    <2> QED BY <2>1 DEF OutageInv
  <1>3. CASE SendError
    <2>1. /\ Current \in 1..Len(broken) /\ broken[Current]
          /\ UNCHANGED <<outages, restarts, broken>>
      BY <1>0, <1>3 DEF SendError, Current, boundVars, netVars, NetType
    <2> QED BY <2>1 DEF OutageInv
  <1>4. CASE BreakStream \/ Restart
    <2>1. outages' = outages + 1 \/ restarts' = restarts + 1
      BY <1>4 DEF BreakStream, Restart
    <2>2. (outages' = outages + 1 /\ outages' # 0)
             \/ (restarts' = restarts + 1 /\ restarts' # 0)
      BY <1>0, <2>1
    <2> QED BY <2>2 DEF OutageInv
  <1>5. CASE UNCHANGED <<outages, restarts, lost, broken>>
    BY <1>5 DEF OutageInv
  <1>6. ASSUME NEW kind, NEW count, NEW fault, Probe(kind, count, fault)
        PROVE  UNCHANGED <<outages, restarts, lost, broken>>
    BY <1>6 DEF Probe, netVars
  <1>7. ASSUME NEW e, NEW d, TickDrops(e, d)
        PROVE  UNCHANGED <<outages, restarts, lost, broken>>
    BY <1>7 DEF TickDrops, netVars, boundVars
  <1>8. ASSUME NEW k, Deliver(k)
        PROVE  UNCHANGED <<outages, restarts, lost, broken>>
    BY <1>8 DEF Deliver, boundVars
  <1>9. ReadRecord \/ HandleMarker \/ SendToChannel \/ ReadError \/ TakeEvent
          \/ Environment \/ TickBypassed \/ TickPressure \/ UNCHANGED vars
          => UNCHANGED <<outages, restarts, lost, broken>>
    BY DEF ReadRecord, HandleMarker, SendToChannel, ReadError, TakeEvent,
           Environment, TickBypassed, TickPressure, netVars, boundVars, vars
  <1> QED
    BY <1>1, <1>2, <1>3, <1>4, <1>5, <1>6, <1>7, <1>8, <1>9, NextCases

(* A captured event that was not lost is still somewhere after any step.   *)
LEMMA LossStep ==
    ASSUME PipeType, NetType, CountType, QueueInv, WireInv, LossInv,
           [Next]_vars
    PROVE  LossInv'
  <1>0. nextId \in Nat /\ ring \in Seq(Records)
    BY DEF PipeType, CountType
  <1>1. /\ captured \subseteq 1..(nextId - 1)
        /\ captured \ lost \subseteq Places
        /\ MarkerInv /\ OutageInv
    BY DEF LossInv, MarkerInv, OutageInv, Places
  <1>2. MarkerInv' /\ OutageInv'
    BY <1>1, MarkerStep, OutageStep
  <1>3. /\ \A x \in Places : x \in Places' \/ x \in lost' \/ x \notin captured
        /\ lost \subseteq lost'
    BY PlacesKept
  <1>4. captured \ lost' \subseteq Places'
    BY <1>1, <1>3
  <1>5. CASE captured' = captured
    <2>1. nextId' \in {nextId, nextId + 1}
      BY QueueStep
    <2>2. 1..(nextId - 1) \subseteq 1..(nextId' - 1)
      <3>1. CASE nextId' = nextId
        BY <3>1
      <3>2. CASE nextId' = nextId + 1
        BY <1>0, <3>2
      <3> QED BY <2>1, <3>1, <3>2
    <2>3. captured' \subseteq 1..(nextId' - 1)
      BY <1>1, <1>5, <2>2, Zenon
    <2> QED
      BY <1>2, <1>4, <1>5, <2>3 DEF LossInv, MarkerInv, OutageInv, Places
  <1>6. CASE captured' # captured
    <2>1. PICK kind \in InputKinds, count \in InputCounts, fault \in BOOLEAN :
             Probe(kind, count, fault)
      <3>1. ASSUME NEW e, NEW d, TickDrops(e, d) PROVE captured' = captured
        BY <3>1 DEF TickDrops
      <3>2. ASSUME NEW k, Deliver(k) PROVE captured' = captured
        BY <3>2 DEF Deliver
      <3> QED
        BY <1>6, <3>1, <3>2, NextCases
        DEF ReadRecord, HandleMarker, SendToChannel, ReadError, OpenStream,
            TakeEvent, SendOK, SendError, BreakStream, Environment,
            TickBypassed, TickPressure, Restart, vars
    <2> DEFINE r == [id |-> nextId, kind |-> kind, count |-> count,
                     fault |-> fault,
                     len |-> IF fault \/ kind \in Markers THEN 0
                             ELSE PayloadLen(count)]
    <2>2. r \in Records /\ r.id = nextId
      BY <1>0, ProbeRecordTyped
    <2>3. /\ ring' = Append(ring, r) /\ captured' = captured \cup {nextId}
          /\ nextId' = nextId + 1
      BY <1>6, <2>1 DEF Probe
    <2> HIDE DEF r
    <2>4. nextId \in Places'
      <3>1. nextId \in Ids(ring')
        BY <1>0, <2>2, <2>3, AppendIds
      <3> QED BY <3>1 DEF Places, AgentIds
    <2>5. captured' \subseteq 1..(nextId' - 1)
      <3>1. nextId \in Nat /\ nextId > 0
        BY <1>0 DEF QueueInv
      <3> QED BY <1>1, <2>3, <3>1
    <2>6. captured' \ lost' \subseteq Places'
      BY <1>4, <2>3, <2>4
    <2> QED BY <1>2, <2>5, <2>6 DEF LossInv, MarkerInv, OutageInv, Places
  <1> QED BY <1>5, <1>6

(* Only stream.Send adds to what is on the streams, and it has cut the     *)
(* payload to its maximum.                                                 *)
LEMMA PayloadStep ==
    ASSUME PipeType, NetType, WireInv, PayloadBounded, [Next]_vars
    PROVE  PayloadBounded'
  <1> DEFINE Fits(r) == r.len <= MaxPayload
  <1>0. /\ Len(wire) \in Nat /\ Len(received) \in Nat
        /\ DOMAIN wire = 1..Len(wire) /\ DOMAIN received = 1..Len(received)
        /\ wire \in Seq(Seq(Records))
        /\ \A k \in 1..Len(wire) : wire[k] \in Seq(Records)
        /\ \A k \in 1..Len(wire) : DOMAIN wire[k] = 1..Len(wire[k])
    BY DEF NetType
  <1>1. /\ \A k \in 1..Len(wire) : \A i \in 1..Len(wire[k]) : Fits(wire[k][i])
        /\ \A i \in 1..Len(received) : Fits(received[i].event)
    <2>1. ASSUME NEW k \in 1..Len(wire), NEW i \in 1..Len(wire[k])
          PROVE  Fits(wire[k][i])
      <3>1. wire[k][i] \in Range(wire[k])
        BY <1>0 DEF Range
      <3>2. wire[k][i] \in OnTheWire
        BY <1>0, <3>1 DEF OnTheWire
      <3> QED BY <3>2 DEF PayloadBounded
    <2>2. ASSUME NEW i \in 1..Len(received) PROVE Fits(received[i].event)
      <3>1. received[i].event \in Arrived
        BY <1>0 DEF Arrived
      <3> QED BY <3>1 DEF PayloadBounded
    <2> HIDE DEF Fits
    <2> QED BY <2>1, <2>2
  <1>2. ASSUME \A k \in 1..Len(wire') : \A i \in 1..Len(wire'[k]) :
                 Fits(wire'[k][i]),
               \A i \in 1..Len(received') : Fits(received'[i].event)
        PROVE  PayloadBounded'
    <2>1. NetType'
      BY NetStep
    <2>2. /\ DOMAIN wire' = 1..Len(wire') /\ DOMAIN received' = 1..Len(received')
          /\ \A k \in 1..Len(wire') : DOMAIN wire'[k] = 1..Len(wire'[k])
      BY <2>1 DEF NetType
    <2> QED BY <1>2, <2>2 DEF PayloadBounded, OnTheWire, Arrived, Range
  <1> HIDE DEF Fits
  <1>3. CASE UNCHANGED <<wire, received>>
    BY <1>1, <1>2, <1>3
  <1>4. CASE OpenStream
    <2>1. wire' = Append(wire, <<>>) /\ <<>> \in Seq(Records)
          /\ received' = received
      BY <1>4 DEF OpenStream
    <2>2. /\ Len(wire') = Len(wire) + 1
          /\ \A k \in 1..Len(wire) : wire'[k] = wire[k]
          /\ wire'[Len(wire) + 1] = <<>>
      BY <1>0, <2>1, AppendProperties
    <2>3. \A k \in 1..Len(wire') : k \in 1..Len(wire) \/ k = Len(wire) + 1
      BY <1>0, <2>2
    <2>4. ASSUME NEW k \in 1..Len(wire'), NEW i \in 1..Len(wire'[k])
          PROVE  Fits(wire'[k][i])
      <3>1. CASE k \in 1..Len(wire)
        BY <1>1, <2>2, <3>1
      <3>2. CASE k = Len(wire) + 1
        BY <2>2, <3>2
      <3> QED BY <2>3, <3>1, <3>2
    <2> QED BY <1>1, <1>2, <2>1, <2>4
  <1>5. CASE SendOK
    <2> DEFINE c == Current
    <2>1. /\ received' = received /\ Len(wire') = Len(wire) /\ c \in 1..Len(wire)
          /\ \A k \in 1..Len(wire) : k # c => wire'[k] = wire[k]
          /\ \/ wire' = wire
             \/ \E m \in Records : m.len <= MaxPayload
                                   /\ wire'[c] = Append(wire[c], m)
      BY <1>5, SendOKEffect
    <2>2. ASSUME NEW m \in Records, m.len <= MaxPayload,
                 wire'[c] = Append(wire[c], m)
          PROVE  PayloadBounded'
      <3>1. Fits(m)
        BY <2>2 DEF Fits
      <3>2. /\ Len(wire'[c]) = Len(wire[c]) + 1 /\ Len(wire[c]) \in Nat
            /\ \A i \in 1..Len(wire[c]) : wire'[c][i] = wire[c][i]
            /\ wire'[c][Len(wire[c]) + 1] = m
        BY <1>0, <2>1, <2>2, AppendProperties
      <3>3. \A i \in 1..Len(wire'[c]) : i \in 1..Len(wire[c]) \/ i = Len(wire[c]) + 1
        BY <3>2
      <3>4. \A i \in 1..Len(wire'[c]) : Fits(wire'[c][i])
        BY <1>1, <2>1, <3>1, <3>2, <3>3
      <3>5. \A k \in 1..Len(wire') : \A i \in 1..Len(wire'[k]) : Fits(wire'[k][i])
        BY <1>1, <2>1, <3>4
      <3> QED BY <1>1, <1>2, <2>1, <3>5
    <2> QED BY <1>3, <2>1, <2>2
  <1>6. CASE BreakStream
    <2> DEFINE c == Current
    <2>1. PICK k \in 0..Len(wire[c]) :
             wire' = [wire EXCEPT ![c] = SubSeq(wire[c], 1, k)]
      BY <1>6 DEF BreakStream
    <2>2. c \in 1..Len(wire) /\ received' = received
      BY <1>0, <1>6 DEF BreakStream, Current
    <2> HIDE DEF c
    <2> DEFINE p == SubSeq(wire[c], 1, k)
    <2>3. /\ p \in Seq(Records)
          /\ \A i \in 1..Len(p) : \E j \in 1..Len(wire[c]) : p[i] = wire[c][j]
      BY <1>0, <2>2, PrefixIds
    <2>4. \A i \in 1..Len(p) : Fits(p[i])
      <3> SUFFICES ASSUME NEW i \in 1..Len(p) PROVE Fits(p[i])
        OBVIOUS
      <3>1. PICK j \in 1..Len(wire[c]) : p[i] = wire[c][j]
        BY <2>3
      <3> QED BY <1>1, <2>2, <3>1
    <2>5. wire' = [wire EXCEPT ![c] = p]
      BY <2>1
    <2> HIDE DEF p
    <2>6. /\ Len(wire') = Len(wire)
          /\ \A l \in 1..Len(wire) : wire'[l] = IF l = c THEN p ELSE wire[l]
      BY <1>0, <2>2, <2>3, <2>5, ExceptSeq
    <2>7. \A l \in 1..Len(wire') : \A i \in 1..Len(wire'[l]) : Fits(wire'[l][i])
      BY <1>1, <2>4, <2>6
    <2> QED BY <1>1, <1>2, <2>2, <2>7
  <1>7. ASSUME NEW k \in 1..Len(wire), Deliver(k) PROVE PayloadBounded'
    <2> DEFINE n == Len(received)
    <2>1. /\ Len(wire') = Len(wire)
          /\ \A l \in 1..Len(wire) : l # k => wire'[l] = wire[l]
          /\ Len(received') = n + 1
          /\ \A i \in 1..n : received'[i] = received[i]
      BY <1>7, DeliverEffect DEF WireInv
    <2>2. PICK h \in Records :
             /\ received'[n + 1] = [event |-> h, stream |-> k]
             /\ h = wire[k][1] /\ 1 \in 1..Len(wire[k])
             /\ \A i \in 1..Len(wire'[k]) : \E j \in 1..Len(wire[k]) :
                   wire'[k][i] = wire[k][j]
      BY <1>7, DeliverEffect DEF WireInv
    <2>3. received'[n + 1].event = h /\ Fits(h)
      BY <1>1, <2>2
    <2>4. \A i \in 1..Len(wire'[k]) : Fits(wire'[k][i])
      <3> SUFFICES ASSUME NEW i \in 1..Len(wire'[k]) PROVE Fits(wire'[k][i])
        OBVIOUS
      <3>1. PICK j \in 1..Len(wire[k]) : wire'[k][i] = wire[k][j]
        BY <2>2
      <3> QED BY <1>1, <3>1
    <2>5. \A l \in 1..Len(wire') : \A i \in 1..Len(wire'[l]) : Fits(wire'[l][i])
      BY <1>1, <2>1, <2>4
    <2>6. \A i \in 1..Len(received') : i \in 1..n \/ i = n + 1
      BY <1>0, <2>1
    <2>7. \A i \in 1..Len(received') : Fits(received'[i].event)
      BY <1>1, <2>1, <2>3, <2>6
    <2> QED BY <1>2, <2>5, <2>7
  <1>8. ASSUME NEW kind, NEW count, NEW fault, Probe(kind, count, fault)
        PROVE  UNCHANGED <<wire, received>>
    BY <1>8 DEF Probe, netVars
  <1>9. ASSUME NEW e, NEW d, TickDrops(e, d) PROVE UNCHANGED <<wire, received>>
    BY <1>9 DEF TickDrops, netVars
  <1>10. ReadRecord \/ HandleMarker \/ SendToChannel \/ ReadError \/ TakeEvent
           \/ SendError \/ Environment \/ TickBypassed \/ TickPressure
           \/ Restart \/ UNCHANGED vars => UNCHANGED <<wire, received>>
    BY DEF ReadRecord, HandleMarker, SendToChannel, ReadError, TakeEvent,
           SendError, Environment, TickBypassed, TickPressure, Restart,
           netVars, vars
  <1> QED
    BY <1>0, <1>3, <1>4, <1>5, <1>6, <1>7, <1>8, <1>9, <1>10, NextCases
----------------------------------------------------------------------------
(*                               The monitor                               *)

(* The monitor judges drops against a baseline that was a sample.  Zeros   *)
(* from a failed readAgentMetrics cannot set bypass off, and as a baseline *)
(* they are the first sample.                                              *)
LEMMA MonitorStep ==
    ASSUME MonitorType, CountType, MonitorInv, [Next]_vars
    PROVE  MonitorInv'
  <1> DEFINE zero == [emitted |-> 0, drops |-> 0]
             last == [emitted |-> lastEmitted, drops |-> lastDrops]
             seen == [emitted |-> emitted, drops |-> drops]
             Justified(why, e, d) ==
               why = "drops" => \E s \in samples :
                                   ExceedsRatio(e - s.emitted, d - s.drops)
  <1>0. zero \in samples /\ last \in samples
        /\ Justified(decided.why, decided.emitted, decided.drops)
    BY DEF MonitorInv, BypassJustified
  <1>1. CASE TickPressure
    <2>1. /\ decided' = [why |-> "memory", emitted |-> emitted, drops |-> drops]
          /\ UNCHANGED <<lastEmitted, lastDrops, samples>>
      BY <1>1 DEF TickPressure, SetBypass
    <2> QED BY <1>0, <2>1 DEF MonitorInv, BypassJustified
  <1>2. ASSUME NEW e, NEW d, TickDrops(e, d),
               <<e, d>> = <<emitted, drops>> \/ <<e, d>> = <<0, 0>>
        PROVE  MonitorInv'
    <2>1. CASE UNCHANGED <<lastEmitted, lastDrops, samples, decided>>
      BY <1>0, <2>1 DEF MonitorInv, BypassJustified
    <2>2. CASE Older >= DropWindow
      <3>1. /\ \/ /\ ExceedsRatio(e - lastEmitted, d - lastDrops)
                  /\ SetBypass("drops")
               \/ decided' = decided
            /\ lastEmitted' = e /\ lastDrops' = d
            /\ samples' = samples \cup {seen}
        BY <1>2, <2>2 DEF TickDrops
      <3>2. zero \in samples'
            /\ [emitted |-> lastEmitted', drops |-> lastDrops'] \in samples'
        BY <1>0, <1>2, <3>1
      <3>3. BypassJustified'
        <4>1. CASE decided' = decided
          BY <1>0, <3>1, <4>1 DEF BypassJustified
        <4>2. CASE /\ ExceedsRatio(e - lastEmitted, d - lastDrops)
                   /\ SetBypass("drops")
          <5>1. ~(e = 0 /\ d = 0)
            <6> SUFFICES ASSUME e = 0, d = 0 PROVE FALSE
              OBVIOUS
            <6>1. (0 - lastEmitted) + (0 - lastDrops) > 0
              BY <4>2 DEF ExceedsRatio
            <6> QED BY <6>1 DEF MonitorType
          <5>2. e = emitted /\ d = drops
            BY <1>2, <5>1
          <5>3. decided'.emitted = emitted /\ decided'.drops = drops
            BY <4>2 DEF SetBypass
          <5>4. last \in samples' /\ last.emitted = lastEmitted
                /\ last.drops = lastDrops
            BY <1>0, <3>1
          <5>5. ExceedsRatio(decided'.emitted - last.emitted,
                             decided'.drops - last.drops)
            BY <4>2, <5>2, <5>3, <5>4
          <5> HIDE DEF last
          <5> QED BY <5>4, <5>5 DEF BypassJustified
        <4> QED BY <3>1, <4>1, <4>2
      <3> QED BY <3>2, <3>3 DEF MonitorInv
    <2>3. CASE ~(Older >= DropWindow)
      BY <1>2, <2>1, <2>3 DEF TickDrops
    <2> QED BY <2>2, <2>3
  <1>3. CASE Restart
    <2>1. /\ lastEmitted' = 0 /\ lastDrops' = 0 /\ decided' = Nothing
          /\ samples' = {zero}
      BY <1>3 DEF Restart
    <2> QED BY <2>1 DEF MonitorInv, BypassJustified, Nothing
  <1>4. CASE UNCHANGED <<lastEmitted, lastDrops, samples, decided>>
    BY <1>0, <1>4 DEF MonitorInv, BypassJustified
  <1>5. ASSUME NEW kind, NEW count, NEW fault, Probe(kind, count, fault)
        PROVE  UNCHANGED <<lastEmitted, lastDrops, samples, decided>>
    BY <1>5 DEF Probe, monitorVars
  <1>6. ASSUME NEW k, Deliver(k)
        PROVE  UNCHANGED <<lastEmitted, lastDrops, samples, decided>>
    BY <1>6 DEF Deliver, monitorVars
  <1>7. ReadRecord \/ HandleMarker \/ SendToChannel \/ ReadError
          \/ OpenStream \/ TakeEvent \/ SendOK \/ SendError \/ BreakStream
          \/ Environment \/ TickBypassed \/ UNCHANGED vars
          => UNCHANGED <<lastEmitted, lastDrops, samples, decided>>
    BY DEF ReadRecord, HandleMarker, SendToChannel, ReadError, OpenStream,
           TakeEvent, SendOK, SendError, BreakStream, Environment,
           TickBypassed, monitorVars, vars
  <1> QED BY <1>1, <1>2, <1>3, <1>4, <1>5, <1>6, <1>7, NextCases
----------------------------------------------------------------------------
(*                              The theorems                               *)

(* The agent starts with empty queues, no stream and the first sample.     *)
LEMMA InitIInv == Init => IInv
  <1> SUFFICES ASSUME Init PROVE IInv
    OBVIOUS
  <1>1. /\ ring = <<>> /\ chan = <<>> /\ broken = <<>> /\ wire = <<>>
        /\ received = <<>> /\ fpc = "open" /\ rpc = "read" /\ nextId = 1
        /\ captured = {} /\ lost = {}
    BY DEF Init, InitMemory
  <1>2. /\ Len(wire) = 0 /\ Len(received) = 0 /\ Len(ring) = 0
        /\ Len(broken) = 0 /\ 1..0 = {}
    BY <1>1
  <1>3. OutIds = {} /\ HandIds = {} /\ Ids(chan) = {} /\ Ids(ring) = {}
        /\ Ascending(ring) /\ Ascending(chan)
    BY <1>1, EmptyIds DEF OutIds, HandIds
  <1>4. QueueInv
    BY <1>1, <1>3 DEF QueueInv, AllBelow, AgentIds
  <1>5. WireInv /\ ArrivalInv
    BY <1>2 DEF WireInv, ArrivalInv
  <1>6. LossInv
    BY <1>1, <1>2 DEF LossInv
  <1>7. PayloadBounded
    <2>1. DOMAIN wire = {} /\ DOMAIN received = {}
      BY <1>1
    <2> QED BY <2>1 DEF PayloadBounded, OnTheWire, Arrived
  <1>8. MonitorInv
    <2>1. /\ samples = {[emitted |-> 0, drops |-> 0]} /\ decided = Nothing
          /\ lastEmitted = 0 /\ lastDrops = 0
      BY DEF Init, InitMemory
    <2> QED BY <2>1 DEF MonitorInv, BypassJustified, Nothing
  <1> QED BY <1>4, <1>5, <1>6, <1>7, <1>8, InitType DEF IInv, OrderInv

(* The invariant is inductive: order, whereabouts and the monitor's        *)
(* baseline survive every interleaving, broken streams and restarts        *)
(* included.                                                               *)
THEOREM Invariance == Spec => []IInv
  <1>1. ASSUME IInv, [Next]_vars PROVE IInv'
    <2>1. TypeOK /\ QueueInv /\ WireInv /\ ArrivalInv /\ LossInv
          /\ PayloadBounded /\ MonitorInv
      BY <1>1 DEF IInv, OrderInv
    <2>2. PipeType /\ NetType /\ MonitorType /\ CountType
      BY <2>1, TypeParts
    <2>3. TypeOK'
      BY <1>1, <2>1, TypeStep
    <2>4. QueueInv' /\ WireInv' /\ ArrivalInv'
      BY <1>1, <2>1, <2>2, QueueStep, WireStep, ArrivalStep
    <2>5. LossInv'
      BY <1>1, <2>1, <2>2, LossStep
    <2>6. PayloadBounded'
      BY <1>1, <2>1, <2>2, PayloadStep
    <2>7. MonitorInv'
      BY <1>1, <2>1, <2>2, MonitorStep
    <2> QED BY <2>3, <2>4, <2>5, <2>6, <2>7 DEF IInv, OrderInv
  <1> QED BY <1>1, InitIInv, PTL DEF Spec

(* What the collector has ingested is ordered by stream, then by arrival,  *)
(* and no two entries carry the same event.                                *)
LEMMA ArrivedOnce == IInv => AtMostOnce /\ StreamInOrder
  <1> SUFFICES ASSUME IInv PROVE AtMostOnce /\ StreamInOrder
    OBVIOUS
  <1> DEFINE id(i) == received[i].event.id
             at(i) == received[i].stream
             n == Len(received)
  <1>1. received \in Seq([event : Records, stream : Nat])
    BY DEF IInv, TypeOK
  <1>2. /\ DOMAIN received = 1..n
        /\ \A i \in 1..n : id(i) \in Nat /\ at(i) \in Nat
    <2>1. \A i \in 1..n : received[i] \in [event : Records, stream : Nat]
      BY <1>1, ElementOfSeq
    <2>2. \A i \in 1..n : received[i].event \in Records /\ at(i) \in Nat
      BY <2>1
    <2>3. \A i \in 1..n : id(i) \in Nat
      BY <2>2, RecordFields, Zenon
    <2> QED BY <1>1, <2>2, <2>3
  <1>3. \A i, j \in 1..n : at(i) < at(j) \/ (i < j /\ at(i) = at(j))
                              => id(i) < id(j)
    BY DEF IInv, OrderInv, ArrivalInv
  <1> HIDE DEF id, at, n
  <1>4. \A i, j \in 1..n : id(i) = id(j) => i = j
    <2> SUFFICES ASSUME NEW i \in 1..n, NEW j \in 1..n, id(i) = id(j), i # j
                 PROVE  FALSE
      OBVIOUS
    <2>1. \/ at(i) < at(j) \/ at(j) < at(i)
          \/ at(i) = at(j) /\ (i < j \/ j < i)
      BY <1>2
    <2>2. id(i) < id(j) \/ id(j) < id(i)
      BY <1>3, <2>1
    <2> QED BY <1>2, <2>2
  <1>5. \A i, j \in 1..n : i < j /\ at(i) = at(j) => id(i) < id(j)
    BY <1>3
  <1> QED BY <1>2, <1>4, <1>5 DEF AtMostOnce, StreamInOrder, id, at

(* Client.RunForwarder never repeats an event: it gives up the one whose   *)
(* Send failed, so no event reaches the collector on two streams.          *)
THEOREM EventsArriveAtMostOnce == Spec => []AtMostOnce
  <1>1. IInv => AtMostOnce
    BY ArrivedOnce
  <1> QED BY <1>1, Invariance, PTL

(* The queues between the probes and the collector keep the order of the   *)
(* ring buffer on each stream, whatever breaks.                            *)
THEOREM StreamsKeepOrder == Spec => []StreamInOrder
  <1>1. IInv => StreamInOrder
    BY ArrivedOnce
  <1> QED BY <1>1, Invariance, PTL

(* Only a stream that breaks or a restart loses a captured event; a full   *)
(* channel never does.                                                     *)
THEOREM OnlyOutagesLose == Spec => []NothingElseLost
  <1>1. ASSUME IInv PROVE NothingElseLost
    <2>1. /\ captured \ lost \subseteq AgentIds \cup WireIds \cup ArrivedIds
          /\ outages = 0 /\ restarts = 0 => lost = {}
      BY <1>1 DEF IInv, LossInv
    <2>2. /\ DOMAIN ring = 1..Len(ring) /\ DOMAIN chan = 1..Len(chan)
          /\ DOMAIN wire = 1..Len(wire) /\ DOMAIN received = 1..Len(received)
          /\ \A k \in 1..Len(wire) : DOMAIN wire[k] = 1..Len(wire[k])
      BY <1>1 DEF IInv, TypeOK
    <2>3. ASSUME NEW x \in AgentIds PROVE \E r \in Held : r.id = x
      <3>1. x \in OutIds \/ x \in Ids(chan) \/ x \in HandIds \/ x \in Ids(ring)
        BY DEF AgentIds
      <3>2. CASE x \in OutIds
        BY <3>2 DEF OutIds, Held
      <3>3. CASE x \in HandIds
        BY <3>3 DEF HandIds, Held
      <3>4. CASE x \in Ids(chan)
        <4>1. PICK i \in 1..Len(chan) : chan[i].id = x
          BY <3>4 DEF Ids
        <4>2. chan[i] \in Range(chan)
          BY <2>2, <4>1 DEF Range
        <4> QED BY <4>1, <4>2 DEF Held
      <3>5. CASE x \in Ids(ring)
        <4>1. PICK i \in 1..Len(ring) : ring[i].id = x
          BY <3>5 DEF Ids
        <4>2. ring[i] \in Range(ring)
          BY <2>2, <4>1 DEF Range
        <4> QED BY <4>1, <4>2 DEF Held
      <3> QED BY <3>1, <3>2, <3>3, <3>4, <3>5
    <2>4. ASSUME NEW x \in WireIds PROVE \E r \in OnTheWire : r.id = x
      <3>1. PICK k \in 1..Len(wire) : x \in Ids(wire[k])
        BY DEF WireIds
      <3>2. PICK i \in 1..Len(wire[k]) : wire[k][i].id = x
        BY <3>1 DEF Ids
      <3>3. wire[k][i] \in Range(wire[k])
        BY <2>2, <3>2 DEF Range
      <3>4. wire[k][i] \in OnTheWire
        BY <2>2, <3>3 DEF OnTheWire
      <3> QED BY <3>2, <3>4
    <2>5. ASSUME NEW x \in ArrivedIds PROVE \E r \in Arrived : r.id = x
      <3>1. PICK i \in 1..Len(received) : received[i].event.id = x
        BY DEF ArrivedIds
      <3>2. received[i].event \in Arrived
        BY <2>2, <3>1 DEF Arrived
      <3> QED BY <3>1, <3>2
    <2>6. \A x \in captured \ lost :
             \E r \in Held \cup OnTheWire \cup Arrived : r.id = x
      BY <2>1, <2>3, <2>4, <2>5, Zenon
    <2> QED BY <2>1, <2>6, Zenon DEF NothingElseLost
  <1> QED BY <1>1, Invariance, PTL

(* The collector is never sent more than a payload holds, whatever the     *)
(* vector clock header adds.                                               *)
THEOREM PayloadStaysBounded == Spec => []PayloadBounded
  <1>1. IInv => PayloadBounded
    BY DEF IInv
  <1> QED BY <1>1, Invariance, PTL

(* Bypass for drops is justified by counters the agent really had, even    *)
(* when readAgentMetrics failed at the end of a window.                    *)
THEOREM BypassIsJustified == Spec => []BypassJustified
  <1>1. IInv => BypassJustified
    BY DEF IInv, MonitorInv
  <1> QED BY <1>1, Invariance, PTL
============================================================================
