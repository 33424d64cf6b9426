-------------------------- MODULE CollectorProofs --------------------------
(***************************************************************************)
(* Proofs about module Collector, for every set of goroutines, every       *)
(* window and cooldown and every bound.                                    *)
(***************************************************************************)
EXTENDS Collector, SequenceTheorems, TLAPS

(* Next, spelled out as the alternatives the proofs go through.            *)
LEMMA NextCases ==
    ASSUME Next
    PROVE  \/ Tick
           \/ Restart
           \/ \E s \in Streams, kind \in InputKinds : Recv(s, kind)
           \/ \E s \in Streams : Add(s) \/ Observe(s) \/ Evaluate(s)
           \/ \E a \in Admins : RequestTrigger(a)
           \/ \E a \in Admins : Respond(a)
           \/ \E c \in Callers : FireSuppressed(c) \/ Fire(c) \/ CopyBuffer(c)
           \/ \E c \in Callers : ReadGraph(c) \/ Export(c) \/ ExportFails(c)
           \/ \E c \in Callers : Upload(c) \/ Register(c) \/ Publish(c)
  BY DEF Next, Ingest, Capture

(* The time stamp of an event is an integer.                               *)
LEMMA EventTime == \A x \in Events : x.at \in Int
  BY DEF Events

(* So is the time stamp of a trigger that fired.                           *)
LEMMA FireTime == \A f \in Fires : f.at \in Int
  BY DEF Fires

(* A suffix of a sequence, as Add's slice expression cuts it.              *)
LEMMA Suffix ==
    ASSUME NEW S, NEW s \in Seq(S), NEW k \in 0..Len(s),
           NEW new, new = SubSeq(s, k + 1, Len(s))
    PROVE  /\ new \in Seq(S)
           /\ Len(new) = Len(s) - k
           /\ \A i \in 1..Len(new) : new[i] = s[k + i]
  <1> DEFINE m == k + 1
             n == Len(s)
  <1>1. /\ k \in Nat /\ n \in Nat /\ k <= n
        /\ m \in Int /\ n \in Int /\ (\A i \in m..n : s[i] \in S)
    OBVIOUS
  <1>2. m = k + 1 /\ new = SubSeq(s, m, n) /\ n = Len(s)
    BY Zenon
  <1> HIDE DEF m, n
  <1>3. /\ SubSeq(s, m, n) \in Seq(S)
        /\ Len(SubSeq(s, m, n)) = IF m <= n THEN n - m + 1 ELSE 0
        /\ \A i \in 1..(n - m + 1) : SubSeq(s, m, n)[i] = s[m + i - 1]
    BY <1>1, SubSeqProperties
  <1>4. /\ new \in Seq(S)
        /\ Len(new) = IF m <= n THEN n - m + 1 ELSE 0
        /\ \A i \in 1..(n - m + 1) : new[i] = s[m + i - 1]
    BY <1>2, <1>3, Zenon
  <1>5. Len(new) = n - k /\ n - m + 1 = n - k
    BY <1>1, <1>2, <1>4
  <1>6. ASSUME NEW i \in 1..Len(new) PROVE new[i] = s[k + i]
    <2>1. m + i - 1 = k + i /\ i \in 1..(n - m + 1)
      BY <1>1, <1>2, <1>5
    <2>2. new[i] = s[m + i - 1]
      BY <1>4, <2>1, Zenon
    <2> QED BY <2>1, <2>2
  <1> QED BY <1>2, <1>4, <1>5, <1>6

InOrder(s) == \A i, j \in 1..Len(s) : i < j => s[i].at <= s[j].at

(* What Add must leave at time t of the events all: never nothing, in      *)
(* order, all of it inside the window, none of the recent events gone.     *)
KeepsWindow(t, all, new) ==
    /\ new \in Seq(Events) /\ Len(new) > 0
    /\ InOrder(new)
    /\ \A i \in 1..Len(new) : new[i].at <= t /\ t - new[i].at < Window
    /\ \A j \in 1..Len(all) : t - all[j].at < Window
          => \E i \in 1..Len(new) : new[i] = all[j]

(* The eviction loop keeps the window of a buffer in time order whose last *)
(* event is the one just added.                                            *)
LEMMA EvictKeepsWindow ==
    ASSUME NEW t \in Nat, NEW all \in Seq(Events),
           Len(all) > 0, all[Len(all)].at = t, InOrder(all),
           NEW k \in 0..Len(all), Evict(all, t - Window, k),
           NEW new, new = SubSeq(all, k + 1, Len(all))
    PROVE  KeepsWindow(t, all, new)
  <1>0. \A i, j \in 1..Len(all) : i < j => all[i].at <= all[j].at
    BY DEF InOrder
  <1> USE ParameterAssumption
  <1>1. /\ new \in Seq(Events)
        /\ Len(new) = Len(all) - k
        /\ \A i \in 1..Len(new) : new[i] = all[k + i]
    BY Suffix
  <1>2. /\ k \in Nat /\ Len(all) \in Nat /\ k <= Len(all)
        /\ \A i \in 1..Len(all) : all[i] \in Events
    OBVIOUS
  <1>3. \A i \in 1..Len(all) : all[i].at \in Int
    BY <1>2, EventTime, Zenon
  <1>4. /\ \A i \in 1..k : all[i].at <= t - Window
        /\ k < Len(all) => all[k + 1].at > t - Window
    BY DEF Evict
  <1>5. k < Len(all)
    BY <1>2, <1>4
  <1>6. \A i \in 1..Len(new) : k + i \in 1..Len(all)
    BY <1>1, <1>2
  <1>7. ASSUME NEW i \in 1..Len(new), NEW j \in 1..Len(new), i < j
        PROVE  new[i].at <= new[j].at
    <2>1. k + i < k + j
      BY <1>2, <1>7
    <2> QED BY <1>0, <1>1, <1>6, <2>1
  <1>8. ASSUME NEW i \in 1..Len(new)
        PROVE  new[i].at <= t /\ t - new[i].at < Window
    <2>1. all[k + 1].at <= all[k + i].at
      <3>1. CASE i = 1
        BY <1>2, <1>3, <1>5, <3>1
      <3>2. CASE i # 1
        <4>1. k + 1 \in 1..Len(all) /\ k + 1 < k + i /\ k + i \in 1..Len(all)
          BY <1>1, <1>2, <1>5, <1>6, <3>2
        <4> QED BY <1>0, <4>1
      <3> QED BY <3>1, <3>2
    <2>2. all[k + i].at <= t
      <3>1. CASE k + i = Len(all)
        <4>1. all[k + i].at = t
          BY <3>1, Zenon
        <4> QED BY <4>1
      <3>2. CASE k + i # Len(all)
        <4>1. k + i < Len(all) /\ Len(all) \in 1..Len(all)
          BY <1>2, <1>6, <3>2
        <4> QED BY <1>0, <1>6, <4>1
      <3> QED BY <3>1, <3>2
    <2>3. all[k + i].at \in Int /\ all[k + 1].at \in Int /\ new[i] = all[k + i]
      BY <1>1, <1>2, <1>3, <1>5, <1>6
    <2>4. all[k + 1].at > t - Window
      BY <1>4, <1>5
    <2> DEFINE x == all[k + i].at
               y == all[k + 1].at
    <2>5. x \in Int /\ y \in Int /\ y <= x /\ x <= t /\ y > t - Window
      BY <2>1, <2>2, <2>3, <2>4
    <2> HIDE DEF x, y
    <2>6. x <= t /\ t - x < Window
      BY <2>5
    <2> QED BY <2>3, <2>6 DEF x
  <1>9. ASSUME NEW j \in 1..Len(all), t - all[j].at < Window
        PROVE  \E i \in 1..Len(new) : new[i] = all[j]
    <2>1. j > k
      BY <1>2, <1>3, <1>4, <1>9
    <2>2. j - k \in 1..Len(new) /\ k + (j - k) = j
      BY <1>1, <1>2, <2>1
    <2> QED BY <1>1, <2>2
  <1>10. Len(new) > 0
    BY <1>1, <1>2, <1>5
  <1>11. InOrder(new)
    BY <1>7 DEF InOrder
  <1> QED BY <1>1, <1>8, <1>9, <1>10, <1>11, Zenon DEF KeepsWindow

(* The values a call's locals have before and after it are well typed.     *)
LEMMA LocalsTyped == NoEvent \in Events /\ NoLocals \in Locals
  <1>1. <<>> \in Seq(Events)
    OBVIOUS
  <1> QED BY <1>1 DEF NoEvent, NoLocals, Events, Kinds, Locals

(* fire labels a caller's trigger with a known type and a known event.     *)
LEMMA TriggerTyped ==
    ASSUME TypeOK, NEW c \in Callers
    PROVE  TriggerOf(c) \in Triggers
  BY DEF TypeOK, TriggerOf, Triggers, TriggerTypes

(* Every step of every goroutine keeps the state well typed.               *)
LEMMA TypeStep ==
    ASSUME TypeOK, [Next]_vars
    PROVE  TypeOK'
  <1> USE CallerAssumption, LocalsTyped
          DEF Callers, CapturePCs, StreamPCs, AdminPCs
  <1>1. CASE Tick
    BY <1>1 DEF Tick, TypeOK, boundVars, histVars
  <1>2. CASE Restart
    BY <1>2, ParameterAssumption
    DEF Restart, TypeOK, IsFirst, NeverFired
  <1>3. ASSUME NEW s \in Streams, NEW kind \in InputKinds, Recv(s, kind)
        PROVE  TypeOK'
    <2>1. [id |-> nextEvent, kind |-> kind, at |-> 0] \in Events
      BY ParameterAssumption DEF TypeOK, Events, Kinds
    <2> QED BY <1>3, <2>1 DEF Recv, Goto, TypeOK, histVars
  <1>4. ASSUME NEW s \in Streams, Add(s) PROVE TypeOK'
    <2> DEFINE e == [id |-> ev[s].id, kind |-> ev[s].kind, at |-> now]
    <2>1. e \in Events /\ e.at = now
      BY DEF TypeOK, Events
    <2>2. buf' \in Seq(Events)
      <3>1. PICK k \in 0..Len(Append(buf, e)) :
              buf' = SubSeq(Append(buf, e), k + 1, Len(Append(buf, e)))
        BY <1>4 DEF Add
      <3>2. buf \in Seq(Events)
        BY DEF TypeOK
      <3> HIDE DEF e
      <3>3. Append(buf, e) \in Seq(Events)
        BY <2>1, <3>2
      <3> QED BY <3>1, <3>3, Suffix
    <2>3. ev' = [ev EXCEPT ![s] = e] /\ added' = added \cup {e}
      BY <1>4 DEF Add
    <2>4. /\ pc' = [pc EXCEPT ![s] = "observe"]
          /\ UNCHANGED <<now, made, observed, mu, lastFire, snap,
                         incident, disk, snapshots, latest, resp, fires,
                         nextEvent, manuals, restarts>>
      BY <1>4 DEF Add, Goto, boundVars
    <2> HIDE DEF e
    <2> QED BY <2>1, <2>2, <2>3, <2>4 DEF TypeOK
  <1>5. ASSUME NEW s \in Streams, Observe(s) PROVE TypeOK'
    <2>1. ev[s].id \in Nat
      BY DEF TypeOK, Events
    <2> QED BY <1>5, <2>1 DEF Observe, Goto, TypeOK, boundVars, histVars
  <1>6. ASSUME NEW s \in Streams, Evaluate(s) PROVE TypeOK'
    <2>1. CASE Goto(s, "fire") /\ UNCHANGED <<ev, snap>>
      BY <1>6, <2>1 DEF Evaluate, Goto, TypeOK, boundVars, histVars
    <2>2. CASE Return(s)
      BY <1>6, <2>2 DEF Evaluate, Return, Goto, TypeOK, boundVars, histVars
    <2> QED BY <1>6, <2>1, <2>2 DEF Evaluate
  <1>7. ASSUME NEW a \in Admins, RequestTrigger(a)
        PROVE  TypeOK'
    BY <1>7 DEF RequestTrigger, Goto, TypeOK
  <1>8. ASSUME NEW a \in Admins, Respond(a) PROVE TypeOK'
    BY <1>8 DEF Respond, Goto, TypeOK, boundVars, histVars
  <1>9. ASSUME NEW c \in Callers, FireSuppressed(c) PROVE TypeOK'
    BY <1>9 DEF FireSuppressed, Return, Goto, TypeOK, boundVars, histVars
  <1>10. ASSUME NEW c \in Callers, Fire(c) PROVE TypeOK'
    <2>1. [at |-> now, type |-> TriggerOf(c).type] \in Fires
      BY TriggerTyped DEF TypeOK, Fires, Triggers
    <2> QED BY <1>10, <2>1 DEF Fire, Goto, TypeOK, boundVars
  <1>11. ASSUME NEW c \in Callers, CopyBuffer(c) PROVE TypeOK'
    <2>1. [events |-> buf, graph |-> {}, copiedAt |-> now] \in Locals
      BY DEF TypeOK, Locals
    <2> QED BY <1>11, <2>1 DEF CopyBuffer, Goto, TypeOK, boundVars, histVars
  <1>12. ASSUME NEW c \in Callers, ReadGraph(c) PROVE TypeOK'
    <2>1. [events |-> snap[c].events, graph |-> observed,
           copiedAt |-> snap[c].copiedAt] \in Locals
      BY DEF TypeOK, Locals
    <2> QED BY <1>12, <2>1 DEF ReadGraph, Goto, TypeOK, boundVars, histVars
  <1>13. ASSUME NEW c \in Callers, Export(c) PROVE TypeOK'
    <2> DEFINE d == [events |-> snap[c].events, graph |-> snap[c].graph,
                     copiedAt |-> snap[c].copiedAt, trigger |-> TriggerOf(c),
                     incident |-> incident, run |-> restarts]
    <2>1. snap[c] \in Locals
      BY DEF TypeOK
    <2>2. d \in Archives
      BY <2>1, TriggerTyped DEF TypeOK, Locals, Archives
    <2>3. disk' = Append(disk, d)
      BY <1>13 DEF Export
    <2>4. disk' \in Seq(Archives)
      BY <2>2, <2>3 DEF TypeOK
    <2> HIDE DEF d
    <2> QED BY <1>13, <2>4 DEF Export, Goto, TypeOK, boundVars
  <1>14. ASSUME NEW c \in Callers, ExportFails(c) PROVE TypeOK'
    <2>1. incident' \in Seq(Events)
      <3>1. incident' = incident \/ incident' = <<>>
        BY <1>14 DEF ExportFails
      <3>2. incident \in Seq(Events) /\ <<>> \in Seq(Events)
        BY EmptySeq DEF TypeOK
      <3> QED BY <3>1, <3>2, Zenon
    <2> QED BY <1>14, <2>1 DEF ExportFails, Return, Goto, TypeOK, boundVars
  <1>15. ASSUME NEW c \in Callers, Upload(c) PROVE TypeOK'
    BY <1>15 DEF Upload, Goto, TypeOK, boundVars, histVars
  <1>16. ASSUME NEW c \in Callers, Register(c) PROVE TypeOK'
    BY <1>16 DEF Register, Goto, TypeOK, boundVars, histVars
  <1>17. ASSUME NEW c \in Callers, Publish(c) PROVE TypeOK'
    BY <1>17 DEF Publish, Return, Goto, TypeOK, boundVars, histVars
  <1>18. CASE UNCHANGED vars
    BY <1>18 DEF vars, progVars, boundVars, histVars, TypeOK
  <1> QED
    BY <1>1, <1>2, <1>3, <1>4, <1>5, <1>6, <1>7, <1>8, <1>9, <1>10, <1>11,
       <1>12, <1>13, <1>14, <1>15, <1>16, <1>17, <1>18, NextCases

(* Every reachable state of the collector is well typed.                   *)
THEOREM TypeCorrect == Spec => []TypeOK
  <1>1. Init => TypeOK
    BY ParameterAssumption, CallerAssumption, LocalsTyped
    DEF Init, InitMemory, TypeOK, IsFirst, NeverFired, Callers,
        StreamPCs, AdminPCs
  <1> QED BY <1>1, TypeStep, PTL DEF Spec
----------------------------------------------------------------------------
(*                        The inductive invariant                          *)

(* trigger.mu is held exactly while its holder captures. *)
LockInv == \A c \in Callers : pc[c] \in CapturePCs <=> mu = c

(* The buffer is in the order of arrival, none of it from the future. *)
BufferInv ==
    /\ \A i, j \in DOMAIN buf : i < j => buf[i].at <= buf[j].at
    /\ \A i \in DOMAIN buf : buf[i].at <= now
    /\ RecentEventsBuffered
    /\ BufferSpansWindow

(* lastFire is the time of the latest of all the triggers that fired. *)
CooldownInv ==
    /\ lastFire <= now
    /\ \A i \in DOMAIN fires : fires[i].at <= lastFire
    /\ CooldownRespected

(* An event being evaluated has been added to the buffer and observed. *)
StreamInv ==
    \A s \in Streams :
        /\ pc[s] \in {"observe", "evaluate", "fire"} \cup CapturePCs
              => ev[s] \in added
        /\ pc[s] \in {"evaluate", "fire"} \cup CapturePCs
              => ev[s].id \in observed

(* What a capture has copied so far is what its archive must hold. *)
CopyInv ==
    \A c \in Callers :
        /\ pc[c] \in {"graph", "export"} /\ c \in Streams =>
              (snap[c].copiedAt - ev[c].at < Window
                  => ev[c] \in Range(snap[c].events))
        /\ pc[c] = "export" /\ c \in Streams => ev[c].id \in snap[c].graph
        /\ pc[c] \in {"graph", "export"} /\ LocalHooks
              => incident = snap[c].events

(* An incident is left over only if events had arrived before. *)
IncidentInv == LocalHooks /\ buf = <<>> => incident = <<>>

ArchiveInv ==
    /\ StreamInv
    /\ CopyInv
    /\ IncidentInv
    /\ CauseCaptured
    /\ CauseInGraph
    /\ IncidentOwn

(* Archives are numbered in the order written. *)
NumberInv ==
    /\ \A i \in DOMAIN disk : disk[i].run <= restarts
    /\ \A i \in DOMAIN snapshots : snapshots[i] <= Len(disk)
    /\ latest <= Len(disk)

(* What a capture has written is newer than all that is published, and     *)
(* than all that is registered until it registers it.                      *)
HolderInv ==
    \A c \in Callers :
        /\ pc[c] \in {"copy", "graph", "export"} => made[c] = 0
        /\ Exported(c) =>
              /\ made[c] = Len(disk)
              /\ latest < made[c]
              /\ \A i \in DOMAIN snapshots : snapshots[i] < made[c]
        /\ pc[c] = "publish" =>
              /\ made[c] = Len(disk)
              /\ latest < made[c]
              /\ snapshots # <<>> /\ snapshots[Len(snapshots)] = made[c]

(* A handler about to answer finds its own archive or a newer one. *)
AnswerInv ==
    \A a \in Admins : pc[a] = "respond" /\ made[a] # 0 =>
        snapshots # <<>> /\ snapshots[Len(snapshots)] >= made[a]

RegistryInv ==
    /\ NumberInv
    /\ HolderInv
    /\ AnswerInv
    /\ ExportedIsListed
    /\ AnswerNotOlder

IInv ==
    /\ TypeOK
    /\ LockInv
    /\ BufferInv
    /\ CooldownInv
    /\ ArchiveInv
    /\ RegistryInv
----------------------------------------------------------------------------
(* Only the lock holder is in a capture, whatever step is taken.           *)
LEMMA LockStep ==
    ASSUME TypeOK, LockInv, [Next]_vars
    PROVE  LockInv'
  <1> USE CallerAssumption DEF Callers, CapturePCs, LockInv, TypeOK
  <1>1. CASE Tick
    BY <1>1 DEF Tick
  <1>2. CASE Restart
    BY <1>2 DEF Restart, IsFirst
  <1>3. ASSUME NEW s \in Streams, NEW kind \in InputKinds, Recv(s, kind)
        PROVE  LockInv'
    BY <1>3 DEF Recv, Goto
  <1>4. ASSUME NEW s \in Streams, Add(s) \/ Observe(s) PROVE LockInv'
    <2>1. /\ pc[s] \in {"add", "observe"} /\ mu' = mu
          /\ pc' = [pc EXCEPT ![s] = "observe"] \/ pc' = [pc EXCEPT ![s] = "evaluate"]
      BY <1>4 DEF Add, Observe, Goto
    <2> QED BY <2>1
  <1>5. ASSUME NEW s \in Streams, Evaluate(s) PROVE LockInv'
    BY <1>5 DEF Evaluate, Return, Goto
  <1>6. ASSUME NEW a \in Admins, RequestTrigger(a)
        PROVE  LockInv'
    BY <1>6 DEF RequestTrigger, Goto
  <1>7. ASSUME NEW a \in Admins, Respond(a) PROVE LockInv'
    BY <1>7 DEF Respond, Goto
  <1>8. ASSUME NEW c \in Callers, FireSuppressed(c) PROVE LockInv'
    BY <1>8 DEF FireSuppressed, Return, Goto
  <1>9. ASSUME NEW c \in Callers, Fire(c) PROVE LockInv'
    BY <1>9 DEF Fire, Goto
  <1>10. ASSUME NEW c \in Callers,
                CopyBuffer(c) \/ ReadGraph(c) \/ Export(c) \/ Upload(c)
                  \/ Register(c)
         PROVE  LockInv'
    <2>1. /\ pc[c] \in CapturePCs /\ mu' = mu
          /\ \E label \in CapturePCs : pc' = [pc EXCEPT ![c] = label]
      BY <1>10 DEF CopyBuffer, ReadGraph, Export, Upload, Register, Goto
    <2> QED BY <2>1
  <1>11. ASSUME NEW c \in Callers, ExportFails(c) \/ Publish(c) PROVE LockInv'
    <2>1. /\ pc[c] \in CapturePCs /\ mu' = Free
          /\ \E label \in {"recv", "respond"} : pc' = [pc EXCEPT ![c] = label]
      BY <1>11 DEF ExportFails, Publish, Return, Goto
    <2> QED BY <2>1
  <1>12. CASE UNCHANGED vars
    BY <1>12 DEF vars, progVars
  <1> QED
    BY <1>1, <1>2, <1>3, <1>4, <1>5, <1>6, <1>7, <1>8, <1>9, <1>10, <1>11,
       <1>12, NextCases

(* Only time, a restart and Add touch what BufferInv speaks of.            *)
LEMMA BufferFrame ==
    ASSUME [Next]_vars
    PROVE  \/ Tick
           \/ Restart
           \/ \E s \in Streams : Add(s)
           \/ UNCHANGED <<now, buf, added>>
  BY NextCases
  DEF vars, progVars, histVars, Recv, Observe, Evaluate, RequestTrigger,
      Respond, FireSuppressed, Fire, CopyBuffer, ReadGraph, Export,
      ExportFails, Upload, Register, Publish

(* The buffer keeps everything recent, and nothing beyond its window.      *)
LEMMA BufferStep ==
    ASSUME TypeOK, BufferInv, [Next]_vars
    PROVE  BufferInv'
  <1> USE ParameterAssumption
  <1>0. now \in Nat /\ buf \in Seq(Events) /\ added \subseteq Events
    BY DEF TypeOK
  <1>1. CASE Tick
    <2>1. now' = now + 1 /\ UNCHANGED <<buf, added>>
      BY <1>1 DEF Tick, histVars
    <2>2. \A e \in added : e.at \in Int
      BY <1>0, EventTime
    <2>3. \A i \in DOMAIN buf : buf[i].at \in Int
      <3>1. \A i \in DOMAIN buf : buf[i] \in Events
        BY <1>0
      <3> QED BY <3>1, EventTime, Zenon
    <2> QED BY <1>0, <2>1, <2>2, <2>3
        DEF BufferInv, RecentEventsBuffered, BufferSpansWindow, Range
  <1>2. CASE Restart
    <2>1. buf' = <<>> /\ added' = {}
      BY <1>2 DEF Restart
    <2> QED BY <2>1 DEF BufferInv, RecentEventsBuffered, BufferSpansWindow
  <1>3. ASSUME NEW s \in Streams, Add(s) PROVE BufferInv'
    <2> DEFINE e == [id |-> ev[s].id, kind |-> ev[s].kind, at |-> now]
    <2>1. e \in Events /\ e.at = now
      <3>1. ev[s] \in Events
        BY DEF TypeOK, Callers
      <3> QED BY <1>0, <3>1 DEF Events
    <2>2. added' = added \cup {e} /\ now' = now
      BY <1>3 DEF Add
    <2> HIDE DEF e
    <2>3. PICK all : all = Append(buf, e)
      OBVIOUS
    <2>4. PICK k \in 0..Len(all) :
            Evict(all, now - Window, k) /\ buf' = SubSeq(all, k + 1, Len(all))
      BY <1>3, <2>3 DEF Add, e
    <2>5. /\ all \in Seq(Events) /\ Len(all) = Len(buf) + 1 /\ Len(buf) \in Nat
          /\ all[Len(all)] = e
          /\ \A i \in 1..Len(buf) : all[i] = buf[i]
      BY <1>0, <2>1, <2>3
    <2>6. InOrder(all)
      <3> SUFFICES ASSUME NEW i \in 1..Len(all), NEW j \in 1..Len(all), i < j
                   PROVE  all[i].at <= all[j].at
        BY DEF InOrder
      <3>1. i \in 1..Len(buf) /\ DOMAIN buf = 1..Len(buf)
        BY <1>0, <2>5
      <3>2. CASE j = Len(all)
        BY <2>1, <2>5, <3>1, <3>2 DEF BufferInv
      <3>3. CASE j # Len(all)
        <4>1. j \in 1..Len(buf)
          BY <2>5, <3>3
        <4> QED BY <2>5, <3>1, <4>1 DEF BufferInv
      <3> QED BY <3>2, <3>3
    <2>7. KeepsWindow(now, all, buf')
      <3>1. Len(all) > 0 /\ all[Len(all)].at = now
        BY <2>1, <2>5
      <3>2. now \in Nat /\ all \in Seq(Events)
        BY <1>0, <2>5
      <3> QED BY <2>4, <2>6, <3>1, <3>2, EvictKeepsWindow
    <2>8. DOMAIN buf' = 1..Len(buf') /\ DOMAIN buf = 1..Len(buf)
      BY <1>0, <2>7 DEF KeepsWindow
    <2>9. BufferSpansWindow'
      <3>1. \A i \in 1..Len(buf') : buf'[i] \in Events
        BY <2>7 DEF KeepsWindow
      <3>2. \A i \in 1..Len(buf') : buf'[i].at \in Int
        BY <3>1, EventTime, Zenon
      <3> QED BY <1>0, <2>7, <2>8, <3>2 DEF BufferSpansWindow, KeepsWindow
    <2>10. RecentEventsBuffered'
      <3> SUFFICES ASSUME NEW x \in added \cup {e}, now - x.at < Window
                   PROVE  \E i \in 1..Len(buf') : buf'[i] = x
        BY <2>2, <2>8 DEF RecentEventsBuffered, Range
      <3>1. \E j \in 1..Len(all) : all[j] = x
        <4>1. CASE x = e
          BY <2>5, <4>1
        <4>2. CASE x \in added
          <5>1. PICK j \in 1..Len(buf) : buf[j] = x
            BY <2>8, <4>2 DEF BufferInv, RecentEventsBuffered, Range
          <5> QED BY <2>5, <5>1
        <4> QED BY <4>1, <4>2
      <3> QED BY <2>7, <3>1 DEF KeepsWindow
    <2> QED BY <2>2, <2>7, <2>8, <2>9, <2>10 DEF BufferInv, KeepsWindow, InOrder
  <1>4. CASE UNCHANGED <<now, buf, added>>
    BY <1>4 DEF BufferInv, RecentEventsBuffered, BufferSpansWindow, Range
  <1> QED BY <1>1, <1>2, <1>3, <1>4, BufferFrame

(* Only time, a restart and Fire touch what CooldownInv speaks of.         *)
LEMMA CooldownFrame ==
    ASSUME [Next]_vars
    PROVE  \/ Tick
           \/ Restart
           \/ \E c \in Callers : Fire(c)
           \/ UNCHANGED <<now, lastFire, fires>>
  BY NextCases
  DEF vars, progVars, histVars, Recv, Add, Observe, Evaluate, RequestTrigger,
      Respond, FireSuppressed, CopyBuffer, ReadGraph, Export,
      ExportFails, Upload, Register, Publish

(* The cooldown is measured from the latest trigger, so from all of them.  *)
LEMMA CooldownStep ==
    ASSUME TypeOK, CooldownInv, [Next]_vars
    PROVE  CooldownInv'
  <1> USE ParameterAssumption
  <1>0. now \in Nat /\ lastFire \in Int /\ fires \in Seq(Fires)
    BY DEF TypeOK
  <1>1. /\ Len(fires) \in Nat /\ DOMAIN fires = 1..Len(fires)
        /\ \A i \in 1..Len(fires) : fires[i].at \in Int
    <2>1. \A i \in 1..Len(fires) : fires[i] \in Fires
      BY <1>0
    <2>2. \A i \in 1..Len(fires) : fires[i].at \in Int
      BY <2>1, FireTime, Zenon
    <2> QED BY <1>0, <2>2
  <1>2. CASE Tick
    BY <1>0, <1>2 DEF Tick, histVars, CooldownInv, CooldownRespected
  <1>3. CASE Restart
    <2>1. now' = now /\ lastFire' = 0 - Cooldown /\ fires' = <<>>
      BY <1>3 DEF Restart, NeverFired
    <2> QED BY <1>0, <2>1 DEF CooldownInv, CooldownRespected
  <1>4. ASSUME NEW c \in Callers, Fire(c) PROVE CooldownInv'
    <2> DEFINE f == [at |-> now, type |-> TriggerOf(c).type]
    <2>1. /\ now' = now /\ lastFire' = now /\ fires' = Append(fires, f)
          /\ IsAutomatic(f.type) => now - lastFire >= Cooldown
      BY <1>0, <1>4 DEF Fire, Suppressed
    <2>2. f.at = now /\ f \in Fires
      BY <1>0, TriggerTyped DEF Fires, Triggers
    <2> HIDE DEF f
    <2>3. /\ DOMAIN fires' = 1..(Len(fires) + 1)
          /\ fires'[Len(fires) + 1] = f
          /\ \A i \in 1..Len(fires) : fires'[i] = fires[i]
      BY <1>0, <2>1, <2>2
    <2>4. \A i \in DOMAIN fires' : fires'[i].at <= now
      BY <1>0, <1>1, <2>2, <2>3 DEF CooldownInv
    <2>5. CooldownRespected'
      <3> SUFFICES ASSUME NEW i \in 1..(Len(fires) + 1),
                          NEW j \in 1..(Len(fires) + 1),
                          i < j, IsAutomatic(fires'[j].type)
                   PROVE  fires'[j].at - fires'[i].at >= Cooldown
        BY <2>3 DEF CooldownRespected, IsAutomatic
      <3>1. i \in 1..Len(fires) /\ fires'[i] = fires[i]
        BY <1>1, <2>3
      <3>2. CASE j = Len(fires) + 1
        <4>1. now - lastFire >= Cooldown /\ fires[i].at <= lastFire
          BY <1>1, <2>1, <2>3, <3>1, <3>2 DEF CooldownInv
        <4> QED BY <1>0, <1>1, <2>2, <2>3, <3>1, <3>2, <4>1
      <3>3. CASE j # Len(fires) + 1
        <4>0. j \in 1..Len(fires)
          BY <1>0, <3>3
        <4>1. j \in 1..Len(fires) /\ fires'[j] = fires[j]
          BY <2>3, <4>0, Zenon
        <4> QED BY <1>1, <3>1, <4>1 DEF CooldownInv, CooldownRespected
      <3> QED BY <3>2, <3>3
    <2> QED BY <1>0, <2>1, <2>4, <2>5 DEF CooldownInv
  <1>5. CASE UNCHANGED <<now, lastFire, fires>>
    BY <1>5 DEF CooldownInv, CooldownRespected
  <1> QED BY <1>2, <1>3, <1>4, <1>5, CooldownFrame
(* A stream's event is in the buffer before it is observed, and in the     *)
(* graph before it is evaluated.                                           *)
LEMMA StreamStep ==
    ASSUME TypeOK, StreamInv, [Next]_vars
    PROVE  StreamInv'
  <1> USE CallerAssumption DEF Callers, CapturePCs, StreamInv
  <1>0. /\ pc \in [Callers -> StreamPCs \cup AdminPCs]
        /\ ev \in [Callers -> Events]
    BY DEF TypeOK
  <1>1. CASE Tick
    BY <1>1 DEF Tick, histVars
  <1>2. CASE Restart
    BY <1>2 DEF Restart, IsFirst
  <1>3. ASSUME NEW s \in Streams, NEW kind \in InputKinds, Recv(s, kind)
        PROVE  StreamInv'
    BY <1>0, <1>3 DEF Recv, Goto, histVars
  <1>4. ASSUME NEW s \in Streams, Add(s) PROVE StreamInv'
    <2> DEFINE e == [id |-> ev[s].id, kind |-> ev[s].kind, at |-> now]
    <2>1. /\ ev' = [ev EXCEPT ![s] = e] /\ added' = added \cup {e}
          /\ pc' = [pc EXCEPT ![s] = "observe"] /\ observed' = observed
      BY <1>4 DEF Add, Goto
    <2> HIDE DEF e
    <2> QED BY <1>0, <2>1
  <1>5. ASSUME NEW s \in Streams, Observe(s) PROVE StreamInv'
    BY <1>0, <1>5 DEF Observe, Goto, histVars
  <1>6. ASSUME NEW s \in Streams, Evaluate(s) PROVE StreamInv'
    BY <1>0, <1>6 DEF Evaluate, Return, Goto, histVars
  <1>7. ASSUME NEW a \in Admins, RequestTrigger(a)
        PROVE  StreamInv'
    BY <1>0, <1>7 DEF RequestTrigger, Goto
  <1>8. ASSUME NEW a \in Admins, Respond(a) PROVE StreamInv'
    BY <1>0, <1>8 DEF Respond, Goto, histVars
  <1>9. ASSUME NEW c \in Callers,
               FireSuppressed(c) \/ ExportFails(c) \/ Publish(c)
        PROVE  StreamInv'
    <2>1. Return(c) /\ UNCHANGED <<observed, added>>
      BY <1>9 DEF FireSuppressed, ExportFails, Publish, histVars
    <2> QED BY <1>0, <2>1 DEF Return, Goto
  <1>10. ASSUME NEW c \in Callers,
                Fire(c) \/ CopyBuffer(c) \/ ReadGraph(c) \/ Export(c)
                  \/ Upload(c) \/ Register(c)
         PROVE  StreamInv'
    <2>1. /\ pc[c] \in {"fire"} \cup CapturePCs /\ UNCHANGED <<observed, added, ev>>
          /\ \E label \in CapturePCs : pc' = [pc EXCEPT ![c] = label]
      BY <1>10 DEF Fire, CopyBuffer, ReadGraph, Export, Upload, Register, Goto,
                   histVars
    <2> QED BY <1>0, <2>1
  <1>11. CASE UNCHANGED vars
    BY <1>11 DEF vars, progVars, histVars
  <1> QED
    BY <1>1, <1>2, <1>3, <1>4, <1>5, <1>6, <1>7, <1>8, <1>9, <1>10, <1>11,
       NextCases

(* A capture's copies stay what they were: no other goroutine captures.    *)
LEMMA CopyStep ==
    ASSUME TypeOK, LockInv, BufferInv, StreamInv, CopyInv, IncidentInv,
           [Next]_vars
    PROVE  CopyInv'
  <1> USE CallerAssumption DEF Callers, CapturePCs, CopyInv, Range
  <1>0. /\ pc \in [Callers -> StreamPCs \cup AdminPCs]
        /\ ev \in [Callers -> Events] /\ snap \in [Callers -> Locals]
    BY DEF TypeOK
  <1>1. CASE Tick
    BY <1>1 DEF Tick
  <1>2. CASE Restart
    BY <1>2 DEF Restart, IsFirst
  <1>3. ASSUME NEW s \in Streams, NEW kind \in InputKinds, Recv(s, kind)
        PROVE  CopyInv'
    BY <1>0, <1>3 DEF Recv, Goto
  <1>4. ASSUME NEW s \in Streams, Add(s) PROVE CopyInv'
    <2> DEFINE e == [id |-> ev[s].id, kind |-> ev[s].kind, at |-> now]
    <2>1. /\ ev' = [ev EXCEPT ![s] = e] /\ UNCHANGED <<snap, incident>>
          /\ pc' = [pc EXCEPT ![s] = "observe"]
      BY <1>4 DEF Add, Goto
    <2> HIDE DEF e
    <2> QED BY <1>0, <2>1
  <1>5. ASSUME NEW s \in Streams, Observe(s) PROVE CopyInv'
    BY <1>0, <1>5 DEF Observe, Goto
  <1>6. ASSUME NEW s \in Streams, Evaluate(s) PROVE CopyInv'
    BY <1>0, <1>6 DEF Evaluate, Return, Goto
  <1>7. ASSUME NEW a \in Admins, RequestTrigger(a)
        PROVE  CopyInv'
    BY <1>0, <1>7 DEF RequestTrigger, Goto
  <1>8. ASSUME NEW a \in Admins, Respond(a) PROVE CopyInv'
    BY <1>0, <1>8 DEF Respond, Goto
  <1>9. ASSUME NEW c \in Callers,
               FireSuppressed(c) \/ Publish(c) \/ Upload(c) \/ Register(c)
                 \/ Fire(c)
        PROVE  CopyInv'
    <2>1. /\ UNCHANGED incident
          /\ \A d \in Callers \ {c} :
                pc'[d] = pc[d] /\ ev'[d] = ev[d] /\ snap'[d] = snap[d]
          /\ pc'[c] \notin {"graph", "export"}
      BY <1>0, <1>9 DEF FireSuppressed, Publish, Upload, Register, Fire, Return,
                        Goto
    <2> QED BY <1>0, <2>1
  <1>10. ASSUME NEW c \in Callers, Export(c) \/ ExportFails(c)
         PROVE  CopyInv'
    <2>1. /\ pc[c] = "export"
          /\ \A d \in Callers \ {c} : pc'[d] = pc[d]
          /\ pc'[c] \notin {"graph", "export"}
      BY <1>0, <1>10 DEF Export, ExportFails, Return, Goto
    <2>2. \A d \in Callers : pc'[d] \notin {"graph", "export"}
      BY <2>1 DEF LockInv
    <2> QED BY <2>2
  <1>11. ASSUME NEW c \in Callers, CopyBuffer(c) PROVE CopyInv'
    <2> DEFINE l == [events |-> buf, graph |-> {}, copiedAt |-> now]
    <2>1. /\ pc[c] = "copy" /\ pc' = [pc EXCEPT ![c] = "graph"]
          /\ snap' = [snap EXCEPT ![c] = l] /\ UNCHANGED ev
          /\ incident' = IF LocalHooks /\ buf # <<>> THEN buf ELSE incident
      BY <1>11 DEF CopyBuffer, Goto
    <2>2. \A d \in Callers : pc'[d] \in {"graph", "export"} => d = c
      BY <1>0, <2>1 DEF LockInv
    <2>3. pc'[c] = "graph" /\ snap'[c] = l /\ ev'[c] = ev[c]
      BY <1>0, <2>1
    <2>4. LocalHooks => incident' = buf
      BY <2>1 DEF IncidentInv
    <2>5. c \in Streams => (now - ev[c].at < Window => ev[c] \in Range(buf))
      BY <2>1 DEF StreamInv, BufferInv, RecentEventsBuffered
    <2> QED BY <2>2, <2>3, <2>4, <2>5
  <1>12. ASSUME NEW c \in Callers, ReadGraph(c) PROVE CopyInv'
    <2> DEFINE l == [events |-> snap[c].events, graph |-> observed,
                     copiedAt |-> snap[c].copiedAt]
    <2>1. /\ pc[c] = "graph" /\ pc' = [pc EXCEPT ![c] = "export"]
          /\ snap' = [snap EXCEPT ![c] = l] /\ UNCHANGED <<ev, incident>>
      BY <1>12 DEF ReadGraph, Goto
    <2>2. \A d \in Callers : pc'[d] \in {"graph", "export"} => d = c
      BY <1>0, <2>1 DEF LockInv
    <2>3. pc'[c] = "export" /\ snap'[c] = l /\ ev'[c] = ev[c]
      BY <1>0, <2>1
    <2>4. c \in Streams => ev[c].id \in observed
      BY <2>1 DEF StreamInv
    <2> QED BY <2>1, <2>2, <2>3, <2>4
  <1>13. CASE UNCHANGED vars
    BY <1>13 DEF vars, progVars
  <1> QED
    BY <1>1, <1>2, <1>3, <1>4, <1>5, <1>6, <1>7, <1>8, <1>9, <1>10, <1>11,
       <1>12, <1>13, NextCases
(* An incident left behind by a failed export implies a buffer that was    *)
(* not empty, and Add never empties it.                                    *)
LEMMA IncidentStep ==
    ASSUME TypeOK, BufferInv, IncidentInv, [Next]_vars
    PROVE  IncidentInv'
  <1> USE DEF IncidentInv
  <1>0. buf \in Seq(Events) /\ now \in Nat
    BY DEF TypeOK
  <1>1. ASSUME NEW s \in Streams, Add(s) PROVE IncidentInv'
    <2>1. buf' # <<>>
      <3> DEFINE e == [id |-> ev[s].id, kind |-> ev[s].kind, at |-> now]
      <3>1. e \in added' /\ now' = now /\ e.at = now
        BY <1>1 DEF Add
      <3>2. BufferInv'
        BY BufferStep
      <3>3. now' - e.at < Window
        BY <1>0, <3>1, ParameterAssumption
      <3>4. e \in Range(buf')
        BY <3>1, <3>2, <3>3 DEF BufferInv, RecentEventsBuffered, Range
      <3> HIDE DEF e
      <3> QED BY <3>4 DEF Range
    <2> QED BY <2>1
  <1>2. ASSUME NEW c \in Callers, CopyBuffer(c) PROVE IncidentInv'
    BY <1>2 DEF CopyBuffer
  <1>3. ASSUME NEW c \in Callers, ExportFails(c) PROVE IncidentInv'
    BY <1>3 DEF ExportFails
  <1>4. CASE incident' = <<>>
    BY <1>4
  <1>5. CASE UNCHANGED <<buf, incident>>
    BY <1>5
  <1> QED
    BY <1>1, <1>2, <1>3, <1>4, <1>5, NextCases
    DEF vars, progVars, Tick, Restart, Recv, Observe, Evaluate, RequestTrigger,
        Respond, FireSuppressed, Fire, ReadGraph, Export, Upload, Register,
        Publish

(* Only Export writes to the data directory.                               *)
LEMMA DiskFrame ==
    ASSUME [Next]_vars
    PROVE  (\E c \in Callers : Export(c)) \/ disk' = disk
  BY NextCases
  DEF vars, progVars, Tick, Restart, Recv, Add, Observe, Evaluate,
      RequestTrigger, Respond, FireSuppressed, Fire, CopyBuffer, ReadGraph,
      ExportFails, Upload, Register, Publish

(* What an archive must satisfy to be faithful to its trigger.             *)
Faithful(d) ==
    /\ \A e \in d.trigger.cause :
          /\ d.copiedAt - e.at < Window => e \in Range(d.events)
          /\ e.id \in d.graph
    /\ LocalHooks => d.incident = d.events

(* Every archive is faithful because the one just written is.              *)
LEMMA ArchiveStep ==
    ASSUME TypeOK, LockInv, BufferInv, ArchiveInv, [Next]_vars
    PROVE  ArchiveInv'
  <1>1. StreamInv' /\ CopyInv' /\ IncidentInv'
    BY StreamStep, CopyStep, IncidentStep DEF ArchiveInv
  <1>2. \A i \in DOMAIN disk : Faithful(disk[i])
    BY DEF ArchiveInv, CauseCaptured, CauseInGraph, IncidentOwn, Faithful
  <1>3. \A i \in DOMAIN disk' : Faithful(disk'[i])
    <2>1. ASSUME NEW c \in Callers, Export(c)
          PROVE  \A i \in DOMAIN disk' : Faithful(disk'[i])
      <3> DEFINE d == [events |-> snap[c].events, graph |-> snap[c].graph,
                       copiedAt |-> snap[c].copiedAt, trigger |-> TriggerOf(c),
                       incident |-> incident, run |-> restarts]
      <3>1. disk' = Append(disk, d) /\ pc[c] = "export"
        BY <2>1 DEF Export
      <3>2. \A e \in TriggerOf(c).cause : c \in Streams /\ e = ev[c]
        BY DEF TriggerOf
      <3>3. Faithful(d)
        BY <3>1, <3>2 DEF Faithful, ArchiveInv, CopyInv
      <3>4. disk \in Seq(Archives)
        BY DEF TypeOK
      <3> HIDE DEF d
      <3>5. /\ DOMAIN disk' = 1..(Len(disk) + 1) /\ DOMAIN disk = 1..Len(disk)
            /\ Len(disk) \in Nat /\ disk'[Len(disk) + 1] = d
            /\ \A i \in 1..Len(disk) : disk'[i] = disk[i]
        BY <3>1, <3>4
      <3>6. ASSUME NEW i \in 1..(Len(disk) + 1) PROVE Faithful(disk'[i])
        <4>1. CASE i = Len(disk) + 1
          BY <3>3, <3>5, <4>1
        <4>2. CASE i # Len(disk) + 1
          <5>1. i \in 1..Len(disk)
            BY <3>5, <4>2
          <5> QED BY <1>2, <3>5, <5>1
        <4> QED BY <4>1, <4>2
      <3> QED BY <3>5, <3>6
    <2>2. CASE disk' = disk
      BY <1>2, <2>2
    <2> QED BY <2>1, <2>2, DiskFrame
  <1>4. CauseCaptured' /\ CauseInGraph' /\ IncidentOwn'
    BY <1>3 DEF CauseCaptured, CauseInGraph, IncidentOwn, Faithful, Range
  <1> QED BY <1>1, <1>4 DEF ArchiveInv
(* Most steps move one goroutine from one place outside the registry to    *)
(* another and touch neither archives nor list nor answers.                *)
Elsewhere(c, label) ==
    /\ pc' = [pc EXCEPT ![c] = label]
    /\ UNCHANGED <<disk, snapshots, latest, made, resp, restarts>>

(* Every step is one of those, a restart, or a step of a capture.          *)
LEMMA RegistryFrame ==
    ASSUME TypeOK, [Next]_vars
    PROVE  \/ UNCHANGED <<pc, disk, snapshots, latest, made, resp, restarts>>
           \/ Restart
           \/ \E c \in Callers :
                \/ /\ pc[c] \notin CapturePCs
                   /\ \E label \in {"recv", "add", "observe", "evaluate", "fire"} :
                         Elsewhere(c, label)
                \/ pc[c] = "copy" /\ Elsewhere(c, "graph")
                \/ pc[c] = "graph" /\ Elsewhere(c, "export")
                \/ /\ pc[c] = "export"
                   /\ \E label \in {"recv", "respond"} : Elsewhere(c, label)
                \/ pc[c] = "upload" /\ Elsewhere(c, "register")
                \/ Fire(c) \/ Export(c) \/ Register(c) \/ Publish(c)
           \/ \E a \in Admins : Respond(a)
  <1> USE DEF Callers, Elsewhere, Goto, CapturePCs
  <1>1. CASE Tick \/ UNCHANGED vars
    BY <1>1 DEF Tick, vars, progVars, boundVars
  <1>2. ASSUME NEW s \in Streams, NEW kind \in InputKinds, Recv(s, kind)
        PROVE  pc[s] \notin CapturePCs /\ Elsewhere(s, "add")
    BY <1>2 DEF Recv
  <1>3. ASSUME NEW s \in Streams, Add(s) \/ Observe(s) \/ Evaluate(s)
        PROVE  /\ pc[s] \notin CapturePCs
               /\ \E label \in {"observe", "evaluate", "fire", "recv"} :
                     Elsewhere(s, label)
    BY <1>3 DEF Add, Observe, Evaluate, Return, boundVars
  <1>4. ASSUME NEW a \in Admins, RequestTrigger(a)
        PROVE  pc[a] \notin CapturePCs /\ Elsewhere(a, "fire")
    BY <1>4 DEF RequestTrigger
  <1>5. ASSUME NEW c \in Callers, FireSuppressed(c)
        PROVE  pc[c] \notin CapturePCs /\ Elsewhere(c, "recv")
    <2>1. c \in Streams
      BY <1>5 DEF FireSuppressed, Suppressed, TriggerOf, IsAutomatic
    <2> QED BY <1>5, <2>1 DEF FireSuppressed, Return, boundVars
  <1>6. ASSUME NEW c \in Callers, CopyBuffer(c)
        PROVE  pc[c] = "copy" /\ Elsewhere(c, "graph")
    BY <1>6 DEF CopyBuffer, boundVars
  <1>7. ASSUME NEW c \in Callers, ReadGraph(c)
        PROVE  pc[c] = "graph" /\ Elsewhere(c, "export")
    BY <1>7 DEF ReadGraph, boundVars
  <1>8. ASSUME NEW c \in Callers, ExportFails(c)
        PROVE  pc[c] = "export" /\ \E label \in {"recv", "respond"} :
                                      Elsewhere(c, label)
    BY <1>8 DEF ExportFails, Return, boundVars
  <1>9. ASSUME NEW c \in Callers, Upload(c)
        PROVE  pc[c] = "upload" /\ Elsewhere(c, "register")
    BY <1>9 DEF Upload, boundVars
  <1> HIDE DEF Elsewhere, Goto, CapturePCs
  <1> QED
    BY <1>1, <1>2, <1>3, <1>4, <1>5, <1>6, <1>7, <1>8, <1>9, NextCases

(* The registry follows the data directory, one archive at a time.         *)
LEMMA RegistryStep ==
    ASSUME TypeOK, LockInv, RegistryInv, [Next]_vars
    PROVE  RegistryInv'
  <1> USE CallerAssumption DEF Callers
  <1>0. /\ pc \in [Callers -> StreamPCs \cup AdminPCs]
        /\ made \in [Callers -> Nat] /\ resp \in [Admins -> Nat]
        /\ latest \in Nat /\ restarts \in Nat
        /\ Len(disk) \in Nat /\ DOMAIN disk = 1..Len(disk)
        /\ snapshots \in Seq(Nat)
        /\ Len(snapshots) \in Nat /\ DOMAIN snapshots = 1..Len(snapshots)
        /\ \A i \in 1..Len(snapshots) : snapshots[i] \in Nat
    BY DEF TypeOK
  <1>1. CASE UNCHANGED <<pc, disk, snapshots, latest, made, resp, restarts>>
    BY <1>1 DEF RegistryInv, NumberInv, HolderInv, AnswerInv,
                ExportedIsListed, AnswerNotOlder, Exported, Range
  <1>2. CASE Restart
    <2>1. /\ pc' = [c \in Callers |-> IsFirst(c)] /\ snapshots' = <<>>
          /\ resp' = [a \in Admins |-> 0] /\ made' = [c \in Callers |-> 0]
          /\ restarts' = restarts + 1 /\ UNCHANGED <<disk, latest>>
      BY <1>2 DEF Restart
    <2>2. \A i \in DOMAIN disk : /\ disk[i].run <= restarts + 1
                                 /\ disk[i].run # restarts + 1
      <3>1. \A i \in DOMAIN disk : disk[i] \in Archives
        BY DEF TypeOK
      <3>2. \A d \in Archives : d.run \in Nat
        BY DEF Archives
      <3>3. \A i \in DOMAIN disk : disk[i].run \in Nat
        BY <3>1, <3>2, Zenon
      <3> QED BY <1>0, <3>3 DEF RegistryInv, NumberInv
    <2>3. \A c \in Callers : pc'[c] \in {"recv", "idle"}
      BY <2>1 DEF IsFirst
    <2>4. NumberInv'
      <3>1. latest <= Len(disk) /\ DOMAIN snapshots' = {}
        BY <2>1 DEF RegistryInv, NumberInv
      <3> QED BY <2>1, <2>2, <3>1 DEF NumberInv
    <2>5. HolderInv' /\ AnswerInv' /\ AnswerNotOlder'
      <3>1. HolderInv'
        BY <2>3 DEF HolderInv, Exported
      <3>2. AnswerInv'
        BY <2>3 DEF AnswerInv
      <3>3. \A a \in Admins : resp'[a] = 0 /\ made'[a] = 0
        BY <2>1
      <3>4. AnswerNotOlder'
        BY <3>3 DEF AnswerNotOlder
      <3> QED BY <3>1, <3>2, <3>4
    <2>6. ExportedIsListed'
      BY <1>0, <2>1, <2>2, <2>3 DEF ExportedIsListed, Exported, Range
    <2> QED BY <2>4, <2>5, <2>6 DEF RegistryInv
  <1>2a. ASSUME NEW c \in Callers, NEW label,
                pc' = [pc EXCEPT ![c] = label],
                UNCHANGED <<disk, snapshots, latest, resp, restarts>>,
                \A x \in Callers \ {c} : made'[x] = made[x],
                label \in {"upload", "register"} <=> Exported(c),
                Exported(c) => made'[c] = made[c],
                label \in {"copy", "graph", "export", "respond"} => made'[c] = 0,
                label \notin {"publish", "idle"}
         PROVE  RegistryInv'
    <2>1. /\ pc'[c] = label
          /\ \A x \in Callers \ {c} : pc'[x] = pc[x] /\ made'[x] = made[x]
      BY <1>0, <1>2a
    <2>2. \A x \in Callers : /\ Exported(x)' <=> Exported(x)
                             /\ Exported(x) => made'[x] = made[x]
      BY <1>2a, <2>1 DEF Exported
    <2>3. NumberInv'
      BY <1>2a DEF RegistryInv, NumberInv
    <2>4. HolderInv'
      <3> SUFFICES ASSUME NEW x \in Callers
                   PROVE  /\ pc'[x] \in {"copy", "graph", "export"} => made'[x] = 0
                          /\ Exported(x)' =>
                               /\ made'[x] = Len(disk)
                               /\ latest < made'[x]
                               /\ \A i \in DOMAIN snapshots : snapshots[i] < made'[x]
                          /\ pc'[x] = "publish" =>
                               /\ made'[x] = Len(disk)
                               /\ latest < made'[x]
                               /\ snapshots # <<>>
                               /\ snapshots[Len(snapshots)] = made'[x]
        BY <1>2a DEF HolderInv
      <3>1. CASE x = c
        BY <1>2a, <2>1, <2>2, <3>1 DEF RegistryInv, HolderInv
      <3>2. CASE x # c
        BY <2>1, <2>2, <3>2 DEF RegistryInv, HolderInv
      <3> QED BY <3>1, <3>2
    <2>5. AnswerInv' /\ AnswerNotOlder'
      <3>1. ASSUME NEW x \in Admins, pc'[x] = "respond", made'[x] # 0
            PROVE  snapshots # <<>> /\ snapshots[Len(snapshots)] >= made'[x]
        BY <1>2a, <2>1, <3>1 DEF RegistryInv, AnswerInv
      <3>2. ASSUME NEW x \in Admins, pc'[x] = "idle"
            PROVE  resp[x] >= made'[x]
        BY <1>2a, <2>1, <3>2 DEF RegistryInv, AnswerNotOlder
      <3> QED BY <1>2a, <3>1, <3>2 DEF AnswerInv, AnswerNotOlder
    <2>6. ExportedIsListed'
      BY <1>2a, <2>2 DEF RegistryInv, ExportedIsListed, Range
    <2> QED BY <2>3, <2>4, <2>5, <2>6 DEF RegistryInv
  <1>3. ASSUME NEW c \in Callers, pc[c] \notin CapturePCs,
               NEW label \in {"recv", "add", "observe", "evaluate", "fire"},
               Elsewhere(c, label)
        PROVE  RegistryInv'
    BY <1>2a, <1>3 DEF Elsewhere, CapturePCs, Exported
  <1>4. ASSUME NEW c \in Callers,
               \/ pc[c] = "copy" /\ Elsewhere(c, "graph")
               \/ pc[c] = "graph" /\ Elsewhere(c, "export")
        PROVE  RegistryInv'
    <2>1. made[c] = 0 /\ ~Exported(c)
      BY <1>4 DEF RegistryInv, HolderInv, Exported
    <2> QED BY <1>2a, <1>4, <2>1 DEF Elsewhere
  <1>5. ASSUME NEW c \in Callers, pc[c] = "export",
               NEW label \in {"recv", "respond"}, Elsewhere(c, label)
        PROVE  RegistryInv'
    <2>1. made[c] = 0 /\ ~Exported(c)
      BY <1>5 DEF RegistryInv, HolderInv, Exported
    <2> QED BY <1>2a, <1>5, <2>1 DEF Elsewhere
  <1>6. ASSUME NEW c \in Callers, pc[c] = "upload", Elsewhere(c, "register")
        PROVE  RegistryInv'
    BY <1>2a, <1>6 DEF Elsewhere, Exported
  <1>7. ASSUME NEW c \in Callers, Fire(c) PROVE RegistryInv'
    <2>1. /\ pc[c] = "fire" /\ pc' = [pc EXCEPT ![c] = "copy"]
          /\ made' = [made EXCEPT ![c] = 0]
          /\ UNCHANGED <<disk, snapshots, latest, resp, restarts>>
      BY <1>7 DEF Fire, Goto, boundVars
    <2>2. made'[c] = 0 /\ (\A x \in Callers \ {c} : made'[x] = made[x])
          /\ ~Exported(c)
      BY <1>0, <2>1 DEF Exported
    <2>3. PICK label : label = "copy"
      OBVIOUS
    <2>4. /\ pc' = [pc EXCEPT ![c] = label] /\ label \notin {"publish", "idle"}
          /\ label \notin {"upload", "register"}
      BY <2>1, <2>3
    <2>5. UNCHANGED <<disk, snapshots, latest, resp, restarts>>
      BY <2>1
    <2> QED BY <1>2a, <2>2, <2>4, <2>5
  <1>8. ASSUME NEW c \in Callers, Export(c) PROVE RegistryInv'
    <2>1. PICK d : disk' = Append(disk, d) /\ d \in Archives /\ d.run = restarts
      <3> DEFINE d == [events |-> snap[c].events, graph |-> snap[c].graph,
                       copiedAt |-> snap[c].copiedAt, trigger |-> TriggerOf(c),
                       incident |-> incident, run |-> restarts]
      <3>1. disk' = Append(disk, d)
        BY <1>8 DEF Export
      <3>2. snap[c] \in Locals
        BY DEF TypeOK
      <3>3. d \in Archives
        BY <3>2, TriggerTyped DEF TypeOK, Locals, Archives
      <3> QED BY <3>1, <3>3
    <2>2. /\ pc[c] = "export" /\ pc' = [pc EXCEPT ![c] = "upload"]
          /\ made' = [made EXCEPT ![c] = Len(disk) + 1]
          /\ UNCHANGED <<snapshots, latest, resp, restarts>>
      BY <1>8 DEF Export, Goto, boundVars
    <2>3. /\ DOMAIN disk' = 1..(Len(disk) + 1) /\ Len(disk') = Len(disk) + 1
          /\ disk'[Len(disk) + 1] = d
          /\ \A i \in 1..Len(disk) : disk'[i] = disk[i]
      <3>1. disk \in Seq(Archives)
        BY DEF TypeOK
      <3> QED BY <2>1, <3>1
    <2>4. /\ \A x \in Callers : ~Exported(x) /\ pc[x] # "publish"
          /\ \A x \in Callers \ {c} : pc'[x] \notin CapturePCs
          /\ \A x \in Callers \ {c} : pc'[x] = pc[x] /\ made'[x] = made[x]
          /\ pc'[c] = "upload" /\ made'[c] = Len(disk) + 1
      BY <1>0, <2>2 DEF LockInv, Exported, CapturePCs
    <2>5. NumberInv'
      BY <1>0, <2>1, <2>2, <2>3 DEF RegistryInv, NumberInv
    <2>6. HolderInv'
      BY <1>0, <2>2, <2>3, <2>4
      DEF RegistryInv, NumberInv, HolderInv, Exported, CapturePCs
    <2>7. AnswerInv' /\ AnswerNotOlder'
      BY <1>0, <2>2, <2>4 DEF RegistryInv, AnswerInv, AnswerNotOlder
    <2>8. ExportedIsListed'
      <3>1. ASSUME NEW i \in 1..(Len(disk) + 1), disk'[i].run = restarts
            PROVE  i \in Range(snapshots) \cup
                         {made'[x] : x \in {y \in Callers : Exported(y)'}}
        <4>1. CASE i = Len(disk) + 1
          BY <2>4, <4>1 DEF Exported
        <4>2. CASE i # Len(disk) + 1
          <5>1. i \in 1..Len(disk) /\ disk[i].run = restarts
            BY <1>0, <2>3, <3>1, <4>2
          <5> QED BY <1>0, <2>4, <5>1 DEF RegistryInv, ExportedIsListed
        <4> QED BY <4>1, <4>2
      <3>2. \A i \in Range(snapshots) : i <= Len(disk)
        BY <1>0 DEF RegistryInv, NumberInv, Range
      <3>3. made'[c] \notin Range(snapshots)
        BY <1>0, <2>4, <3>2
      <3>4. \A x \in Callers : Exported(x)' => x = c
        BY <2>4 DEF Exported, CapturePCs
      <3> QED BY <2>2, <2>3, <3>1, <3>3, <3>4
          DEF RegistryInv, ExportedIsListed, Range
    <2> QED BY <2>5, <2>6, <2>7, <2>8 DEF RegistryInv
  <1>9. ASSUME NEW c \in Callers, Register(c) PROVE RegistryInv'
    <2>1. /\ pc[c] = "register" /\ pc' = [pc EXCEPT ![c] = "publish"]
          /\ snapshots' = Append(snapshots, made[c])
          /\ UNCHANGED <<disk, made, latest, resp, restarts>>
      BY <1>9 DEF Register, Goto, boundVars
    <2>2. /\ DOMAIN snapshots' = 1..(Len(snapshots) + 1)
          /\ Len(snapshots') = Len(snapshots) + 1
          /\ snapshots'[Len(snapshots) + 1] = made[c]
          /\ \A i \in 1..Len(snapshots) : snapshots'[i] = snapshots[i]
          /\ snapshots' # <<>>
      BY <1>0, <2>1
    <2>3. /\ made[c] = Len(disk) /\ latest < made[c]
          /\ \A i \in 1..Len(snapshots) : snapshots[i] < made[c]
      BY <1>0, <2>1 DEF RegistryInv, HolderInv, Exported
    <2>4. /\ \A x \in Callers \ {c} : pc[x] \notin CapturePCs /\ pc'[x] = pc[x]
          /\ pc'[c] = "publish"
      BY <1>0, <2>1 DEF LockInv, CapturePCs
    <2>5. NumberInv'
      BY <1>0, <2>1, <2>2, <2>3 DEF RegistryInv, NumberInv
    <2>6. HolderInv'
      BY <1>0, <2>1, <2>2, <2>3, <2>4 DEF HolderInv, Exported, CapturePCs
    <2>7. AnswerInv' /\ AnswerNotOlder'
      <3>1. \A a \in Admins : pc'[a] = "respond" => pc[a] = "respond"
        BY <2>4
      <3>2. AnswerInv'
        <4> SUFFICES ASSUME NEW a \in Admins, pc[a] = "respond", made[a] # 0
                     PROVE  made[c] >= made[a]
          BY <1>0, <2>1, <2>2, <3>1 DEF AnswerInv
        <4>1. Len(snapshots) \in 1..Len(snapshots)
              /\ snapshots[Len(snapshots)] >= made[a]
          BY <1>0 DEF RegistryInv, AnswerInv
        <4> QED BY <1>0, <2>3, <4>1
      <3>3. AnswerNotOlder'
        BY <2>1, <2>4 DEF RegistryInv, AnswerNotOlder
      <3> QED BY <3>2, <3>3
    <2>8. ExportedIsListed'
      <3>1. \A i \in Range(snapshots) : i \in Range(snapshots')
        BY <1>0, <2>2 DEF Range
      <3>2. made[c] \in Range(snapshots')
        <4>1. Len(snapshots) + 1 \in DOMAIN snapshots'
          BY <1>0, <2>2
        <4> QED BY <2>2, <4>1 DEF Range
      <3>3. \A x \in Callers : ~Exported(x)' /\ (Exported(x) => x = c)
        BY <2>4 DEF Exported, CapturePCs
      <3>4. ASSUME NEW i \in DOMAIN disk', disk'[i].run = restarts'
            PROVE  i \in Range(snapshots')
        BY <2>1, <3>1, <3>2, <3>3, <3>4 DEF RegistryInv, ExportedIsListed
      <3>5. ASSUME NEW i \in 1..(Len(snapshots) + 1),
                   NEW j \in 1..(Len(snapshots) + 1), i < j
            PROVE  snapshots'[i] < snapshots'[j]
        <4>1. i \in 1..Len(snapshots)
          BY <1>0, <3>5
        <4>2. CASE j = Len(snapshots) + 1
          BY <2>2, <2>3, <4>1, <4>2
        <4>3. CASE j # Len(snapshots) + 1
          <5>1. j \in 1..Len(snapshots)
            BY <1>0, <4>3
          <5> QED BY <1>0, <2>2, <3>5, <4>1, <5>1
              DEF RegistryInv, ExportedIsListed
        <4> QED BY <4>2, <4>3
      <3> QED BY <2>2, <3>3, <3>4, <3>5 DEF ExportedIsListed, Range
    <2> QED BY <2>5, <2>6, <2>7, <2>8 DEF RegistryInv
  <1>10. ASSUME NEW c \in Callers, Publish(c) PROVE RegistryInv'
    <2>1. /\ pc[c] = "publish" /\ latest' \in {latest, made[c]}
          /\ \E label \in {"recv", "respond"} : pc' = [pc EXCEPT ![c] = label]
          /\ UNCHANGED <<disk, made, snapshots, resp, restarts>>
      BY <1>10 DEF Publish, Return, Goto, boundVars
    <2>2. /\ made[c] = Len(disk) /\ latest < made[c]
          /\ snapshots # <<>> /\ snapshots[Len(snapshots)] = made[c]
      BY <2>1 DEF RegistryInv, HolderInv
    <2>3. /\ \A x \in Callers \ {c} : pc[x] \notin CapturePCs /\ pc'[x] = pc[x]
          /\ pc'[c] \in {"recv", "respond"}
      BY <1>0, <2>1 DEF LockInv, CapturePCs
    <2>4. NumberInv' /\ HolderInv'
      BY <1>0, <2>1, <2>2, <2>3
      DEF RegistryInv, NumberInv, HolderInv, Exported, CapturePCs
    <2>5. AnswerInv' /\ AnswerNotOlder'
      BY <1>0, <2>1, <2>2, <2>3 DEF RegistryInv, AnswerInv, AnswerNotOlder
    <2>6. ExportedIsListed'
      <3>1. \A x \in Callers : Exported(x)' = FALSE /\ Exported(x) = FALSE
        BY <2>1, <2>3 DEF Exported, CapturePCs
      <3> QED BY <2>1, <3>1 DEF RegistryInv, ExportedIsListed, Range
    <2> QED BY <2>4, <2>5, <2>6 DEF RegistryInv
  <1>11. ASSUME NEW a \in Admins, Respond(a) PROVE RegistryInv'
    <2> DEFINE answer == IF snapshots = <<>> THEN 0 ELSE snapshots[Len(snapshots)]
    <2>1. /\ pc[a] = "respond" /\ pc' = [pc EXCEPT ![a] = "idle"]
          /\ resp' = [resp EXCEPT ![a] = answer]
          /\ UNCHANGED <<disk, made, snapshots, latest, restarts>>
      BY <1>11 DEF Respond, Goto, boundVars
    <2>2. answer >= made[a]
      <3>1. made[a] \in Nat
        BY <1>0
      <3>2. CASE made[a] = 0
        <4>1. answer \in Nat
          BY <1>0
        <4> QED BY <3>2, <4>1
      <3>3. CASE made[a] # 0
        BY <2>1, <3>3 DEF RegistryInv, AnswerInv
      <3> QED BY <3>2, <3>3
    <2> HIDE DEF answer
    <2>3. AnswerNotOlder'
      BY <1>0, <2>1, <2>2 DEF RegistryInv, AnswerNotOlder
    <2>4. /\ \A x \in Callers \ {a} : pc'[x] = pc[x]
          /\ pc'[a] = "idle" /\ ~Exported(a) /\ ~Exported(a)'
      BY <1>0, <2>1 DEF Exported
    <2>5. \A x \in Callers : Exported(x)' <=> Exported(x)
      BY <2>4 DEF Exported
    <2>6. NumberInv'
      BY <2>1 DEF RegistryInv, NumberInv
    <2>7. HolderInv'
      BY <2>1, <2>4, <2>5 DEF RegistryInv, HolderInv
    <2>8. AnswerInv'
      BY <2>1, <2>4 DEF RegistryInv, AnswerInv
    <2>9. ExportedIsListed'
      BY <2>1, <2>5 DEF RegistryInv, ExportedIsListed, Range
    <2> QED BY <2>3, <2>6, <2>7, <2>8, <2>9 DEF RegistryInv
  <1> QED
    BY <1>1, <1>2, <1>3, <1>4, <1>5, <1>6, <1>7, <1>8, <1>9, <1>10, <1>11,
       RegistryFrame
----------------------------------------------------------------------------
(*                              Theorems                                   *)

(* server.New establishes the inductive invariant.                         *)
LEMMA InitIInv == Init => IInv
  <1> SUFFICES ASSUME Init PROVE IInv
    OBVIOUS
  <1> USE CallerAssumption DEF Callers
  <1>0. /\ buf = <<>> /\ added = {} /\ fires = <<>> /\ disk = <<>>
        /\ snapshots = <<>> /\ incident = <<>> /\ mu = Free
        /\ now = 0 /\ latest = 0 /\ lastFire = 0 - Cooldown
        /\ resp = [a \in Admins |-> 0] /\ made = [c \in Callers |-> 0]
    BY DEF Init, InitMemory, NeverFired
  <1>1. \A c \in Callers : pc[c] \in {"recv", "idle"}
    BY DEF Init, InitMemory, IsFirst
  <1>2. TypeOK
    BY ParameterAssumption, LocalsTyped
    DEF Init, InitMemory, TypeOK, IsFirst, NeverFired, StreamPCs,
        AdminPCs
  <1>3. LockInv
    BY <1>0, <1>1 DEF LockInv, CapturePCs
  <1>4. BufferInv
    BY <1>0 DEF BufferInv, RecentEventsBuffered, BufferSpansWindow
  <1>5. CooldownInv
    BY <1>0, ParameterAssumption DEF CooldownInv, CooldownRespected
  <1>6. ArchiveInv
    BY <1>0, <1>1 DEF ArchiveInv, StreamInv, CopyInv, IncidentInv, CapturePCs,
                      CauseCaptured, CauseInGraph, IncidentOwn
  <1>7. RegistryInv
    <2>1. NumberInv /\ HolderInv /\ AnswerInv
      BY <1>0, <1>1 DEF NumberInv, HolderInv, AnswerInv, Exported
    <2>2. AnswerNotOlder
      <3>1. \A a \in Admins : resp[a] = 0 /\ made[a] = 0
        BY <1>0
      <3> QED BY <3>1 DEF AnswerNotOlder
    <2>3. ExportedIsListed
      BY <1>0, <1>1 DEF ExportedIsListed, Exported, Range
    <2> QED BY <2>1, <2>2, <2>3 DEF RegistryInv
  <1> QED BY <1>2, <1>3, <1>4, <1>5, <1>6, <1>7 DEF IInv

(* The inductive invariant holds in every reachable state: each part is    *)
(* preserved by every step of every goroutine, given the parts before it.  *)
THEOREM Invariance == Spec => []IInv
  <1>1. IInv /\ [Next]_vars => TypeOK'
    BY TypeStep DEF IInv
  <1>2. IInv /\ [Next]_vars => IInv'
    BY <1>1, LockStep, BufferStep, CooldownStep, ArchiveStep, RegistryStep
    DEF IInv
  <1> QED BY <1>2, InitIInv, PTL DEF Spec

(* RollingBuffer.Add loses no event younger than the window.               *)
THEOREM BufferKeepsRecent == Spec => []RecentEventsBuffered
  <1>1. IInv => RecentEventsBuffered
    BY DEF IInv, BufferInv
  <1> QED BY <1>1, Invariance, PTL

(* RollingBuffer.Add keeps no event that is older than the window when the *)
(* newest arrives.                                                         *)
THEOREM BufferBounded == Spec => []BufferSpansWindow
  <1>1. IInv => BufferSpansWindow
    BY DEF IInv, BufferInv
  <1> QED BY <1>1, Invariance, PTL

(* trigger.fire never lets an automatic trigger through inside the         *)
(* cooldown of any trigger before it, for any number of goroutines.        *)
THEOREM CooldownCorrect == Spec => []CooldownRespected
  <1>1. IInv => CooldownRespected
    BY DEF IInv, CooldownInv
  <1> QED BY <1>1, Invariance, PTL

(* captureSnapshot writes archives whose events include the one that set   *)
(* off the trigger.                                                        *)
THEOREM ArchiveHoldsCause == Spec => []CauseCaptured
  <1>1. IInv => CauseCaptured
    BY DEF IInv, ArchiveInv
  <1> QED BY <1>1, Invariance, PTL

(* captureSnapshot writes archives whose vector graph has the event that   *)
(* set off the trigger.                                                    *)
THEOREM GraphHoldsCause == Spec => []CauseInGraph
  <1>1. IInv => CauseInGraph
    BY DEF IInv, ArchiveInv
  <1> QED BY <1>1, Invariance, PTL

(* Exporter.incident, which no lock of its own protects, always belongs to *)
(* the archive it is written into.                                         *)
THEOREM IncidentCorrect == Spec => []IncidentOwn
  <1>1. IInv => IncidentOwn
    BY DEF IInv, ArchiveInv
  <1> QED BY <1>1, Invariance, PTL

(* Collector.snapshots lists every archive of this process once and in the *)
(* order written, whatever uploads fail.                                   *)
THEOREM RegistryCorrect == Spec => []ExportedIsListed
  <1>1. IInv => ExportedIsListed
    BY DEF IInv, RegistryInv
  <1> QED BY <1>1, Invariance, PTL

(* TriggerSnapshot never answers with an archive older than its own.       *)
THEOREM AnswerCorrect == Spec => []AnswerNotOlder
  <1>1. IInv => AnswerNotOlder
    BY DEF IInv, RegistryInv
  <1> QED BY <1>1, Invariance, PTL

(* postProcessSnapshot only ever replaces LatestLink by a newer archive.   *)
THEOREM LatestCorrect == Spec => LatestNeverRegresses
  <1>1. IInv /\ [Next]_vars => [latest' > latest]_latest
    <2> SUFFICES ASSUME IInv, [Next]_vars, latest' # latest
                 PROVE  latest' > latest
      OBVIOUS
    <2>1. PICK c \in Callers : Publish(c)
      BY NextCases
      DEF vars, progVars, Tick, Restart, Recv, Add, Observe, Evaluate,
          RequestTrigger, Respond, FireSuppressed, Fire, CopyBuffer, ReadGraph,
          Export, ExportFails, Upload, Register
    <2>2. pc[c] = "publish" /\ latest' = made[c]
      BY <2>1 DEF Publish
    <2>3. latest < made[c]
      BY <2>2 DEF IInv, RegistryInv, HolderInv
    <2>4. latest \in Nat /\ made[c] \in Nat
      BY DEF IInv, TypeOK
    <2> QED BY <2>2, <2>3, <2>4
  <1> QED BY <1>1, Invariance, PTL DEF Spec, LatestNeverRegresses
----------------------------------------------------------------------------
(*                             The refinement                              *)

(* What the refinement mapping makes of the places of the goroutines: the  *)
(* archive of the one capture that exported and did not register yet.      *)
PendingInv ==
    /\ \A c \in Callers : Exported(c) => Pending = made[c]
    /\ (\A c \in Callers : ~Exported(c)) => Pending = 0

(* trigger.mu lets at most one capture be under way, so there is at most   *)
(* one such archive.                                                       *)
LEMMA PendingKnown == IInv => PendingInv
  <1> SUFFICES ASSUME IInv PROVE PendingInv
    OBVIOUS
  <1>1. /\ mu \in Callers \cup {Free}
        /\ \A c \in Callers : Exported(c) => mu = c
    BY DEF IInv, TypeOK, LockInv, Exported, CapturePCs
  <1> QED BY <1>1, CallerAssumption DEF PendingInv, Pending

(* The mapping of a step that neither exports nor registers.               *)
LEMMA PendingSame ==
    ASSUME PendingInv, PendingInv',
           \A x \in Callers : Exported(x)' <=> Exported(x),
           \A x \in Callers : Exported(x) => made'[x] = made[x]
    PROVE  Pending' = Pending
  <1>1. CASE \E x \in Callers : Exported(x)
    <2>1. PICK x \in Callers : Exported(x)
      BY <1>1
    <2> QED BY <2>1 DEF PendingInv
  <1>2. CASE \A x \in Callers : ~Exported(x)
    BY <1>2 DEF PendingInv
  <1> QED BY <1>1, <1>2

(* Every step of the collector is a step of the service or invisible to    *)
(* its users.                                                              *)
LEMMA ServiceStep ==
    ASSUME IInv, PendingInv, PendingInv', [Next]_vars
    PROVE  [Service!Next]_(Service!serviceVars)
  <1> USE CallerAssumption DEF Callers
  <1>0. /\ pc \in [Callers -> StreamPCs \cup AdminPCs]
        /\ made \in [Callers -> Nat]
        /\ disk \in Seq(Archives) /\ Len(disk) \in Nat /\ latest \in Nat
        /\ LockInv /\ HolderInv
    BY DEF IInv, TypeOK, RegistryInv
  <1>1. CASE UNCHANGED <<pc, disk, snapshots, latest, made, resp, restarts>>
    <2>1. Pending' = Pending
      BY <1>1, PendingSame DEF Exported
    <2> QED BY <1>1, <2>1 DEF Service!serviceVars
  <1>2. CASE Restart
    <2>1. /\ \A x \in Callers : pc'[x] \in {"recv", "idle"}
          /\ snapshots' = <<>> /\ UNCHANGED <<disk, latest>>
      BY <1>2 DEF Restart, IsFirst
    <2>2. Pending' = 0
      BY <2>1 DEF PendingInv, Exported
    <2> QED BY <2>1, <2>2 DEF Service!Next, Service!Forget
  <1>3. ASSUME NEW c \in Callers, NEW label, Elsewhere(c, label),
               \/ /\ pc[c] \notin {"upload", "register"}
                  /\ label \notin {"upload", "register"}
               \/ pc[c] = "upload" /\ label = "register"
        PROVE  [Service!Next]_(Service!serviceVars)
    <2>1. Pending' = Pending
      BY <1>0, <1>3, PendingSame DEF Exported, Elsewhere
    <2> QED BY <1>3, <2>1 DEF Elsewhere, Service!serviceVars
  <1>4. ASSUME NEW c \in Callers, Fire(c)
        PROVE  [Service!Next]_(Service!serviceVars)
    <2>1. /\ pc[c] = "fire" /\ pc' = [pc EXCEPT ![c] = "copy"]
          /\ made' = [made EXCEPT ![c] = 0]
          /\ UNCHANGED <<disk, snapshots, latest>>
      BY <1>4 DEF Fire, Goto
    <2>2. Pending' = Pending
      BY <1>0, <2>1, PendingSame DEF Exported
    <2> QED BY <2>1, <2>2 DEF Service!serviceVars
  <1>5. ASSUME NEW c \in Callers, Export(c) PROVE Service!Next
    <2>1. /\ pc[c] = "export" /\ pc' = [pc EXCEPT ![c] = "upload"]
          /\ made' = [made EXCEPT ![c] = Len(disk) + 1]
          /\ UNCHANGED <<snapshots, latest>>
          /\ \E x : disk' = Append(disk, x)
      BY <1>5 DEF Export, Goto
    <2>2. Len(disk') = Len(disk) + 1
      BY <1>0, <2>1
    <2>3. \A x \in Callers : ~Exported(x)
      BY <1>0, <2>1 DEF LockInv, Exported, CapturePCs
    <2>4. Pending = 0
      BY <2>3 DEF PendingInv
    <2>5. Exported(c)' /\ made'[c] = Len(disk) + 1
      BY <1>0, <2>1 DEF Exported
    <2>6. Pending' = Len(disk) + 1
      BY <2>5 DEF PendingInv
    <2> QED BY <2>1, <2>2, <2>4, <2>6 DEF Service!Next, Service!Write
  <1>6. ASSUME NEW c \in Callers, Register(c) PROVE Service!Next
    <2>1. /\ pc[c] = "register" /\ pc' = [pc EXCEPT ![c] = "publish"]
          /\ snapshots' = Append(snapshots, made[c])
          /\ UNCHANGED <<made, disk, latest>>
      BY <1>6 DEF Register, Goto
    <2>2. Exported(c) /\ latest < made[c]
      BY <1>0, <2>1 DEF HolderInv, Exported
    <2>3. Pending = made[c] /\ made[c] # 0
      BY <1>0, <2>2 DEF PendingInv
    <2>4. \A x \in Callers : ~Exported(x)'
      BY <1>0, <2>1 DEF LockInv, Exported, CapturePCs
    <2>5. Pending' = 0
      BY <2>4 DEF PendingInv
    <2> QED BY <2>1, <2>3, <2>5 DEF Service!Next, Service!List
  <1>7. ASSUME NEW c \in Callers, Publish(c)
        PROVE  [Service!Next]_(Service!serviceVars)
    <2>1. /\ pc[c] = "publish"
          /\ \E l \in {"recv", "respond"} : pc' = [pc EXCEPT ![c] = l]
          /\ latest' \in {latest, made[c]}
          /\ UNCHANGED <<made, disk, snapshots>>
      BY <1>7 DEF Publish, Return, Goto
    <2>2. Pending' = Pending
      BY <1>0, <2>1, PendingSame DEF Exported
    <2>3. CASE latest' = latest
      BY <2>1, <2>2, <2>3 DEF Service!serviceVars
    <2>4. CASE latest' = made[c]
      <3>1. /\ latest < made[c]
            /\ snapshots # <<>> /\ snapshots[Len(snapshots)] = made[c]
        BY <1>0, <2>1 DEF HolderInv
      <3> QED BY <2>1, <2>2, <2>4, <3>1 DEF Service!Next, Service!Publish
    <2> QED BY <2>1, <2>3, <2>4
  <1>8. ASSUME NEW a \in Admins, Respond(a)
        PROVE  [Service!Next]_(Service!serviceVars)
    <2>1. /\ pc[a] = "respond" /\ pc' = [pc EXCEPT ![a] = "idle"]
          /\ UNCHANGED <<made, disk, snapshots, latest>>
      BY <1>8 DEF Respond, Goto
    <2>2. Pending' = Pending
      BY <1>0, <2>1, PendingSame DEF Exported
    <2> QED BY <2>1, <2>2 DEF Service!serviceVars
  <1>9. \A c \in Callers : pc[c] \notin CapturePCs =>
            pc[c] \notin {"upload", "register"}
    BY DEF CapturePCs
  <1> QED
    BY <1>1, <1>2, <1>3, <1>4, <1>5, <1>6, <1>7, <1>8, <1>9, RegistryFrame
    DEF IInv

(* The collector implements the abstract snapshot service: archives are    *)
(* written, listed and published one after the other, whatever goroutines  *)
(* capture, whichever exports fail and whenever the process dies.          *)
THEOREM CollectorImplementsService == Spec => ImplementsService
  <1>1. Init => Service!Init
    <2> SUFFICES ASSUME Init PROVE Service!Init
      OBVIOUS
    <2>1. /\ disk = <<>> /\ mu = Free /\ snapshots = <<>> /\ latest = 0
      BY DEF Init, InitMemory
    <2> QED BY <2>1 DEF Service!Init, Pending
  <1>2. IInv /\ PendingInv /\ PendingInv' /\ [Next]_vars
            => [Service!Next]_(Service!serviceVars)
    BY ServiceStep
  <1> QED BY <1>1, <1>2, Invariance, PendingKnown, PTL
          DEF Spec, ImplementsService, Service!Spec
============================================================================
