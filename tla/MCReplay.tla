------------------------------ MODULE MCReplay ------------------------------
(* Small instances of Replay for TLC. *)
EXTENDS Replay, TLC

CONSTANTS a, b  \* request keys

Event(kind, key, ts) == [kind |-> kind, key |-> key, host |-> NoHost, ts |-> ts]

(* n exchanges, each a request with one of the keys and its response.      *)
Exchanges(n) ==
    {[i \in 1..(2 * n) |->
        IF i % 2 = 1 THEN Event("read", f[(i + 1) \div 2], 1)
                     ELSE Event("write", NoKey, 1)] : f \in [1..n -> {a, b}]}

TwoExchanges == Exchanges(2)
ThreeExchanges == Exchanges(3)

(* Requests of both keys in flight at once, a write without payload, and a *)
(* response nobody asked for.                                              *)
Overlapping ==
    {<<Event("read", a, 1), Event("read", b, 1), Event("empty", NoKey, 1),
       Event("write", NoKey, 1), Event("write", NoKey, 1)>>,
     <<Event("write", NoKey, 1), Event("read", a, 1), Event("write", NoKey, 1)>>}

ProxyRecordings == ThreeExchanges \cup Overlapping

(* Two exchanges with Host headers, of which the listener serves some.     *)
HostRecording ==
    {<<[kind |-> "read", key |-> a, host |-> h, ts |-> 1], Event("write", NoKey, 1),
       [kind |-> "read", key |-> b, host |-> g, ts |-> 1], Event("write", NoKey, 1)>>
        : g \in Filters, h \in Hosts \ Filters}

(* What a debugger meets: a marker and a clock event that RunToEvent       *)
(* passes over before an I/O event it stops at; time stamps out of order.  *)
SessionRecordings ==
    {<<Event("read", NoKey, 1), Event("marker", NoKey, 1), Event("write", NoKey, 1)>>,
     <<Event("clock", NoKey, 2), Event("clock", NoKey, 1), Event("read", NoKey, 1)>>}

DebugRecordings == HostRecording \cup SessionRecordings

ConnSymmetry == Permutations(Conns)
=============================================================================
