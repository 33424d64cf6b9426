-------------------------- MODULE SnapshotService --------------------------
(***************************************************************************)
(* What the collector promises the users of its archives, whatever streams *)
(* and trigger handlers run inside it: archives are written one at a time, *)
(* each is listed before the next is written or else never, the list is in *)
(* the order written, and the latest link only moves forward, to the       *)
(* archive listed last.  Collector implements this specification.          *)
(***************************************************************************)
EXTENDS Naturals, Sequences

VARIABLES
    written,  \* archives in the data directory, numbered from 1
    pending,  \* the archive written but not listed yet, 0 = none
    listed,   \* what ListSnapshots returns
    latest    \* the archive the latest link holds, 0 = none

serviceVars == <<written, pending, listed, latest>>

Init ==
    /\ written = 0
    /\ pending = 0
    /\ listed = <<>>
    /\ latest = 0

Write ==
    /\ pending = 0
    /\ written' = written + 1
    /\ pending' = written'
    /\ UNCHANGED <<listed, latest>>

List ==
    /\ pending # 0
    /\ listed' = Append(listed, pending)
    /\ pending' = 0
    /\ UNCHANGED <<written, latest>>

Publish ==
    /\ listed # <<>>
    /\ latest < listed[Len(listed)]
    /\ latest' = listed[Len(listed)]
    /\ UNCHANGED <<written, pending, listed>>

(* The process dies: the list is only in memory, the files stay, and an    *)
(* archive that was not listed never will be.                              *)
Forget ==
    /\ pending' = 0
    /\ listed' = <<>>
    /\ UNCHANGED <<written, latest>>

Next == Write \/ List \/ Publish \/ Forget

Spec == Init /\ [][Next]_serviceVars
============================================================================
