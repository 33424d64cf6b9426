--------------------------- MODULE MCLocalCapture --------------------------
(* Small instances of LocalCapture for TLC. *)
EXTENDS LocalCapture

MCRecorders == {"rec"}
MCAskers == {"snap"}

Load(modes, n, errors, f, asks) ==
    [modes |-> modes, exchanges |-> n, errors |-> errors, faults |-> f, asks |-> asks,
     inspectable |-> FALSE, streaming |-> FALSE, long |-> FALSE]

With(l, field) == [l EXCEPT ![field] = TRUE]

(* A recorder alone: two exchanges, the first an error; longer than the    *)
(* window; one that fails, with a fault and an inspector; with a gRPC      *)
(* stream.  The two commands against each other: with an exchange, with a  *)
(* fault.                                                                  *)
MCWorkloads ==
    {Load({"attach", "spawn"}, 2, {1}, 0, FALSE),
     With(Load({"attach"}, 2, {}, 0, FALSE), "long"),
     With(Load({"preload", "spawn"}, 1, {}, 0, FALSE), "long"),
     With(Load(Modes, 1, {1}, 1, FALSE), "inspectable"),
     With(Load(Modes, 1, {1}, 0, FALSE), "streaming"),
     Load({"attach"}, 1, {}, 0, TRUE),
     Load(Modes, 0, {}, 1, TRUE)}

MCOneRecorder == {Load({"attach"}, 1, {}, 0, FALSE)}
============================================================================
