---------------------------- MODULE MCInspector ----------------------------
(* Small instances of Inspector for TLC. *)
EXTENDS Inspector

Ours == {"node", "root", "server"}    \* 65: in the capture root
Moved == {"node", "base"}             \* 15: accepted only as a new target
Plain == {"node"}                     \* 10: some Node process
Alike == {"node", "server"}           \* 25: passes for a backend

NextJS == {"node", "next"}            \* -1: a frontend that is recognised

Meets(first, other, backend, frontend, tool, can, pre) ==
    [listing |-> [p \in Ports |-> IF p = MinPort THEN first ELSE other],
     look |-> [q \in Procs |-> CASE q = Backend -> backend
                                 [] q = Frontend -> frontend
                                 [] OTHER -> tool],
     features |-> can, preload |-> pre]

(* A process with a weak entry, listed all along; a recognised frontend on *)
(* the default port and weak entries that are new; Node without the        *)
(* Network domain beside a frontend that is not recognised and passes for  *)
(* a backend; Node without diagnostics_channel; a process that passes for  *)
(* the backend.                                                            *)
MCScenarios ==
    {Meets(Nobody, Tool, Ours, NextJS, Moved, {"hook", "network"}, FALSE),
     Meets(Frontend, Nobody, Moved, NextJS, Moved, {"hook", "network"}, TRUE),
     Meets(Frontend, Backend, Ours, Alike, Plain, {"hook"}, TRUE),
     Meets(Backend, Tool, Ours, NextJS, Alike, {"network", "script"}, FALSE),
     Meets(Tool, Nobody, Ours, NextJS, Alike, {"hook", "network"}, TRUE)}
============================================================================
