---------------------------- MODULE MCCollector ----------------------------
(* Small instances of Collector for TLC. *)
EXTENDS Collector, TLC

(* Streams run the same code on events of their own: they may be permuted. *)
StreamSymmetry == Permutations(Streams)
============================================================================
