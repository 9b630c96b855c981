----------------------------- MODULE MCPolling ------------------------------
(* Polling.tla for TLC: the parser threads are interchangeable. *)
EXTENDS Polling, TLC

Symmetry == Permutations(Parsers)

=============================================================================
