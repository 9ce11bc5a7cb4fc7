---------------------------- MODULE MCEventSource ----------------------------
(* EventSource for TLC: model values for event sources and connections. *)
EXTENDS EventSource, TLC

Symmetry == Permutations(Sources) \cup Permutations(Connections)
=============================================================================
