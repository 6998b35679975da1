-------------------------- MODULE MCReflectorSender --------------------------
(* TLC instances of ReflectorSender: MCReflectorSender*.cfg give the constants. *)
EXTENDS ReflectorSender, TLC

Symmetry == Permutations(Outputs) \cup Permutations(Packets)
=============================================================================
