-------------------------- MODULE MCEasyHLSSessions --------------------------
(* TLC instances of EasyHLSSessions: MCEasyHLSSessions_*.cfg. *)
EXTENDS EasyHLSSessions, TLC

Symmetry == Permutations(Sessions) \cup Permutations(Requests)
=============================================================================
