-------------------------- MODULE MCClientSessions --------------------------
(* TLC instances of ClientSessions: MCClientSessions_*.cfg give the objects. *)
EXTENDS ClientSessions, TLC

Symmetry == Permutations(RTSPSessions) \cup Permutations(RTPSessions)
=============================================================================
