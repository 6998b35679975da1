------------------------ MODULE MCReflectorSessions ------------------------
(* TLC instances of ReflectorSessions. *)
EXTENDS ReflectorSessions, TLC

SessionSymmetry ==
    Permutations(Sessions) \cup Permutations(Broadcasters) \cup
    Permutations(Players) \cup Permutations(Streams)
=============================================================================
