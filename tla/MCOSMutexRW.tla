---------------------------- MODULE MCOSMutexRW ----------------------------
(* TLC instances of OSMutexRW: MCOSMutexRW_*.cfg give the threads. *)
EXTENDS OSMutexRW
=============================================================================
