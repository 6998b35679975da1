---------------------------- MODULE MCThreadPool ----------------------------
(* The TLC instance of ThreadPool: MCThreadPool.cfg gives the constants. *)
EXTENDS ThreadPool
=============================================================================
