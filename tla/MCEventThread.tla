---------------------------- MODULE MCEventThread ----------------------------
(* A TLC instance of EventThread: MCEventThread.cfg gives the constants. *)
EXTENDS EventThread, TLC

\* One socket receives, the other sends.
ReadOneWriteTheOther == 1 :> {{"read"}} @@ 2 :> {{"write"}}
=============================================================================
