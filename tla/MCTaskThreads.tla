---------------------------- MODULE MCTaskThreads ----------------------------
(* TLC instances of TaskThreads: MCTaskThreads_*.cfg give the constants. *)
EXTENDS TaskThreads, TLC

ThreadSymmetry == Permutations(ShortThreads) \cup Permutations(Signalers)

\* EventsDelivered promises nothing once the server stops: the liveness run does
\* not go on from there.
NotStopping == stopRequested = {}
=============================================================================
