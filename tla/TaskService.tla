----------------------------- MODULE TaskService -----------------------------
(***************************************************************************)
(* What the scheduler promises to the writer of a task, without threads,   *)
(* queues, heaps and locks.  Run is called for one task at a time at most, *)
(* and each call gets all the events that were signalled since the last    *)
(* one, in one step; an event that nobody has got yet is kept.  A task     *)
(* that asks to be deleted is never run again and is deleted once, outside *)
(* Run.                                                                    *)
(***************************************************************************)
CONSTANTS Tasks, Events

VARIABLES
    pending,   \* the events each task was signalled and has not got
    running,   \* the tasks inside Run
    leaving,   \* those whose last Run asked for deletion
    gone       \* those that were deleted

vars == <<pending, running, leaving, gone>>

Init ==
    /\ pending = [t \in Tasks |-> {}]
    /\ running = {} /\ leaving = {} /\ gone = {}

Signal(t, e) ==
    /\ t \notin gone
    /\ pending' = [pending EXCEPT ![t] = @ \cup {e}]
    /\ UNCHANGED <<running, leaving, gone>>

\* A timer may call Run without an event.
Begin(t) ==
    /\ t \notin running \cup leaving \cup gone
    /\ running' = running \cup {t}
    /\ pending' = [pending EXCEPT ![t] = {}]
    /\ UNCHANGED <<leaving, gone>>

End(t) ==
    /\ t \in running
    /\ running' = running \ {t}
    /\ leaving' \in {leaving, leaving \cup {t}}
    /\ UNCHANGED <<pending, gone>>

Delete(t) ==
    /\ t \in leaving
    /\ leaving' = leaving \ {t}
    /\ gone' = gone \cup {t}
    /\ UNCHANGED <<pending, running>>

Next ==
    \E t \in Tasks :
        \/ \E e \in Events : Signal(t, e)
        \/ Begin(t) \/ End(t) \/ Delete(t)

Spec == Init /\ [][Next]_vars
=============================================================================
