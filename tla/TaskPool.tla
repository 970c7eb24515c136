------------------------------ MODULE TaskPool ------------------------------
(***************************************************************************)
(* What the rest of the kernel assumes of the scheduler: a pool of tasks,  *)
(* any ready one of which may be polled next, no task polled twice at the  *)
(* same time, and every ready task polled eventually.  The FIFO executor   *)
(* of crates/executor implements it (module Executor); the other modules   *)
(* of this project use exactly this contract, "weak fairness per task".    *)
(***************************************************************************)
CONSTANT Task

VARIABLES ready,    \* tasks whose future waits to be polled
          polling,  \* tasks whose future is being polled
          ended     \* tasks that will never be polled (again)

vars == <<ready, polling, ended>>

Init == ready \in SUBSET Task /\ polling = {} /\ ended = {}

Add(t) ==
    /\ t \notin ready \cup polling \cup ended
    /\ ready' = ready \cup {t}
    /\ UNCHANGED <<polling, ended>>

Poll(t) ==
    /\ t \in ready
    /\ ready' = ready \ {t}
    /\ polling' = polling \cup {t}
    /\ UNCHANGED ended

Requeue(t) ==
    /\ t \in polling
    /\ polling' = polling \ {t}
    /\ ready' = ready \cup {t}
    /\ UNCHANGED ended

Finish(t) ==
    /\ t \in polling
    /\ polling' = polling \ {t}
    /\ ended' = ended \cup {t}
    /\ UNCHANGED ready

\* A task object that is dropped before it was ever spawned.
Discard(t) ==
    /\ t \notin ready \cup polling \cup ended
    /\ ended' = ended \cup {t}
    /\ UNCHANGED <<ready, polling>>

Next == \E t \in Task : Add(t) \/ Poll(t) \/ Requeue(t) \/ Finish(t) \/ Discard(t)

Fairness ==
    \A t \in Task : WF_vars(Poll(t)) /\ WF_vars(Requeue(t) \/ Finish(t))

Safety == Init /\ [][Next]_vars

Spec == Safety /\ Fairness
=============================================================================
