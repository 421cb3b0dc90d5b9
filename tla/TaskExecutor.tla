----------------------------- MODULE TaskExecutor -----------------------------
(***************************************************************************)
(* What a task pool promises its users, with no thread, lock or condition  *)
(* variable in sight.  A task is submitted once, waits its turn in a FIFO  *)
(* queue, runs, and finishes.  The executor closes only when nothing is    *)
(* left to run.  ThreadPool.tla is shown to implement this specification.  *)
(***************************************************************************)
EXTENDS Sequences

CONSTANT Tasks  \* the callables that users submit, each at most once

VARIABLES
    submitted,  \* the tasks accepted so far
    pending,    \* accepted and not yet started, in order of acceptance
    running,    \* started and not yet finished
    finished,   \* run to the end
    closed      \* the executor is gone

vars == <<submitted, pending, running, finished, closed>>

Init ==
    /\ submitted = {}
    /\ pending = <<>>
    /\ running = {}
    /\ finished = {}
    /\ closed = FALSE

Submit(t) ==
    /\ ~closed
    /\ t \notin submitted
    /\ submitted' = submitted \cup {t}
    /\ pending' = Append(pending, t)
    /\ UNCHANGED <<running, finished, closed>>

Start ==
    /\ pending # <<>>
    /\ running' = running \cup {Head(pending)}
    /\ pending' = Tail(pending)
    /\ UNCHANGED <<submitted, finished, closed>>

Finish(t) ==
    /\ t \in running
    /\ running' = running \ {t}
    /\ finished' = finished \cup {t}
    /\ UNCHANGED <<submitted, pending, closed>>

(* Closing is allowed only once every accepted task has finished. *)
Close ==
    /\ ~closed
    /\ finished = submitted
    /\ closed' = TRUE
    /\ UNCHANGED <<submitted, pending, running, finished>>

Next ==
    \/ \E t \in Tasks : Submit(t) \/ Finish(t)
    \/ Start
    \/ Close

(* The safety part, which ThreadsProofs shows the pool implements. *)
SafeSpec == Init /\ [][Next]_vars

Spec ==
    /\ SafeSpec
    /\ WF_vars(Start)
    /\ \A t \in Tasks : WF_vars(Finish(t))
===============================================================================
