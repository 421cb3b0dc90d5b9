------------------------------- MODULE EventLoop -------------------------------
(***************************************************************************)
(* ladder::EventLoop with its EventPoller and wakeup Pipe (epoll build).   *)
(* A thread runs StartLoop on one loop; other threads call StopLoop.  The  *)
(* pipe is registered level-triggered, so Poll reports it for as long as   *)
(* it holds a byte; HandleEvents reads one byte.  The while condition      *)
(* reads running_ without the lock that guards its writes.                 *)
(***************************************************************************)
EXTENDS Naturals, FiniteSets

CONSTANTS
    Loops,
    Threads,        \* the threads that call StartLoop, once each
    LoopOf,         \* the loop that each of them runs
    Stoppers,       \* the threads that call StopLoop
    PipeCapacity,   \* bytes the pipe holds before a write fails with EAGAIN
    MaxStops        \* bound: calls of StopLoop per loop

ASSUME LoopAssumption ==
    /\ IsFiniteSet(Threads)
    /\ LoopOf \in [Threads -> Loops]
    /\ PipeCapacity \in Nat \ {0}
    /\ MaxStops \in Nat

VARIABLES
    running,    \* running_ of each loop
    pipe,       \* bytes in each loop's wakeup pipe
    pc,         \* where each StartLoop thread is
    woken,      \* whether its last Poll returned the pipe's channel
    waking,     \* the loops a stopper has flagged and not yet woken
    stops,      \* history: StopLoop calls on each loop
    early       \* history: a StopLoop came before the loop's StartLoop

vars == <<running, pipe, pc, woken, waking, stops, early>>

InLoop(l) == {t \in Threads : LoopOf[t] = l /\ pc[t] \in {"test", "poll", "handle"}}

Init ==
    /\ running = [l \in Loops |-> FALSE]
    /\ pipe = [l \in Loops |-> 0]
    /\ pc = [t \in Threads |-> "new"]
    /\ woken = [t \in Threads |-> FALSE]
    /\ waking = [c \in Stoppers |-> {}]
    /\ stops = [l \in Loops |-> 0]
    /\ early = [l \in Loops |-> FALSE]

-------------------------------------------------------------------------------
Mut_BeginUnguarded(t) ==
    LET l == LoopOf[t] IN
    /\ pc[t] = "new"
    /\ running' = [running EXCEPT ![l] = TRUE]
    /\ pc' = [pc EXCEPT ![t] = "test"]
    /\ UNCHANGED <<pipe, woken, waking, stops, early>>

(* StartLoop up to the while: return at once if the loop is running. *)
Begin(t) ==
    LET l == LoopOf[t] IN
    /\ pc[t] = "new"
    /\ running' = [running EXCEPT ![l] = TRUE]
    /\ pc' = [pc EXCEPT ![t] = IF running[l] THEN "out" ELSE "test"]
    /\ UNCHANGED <<pipe, woken, waking, stops, early>>

Mut_TestHoisted(t) ==
    /\ pc[t] = "test"
    /\ pc' = [pc EXCEPT ![t] = "poll"]
    /\ UNCHANGED <<running, pipe, woken, waking, stops, early>>

(* while (running_) *)
Test(t) ==
    /\ pc[t] = "test"
    /\ pc' = [pc EXCEPT ![t] = IF running[LoopOf[t]] THEN "poll" ELSE "out"]
    /\ UNCHANGED <<running, pipe, woken, waking, stops, early>>

(* epoll_wait returns with the pipe among the ready channels. *)
PollReady(t) ==
    /\ pc[t] = "poll"
    /\ pipe[LoopOf[t]] > 0
    /\ woken' = [woken EXCEPT ![t] = TRUE]
    /\ pc' = [pc EXCEPT ![t] = "handle"]
    /\ UNCHANGED <<running, pipe, waking, stops, early>>

(* epoll_wait returns without the pipe: it timed out, it was interrupted   *)
(* (EINTR), or the kPollLimit events it returned are of other channels.    *)
PollOther(t) ==
    /\ pc[t] = "poll"
    /\ woken' = [woken EXCEPT ![t] = FALSE]
    /\ pc' = [pc EXCEPT ![t] = "handle"]
    /\ UNCHANGED <<running, pipe, waking, stops, early>>

(* HandleEvents of the active channels; the pipe's reads one byte, or none *)
(* if another thread was faster.                                           *)
Handle(t) ==
    LET l == LoopOf[t] IN
    /\ pc[t] = "handle"
    /\ pipe' = IF woken[t] /\ pipe[l] > 0 THEN [pipe EXCEPT ![l] = @ - 1] ELSE pipe
    /\ pc' = [pc EXCEPT ![t] = "test"]
    /\ UNCHANGED <<running, woken, waking, stops, early>>

-------------------------------------------------------------------------------
Mut_StopFlagNoWakeup(c, l) ==
    /\ waking[c] = {}
    /\ stops[l] < MaxStops
    /\ running' = [running EXCEPT ![l] = FALSE]
    /\ stops' = [stops EXCEPT ![l] = @ + 1]
    /\ UNCHANGED <<pipe, pc, woken, waking, early>>

(* The locked part of StopLoop. *)
StopFlag(c, l) ==
    /\ waking[c] = {}
    /\ stops[l] < MaxStops
    /\ running' = [running EXCEPT ![l] = FALSE]
    /\ waking' = [waking EXCEPT ![c] = {l}]
    /\ stops' = [stops EXCEPT ![l] = @ + 1]
    /\ early' = [early EXCEPT ![l] = @ \/ \E t \in Threads : LoopOf[t] = l /\ pc[t] = "new"]
    /\ UNCHANGED <<pipe, pc, woken>>

(* StopLoop's Wakeup: one byte into the non-blocking pipe, dropped when    *)
(* the pipe is full.                                                       *)
Wakeup(c) ==
    \E l \in waking[c] :
        /\ pipe' = [pipe EXCEPT ![l] = IF @ < PipeCapacity THEN @ + 1 ELSE @]
        /\ waking' = [waking EXCEPT ![c] = {}]
        /\ UNCHANGED <<running, pc, woken, stops, early>>

ThreadStep(t) == Begin(t) \/ Test(t) \/ PollReady(t) \/ Handle(t)

Next ==
    \/ \E t \in Threads : ThreadStep(t) \/ PollOther(t)
    \/ \E c \in Stoppers : Wakeup(c) \/ \E l \in Loops : StopFlag(c, l)

SafeSpec == Init /\ [][Next]_vars

(* Threads are scheduled, and epoll_wait, which takes ready channels in    *)
(* turn, does not leave a readable pipe out forever.  No time-out is       *)
(* relied on: a stop must be noticed because of the wakeup.                *)
Spec ==
    /\ SafeSpec
    /\ \A t \in Threads : WF_vars(ThreadStep(t)) /\ SF_vars(PollReady(t))
    /\ \A c \in Stoppers : WF_vars(Wakeup(c))

(* epoll_wait also gives up after a second. *)
TimeoutSpec == Spec /\ \A t \in Threads : WF_vars(PollOther(t))

-------------------------------------------------------------------------------
(* The type invariant: the pipe never holds more than its capacity. *)
TypeOK ==
    /\ running \in [Loops -> BOOLEAN]
    /\ pipe \in [Loops -> 0 .. PipeCapacity]
    /\ pc \in [Threads -> {"new", "test", "poll", "handle", "out"}]
    /\ woken \in [Threads -> BOOLEAN]
    /\ waking \in [Stoppers -> SUBSET Loops]
    /\ stops \in [Loops -> 0 .. MaxStops]
    /\ early \in [Loops -> BOOLEAN]

(* StartLoop's running_ test keeps a second thread out, but a StopLoop     *)
(* re-opens the loop before the first thread has noticed it.  Two threads  *)
(* poll one loop only if it was stopped, and never more than one per stop. *)
RunnersBounded ==
    \A l \in Loops :
        Cardinality(InLoop(l)) <= stops[l] + (IF running[l] THEN 1 ELSE 0)

(* A stop is not missed between the test of running_ and epoll_wait: when  *)
(* the loop's thread is about to block on a stopped loop, the wakeup byte  *)
(* is in the pipe or about to be.  Holds with one thread per loop, as      *)
(* EventLoopThread and EventLoopThreadPool use it.                         *)
StopIsSignalled ==
    \A t \in Threads :
        pc[t] = "poll" /\ ~running[LoopOf[t]] =>
            \/ pipe[LoopOf[t]] > 0
            \/ \E c \in Stoppers : LoopOf[t] \in waking[c]

(* A loop that is stopped and not started again is left by its threads.    *)
StoppedLoopEnds ==
    \A l \in Loops : <>[](~running[l]) => <>[](InLoop(l) = {})
===============================================================================
