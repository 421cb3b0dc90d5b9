------------------------------ MODULE ThreadPool ------------------------------
(***************************************************************************)
(* ladder::ThreadPool: a fixed set of worker threads that share one FIFO   *)
(* queue under mutex_, and one condition variable.  A critical section of  *)
(* mutex_ is one step; notify_one and notify_all are steps of their own,   *)
(* since the code calls them after unlocking.  std::condition_variable may *)
(* wake a waiter for no reason, so a spurious wakeup is a step too.        *)
(***************************************************************************)
EXTENDS Naturals, Sequences, FiniteSets

CONSTANTS
    Workers,    \* threads_
    Clients,    \* other threads that hold the pool and call emplace
    Tasks,      \* the non-null callables; each is emplaced at most once
    NoTask      \* a worker's cur_task before its first task

ASSUME TaskAssumption ==
    /\ Workers # {}
    /\ IsFiniteSet(Workers)
    /\ IsFiniteSet(Clients)
    /\ Workers \cap Clients = {}
    /\ NoTask \notin Tasks

VARIABLES
    stopped,    \* stopped_
    tasks,      \* tasks_
    state,      \* what each worker is doing
    cur,        \* each worker's cur_task
    notifying,  \* threads between emplace's unlock and its notify_one
    dtor,       \* progress of ~ThreadPool
    accepted,   \* history: tasks that emplace has queued
    done        \* history: tasks that have returned

taskVars == <<stopped, tasks, state, cur, notifying, dtor, accepted, done>>

Callers == Clients \cup Workers
Waiting == {w \in Workers : state[w] = "wait"}
Looking == {w \in Workers : state[w] = "look"}
Running == {w \in Workers : state[w] = "run"}
Queued  == {tasks[i] : i \in DOMAIN tasks}

TaskInit ==
    /\ stopped = FALSE
    /\ tasks = <<>>
    /\ state = [w \in Workers |-> "look"]
    /\ cur = [w \in Workers |-> NoTask]
    /\ notifying = {}
    /\ dtor = "none"
    /\ accepted = {}
    /\ done = {}

-------------------------------------------------------------------------------
(* A client may call emplace until the owner starts the destructor; a task *)
(* may call it for as long as it runs, the drain of ~ThreadPool included.  *)
MayCall(c) ==
    /\ c \notin notifying
    /\ \/ c \in Clients /\ dtor = "none"
       \/ c \in Running

Mut_EmplaceNoNotify(c, t) ==
    /\ MayCall(c)
    /\ t \notin accepted
    /\ tasks' = Append(tasks, t)
    /\ accepted' = accepted \cup {t}
    /\ UNCHANGED <<stopped, state, cur, notifying, dtor, done>>

Mut_EmplaceAtFront(c, t) ==
    /\ MayCall(c)
    /\ t \notin accepted
    /\ tasks' = <<t>> \o tasks
    /\ accepted' = accepted \cup {t}
    /\ notifying' = notifying \cup {c}
    /\ UNCHANGED <<stopped, state, cur, dtor, done>>

(* The locked part of emplace.  A null callable returns before it. *)
Emplace(c, t) ==
    /\ MayCall(c)
    /\ t \notin accepted
    /\ tasks' = Append(tasks, t)
    /\ accepted' = accepted \cup {t}
    /\ notifying' = notifying \cup {c}
    /\ UNCHANGED <<stopped, state, cur, dtor, done>>

(* condition_.notify_one() wakes one waiter if there is one, and is lost   *)
(* otherwise.                                                              *)
NotifyOne(c) ==
    /\ c \in notifying
    /\ notifying' = notifying \ {c}
    /\ \/ \E w \in Waiting : state' = [state EXCEPT ![w] = "look"]
       \/ Waiting = {} /\ state' = state
    /\ UNCHANGED <<stopped, tasks, cur, dtor, accepted, done>>

-------------------------------------------------------------------------------
(* The worker loop.  "look": about to take mutex_ and test the predicate.  *)

Take(w) ==
    /\ state[w] = "look"
    /\ tasks # <<>>
    /\ state' = [state EXCEPT ![w] = "run"]
    /\ cur' = [cur EXCEPT ![w] = Head(tasks)]
    /\ tasks' = Tail(tasks)
    /\ UNCHANGED <<stopped, notifying, dtor, accepted, done>>

Wait(w) ==
    /\ state[w] = "look"
    /\ ~stopped
    /\ tasks = <<>>
    /\ state' = [state EXCEPT ![w] = "wait"]
    /\ UNCHANGED <<stopped, tasks, cur, notifying, dtor, accepted, done>>

SpuriousWakeup(w) ==
    /\ state[w] = "wait"
    /\ state' = [state EXCEPT ![w] = "look"]
    /\ UNCHANGED <<stopped, tasks, cur, notifying, dtor, accepted, done>>

Leave(w) ==
    /\ state[w] = "look"
    /\ stopped
    /\ tasks = <<>>
    /\ state' = [state EXCEPT ![w] = "exit"]
    /\ UNCHANGED <<stopped, tasks, cur, notifying, dtor, accepted, done>>

(* cur_task() returns.  The callable itself stays in cur_task until the    *)
(* worker takes its next task or leaves.                                   *)
Return(w) ==
    /\ state[w] = "run"
    /\ w \notin notifying
    /\ state' = [state EXCEPT ![w] = "look"]
    /\ done' = done \cup {cur[w]}
    /\ UNCHANGED <<stopped, tasks, cur, notifying, dtor, accepted>>

-------------------------------------------------------------------------------
(* ~ThreadPool, on the owner's thread.  No client is inside emplace then:  *)
(* the owner must see to that before it destroys the object.               *)
DtorStop ==
    /\ dtor = "none"
    /\ notifying \cap Clients = {}
    /\ stopped' = TRUE
    /\ dtor' = "notify"
    /\ UNCHANGED <<tasks, state, cur, notifying, accepted, done>>

Mut_DtorNotifyOne ==
    /\ dtor = "notify"
    /\ dtor' = "join"
    /\ \/ \E w \in Waiting : state' = [state EXCEPT ![w] = "look"]
       \/ Waiting = {} /\ state' = state
    /\ UNCHANGED <<stopped, tasks, cur, notifying, accepted, done>>

DtorNotifyAll ==
    /\ dtor = "notify"
    /\ dtor' = "join"
    /\ state' = [w \in Workers |-> IF state[w] = "wait" THEN "look" ELSE state[w]]
    /\ UNCHANGED <<stopped, tasks, cur, notifying, accepted, done>>

(* The joins, one after the other, end when every worker has left. *)
DtorJoin ==
    /\ dtor = "join"
    /\ \A w \in Workers : state[w] = "exit"
    /\ dtor' = "gone"
    /\ UNCHANGED <<stopped, tasks, state, cur, notifying, accepted, done>>

-------------------------------------------------------------------------------
WorkerStep(w) == Take(w) \/ Wait(w) \/ Leave(w) \/ Return(w)

TaskNext ==
    \/ \E c \in Callers : NotifyOne(c) \/ \E t \in Tasks : Emplace(c, t)
    \/ \E w \in Workers : WorkerStep(w) \/ SpuriousWakeup(w)
    \/ DtorStop \/ DtorNotifyAll \/ DtorJoin

TaskSafeSpec == TaskInit /\ [][TaskNext]_taskVars

(* Every thread that can run is scheduled, and every task returns.  Nobody *)
(* need call emplace or destroy the pool, and no wakeup need be spurious.  *)
TaskSpec ==
    /\ TaskSafeSpec
    /\ \A w \in Workers : WF_taskVars(WorkerStep(w))
    /\ \A c \in Callers : WF_taskVars(NotifyOne(c))
    /\ WF_taskVars(DtorNotifyAll \/ DtorJoin)

-------------------------------------------------------------------------------
(* The type invariant of the pool; a worker at work has a task. *)
TaskTypeOK ==
    /\ stopped \in BOOLEAN
    /\ tasks \in Seq(Tasks)
    /\ state \in [Workers -> {"look", "wait", "run", "exit"}]
    /\ cur \in [Workers -> Tasks \cup {NoTask}]
    /\ \A w \in Running : cur[w] \in Tasks
    /\ notifying \in SUBSET Callers
    /\ dtor \in {"none", "notify", "join", "gone"}
    /\ accepted \in SUBSET Tasks
    /\ done \in SUBSET Tasks

(* Every task that emplace queued is in exactly one place: once in tasks_, *)
(* on exactly one worker, or returned.  No interleaving of the workers     *)
(* drops a task or runs one twice.                                         *)
ExactlyOnce ==
    /\ \A i, j \in DOMAIN tasks : tasks[i] = tasks[j] => i = j
    /\ \A v, w \in Running : cur[v] = cur[w] => v = w
    /\ \A w \in Running : cur[w] \notin Queued \cup done
    /\ Queued \cap done = {}
    /\ accepted = Queued \cup done \cup {cur[w] : w \in Running}

(* No lost wakeup: while some worker sleeps in condition_.wait, every      *)
(* queued task has a worker on its way to look at the queue, or a          *)
(* notify_one that is still to be called.  So a task never waits behind a  *)
(* busy worker while another one sleeps for good.                          *)
NoStrandedTask ==
    Waiting # {} => Len(tasks) <= Cardinality(Looking) + Cardinality(notifying)

(* ~ThreadPool drains: once the joins have returned, every task ever       *)
(* queued has run to its end, those queued by other tasks during the drain *)
(* included.                                                               *)
DrainedWhenGone == dtor = "gone" => tasks = <<>> /\ done = accepted

(* A destructor that has started returns: no worker sleeps through it. *)
DtorReturns == dtor # "none" ~> dtor = "gone"

(* The pool implements the executor that its users rely on. *)
Executor == INSTANCE TaskExecutor WITH
    submitted <- accepted,
    pending <- tasks,
    running <- {cur[w] : w \in Running},
    finished <- done,
    closed <- (dtor = "gone")

ImplementsExecutor == Executor!Spec
===============================================================================
