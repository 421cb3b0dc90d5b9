-------------------------- MODULE EventLoopThreadPool --------------------------
(***************************************************************************)
(* ladder::EventLoopThreadPool, and EventLoopThread as the pool of one.    *)
(* The constructor queues one StartLoop per loop on a ThreadPool of as     *)
(* many workers; when each is picked up is up to the scheduler.  The       *)
(* destructor stops the loops in order and joins the workers, which first  *)
(* run any StartLoop that is still queued (TaskExecutor).                  *)
(***************************************************************************)
EXTENDS EventLoop

CONSTANTS
    RequestedCapacity,          \* the constructor's argument
    kMinEventLoopThreadNum,
    Owner,                      \* the thread that destroys the pool
    MaxHandouts                 \* bound: calls of GetNextLoop

capacity ==
    IF RequestedCapacity >= kMinEventLoopThreadNum THEN RequestedCapacity
                                                   ELSE kMinEventLoopThreadNum

ASSUME PoolAssumption ==
    /\ RequestedCapacity \in Nat
    /\ kMinEventLoopThreadNum \in Nat \ {0}
    /\ Loops = 0 .. (capacity - 1)
    /\ \A l \in Loops : \E t \in Threads : LoopOf[t] = l
    /\ \A s, t \in Threads : LoopOf[s] = LoopOf[t] => s = t
    /\ Owner \in Stoppers
    /\ MaxHandouts \in Nat

VARIABLES
    stage,      \* "up", then the destructor: "stop", "join", "gone"
    next_stop,  \* the loop that Stop's iteration comes to next
    cur_idx,    \* cur_idx_
    handed      \* history: how often GetNextLoop returned each loop

poolVars == <<stage, next_stop, cur_idx, handed>>
allVars == <<vars, poolVars>>

PoolInit ==
    /\ Init
    /\ stage = "up"
    /\ next_stop = 0
    /\ cur_idx = 0
    /\ handed = [l \in Loops |-> 0]

(* The workers, and a Stop by another thread (TcpServer::Stop). *)
LoopStep ==
    /\ \/ \E t \in Threads : ThreadStep(t) \/ PollOther(t)
       \/ \E c \in Stoppers : Wakeup(c)
       \/ \E c \in Stoppers \ {Owner}, l \in Loops :
             stage = "up" /\ stops[l] + 1 < MaxStops /\ StopFlag(c, l)
    /\ UNCHANGED poolVars

Mut_GetNextLoopLateWrap ==
    /\ stage = "up"
    /\ LET i == IF cur_idx = capacity THEN 1 % capacity ELSE cur_idx IN
       /\ handed[i] < MaxHandouts
       /\ handed' = [handed EXCEPT ![i] = @ + 1]
       /\ cur_idx' = i + 1
    /\ UNCHANGED <<vars, stage, next_stop>>

(* GetNextLoop, under mutex_cur_idx_. *)
GetNextLoop ==
    /\ stage = "up"
    /\ LET i == IF cur_idx = capacity THEN 0 ELSE cur_idx IN
       /\ handed[i] < MaxHandouts
       /\ handed' = [handed EXCEPT ![i] = @ + 1]
       /\ cur_idx' = i + 1
    /\ UNCHANGED <<vars, stage, next_stop>>

(* ~EventLoopThreadPool *)
DtorBegin ==
    /\ stage = "up"
    /\ stage' = "stop"
    /\ UNCHANGED <<vars, next_stop, cur_idx, handed>>

(* StopLoop on the next loop; its Wakeup is a LoopStep. *)
DtorStopLoop ==
    /\ stage = "stop"
    /\ next_stop < capacity
    /\ StopFlag(Owner, next_stop)
    /\ next_stop' = next_stop + 1
    /\ UNCHANGED <<stage, cur_idx, handed>>

Mut_DtorStopAllButLast ==
    /\ stage = "stop"
    /\ next_stop + 1 >= capacity
    /\ waking[Owner] = {}
    /\ stage' = "join"
    /\ UNCHANGED <<vars, next_stop, cur_idx, handed>>

DtorDelete ==
    /\ stage = "stop"
    /\ next_stop = capacity
    /\ waking[Owner] = {}
    /\ stage' = "join"
    /\ UNCHANGED <<vars, next_stop, cur_idx, handed>>

(* delete pool_ returns once every StartLoop has run and returned. *)
DtorJoined ==
    /\ stage = "join"
    /\ \A t \in Threads : pc[t] = "out"
    /\ stage' = "gone"
    /\ UNCHANGED <<vars, next_stop, cur_idx, handed>>

PoolNext ==
    \/ LoopStep
    \/ GetNextLoop
    \/ DtorBegin \/ DtorStopLoop \/ DtorDelete \/ DtorJoined

PoolSpec ==
    /\ PoolInit
    /\ [][PoolNext]_allVars
    /\ \A t \in Threads :
          /\ WF_allVars(ThreadStep(t) /\ UNCHANGED poolVars)
          /\ SF_allVars(PollReady(t) /\ UNCHANGED poolVars)
    /\ \A c \in Stoppers : WF_allVars(Wakeup(c) /\ UNCHANGED poolVars)
    /\ WF_allVars(DtorStopLoop \/ DtorDelete \/ DtorJoined)

-------------------------------------------------------------------------------
(* GetNextLoop spreads connections evenly: no loop is ever two ahead of    *)
(* another, across every wrap of cur_idx_.                                 *)
HandoutsBalanced == \A i, j \in Loops : handed[i] <= handed[j] + 1

(* The destructor returns if no StopLoop overtook the StartLoop of its     *)
(* loop: a loop that was polling when it was stopped is always left.       *)
DtorReturnsUnlessEarly == stage # "up" ~> stage = "gone" \/ \E l \in Loops : early[l]
===============================================================================
