---------------------------- MODULE ThreadsProofs -----------------------------
(***************************************************************************)
(* The threads that run everything else: EventLoop for any loops, threads, *)
(* stoppers and bounds, EventLoopThreadPool for any capacity, and ThreadPool*)
(* for any number of workers, clients and tasks.  The facts about a loop do*)
(* not use PoolAssumption.                                                 *)
(***************************************************************************)
EXTENDS EventLoopThreadPool, ThreadPool, FiniteSetTheorems, SequenceTheorems, TLAPS

-------------------------------------------------------------------------------
(* EventLoop and EventLoopThreadPool.                                      *)

(* The loops begin well typed, ... *)
LEMMA TypeInit == Init => TypeOK
  BY LoopAssumption DEF Init, TypeOK

(* ... and every step of StartLoop and StopLoop keeps them so. *)
LEMMA TypeStep == TypeOK /\ [Next]_vars => TypeOK'
<1> SUFFICES ASSUME TypeOK, [Next]_vars PROVE TypeOK'
  OBVIOUS
<1> USE LoopAssumption DEF TypeOK
<1>1. ASSUME NEW t \in Threads, Begin(t) PROVE TypeOK'
  BY <1>1 DEF Begin
<1>2. ASSUME NEW t \in Threads, Test(t) PROVE TypeOK'
  BY <1>2 DEF Test
<1>3. ASSUME NEW t \in Threads, PollReady(t) \/ PollOther(t) PROVE TypeOK'
  BY <1>3, Zenon DEF PollReady, PollOther
<1>4. ASSUME NEW t \in Threads, Handle(t) PROVE TypeOK'
  BY <1>4 DEF Handle
<1>5. ASSUME NEW c \in Stoppers, NEW l \in Loops, StopFlag(c, l) PROVE TypeOK'
  BY <1>5 DEF StopFlag
<1>6. ASSUME NEW c \in Stoppers, Wakeup(c) PROVE TypeOK'
  BY <1>6 DEF Wakeup
<1>7. CASE UNCHANGED vars
  BY <1>7 DEF vars
<1> QED
  BY <1>1, <1>2, <1>3, <1>4, <1>5, <1>6, <1>7 DEF Next, ThreadStep

(* Every variable of the loops keeps its type. *)
THEOREM LoopTypeCorrect == SafeSpec => []TypeOK
  BY TypeInit, TypeStep, PTL DEF SafeSpec

-------------------------------------------------------------------------------
(* The threads inside a loop are finitely many. *)
LEMMA InLoopFinite ==
    ASSUME NEW l \in Loops
    PROVE  IsFiniteSet(InLoop(l)) /\ Cardinality(InLoop(l)) \in Nat
  BY LoopAssumption, FS_Subset, FS_CardinalityType DEF InLoop

(* No step but Begin and Test changes who is inside. *)
LEMMA InLoopSame ==
    ASSUME TypeOK, NEW l \in Loops,
           \/ \E t \in Threads : PollReady(t) \/ PollOther(t) \/ Handle(t)
           \/ UNCHANGED pc
    PROVE  InLoop(l)' = InLoop(l)
  BY DEF InLoop, PollReady, PollOther, Handle, TypeOK

(* Only Begin lets a thread in, and only when running_ was false. *)
LEMMA RunnersStep == TypeOK /\ RunnersBounded /\ [Next]_vars => RunnersBounded'
<1> SUFFICES ASSUME TypeOK, RunnersBounded, [Next]_vars, NEW l \in Loops
             PROVE  Cardinality(InLoop(l)') <= stops'[l] + (IF running'[l] THEN 1 ELSE 0)
  BY DEF RunnersBounded, InLoop
<1> DEFINE n == Cardinality(InLoop(l))
<1>0. /\ n \in Nat /\ IsFiniteSet(InLoop(l)) /\ stops[l] \in Nat
      /\ running[l] \in BOOLEAN
      /\ n <= stops[l] + (IF running[l] THEN 1 ELSE 0)
  BY InLoopFinite, LoopAssumption DEF TypeOK, RunnersBounded
<1>1. ASSUME NEW t \in Threads, Begin(t)
      PROVE  Cardinality(InLoop(l)') <= stops'[l] + (IF running'[l] THEN 1 ELSE 0)
  <2>1. stops' = stops
    BY <1>1 DEF Begin
  <2>2. CASE LoopOf[t] = l /\ ~running[l]
    <3>1. running'[l] = TRUE
      BY <1>1, <2>2 DEF Begin, TypeOK
    <3>2. InLoop(l)' = InLoop(l) \cup {t} /\ t \notin InLoop(l)
      BY <1>1, <2>2 DEF Begin, InLoop, TypeOK
    <3>3. Cardinality(InLoop(l)') = n + 1
      BY <1>0, <3>2, FS_AddElement, Zenon
    <3> QED
      BY <1>0, <2>1, <2>2, <3>1, <3>3
  <2>3. CASE LoopOf[t] # l \/ running[l]
    <3>1. running'[l] = running[l]
      BY <1>1, <2>3, LoopAssumption, Zenon DEF Begin, TypeOK
    <3>2. InLoop(l)' = InLoop(l)
      BY <1>1, <2>3 DEF Begin, InLoop, TypeOK
    <3> QED
      BY <1>0, <2>1, <3>1, <3>2
  <2> QED
    BY <2>2, <2>3
<1>2. ASSUME NEW t \in Threads, Test(t)
      PROVE  Cardinality(InLoop(l)') <= stops'[l] + (IF running'[l] THEN 1 ELSE 0)
  <2>1. InLoop(l)' \subseteq InLoop(l) /\ UNCHANGED <<stops, running>>
    BY <1>2 DEF Test, InLoop, TypeOK
  <2>2. Cardinality(InLoop(l)') <= n /\ Cardinality(InLoop(l)') \in Nat
    BY <1>0, <2>1, FS_Subset, FS_CardinalityType
  <2> QED
    BY <1>0, <2>1, <2>2
<1>3. CASE (\E t \in Threads : PollReady(t) \/ PollOther(t) \/ Handle(t)) \/ UNCHANGED vars
  <2>1. InLoop(l)' = InLoop(l)
    BY <1>3, InLoopSame DEF vars
  <2>2. UNCHANGED <<stops, running>>
    BY <1>3 DEF PollReady, PollOther, Handle, vars
  <2> QED
    BY <1>0, <2>1, <2>2
<1>4. ASSUME NEW c \in Stoppers, NEW k \in Loops, StopFlag(c, k)
      PROVE  Cardinality(InLoop(l)') <= stops'[l] + (IF running'[l] THEN 1 ELSE 0)
  <2>1. InLoop(l)' = InLoop(l)
    BY <1>4, InLoopSame DEF StopFlag
  <2>2. /\ k = l => stops'[l] = stops[l] + 1 /\ running'[l] = FALSE
        /\ k # l => stops'[l] = stops[l] /\ running'[l] = running[l]
    BY <1>4, Zenon DEF StopFlag, TypeOK
  <2> QED
    BY <1>0, <2>1, <2>2
<1>5. ASSUME NEW c \in Stoppers, Wakeup(c)
      PROVE  Cardinality(InLoop(l)') <= stops'[l] + (IF running'[l] THEN 1 ELSE 0)
  <2>1. InLoop(l)' = InLoop(l) /\ UNCHANGED <<stops, running>>
    BY <1>5, InLoopSame DEF Wakeup
  <2> QED
    BY <1>0, <2>1
<1> QED
  BY <1>1, <1>2, <1>3, <1>4, <1>5 DEF Next, ThreadStep

(* A loop is polled by one thread, and by one more for each StopLoop. *)
THEOREM LoopRunnersBounded == SafeSpec => []RunnersBounded
<1>1. Init => RunnersBounded
  <2> SUFFICES ASSUME Init, NEW l \in Loops PROVE Cardinality(InLoop(l)) <= stops[l]
    BY DEF RunnersBounded, Init
  <2>1. InLoop(l) = {}
    BY DEF Init, InLoop
  <2> QED
    BY <2>1, FS_EmptySet DEF Init
<1> QED
  BY <1>1, RunnersStep, LoopTypeCorrect, PTL DEF SafeSpec

-------------------------------------------------------------------------------
(* A stopper is between the lock and the wakeup of at most one loop. *)
OneWakeupAtATime == \A c \in Stoppers : \A k, l \in waking[c] : k = l

OneThreadPerLoop == \A s, t \in Threads : LoopOf[s] = LoopOf[t] => s = t

(* No step of StartLoop or StopLoop makes a stop go unnoticed. *)
LEMMA SignalledStep ==
    ASSUME OneThreadPerLoop, TypeOK, OneWakeupAtATime, StopIsSignalled, [Next]_vars
    PROVE  OneWakeupAtATime' /\ StopIsSignalled'
<1> USE LoopAssumption DEF TypeOK, OneWakeupAtATime, StopIsSignalled, OneThreadPerLoop
<1>1. ASSUME NEW t \in Threads, Begin(t) PROVE OneWakeupAtATime' /\ StopIsSignalled'
  BY <1>1 DEF Begin
<1>2. ASSUME NEW t \in Threads, Test(t) PROVE OneWakeupAtATime' /\ StopIsSignalled'
  BY <1>2 DEF Test
<1>3. ASSUME NEW t \in Threads, PollReady(t) \/ PollOther(t)
      PROVE  OneWakeupAtATime' /\ StopIsSignalled'
  BY <1>3 DEF PollReady, PollOther
<1>4. ASSUME NEW t \in Threads, Handle(t) PROVE OneWakeupAtATime' /\ StopIsSignalled'
  BY <1>4 DEF Handle
<1>5. ASSUME NEW c \in Stoppers, NEW l \in Loops, StopFlag(c, l)
      PROVE  OneWakeupAtATime' /\ StopIsSignalled'
  BY <1>5 DEF StopFlag
<1>6. ASSUME NEW c \in Stoppers, Wakeup(c) PROVE OneWakeupAtATime' /\ StopIsSignalled'
  BY <1>6 DEF Wakeup
<1>7. CASE UNCHANGED vars
  BY <1>7 DEF vars
<1> QED
  BY <1>1, <1>2, <1>3, <1>4, <1>5, <1>6, <1>7 DEF Next, ThreadStep

(* With one thread per loop, a stop cannot be missed between the test of   *)
(* running_ and epoll_wait: the wakeup byte is there or on its way.        *)
THEOREM LoopStopIsSignalled ==
    ASSUME OneThreadPerLoop
    PROVE  SafeSpec => []StopIsSignalled
<1>1. Init => OneWakeupAtATime /\ StopIsSignalled
  BY DEF Init, OneWakeupAtATime, StopIsSignalled
<1>2. TypeOK /\ OneWakeupAtATime /\ StopIsSignalled /\ [Next]_vars
        => OneWakeupAtATime' /\ StopIsSignalled'
  BY SignalledStep
<1> QED
  BY <1>1, <1>2, LoopTypeCorrect, PTL DEF SafeSpec
-------------------------------------------------------------------------------
(* GetNextLoop deals the loops out in turn: those below cur_idx_ have been *)
(* handed out once more often than the others.                             *)
InTurn ==
    /\ cur_idx \in 0 .. capacity
    /\ \E n \in Nat : handed = [l \in Loops |-> IF l < cur_idx THEN n + 1 ELSE n]

(* The destructor's iteration stays within the loops. *)
StopsWithin == next_stop \in 0 .. capacity

LEMMA CapacityType == capacity \in Nat \ {0} /\ Loops = 0 .. (capacity - 1)
  BY PoolAssumption DEF capacity

(* The pool begins with nothing handed out, ... *)
LEMMA PoolInitially == PoolInit => InTurn /\ StopsWithin
<1> SUFFICES ASSUME PoolInit PROVE InTurn /\ StopsWithin
  OBVIOUS
<1>1. handed = [l \in Loops |-> IF l < cur_idx THEN 0 + 1 ELSE 0]
  BY CapacityType DEF PoolInit
<1> QED
  BY <1>1, CapacityType DEF PoolInit, InTurn, StopsWithin

(* ... and GetNextLoop, wrapping or not, keeps the turn. *)
LEMMA TurnStep == InTurn /\ StopsWithin /\ [PoolNext]_allVars => InTurn' /\ StopsWithin'
<1> SUFFICES ASSUME InTurn, StopsWithin, [PoolNext]_allVars PROVE InTurn' /\ StopsWithin'
  OBVIOUS
<1>1. CASE GetNextLoop
  <2>1. PICK n \in Nat : handed = [l \in Loops |-> IF l < cur_idx THEN n + 1 ELSE n]
    BY DEF InTurn
  <2>2. StopsWithin' /\ cur_idx \in 0 .. capacity
    BY <1>1 DEF GetNextLoop, StopsWithin, InTurn
  <2>3. CASE cur_idx = capacity
    <3>1. cur_idx' = 1 /\ handed' = [handed EXCEPT ![0] = @ + 1]
      BY <1>1, <2>3 DEF GetNextLoop
    <3>2. handed' = [l \in Loops |-> IF l < 1 THEN (n + 1) + 1 ELSE n + 1]
      <4>1. \A l \in Loops : l \in Nat /\ l < cur_idx
        BY <2>3, CapacityType
      <4>2. handed = [l \in Loops |-> n + 1] /\ 0 \in Loops
        BY <2>1, <4>1, CapacityType
      <4>3. \A l \in Loops : l < 1 <=> l = 0
        BY <4>1
      <4> QED
        BY <3>1, <4>2, <4>3
    <3>3. handed' = [l \in Loops |-> IF l < cur_idx' THEN (n + 1) + 1 ELSE n + 1]
      BY <3>1, <3>2, Zenon
    <3>4. (cur_idx \in 0 .. capacity)'
      BY <3>1, CapacityType
    <3> QED
      BY <2>2, <3>3, <3>4 DEF InTurn
  <2>4. CASE cur_idx # capacity
    <3>1. cur_idx' = cur_idx + 1 /\ handed' = [handed EXCEPT ![cur_idx] = @ + 1]
      BY <1>1, <2>4 DEF GetNextLoop
    <3>2. handed' = [l \in Loops |-> IF l < cur_idx + 1 THEN n + 1 ELSE n]
      <4>1. /\ cur_idx \in Loops
            /\ \A l \in Loops : l < cur_idx + 1 <=> l < cur_idx \/ l = cur_idx
            /\ ~(cur_idx < cur_idx)
        BY <2>2, <2>4, CapacityType
      <4> QED
        BY <2>1, <3>1, <4>1
    <3>3. handed' = [l \in Loops |-> IF l < cur_idx' THEN n + 1 ELSE n]
      BY <3>1, <3>2, Zenon
    <3>4. (cur_idx \in 0 .. capacity)'
      BY <2>2, <2>4, <3>1, CapacityType
    <3> QED
      BY <2>2, <3>3, <3>4 DEF InTurn
  <2> QED
    BY <2>3, <2>4
<1>2. CASE DtorStopLoop
  BY <1>2, CapacityType DEF DtorStopLoop, InTurn, StopsWithin
<1>3. CASE LoopStep \/ DtorBegin \/ DtorDelete \/ DtorJoined \/ UNCHANGED allVars
  <2>1. UNCHANGED <<next_stop, cur_idx, handed>>
    BY <1>3 DEF LoopStep, DtorBegin, DtorDelete, DtorJoined, allVars, poolVars
  <2> QED
    BY <2>1 DEF InTurn, StopsWithin
<1> QED
  BY <1>1, <1>2, <1>3 DEF PoolNext

(* What GetNextLoop's callers rely on: connections are spread evenly over  *)
(* the loops, for every capacity and every number of calls.                *)
THEOREM PoolHandoutsBalanced == PoolInit /\ [][PoolNext]_allVars => []HandoutsBalanced
<1>1. InTurn => HandoutsBalanced
  BY CapacityType DEF InTurn, HandoutsBalanced
<1> QED
  BY <1>1, PoolInitially, TurnStep, PTL

(* The pool uses its loops only as EventLoop allows: every step of the     *)
(* workers, of TcpServer::Stop and of the destructor is a step of          *)
(* StartLoop or StopLoop, or leaves the loops alone.                       *)
THEOREM PoolUsesLoops == PoolInit /\ [][PoolNext]_allVars => SafeSpec
<1>1. StopsWithin /\ [PoolNext]_allVars => [Next]_vars
  <2> SUFFICES ASSUME StopsWithin, [PoolNext]_allVars PROVE [Next]_vars
    OBVIOUS
  <2>1. CASE LoopStep
    BY <2>1 DEF LoopStep, Next
  <2>2. CASE DtorStopLoop
    <3>1. Owner \in Stoppers /\ next_stop \in Loops
      BY <2>2, CapacityType, PoolAssumption DEF DtorStopLoop, StopsWithin
    <3> QED
      BY <2>2, <3>1 DEF DtorStopLoop, Next
  <2>3. CASE GetNextLoop \/ DtorBegin \/ DtorDelete \/ DtorJoined \/ UNCHANGED allVars
    BY <2>3 DEF GetNextLoop, DtorBegin, DtorDelete, DtorJoined, allVars
  <2> QED
    BY <2>1, <2>2, <2>3 DEF PoolNext
<1>2. PoolInit => Init
  BY DEF PoolInit
<1> QED
  BY <1>1, <1>2, PoolInitially, TurnStep, PTL DEF SafeSpec

(* So a stop of a pool's loop is never missed: the pool gives each loop a  *)
(* thread of its own.                                                      *)
THEOREM PoolStopIsSignalled == PoolInit /\ [][PoolNext]_allVars => []StopIsSignalled
<1>1. OneThreadPerLoop
  BY PoolAssumption DEF OneThreadPerLoop
<1> QED
  BY <1>1, PoolUsesLoops, LoopStopIsSignalled, PTL

-------------------------------------------------------------------------------
(* ThreadPool.                                                             *)

(* What the threads may be doing at each stage of ~ThreadPool.  A worker   *)
(* notifies only from inside a task, a client only before the destructor;  *)
(* workers leave only once the queue is empty, and gone means all left.    *)
Stages ==
    /\ stopped <=> dtor # "none"
    /\ notifying \cap Workers \subseteq Running
    /\ notifying \cap Clients # {} => dtor = "none"
    /\ \A w \in Workers : state[w] = "exit" => stopped
    /\ (stopped /\ \A w \in Workers : state[w] = "exit") => tasks = <<>>
    /\ dtor = "gone" => \A w \in Workers : state[w] = "exit"

(* The inductive invariant. *)
Inv == TaskTypeOK /\ Stages /\ ExactlyOnce /\ NoStrandedTask

-------------------------------------------------------------------------------
(* What Append and Tail do to the set of queued tasks. *)
LEMMA AppendElements ==
    ASSUME NEW S, NEW s \in Seq(S), NEW e \in S
    PROVE  /\ Append(s, e) \in Seq(S)
           /\ DOMAIN Append(s, e) = (DOMAIN s) \cup {Len(s) + 1}
           /\ Len(s) + 1 \notin DOMAIN s
           /\ \A i \in DOMAIN s : Append(s, e)[i] = s[i]
           /\ Append(s, e)[Len(s) + 1] = e
  BY AppendProperties, LenProperties

(* Tail takes the first element away. *)
LEMMA TailElements ==
    ASSUME NEW S, NEW s \in Seq(S), s # <<>>
    PROVE  /\ Head(s) \in S
           /\ Tail(s) \in Seq(S)
           /\ Len(s) # 0
           /\ 1 \in DOMAIN s
           /\ Head(s) = s[1]
           /\ Len(Tail(s)) = Len(s) - 1
           /\ \A i \in DOMAIN Tail(s) : i + 1 \in DOMAIN s /\ Tail(s)[i] = s[i + 1]
           /\ \A i \in DOMAIN s : i # 1 => i - 1 \in DOMAIN Tail(s)
  BY HeadTailProperties, LenProperties, EmptySeq

-------------------------------------------------------------------------------
(* The pool begins well typed, ... *)
LEMMA TaskTypeInit == TaskInit => TaskTypeOK
  BY EmptySeq, Zenon DEF TaskInit, TaskTypeOK, Running

(* ... and every step keeps it so. *)
LEMMA TaskTypeStep == TaskTypeOK /\ [TaskNext]_taskVars => TaskTypeOK'
<1> SUFFICES ASSUME TaskTypeOK, [TaskNext]_taskVars PROVE TaskTypeOK'
  OBVIOUS
<1> USE DEF TaskTypeOK, Running
<1>1. ASSUME NEW c \in Callers, NEW t \in Tasks, Emplace(c, t) PROVE TaskTypeOK'
  BY <1>1, AppendElements DEF Emplace
<1>2. ASSUME NEW c \in Callers, NotifyOne(c) PROVE TaskTypeOK'
  BY <1>2 DEF NotifyOne, Waiting
<1>3. ASSUME NEW w \in Workers, Take(w) PROVE TaskTypeOK'
  BY <1>3, TailElements DEF Take
<1>4. ASSUME NEW w \in Workers, Wait(w) PROVE TaskTypeOK'
  BY <1>4 DEF Wait
<1>5. ASSUME NEW w \in Workers, Leave(w) PROVE TaskTypeOK'
  BY <1>5 DEF Leave
<1>6. ASSUME NEW w \in Workers, Return(w) PROVE TaskTypeOK'
  BY <1>6 DEF Return
<1>7. ASSUME NEW w \in Workers, SpuriousWakeup(w) PROVE TaskTypeOK'
  BY <1>7 DEF SpuriousWakeup
<1>8. CASE DtorStop
  BY <1>8 DEF DtorStop
<1>9. CASE DtorNotifyAll
  BY <1>9 DEF DtorNotifyAll
<1>10. CASE DtorJoin
  BY <1>10 DEF DtorJoin
<1>11. CASE UNCHANGED taskVars
  BY <1>11 DEF taskVars
<1> QED
  BY <1>1, <1>2, <1>3, <1>4, <1>5, <1>6, <1>7, <1>8, <1>9, <1>10, <1>11
     DEF TaskNext, WorkerStep

-------------------------------------------------------------------------------
(* Before the destructor nothing has stopped, ... *)
LEMMA StagesInit == TaskInit => Stages
  BY TaskAssumption DEF TaskInit, Stages

(* ... and its stages follow one another as ~ThreadPool orders them. *)
LEMMA StagesStep == TaskTypeOK /\ Stages /\ [TaskNext]_taskVars => Stages'
<1> SUFFICES ASSUME TaskTypeOK, Stages, [TaskNext]_taskVars PROVE Stages'
  OBVIOUS
<1> USE TaskAssumption DEF TaskTypeOK, Stages, Running, Callers
<1>1. ASSUME NEW c \in Callers, NEW t \in Tasks, Emplace(c, t) PROVE Stages'
  BY <1>1 DEF Emplace, MayCall
<1>2. ASSUME NEW c \in Callers, NotifyOne(c) PROVE Stages'
  BY <1>2 DEF NotifyOne, Waiting
<1>3. ASSUME NEW w \in Workers, Take(w) PROVE Stages'
  BY <1>3 DEF Take
<1>4. ASSUME NEW w \in Workers, Wait(w) PROVE Stages'
  BY <1>4 DEF Wait
<1>5. ASSUME NEW w \in Workers, Leave(w) PROVE Stages'
  BY <1>5 DEF Leave
<1>6. ASSUME NEW w \in Workers, Return(w) PROVE Stages'
  BY <1>6 DEF Return
<1>7. ASSUME NEW w \in Workers, SpuriousWakeup(w) PROVE Stages'
  BY <1>7 DEF SpuriousWakeup
<1>8. CASE DtorStop
  BY <1>8 DEF DtorStop
<1>9. CASE DtorNotifyAll
  BY <1>9 DEF DtorNotifyAll
<1>10. CASE DtorJoin
  BY <1>10 DEF DtorJoin
<1>11. CASE UNCHANGED taskVars
  BY <1>11 DEF taskVars
<1> QED
  BY <1>1, <1>2, <1>3, <1>4, <1>5, <1>6, <1>7, <1>8, <1>9, <1>10, <1>11
     DEF TaskNext, WorkerStep

-------------------------------------------------------------------------------
(* Emplace, Take and Return move a task on, and no other step does. *)
LEMMA ExactlyOnceStep == TaskTypeOK /\ ExactlyOnce /\ [TaskNext]_taskVars => ExactlyOnce'
<1> SUFFICES ASSUME TaskTypeOK, ExactlyOnce, [TaskNext]_taskVars PROVE ExactlyOnce'
  OBVIOUS
<1> USE DEF TaskTypeOK
<1>1. ASSUME NEW c \in Callers, NEW t \in Tasks, Emplace(c, t) PROVE ExactlyOnce'
  <2>1. Queued' = Queued \cup {t}
    <3>1. tasks \in Seq(Tasks) /\ tasks' = Append(tasks, t)
      BY <1>1 DEF Emplace
    <3> QED
      BY <3>1, AppendElements, SMTT(20) DEF Queued
  <2>2. \A i, j \in DOMAIN tasks' : tasks'[i] = tasks'[j] => i = j
    BY <1>1, AppendElements DEF Emplace, ExactlyOnce, Queued
  <2> QED
    BY <1>1, <2>1, <2>2 DEF Emplace, ExactlyOnce, Running
<1>2. ASSUME NEW c \in Callers, NotifyOne(c) PROVE ExactlyOnce'
  BY <1>2 DEF NotifyOne, Waiting, ExactlyOnce, Queued, Running
<1>3. ASSUME NEW w \in Workers, Take(w) PROVE ExactlyOnce'
  <2> DEFINE s == Tail(tasks)
  <2>a. /\ Head(tasks) \in Tasks /\ s \in Seq(Tasks) /\ 1 \in DOMAIN tasks
        /\ Head(tasks) = tasks[1]
        /\ \A i \in DOMAIN s : i \in Nat \ {0} /\ i + 1 \in DOMAIN tasks /\ s[i] = tasks[i + 1]
        /\ \A i \in DOMAIN tasks : i \in Nat /\ (i # 1 => i - 1 \in DOMAIN s)
    BY <1>3, TailElements, LenProperties DEF Take
  <2>b. \A i, j \in DOMAIN tasks : tasks[i] = tasks[j] => i = j
    BY DEF ExactlyOnce
  <2>c. tasks' = s
    BY <1>3 DEF Take
  <2> HIDE DEF s
  <2>2. \A i, j \in DOMAIN tasks' : tasks'[i] = tasks'[j] => i = j
    BY <2>a, <2>b, <2>c
  <2>d. \A i \in DOMAIN s : s[i] \in Queued /\ s[i] # Head(tasks)
    BY <2>a, <2>b DEF Queued
  <2>e. \A i \in DOMAIN tasks : i = 1 \/ tasks[i] = s[i - 1]
    BY <2>a
  <2>1. Queued = Queued' \cup {Head(tasks)} /\ Head(tasks) \notin Queued'
    BY <2>a, <2>c, <2>d, <2>e DEF Queued
  <2>3. /\ Running' = Running \cup {w}
        /\ w \notin Running
        /\ cur'[w] = Head(tasks)
        /\ \A v \in Running : cur'[v] = cur[v]
    BY <1>3 DEF Take, Running
  <2>4. accepted' = accepted /\ done' = done
    BY <1>3 DEF Take
  <2>5. \A v \in Running' : v = w \/ v \in Running
    BY <2>3
  <2>6. {cur'[v] : v \in Running'} = {cur[v] : v \in Running} \cup {Head(tasks)}
    BY <2>3
  <2> QED
    BY <2>1, <2>2, <2>3, <2>4, <2>5, <2>6 DEF ExactlyOnce
<1>4. ASSUME NEW w \in Workers, Wait(w) PROVE ExactlyOnce'
  BY <1>4 DEF Wait, ExactlyOnce, Queued, Running
<1>5. ASSUME NEW w \in Workers, Leave(w) PROVE ExactlyOnce'
  BY <1>5 DEF Leave, ExactlyOnce, Queued, Running
<1>6. ASSUME NEW w \in Workers, Return(w) PROVE ExactlyOnce'
  <2>1. /\ Running' = Running \ {w}
        /\ w \in Running
        /\ UNCHANGED <<tasks, cur, accepted>>
        /\ done' = done \cup {cur[w]}
    BY <1>6 DEF Return, Running
  <2>2. {cur'[v] : v \in Running'} \cup {cur[w]} = {cur[v] : v \in Running}
    BY <2>1
  <2>3. Queued' = Queued
    BY <2>1 DEF Queued
  <2> QED
    BY <2>1, <2>2, <2>3 DEF ExactlyOnce
<1>7. ASSUME NEW w \in Workers, SpuriousWakeup(w) PROVE ExactlyOnce'
  BY <1>7 DEF SpuriousWakeup, ExactlyOnce, Queued, Running
<1>8. CASE DtorStop
  BY <1>8 DEF DtorStop, ExactlyOnce, Queued, Running
<1>9. CASE DtorNotifyAll
  <2>1. Running' = Running /\ Queued' = Queued /\ UNCHANGED <<tasks, cur, accepted, done>>
    BY <1>9 DEF DtorNotifyAll, Running, Queued
  <2> QED
    BY <2>1 DEF ExactlyOnce
<1>10. CASE DtorJoin
  BY <1>10 DEF DtorJoin, ExactlyOnce, Queued, Running
<1>11. CASE UNCHANGED taskVars
  BY <1>11 DEF taskVars, ExactlyOnce, Queued, Running
<1> QED
  BY <1>1, <1>2, <1>3, <1>4, <1>5, <1>6, <1>7, <1>8, <1>9, <1>10, <1>11
     DEF TaskNext, WorkerStep

-------------------------------------------------------------------------------
(* Looking and notifying are finite, so their sizes are naturals. *)
LEMMA Sizes ==
    ASSUME TaskTypeOK
    PROVE  /\ IsFiniteSet(Looking) /\ Cardinality(Looking) \in Nat
           /\ IsFiniteSet(notifying) /\ Cardinality(notifying) \in Nat
           /\ Len(tasks) \in Nat
<1>1. IsFiniteSet(Callers)
  BY TaskAssumption, FS_Union, Zenon DEF Callers
<1>2. Looking \subseteq Workers /\ notifying \subseteq Callers
  BY DEF TaskTypeOK, Looking
<1> QED
  BY <1>1, <1>2, TaskAssumption, FS_Subset, FS_CardinalityType, LenProperties DEF TaskTypeOK

(* One more worker that looks, and one fewer. *)
LEMMA LookingGrows ==
    ASSUME TaskTypeOK, NEW w \in Workers \ Looking, Looking' = Looking \cup {w}
    PROVE  Cardinality(Looking') = Cardinality(Looking) + 1
  BY Sizes, FS_AddElement, Zenon

(* One worker less is looking at the queue. *)
LEMMA LookingShrinks ==
    ASSUME TaskTypeOK, NEW w \in Looking, Looking' = Looking \ {w}
    PROVE  Cardinality(Looking') = Cardinality(Looking) - 1
  BY Sizes, FS_RemoveElement, Zenon

(* A worker that goes to sleep leaves no task without a wakeup. *)
LEMMA NoStrandedStep == TaskTypeOK /\ NoStrandedTask /\ [TaskNext]_taskVars => NoStrandedTask'
<1> SUFFICES ASSUME TaskTypeOK, NoStrandedTask, [TaskNext]_taskVars PROVE NoStrandedTask'
  OBVIOUS
<1> USE Sizes DEF NoStrandedTask
<1>1. ASSUME NEW c \in Callers, NEW t \in Tasks, Emplace(c, t) PROVE NoStrandedTask'
  <2>1. Cardinality(notifying') = Cardinality(notifying) + 1
    BY <1>1, FS_AddElement, Zenon DEF Emplace, MayCall
  <2>2. Len(tasks') = Len(tasks) + 1
    BY <1>1, AppendProperties DEF Emplace, TaskTypeOK
  <2>3. Looking' = Looking /\ Waiting' = Waiting
    BY <1>1 DEF Emplace, Looking, Waiting
  <2> QED
    BY <2>1, <2>2, <2>3
<1>2. ASSUME NEW c \in Callers, NotifyOne(c) PROVE NoStrandedTask'
  <2>1. Cardinality(notifying') = Cardinality(notifying) - 1
    BY <1>2, FS_RemoveElement, Zenon DEF NotifyOne
  <2>2. tasks' = tasks
    BY <1>2 DEF NotifyOne
  <2>3. ASSUME NEW w \in Waiting, state' = [state EXCEPT ![w] = "look"]
        PROVE  NoStrandedTask'
    <3>1. w \in Workers \ Looking /\ Looking' = Looking \cup {w}
      BY <2>3 DEF Looking, Waiting, TaskTypeOK
    <3>2. Cardinality(Looking') = Cardinality(Looking) + 1
      BY <3>1, LookingGrows, Zenon
    <3> QED
      BY <2>1, <2>2, <2>3, <3>2
  <2>4. CASE Waiting = {} /\ state' = state
    BY <2>4 DEF Waiting
  <2> QED
    BY <1>2, <2>3, <2>4, Zenon DEF NotifyOne
<1>3. ASSUME NEW w \in Workers, Take(w) PROVE NoStrandedTask'
  <2>1. w \in Looking /\ Looking' = Looking \ {w} /\ Waiting' = Waiting /\ notifying' = notifying
    BY <1>3 DEF Take, Looking, Waiting, TaskTypeOK
  <2>2. Cardinality(Looking') = Cardinality(Looking) - 1
    BY <2>1, LookingShrinks, Zenon
  <2>3. Len(tasks') = Len(tasks) - 1
    BY <1>3, TailElements DEF Take, TaskTypeOK
  <2> QED
    BY <2>1, <2>2, <2>3
<1>4. ASSUME NEW w \in Workers, Wait(w) \/ Leave(w) PROVE NoStrandedTask'
  <2>1. Len(tasks') = 0
    BY <1>4, EmptySeq DEF Wait, Leave
  <2>2. Cardinality(Looking') \in Nat /\ Cardinality(notifying') \in Nat
    <3>1. Looking' \subseteq Looking /\ notifying' = notifying
      BY <1>4 DEF Wait, Leave, Looking, TaskTypeOK
    <3> QED
      BY <3>1, FS_Subset, FS_CardinalityType
  <2> QED
    BY <2>1, <2>2
<1>5. ASSUME NEW w \in Workers, Return(w) \/ SpuriousWakeup(w) PROVE NoStrandedTask'
  <2>1. /\ w \in Workers \ Looking /\ Looking' = Looking \cup {w}
        /\ Waiting' \subseteq Waiting
        /\ UNCHANGED <<tasks, notifying>>
    BY <1>5 DEF Return, SpuriousWakeup, Looking, Waiting, TaskTypeOK
  <2>2. Cardinality(Looking') = Cardinality(Looking) + 1
    BY <2>1, LookingGrows, Zenon
  <2> QED
    BY <2>1, <2>2
<1>6. CASE DtorNotifyAll
  BY <1>6 DEF DtorNotifyAll, Waiting
<1>7. CASE DtorStop \/ DtorJoin \/ UNCHANGED taskVars
  BY <1>7, Zenon DEF DtorStop, DtorJoin, taskVars, Looking, Waiting
<1> QED
  BY <1>1, <1>2, <1>3, <1>4, <1>5, <1>6, <1>7 DEF TaskNext, WorkerStep

-------------------------------------------------------------------------------
(* The pool begins in the inductive invariant, ... *)
LEMMA InvInit == TaskInit => Inv
<1> SUFFICES ASSUME TaskInit PROVE Inv
  OBVIOUS
<1>1. ExactlyOnce
  BY EmptySeq DEF TaskInit, ExactlyOnce, Queued, Running
<1>2. NoStrandedTask
  BY DEF TaskInit, NoStrandedTask, Waiting
<1> QED
  BY <1>1, <1>2, TaskTypeInit, StagesInit DEF Inv

(* ... and every step preserves it. *)
LEMMA InvStep == Inv /\ [TaskNext]_taskVars => Inv'
  BY TaskTypeStep, StagesStep, ExactlyOnceStep, NoStrandedStep DEF Inv

(* The inductive invariant holds throughout the life of a pool. *)
THEOREM PoolInvariant == TaskSafeSpec => []Inv
  BY InvInit, InvStep, PTL DEF TaskSafeSpec

(* Every variable of the pool keeps its type. *)
THEOREM PoolTypeCorrect == TaskSafeSpec => []TaskTypeOK
<1>1. Inv => TaskTypeOK
  BY DEF Inv
<1> QED
  BY <1>1, PoolInvariant, PTL

(* No queued task is dropped or run twice, however many workers race for   *)
(* the queue.                                                              *)
THEOREM PoolExactlyOnce == TaskSafeSpec => []ExactlyOnce
<1>1. Inv => ExactlyOnce
  BY DEF Inv
<1> QED
  BY <1>1, PoolInvariant, PTL

(* No wakeup is lost: while a worker sleeps, every queued task has a       *)
(* worker, or a notify_one, on its way.                                    *)
THEOREM PoolNoStrandedTask == TaskSafeSpec => []NoStrandedTask
<1>1. Inv => NoStrandedTask
  BY DEF Inv
<1> QED
  BY <1>1, PoolInvariant, PTL

(* When ~ThreadPool has joined its workers, everything queued has run. *)
THEOREM PoolDrained == TaskSafeSpec => []DrainedWhenGone
<1>1. Inv => DrainedWhenGone
  <2> SUFFICES ASSUME Inv, dtor = "gone" PROVE tasks = <<>> /\ done = accepted
    BY DEF DrainedWhenGone
  <2>1. tasks = <<>> /\ Running = {}
    BY DEF Inv, Stages, Running
  <2>2. Queued = {}
    BY <2>1, EmptySeq DEF Queued
  <2> QED
    BY <2>1, <2>2 DEF Inv, ExactlyOnce
<1> QED
  BY <1>1, PoolInvariant, PTL

-------------------------------------------------------------------------------
(* The tasks on workers, the value that the refinement gives to running.   *)
OnWorkers == {cur[w] : w \in Running}

(* Steps that move no task are stuttering steps of the executor. *)
LEMMA ExecutorStutters ==
    ASSUME TaskTypeOK,
           \/ \E c \in Callers : NotifyOne(c)
           \/ \E w \in Workers : Wait(w) \/ Leave(w) \/ SpuriousWakeup(w)
           \/ DtorStop \/ DtorNotifyAll \/ UNCHANGED taskVars
    PROVE  UNCHANGED Executor!vars
<1>1. /\ UNCHANGED <<accepted, tasks, done, cur>>
      /\ (dtor = "gone") <=> (dtor' = "gone")
  BY DEF NotifyOne, Wait, Leave, SpuriousWakeup, DtorStop, DtorNotifyAll, taskVars
<1>2. Running' = Running
  BY DEF NotifyOne, Wait, Leave, SpuriousWakeup, DtorStop, DtorNotifyAll, taskVars,
         Waiting, Running, TaskTypeOK
<1>3. OnWorkers' = OnWorkers
  BY <1>1, <1>2 DEF OnWorkers
<1> QED
  BY <1>1, <1>3, Zenon DEF Executor!vars, OnWorkers

(* Every step of the pool is a step of the executor, or none. *)
LEMMA ExecutorStep == Inv /\ [TaskNext]_taskVars => [Executor!Next]_(Executor!vars)
<1> SUFFICES ASSUME Inv, [TaskNext]_taskVars PROVE Executor!Next \/ UNCHANGED Executor!vars
  OBVIOUS
<1> USE DEF Inv
<1>1. ASSUME NEW c \in Callers, NEW t \in Tasks, Emplace(c, t) PROVE Executor!Submit(t)
  <2>1. dtor # "gone"
    BY <1>1 DEF Emplace, MayCall, Running, Stages
  <2>2. OnWorkers' = OnWorkers
    BY <1>1, Zenon DEF Emplace, OnWorkers, Running
  <2> QED
    BY <1>1, <2>1, <2>2, Zenon DEF Emplace, Executor!Submit, OnWorkers
<1>2. ASSUME NEW w \in Workers, Take(w) PROVE Executor!Start
  <2>1. OnWorkers' = OnWorkers \cup {Head(tasks)}
    <3>1. /\ Running' = Running \cup {w}
          /\ w \notin Running
          /\ cur'[w] = Head(tasks)
          /\ \A v \in Running : cur'[v] = cur[v]
      BY <1>2 DEF Take, Running, TaskTypeOK
    <3> QED
      BY <3>1 DEF OnWorkers
  <2> QED
    BY <1>2, <2>1, Zenon DEF Take, Executor!Start, OnWorkers
<1>3. ASSUME NEW w \in Workers, Return(w), NEW t \in Tasks, t = cur[w]
      PROVE  Executor!Finish(t)
  <2>1. Running' = Running \ {w} /\ w \in Running /\ cur' = cur
    BY <1>3 DEF Return, Running, TaskTypeOK
  <2>2. OnWorkers' = OnWorkers \ {t} /\ t \in OnWorkers
    BY <1>3, <2>1 DEF OnWorkers, ExactlyOnce
  <2> QED
    BY <1>3, <2>1, <2>2 DEF Return, Executor!Finish, OnWorkers
<1>4. CASE DtorJoin
  <2>1. tasks = <<>> /\ Running = {}
    BY <1>4 DEF DtorJoin, Stages, Running
  <2>2. Queued = {}
    BY <2>1, EmptySeq DEF Queued
  <2>3. done = accepted
    BY <2>1, <2>2 DEF ExactlyOnce
  <2>4. OnWorkers' = OnWorkers
    BY <1>4 DEF DtorJoin, OnWorkers, Running
  <2>5. Executor!Close
    BY <1>4, <2>3, <2>4 DEF DtorJoin, Executor!Close, OnWorkers
  <2> QED
    BY <2>5 DEF Executor!Next
<1>5. CASE \/ \E c \in Callers : NotifyOne(c)
           \/ \E w \in Workers : Wait(w) \/ Leave(w) \/ SpuriousWakeup(w)
           \/ DtorStop \/ DtorNotifyAll \/ UNCHANGED taskVars
  BY <1>5, ExecutorStutters
<1>6. ASSUME NEW c \in Callers, NEW t \in Tasks, Emplace(c, t) PROVE Executor!Next
  BY <1>1, <1>6 DEF Executor!Next
<1>7. ASSUME NEW w \in Workers, Take(w) PROVE Executor!Next
  BY <1>2, <1>7 DEF Executor!Next
<1>8. ASSUME NEW w \in Workers, Return(w) PROVE Executor!Next
  <2>1. PICK t \in Tasks : t = cur[w]
    BY <1>8 DEF Return, Running, TaskTypeOK
  <2>2. Executor!Finish(t)
    BY <1>3, <1>8, <2>1
  <2> QED
    BY <2>2 DEF Executor!Next
<1> HIDE DEF Inv
<1> QED
  BY <1>4, <1>5, <1>6, <1>7, <1>8 DEF TaskNext, WorkerStep

(* The pool implements the executor: tasks start in the order in which     *)
(* emplace queued them, each once, and the pool is gone only when all have *)
(* finished.                                                               *)
THEOREM PoolImplementsExecutor == TaskSafeSpec => Executor!SafeSpec
<1>1. TaskInit => Executor!Init
  BY DEF TaskInit, Executor!Init, Running
<1> QED
  BY <1>1, ExecutorStep, PoolInvariant, PTL DEF TaskSafeSpec, Executor!SafeSpec
===============================================================================
