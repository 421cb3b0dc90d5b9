---------------------------- MODULE TcpServerProofs ----------------------------
(***************************************************************************)
(* Proofs about TcpServer for any set of workers and clients.              *)
(***************************************************************************)
EXTENDS TcpServer, FiniteSetTheorems, TLAPS

Labels == InStop \cup {"test", "poll", "accept", "returned", "join", "members", "joinloops",
                       "gone", "idle", "check", "init", "insert", "user"}

InLoop == {"test", "poll", "accept"}

FlagTypes ==
    /\ running_ \in BOOLEAN /\ acceptor_ \in BOOLEAN /\ listening \in BOOLEAN
    /\ loop_ \in BOOLEAN /\ looping \in BOOLEAN /\ woken \in BOOLEAN /\ loops \in BOOLEAN

(* The types, and a client wherever a step takes one from cur. *)
Types ==
    /\ serving \in {Main, None}
    /\ iopc \in {"test", "poll", "handle", "read", "exited"}
    /\ io \in Clients \cup {None}
    /\ connections_ \subseteq Clients
    /\ watched \subseteq Clients
    /\ queue \in Seq(Clients)
    /\ pc \in [Threads -> Labels]
    /\ cur \in [Threads -> Clients \cup {None}]
    /\ pc[Main] = "accept" => cur[Main] \in Clients
    /\ \A w \in Workers : pc[w] \in {"check", "init", "insert"} => cur[w] \in Clients
    /\ stops \in 0 .. MaxStops
    /\ fault \in {"none", "acceptor", "loop", "connection", "own"}

(* The server starts with everything of its type. *)
LEMMA TypesInit == Init => Types /\ FlagTypes
<1> SUFFICES ASSUME Init PROVE Types /\ FlagTypes
  OBVIOUS
<1>1. FlagTypes
  BY Zenon DEF Init, FlagTypes
<1>2. Types
  BY ServerAssumption DEF Init, Types, Labels, Threads
<1> QED
  BY <1>1, <1>2

(* Every step keeps the flags Boolean. *)
LEMMA FlagTypesNext == FlagTypes /\ [Next]_vars => FlagTypes'
<1> SUFFICES ASSUME FlagTypes, [Next]_vars PROVE FlagTypes'
  OBVIOUS
<1>1. ASSUME NEW t \in Threads, StopStep(t) PROVE FlagTypes'
  BY <1>1, Zenon DEF FlagTypes, StopStep, StopRunning, StopAcceptor, StopClose, StopTestLoop,
     StopLoop, StopWakeup, StopServing, StopLoopThreads, StopConnections, flags
<1>2. CASE UNCHANGED flags
  BY <1>2 DEF FlagTypes, flags
<1>3. CASE LoopTest \/ LoopWoken
  BY <1>3, Zenon DEF FlagTypes, LoopTest, LoopWoken
<1>4. ASSUME NEW w \in Workers, WorkerStep(w) \/ CallbackStops(w), ~StopStep(w)
      PROVE  UNCHANGED flags
  BY <1>4 DEF WorkerStep, CallbackStops, Take, CheckRunning, InitConnection, Insert,
              CallbackReturns
<1>5. CASE Delete \/ JoinWorkers \/ DestroyConnections \/ JoinLoops \/ LoopReady \/ HandleAccept
  BY <1>2, <1>5 DEF Delete, JoinWorkers, DestroyConnections, JoinLoops, LoopReady, HandleAccept
<1>6. CASE IoStep \/ IoReady \/ UNCHANGED vars
  BY <1>2, <1>6 DEF IoStep, IoReady, IoTest, IoWoken, IoHandle, IoRead, Closes, vars
<1> QED
  BY <1>1, <1>2, <1>3, <1>4, <1>5, <1>6 DEF Next, MainStep, Threads

(* Every step keeps the types. *)
LEMMA TypesNext == Types /\ [Next]_vars => Types'
<1> SUFFICES ASSUME Types, [Next]_vars PROVE Types'
  OBVIOUS
<1> USE ServerAssumption DEF Types, Labels, Threads, Goto
<1>1. ASSUME NEW t \in Threads, StopStep(t) PROVE Types'
  <2> USE DEF InStop
  <2>1. CASE StopRunning(t) \/ StopAcceptor(t) \/ StopClose(t)
    BY <2>1 DEF StopRunning, StopAcceptor, StopClose, ioVars
  <2>2. CASE StopTestLoop(t) \/ StopLoop(t) \/ StopWakeup(t)
    BY <2>2 DEF StopTestLoop, StopLoop, StopWakeup, ioVars, flags
  <2>3. CASE StopServing(t) \/ StopLoopThreads(t)
    BY <2>3 DEF StopServing, StopLoopThreads, ioVars, flags
  <2>4. CASE StopConnections(t)
    BY <2>4 DEF StopConnections, ioVars, flags
  <2> QED
    BY <1>1, <2>1, <2>2, <2>3, <2>4 DEF StopStep
<1>2. ASSUME NEW w \in Workers, WorkerStep(w) \/ CallbackStops(w), ~StopStep(w) PROVE Types'
  <2>1. CASE Take(w)
    BY <2>1 DEF Take, ioVars, flags
  <2>2. CASE CheckRunning(w)
    BY <2>2 DEF CheckRunning, ioVars, flags
  <2>3. CASE InitConnection(w)
    BY <2>3 DEF InitConnection, flags
  <2>4. CASE Insert(w)
    BY <2>4 DEF Insert, ioVars, flags
  <2>5. CASE CallbackReturns(w) \/ CallbackStops(w)
    BY <2>5 DEF CallbackReturns, CallbackStops, ioVars, flags, InStop
  <2> QED
    BY <1>2, <2>1, <2>2, <2>3, <2>4, <2>5 DEF WorkerStep
<1>3. CASE LoopTest \/ LoopWoken
  BY <1>3 DEF LoopTest, LoopWoken, ioVars
<1>4. CASE LoopReady
  BY <1>4 DEF LoopReady, Arriving, ioVars, flags
<1>5. CASE HandleAccept
  BY <1>5, SMTT(20) DEF HandleAccept, ioVars, flags
<1>6. CASE Delete \/ JoinWorkers \/ DestroyConnections \/ JoinLoops
  BY <1>6 DEF Delete, JoinWorkers, DestroyConnections, JoinLoops, ioVars, flags, InStop
<1>7. CASE IoTest \/ IoReady \/ IoWoken \/ IoHandle \/ IoRead \/ UNCHANGED vars
  BY <1>7 DEF IoTest, IoReady, IoWoken, IoHandle, IoRead, Closes, vars, ioVars, flags
<1> QED
  BY <1>1, <1>2, <1>3, <1>4, <1>5, <1>6, <1>7 DEF Next, MainStep, IoStep

(* The type invariant holds for any set of workers and clients. *)
THEOREM ServerTypeOK == SafeSpec => []TypeOK
<1>1. Types /\ FlagTypes => TypeOK
  BY DEF Types, FlagTypes, TypeOK, Labels
<1> QED
  BY <1>1, TypesInit, TypesNext, FlagTypesNext, PTL DEF SafeSpec

-------------------------------------------------------------------------------
(* Where a worker is before any Stop has cleared running_. *)
AtWork == {"idle", "check", "init", "insert", "user", "running"}

(* A watched connection is in the map, or on its way there. *)
Kept ==
    \A c \in watched : c \in connections_ \/ \E w \in Workers : pc[w] = "insert" /\ cur[w] = c

(* What holds until running_ is cleared: nothing is destroyed but by the   *)
(* loop that handles it, Start is in its loop, no worker is further in     *)
(* Stop, and what a loop begins to handle is still watched.                *)
Serving ==
    /\ acceptor_ /\ loop_ /\ looping
    /\ pc[Main] \in InLoop
    /\ \A w \in Workers : pc[w] \in AtWork
    /\ Kept
    /\ iopc = "handle" => io \in watched
    /\ fault \in {"none", "own"}

ServeInv == Types /\ (running_ => Serving)

(* The server starts with nothing destroyed. *)
LEMMA ServeInit == Init => ServeInv
<1> SUFFICES ASSUME Init PROVE ServeInv
  OBVIOUS
<1>1. Types
  BY TypesInit
<1>2. pc[Main] = "test" /\ \A w \in Workers : pc[w] = "idle"
  BY ServerAssumption DEF Init, Threads
<1> QED
  BY <1>1, <1>2, Zenon DEF Init, ServeInv, Serving, Kept, InLoop, AtWork

(* Nothing sets running_ again. *)
LEMMA RunningFalls ==
    ASSUME [Next]_vars, running_'
    PROVE  running_ /\ \A t \in Threads : ~StopRunning(t)
<1>1. ASSUME NEW t \in Threads, StopStep(t)
      PROVE  (running_' = running_ \/ running_' = FALSE) /\ (StopRunning(t) => running_' = FALSE)
  BY <1>1, Zenon DEF StopStep, StopRunning, StopAcceptor, StopClose, StopTestLoop, StopLoop, StopWakeup,
              StopServing, StopLoopThreads, StopConnections, flags
<1>2. ASSUME NEW w \in Workers, WorkerStep(w) \/ CallbackStops(w), ~StopStep(w)
      PROVE  running_' = running_
  BY <1>2, Zenon DEF WorkerStep, CallbackStops, Take, CheckRunning, InitConnection, Insert,
              CallbackReturns, flags
<1>3. ASSUME MainStep \/ LoopReady, ~StopStep(Main)
      PROVE  running_' = running_
  BY <1>3, Zenon DEF MainStep, LoopReady, LoopTest, LoopWoken, HandleAccept, Delete, JoinWorkers,
              DestroyConnections, JoinLoops, flags
<1>4. ASSUME IoStep \/ IoReady \/ UNCHANGED vars
      PROVE  running_' = running_
  BY <1>4, Zenon DEF IoStep, IoReady, IoTest, IoWoken, IoHandle, IoRead, Closes, vars, flags
<1>5. running_' = running_ \/ running_' = FALSE
  BY <1>1, <1>2, <1>3, <1>4, Zenon DEF Next, Threads
<1>6. running_
  BY <1>5, Zenon
<1>7. ASSUME NEW t \in Threads, StopRunning(t)
      PROVE  FALSE
  <2>1. running_' = FALSE
    BY <1>7, Zenon DEF StopRunning
  <2> QED
    BY <2>1, Zenon
<1> QED
  BY <1>6, <1>7, Zenon

(* While running_ stays set, a step of a worker keeps what Serving says. *)
LEMMA WorkerServes ==
    ASSUME Types, Serving, NEW w \in Workers,
           WorkerStep(w) \/ CallbackStops(w), ~StopRunning(w)
    PROVE  Serving'
<1> USE ServerAssumption
<1>1. w \in Threads /\ Main \in Threads /\ w # Main /\ Workers \subseteq Threads
  BY DEF Threads
<1>2. pc[w] \in AtWork
  BY DEF Serving
<1>3. CASE Take(w) \/ CheckRunning(w) \/ CallbackReturns(w) \/ CallbackStops(w)
  <2>1. /\ pc' = [pc EXCEPT ![w] = pc'[w]] /\ pc'[w] \in AtWork
        /\ pc[w] # "insert"
        /\ cur' = [cur EXCEPT ![w] = cur'[w]]
        /\ UNCHANGED <<flags, ioVars, connections_, fault>>
    BY <1>1, <1>3 DEF Take, CheckRunning, CallbackReturns, CallbackStops, Goto, AtWork, Types
  <2>2. /\ \A v \in Workers : pc'[v] \in AtWork
        /\ pc'[Main] \in InLoop
    BY <1>1, <2>1 DEF Serving, Types
  <2>3. \A v \in Workers : pc[v] = "insert" => pc'[v] = "insert" /\ cur'[v] = cur[v]
    BY <1>1, <2>1 DEF Types
  <2>4. Kept'
    BY <2>1, <2>3 DEF Serving, Kept, ioVars
  <2> QED
    BY <2>1, <2>2, <2>4, Zenon DEF Serving, flags, ioVars
<1>4. CASE InitConnection(w)
  <2>1. /\ pc' = [pc EXCEPT ![w] = "insert"] /\ pc[w] = "init"
        /\ watched' = watched \cup {cur[w]}
        /\ UNCHANGED <<flags, iopc, io, connections_, cur, fault>>
    BY <1>4 DEF InitConnection, Goto
  <2>2. /\ \A v \in Workers : pc'[v] \in AtWork
        /\ pc'[Main] \in InLoop
        /\ pc'[w] = "insert"
        /\ \A v \in Workers : pc[v] = "insert" => pc'[v] = "insert"
    BY <1>1, <2>1 DEF Serving, Types, AtWork
  <2>3. Kept'
    BY <2>1, <2>2 DEF Serving, Kept
  <2> QED
    BY <2>1, <2>2, <2>3, Zenon DEF Serving, flags
<1>5. CASE Insert(w)
  <2>1. /\ pc' = [pc EXCEPT ![w] = "user"] /\ pc[w] = "insert"
        /\ connections_' = connections_ \cup {cur[w]}
        /\ UNCHANGED <<flags, iopc, io, watched, cur, fault>>
    BY <1>5 DEF Insert, Goto, ioVars
  <2>2. /\ \A v \in Workers : pc'[v] \in AtWork
        /\ pc'[Main] \in InLoop
        /\ \A v \in Workers : v # w => pc'[v] = pc[v]
    BY <1>1, <2>1 DEF Serving, Types, AtWork
  <2>3. Kept'
    BY <2>1, <2>2 DEF Serving, Kept
  <2> QED
    BY <2>1, <2>2, <2>3, Zenon DEF Serving, flags
<1>6. CASE StopStep(w)
  BY <1>2, <1>6 DEF StopStep, StopAcceptor, StopClose, StopTestLoop, StopLoop, StopWakeup,
     StopServing, StopLoopThreads, StopConnections, Goto, AtWork
<1> QED
  BY <1>3, <1>4, <1>5, <1>6 DEF WorkerStep

(* ... and so does a step of the thread in Start, ... *)
LEMMA MainServes ==
    ASSUME Types, Serving, MainStep \/ LoopReady
    PROVE  Serving'
<1> USE ServerAssumption
<1>1. Main \in Threads /\ Main \notin Workers /\ Workers \subseteq Threads /\ pc[Main] \in InLoop
  BY DEF Threads, Serving
<1>2. CASE LoopTest \/ LoopReady \/ LoopWoken \/ HandleAccept
  <2>1. /\ pc' = [pc EXCEPT ![Main] = pc'[Main]]
        /\ cur' = [cur EXCEPT ![Main] = cur'[Main]]
        /\ UNCHANGED <<ioVars, connections_, acceptor_, loop_, looping>>
    BY <1>1, <1>2 DEF LoopTest, LoopReady, LoopWoken, HandleAccept, Goto, Types, flags
  <2>2. acceptor_ /\ loop_ /\ looping
    BY DEF Serving
  <2>3. pc'[Main] \in InLoop /\ fault' = fault
    BY <1>1, <1>2, <2>2, Zenon DEF LoopTest, LoopReady, LoopWoken, HandleAccept, Goto, Types, InLoop
  <2>4. \A v \in Workers : pc'[v] = pc[v] /\ cur'[v] = cur[v]
    BY <1>1, <2>1 DEF Types
  <2>5. Kept' /\ \A v \in Workers : pc'[v] \in AtWork
    BY <2>1, <2>4 DEF Serving, Kept, ioVars
  <2> QED
    BY <2>1, <2>3, <2>5, Zenon DEF Serving, ioVars
<1>3. CASE StopStep(Main)
  BY <1>1, <1>3 DEF StopStep, StopRunning, StopAcceptor, StopClose, StopTestLoop, StopLoop,
     StopWakeup, StopServing, StopLoopThreads, StopConnections, Goto, InLoop
<1>4. CASE Delete \/ JoinWorkers \/ DestroyConnections \/ JoinLoops
  BY <1>1, <1>4 DEF Delete, JoinWorkers, DestroyConnections, JoinLoops, Goto, InLoop
<1> QED
  BY <1>2, <1>3, <1>4 DEF MainStep

(* ... and a step of a connection's loop. *)
LEMMA IoServes ==
    ASSUME Types, Serving, IoStep \/ IoReady
    PROVE  Serving'
<1>1. UNCHANGED <<flags, pc, cur>>
  BY DEF IoStep, IoReady, IoTest, IoWoken, IoHandle, IoRead
<1>2. CASE IoTest \/ IoWoken \/ IoReady
  <2>1. /\ UNCHANGED <<watched, connections_, fault>>
        /\ iopc' = "handle" => io' \in watched
    BY <1>2 DEF IoTest, IoWoken, IoReady
  <2>2. Kept'
    BY <1>1, <2>1 DEF Serving, Kept
  <2> QED
    BY <1>1, <2>1, <2>2, Zenon DEF Serving, flags
<1>3. CASE IoHandle
  <2>1. io \in watched
    BY <1>3 DEF IoHandle, Serving
  <2>2. Alive(io)
    BY <2>1 DEF Serving, Kept, Alive
  <2>3. /\ fault' = fault /\ iopc' # "handle"
        /\ \/ UNCHANGED <<watched, connections_>>
           \/ watched' = watched \ {io} /\ connections_' = connections_ \ {io}
    BY <1>3, <2>2 DEF IoHandle, Closes
  <2>4. Kept'
    BY <1>1, <2>3 DEF Serving, Kept
  <2> QED
    BY <1>1, <2>3, <2>4, Zenon DEF Serving, flags
<1>4. CASE IoRead
  <2>1. io \in watched => Alive(io)
    BY DEF Serving, Kept, Alive
  <2>2. /\ fault' \in {fault, "own"} /\ iopc' # "handle"
        /\ \/ UNCHANGED <<watched, connections_>>
           \/ watched' = watched \ {io} /\ connections_' = connections_ \ {io}
    BY <1>4, <2>1 DEF IoRead, Closes
  <2>3. Kept'
    BY <1>1, <2>2 DEF Serving, Kept
  <2>4. fault' \in {"none", "own"}
    BY <2>2 DEF Serving
  <2> QED
    BY <1>1, <2>2, <2>3, <2>4, Zenon DEF Serving, flags
<1> QED
  BY <1>2, <1>3, <1>4 DEF IoStep

(* Every step preserves the invariant. *)
LEMMA ServeNext == ServeInv /\ [Next]_vars => ServeInv'
<1> SUFFICES ASSUME ServeInv, [Next]_vars PROVE ServeInv'
  OBVIOUS
<1>1. Types /\ Types'
  BY TypesNext DEF ServeInv
<1>2. ASSUME running_' PROVE Serving'
  <2>1. Serving /\ \A t \in Threads : ~StopRunning(t)
    BY <1>2, RunningFalls DEF ServeInv
  <2>2. CASE UNCHANGED vars
    BY <2>1, <2>2 DEF Serving, Kept, vars, flags, ioVars
  <2> QED
    BY <1>1, <2>1, <2>2, WorkerServes, MainServes, IoServes DEF Next, Threads
<1> QED
  BY <1>1, <1>2 DEF ServeInv

(* While the server serves, no loop comes to an event of an acceptor or    *)
(* connection that another thread has destroyed, for any number of workers *)
(* and clients.                                                            *)
THEOREM ServerDestroyedOnlyByStop == SafeSpec => []DestroyedOnlyByStop
<1>1. ServeInv => DestroyedOnlyByStop
  BY DEF ServeInv, Serving, DestroyedOnlyByStop
<1> QED
  BY <1>1, ServeInit, ServeNext, PTL DEF SafeSpec

-------------------------------------------------------------------------------
(* The inductive invariant behind LoopOutlivesUse, with one Stop by a      *)
(* callback and a destructor that begins after it: at most one thread is   *)
(* in Stop, and the loop exists while Start is in it or a Stop has tested  *)
(* for it.                                                                 *)
LoopInv ==
    /\ pc[Main] \in InLoop => serving = Main /\ loop_
    /\ pc[Main] \notin InLoop => ~looping
    /\ looping \/ stops > 0
    /\ \A v, w \in Workers : pc[v] \in InStop /\ pc[w] \in InStop => v = w
    /\ \A w \in Workers : pc[w] \in InStop => stops > 0 /\ pc[Main] \notin InStop
    /\ \A t \in Threads : pc[t] \in {"stoploop", "wakeup"} => loop_
    /\ LoopOutlivesUse

(* The loop exists at first. *)
LEMMA LoopInit == Init => LoopInv
<1> SUFFICES ASSUME Init PROVE LoopInv
  OBVIOUS
<1>1. pc[Main] = "test" /\ \A w \in Workers : pc[w] = "idle"
  BY ServerAssumption DEF Init, Threads
<1>2. "test" \notin InStop /\ "idle" \notin InStop
  BY DEF InStop
<1>3. \A t \in Threads : pc[t] \notin {"stoploop", "wakeup"}
  BY <1>1 DEF Threads
<1>4. looping /\ loop_ /\ serving = Main /\ fault # "loop"
  BY DEF Init
<1> QED
  BY <1>1, <1>2, <1>3, <1>4, Zenon DEF LoopInv, InLoop, LoopOutlivesUse

(* A Stop preserves the invariant: it lets go of the loop only when Start  *)
(* has left it, and no other thread is in Stop.                            *)
LEMMA LoopStop ==
    ASSUME Types, LoopInv, NEW t \in Threads, StopStep(t)
    PROVE  LoopInv'
<1> USE ServerAssumption DEF Types, Goto
<1>1. /\ Main \in Threads /\ Workers \subseteq Threads /\ Main \notin Workers
      /\ t \in Workers \/ t = Main
  BY DEF Threads
<1>2. /\ pc[t] \in InStop /\ stops' = stops
      /\ pc' = [pc EXCEPT ![t] = pc'[t]]
  BY DEF StopStep, StopRunning, StopAcceptor, StopClose, StopTestLoop, StopLoop, StopWakeup,
     StopServing, StopLoopThreads, StopConnections, InStop
<1>3. pc'[t] \in InStop \cup {"join", "idle"}
  BY DEF StopStep, StopRunning, StopAcceptor, StopClose, StopTestLoop, StopLoop, StopWakeup,
     StopServing, StopLoopThreads, StopConnections, InStop
<1>4. InLoop \cap (InStop \cup {"join", "idle"}) = {} /\ {"join", "idle"} \cap InStop = {}
  BY DEF InLoop, InStop
<1>5. pc'[Main] \in InLoop <=> pc[Main] \in InLoop
  BY <1>1, <1>2, <1>3, <1>4
<1>6. \A s \in Threads : s # t => pc'[s] = pc[s]
  BY <1>2
<1>7. \A s \in Threads : pc[s] \in InStop => s = t
  BY <1>1, <1>2 DEF LoopInv, Threads
<1>8. \A s \in Threads : pc'[s] \in InStop => s = t
  BY <1>6, <1>7
<1>9. stops > 0
  <2>1. CASE t \in Workers
    BY <1>2, <2>1 DEF LoopInv
  <2>2. CASE t = Main
    BY <1>2, <1>4, <2>2 DEF LoopInv
  <2> QED
    BY <1>1, <2>1, <2>2
<1>10. CASE StopServing(t)
  <2>1. /\ serving = None /\ UNCHANGED <<serving, looping, fault>> /\ pc'[t] = "loops"
    BY <1>10 DEF StopServing
  <2>2. pc[Main] \notin InLoop
    BY <2>1 DEF LoopInv
  <2>3. \A s \in Threads : pc'[s] \notin {"stoploop", "wakeup"}
    BY <1>8, <2>1 DEF InStop
  <2> QED
    BY <1>1, <1>2, <1>5, <1>8, <1>9, <2>1, <2>2, <2>3 DEF LoopInv, LoopOutlivesUse
<1>11. CASE ~StopServing(t)
  <2>1. /\ UNCHANGED <<serving, loop_>>
        /\ pc'[t] \in {"stoploop", "wakeup"} => loop_
    BY <1>11 DEF StopStep, StopRunning, StopAcceptor, StopClose, StopTestLoop, StopLoop,
       StopWakeup, StopLoopThreads, StopConnections, LoopInv, flags
  <2>2. fault' = fault
    BY <1>11 DEF StopStep, StopRunning, StopAcceptor, StopClose, StopTestLoop, StopLoop,
       StopWakeup, StopLoopThreads, StopConnections, LoopInv, flags
  <2>3. looping' => looping
    <3>1. CASE StopLoop(t)
      BY <3>1, Zenon DEF StopLoop
    <3>2. CASE ~StopLoop(t)
      BY <1>11, <3>2, Zenon DEF StopStep, StopRunning, StopAcceptor, StopClose, StopTestLoop, StopWakeup,
         StopLoopThreads, StopConnections, flags
    <3> QED
      BY <3>1, <3>2
  <2> QED
    BY <1>1, <1>2, <1>5, <1>6, <1>8, <1>9, <2>1, <2>2, <2>3 DEF LoopInv, LoopOutlivesUse
<1> QED
  BY <1>10, <1>11

(* Every other step preserves it too: a second Stop is not called, and the *)
(* destructor begins when no worker is in Stop.                            *)
LEMMA LoopNext ==
    ASSUME MaxStops <= 1, DeleteWaits, Types, LoopInv, [Next]_vars
    PROVE  LoopInv'
<1> USE ServerAssumption DEF Types, Goto
<1>1. Main \in Threads /\ Workers \subseteq Threads /\ Main \notin Workers
  BY DEF Threads
<1>2. CASE \E t \in Threads : StopStep(t)
  BY <1>2, LoopStop
<1>3. ASSUME NEW w \in Workers,
             Take(w) \/ CheckRunning(w) \/ InitConnection(w) \/ Insert(w) \/ CallbackReturns(w)
      PROVE  LoopInv'
  <2>1. /\ pc' = [pc EXCEPT ![w] = pc'[w]]
        /\ pc'[w] \in {"idle", "check", "init", "insert", "user"}
        /\ UNCHANGED <<flags, stops, fault>>
    BY <1>1, <1>3 DEF Take, CheckRunning, InitConnection, Insert, CallbackReturns
  <2>2. pc'[w] \notin InStop /\ \A s \in Threads : s # w => pc'[s] = pc[s]
    BY <2>1 DEF InStop
  <2> QED
    BY <1>1, <2>1, <2>2 DEF LoopInv, LoopOutlivesUse, flags
<1>4. ASSUME NEW w \in Workers, CallbackStops(w)
      PROVE  LoopInv'
  <2>1. /\ pc' = [pc EXCEPT ![w] = "running"]
        /\ stops = 0 /\ stops' = 1
        /\ UNCHANGED <<flags, fault>>
    BY <1>4 DEF CallbackStops
  <2>2. looping
    BY <2>1 DEF LoopInv
  <2>3. pc[Main] \in InLoop /\ \A v \in Workers : pc[v] \notin InStop
    BY <2>1, <2>2 DEF LoopInv
  <2>4. InLoop \cap InStop = {}
    BY DEF InLoop, InStop
  <2>5. /\ pc'[w] = "running" /\ pc'[Main] = pc[Main]
        /\ \A s \in Threads : s # w => pc'[s] = pc[s]
    BY <1>1, <2>1
  <2> QED
    BY <1>1, <2>1, <2>2, <2>3, <2>4, <2>5 DEF LoopInv, LoopOutlivesUse, flags
<1>5. CASE LoopTest
  <2>1. loop_ /\ serving = Main
    BY <1>5 DEF LoopTest, LoopInv, InLoop
  <2>2. /\ UNCHANGED <<loop_, looping, stops, fault>>
        /\ \/ pc' = [pc EXCEPT ![Main] = "poll"] /\ serving' = serving
           \/ pc' = [pc EXCEPT ![Main] = "returned"] /\ ~looping
    BY <1>5, <2>1, Zenon DEF LoopTest
  <2>3. /\ pc'[Main] \in {"poll", "returned"} /\ pc'[Main] \notin InStop
        /\ pc'[Main] \in InLoop => serving' = Main
        /\ pc'[Main] \notin InLoop => ~looping
        /\ \A w \in Workers : pc'[w] = pc[w]
    BY <1>1, <2>1, <2>2 DEF InStop, InLoop
  <2>4. \A t \in Threads : pc'[t] \in {"stoploop", "wakeup"} => loop_
    BY <2>1
  <2> QED
    BY <2>1, <2>2, <2>3, <2>4 DEF LoopInv, LoopOutlivesUse
<1>6. CASE LoopReady \/ LoopWoken \/ HandleAccept
  <2>1. /\ pc' = [pc EXCEPT ![Main] = pc'[Main]]
        /\ pc[Main] \in InLoop /\ pc'[Main] \in InLoop
        /\ UNCHANGED <<serving, loop_, looping, stops>>
        /\ fault' = fault \/ fault' = "acceptor"
    BY <1>1, <1>6 DEF LoopReady, LoopWoken, HandleAccept, flags, InLoop
  <2>2. pc'[Main] \notin InStop /\ \A w \in Workers : pc'[w] = pc[w]
    BY <1>1, <2>1 DEF InStop, InLoop
  <2>3. \A t \in Threads : pc'[t] \in {"stoploop", "wakeup"} => loop_
    BY <2>1 DEF LoopInv
  <2> QED
    BY <2>1, <2>2, <2>3 DEF LoopInv, LoopOutlivesUse
<1>7. CASE Delete
  <2>1. /\ pc' = [pc EXCEPT ![Main] = "running"]
        /\ \A w \in Workers : pc[w] \notin InStop
        /\ UNCHANGED <<flags, stops, fault>>
        /\ pc[Main] = "returned"
    BY <1>7 DEF Delete
  <2>2. /\ pc[Main] \notin InLoop /\ pc'[Main] \notin InLoop
        /\ \A w \in Workers : pc'[w] = pc[w]
        /\ \A t \in Threads : pc'[t] \in {"stoploop", "wakeup"} => pc[t] = pc'[t]
    BY <1>1, <2>1 DEF InLoop
  <2> QED
    BY <2>1, <2>2 DEF LoopInv, LoopOutlivesUse, flags
<1>8. CASE JoinWorkers \/ DestroyConnections \/ JoinLoops
  <2>1. /\ pc' = [pc EXCEPT ![Main] = pc'[Main]]
        /\ {pc[Main], pc'[Main]} \subseteq {"join", "members", "joinloops", "gone"}
        /\ UNCHANGED <<flags, stops, fault>>
    BY <1>1, <1>8 DEF JoinWorkers, DestroyConnections, JoinLoops
  <2>2. /\ pc[Main] \notin InLoop /\ pc'[Main] \notin InLoop /\ pc'[Main] \notin InStop
        /\ \A w \in Workers : pc'[w] = pc[w]
        /\ \A t \in Threads : pc'[t] \in {"stoploop", "wakeup"} => pc[t] = pc'[t]
    BY <1>1, <2>1 DEF InLoop, InStop
  <2> QED
    BY <2>1, <2>2 DEF LoopInv, LoopOutlivesUse, flags
<1>9. CASE IoStep \/ IoReady \/ UNCHANGED vars
  <2>1. UNCHANGED <<flags, pc, stops>> /\ fault' \in {fault, "connection", "own"}
    BY <1>9 DEF IoStep, IoReady, IoTest, IoWoken, IoHandle, IoRead, Closes, vars
  <2> QED
    BY <2>1 DEF LoopInv, LoopOutlivesUse, flags
<1> QED
  BY <1>1, <1>2, <1>3, <1>4, <1>5, <1>6, <1>7, <1>8, <1>9 DEF Next, MainStep, WorkerStep

(* If callbacks call Stop once and the server is deleted after that Stop   *)
(* has returned, nobody uses the accepting loop after a Stop let go of it. *)
THEOREM ServerLoopOutlivesUse ==
    ASSUME MaxStops <= 1, DeleteWaits
    PROVE  SafeSpec => []LoopOutlivesUse
<1>1. Types /\ LoopInv /\ [Next]_vars => LoopInv'
  BY LoopNext
<1>2. LoopInv => LoopOutlivesUse
  BY DEF LoopInv
<1> QED
  BY <1>1, <1>2, TypesInit, TypesNext, LoopInit, PTL DEF SafeSpec

-------------------------------------------------------------------------------
(* The workers that have passed the test of running_ and will still insert *)
(* a connection.                                                           *)
InFlight == {w \in Workers : pc[w] \in {"init", "insert"}}

(* The inductive invariant behind LateInsertsBounded: the worker whose     *)
(* Stop cleared running_ is never in flight again, and once a Stop has     *)
(* cleared the map, what is in it came from workers in flight then.        *)
LateInv ==
    /\ IsFiniteSet(connections_)
    /\ running_ \/ InFlight # Workers
    /\ running_ => loops
    /\ \/ loops
       \/ \E t \in Threads : pc[t] = "connections"
       \/ Cardinality(connections_) + Cardinality(InFlight) < Cardinality(Workers)

(* The map is empty at first, and the loops run. *)
LEMMA LateInit == Init => LateInv
<1> SUFFICES ASSUME Init PROVE LateInv
  OBVIOUS
<1>1. running_ /\ loops
  BY Zenon DEF Init
<1>2. IsFiniteSet(connections_)
  BY FS_EmptySet DEF Init
<1> QED
  BY <1>1, <1>2, Zenon DEF LateInv

(* The workers in flight are finitely many. *)
LEMMA InFlightFinite ==
    /\ IsFiniteSet(Workers) /\ Cardinality(Workers) \in Nat
    /\ IsFiniteSet(InFlight) /\ Cardinality(InFlight) \in Nat
    /\ Cardinality(InFlight) <= Cardinality(Workers)
    /\ InFlight # Workers => Cardinality(InFlight) < Cardinality(Workers)
<1>1. IsFiniteSet(Workers) /\ InFlight \in SUBSET Workers
  BY ServerAssumption DEF InFlight
<1>2. /\ IsFiniteSet(InFlight)
      /\ Cardinality(InFlight) <= Cardinality(Workers)
      /\ Cardinality(Workers) = Cardinality(InFlight) => Workers = InFlight
  BY <1>1, FS_Subset
<1>3. Cardinality(Workers) \in Nat /\ Cardinality(InFlight) \in Nat
  BY <1>1, <1>2, FS_CardinalityType
<1> QED
  BY <1>1, <1>2, <1>3

(* Steps that leave the map, the workers in flight and the Stops at        *)
(* connections_.clear() as they are preserve the invariant.                *)
LEMMA LateSame ==
    ASSUME LateInv, UNCHANGED <<running_, loops, connections_, InFlight>>,
           \A t \in Threads : pc[t] = "connections" => pc'[t] = "connections"
    PROVE  LateInv'
<1>1. (\E t \in Threads : pc[t] = "connections") => \E t \in Threads : pc'[t] = "connections"
  OBVIOUS
<1> QED
  BY <1>1, Zenon DEF LateInv

(* A thread that moves between other places leaves them as they are. *)
LEMMA MoveKeepsInFlight ==
    ASSUME Types, NEW t \in Threads, pc' = [pc EXCEPT ![t] = pc'[t]],
           pc[t] \notin {"init", "insert"}, pc'[t] \notin {"init", "insert"}
    PROVE  InFlight' = InFlight
<1>1. \A w \in Workers : pc'[w] \in {"init", "insert"} <=> pc[w] \in {"init", "insert"}
  BY DEF Types, Threads
<1> QED
  BY <1>1 DEF InFlight

(* A Stop preserves the invariant: its first step puts a worker out of     *)
(* flight for good, its last one clears the map.                           *)
LEMMA LateStop ==
    ASSUME ServeInv, LateInv, NEW t \in Threads, StopStep(t)
    PROVE  LateInv'
<1> USE DEF Goto
<1>1. Types /\ (t \in Workers \/ t = Main)
  BY DEF ServeInv, Threads
<1>2. /\ pc' = [pc EXCEPT ![t] = pc'[t]]
      /\ pc[t] \in InStop /\ pc'[t] \in InStop \cup {"join", "idle"}
  BY <1>1 DEF StopStep, StopRunning, StopAcceptor, StopClose, StopTestLoop, StopLoop, StopWakeup,
     StopServing, StopLoopThreads, StopConnections, InStop, Types
<1>3. InFlight' = InFlight /\ pc[t] \notin {"init", "insert"}
  <2>1. pc[t] \notin {"init", "insert"} /\ pc'[t] \notin {"init", "insert"}
    BY <1>2 DEF InStop
  <2> QED
    BY <1>1, <1>2, <2>1, MoveKeepsInFlight
<1>4. \A s \in Threads : s # t => pc'[s] = pc[s]
  BY <1>1, <1>2 DEF Types
<1>5. pc[t] # "running" \/ t = Main => ~running_
  <2>1. ASSUME running_, pc[t] # "running" \/ t = Main PROVE FALSE
    <3>1. pc[Main] \in InLoop /\ \A w \in Workers : pc[w] \in AtWork
      BY <2>1 DEF ServeInv, Serving
    <3>2. InLoop \cap InStop = {} /\ AtWork \cap InStop = {"running"}
      BY DEF InLoop, InStop, AtWork
    <3> QED
      BY <1>1, <1>2, <2>1, <3>1, <3>2
  <2> QED
    BY <2>1
<1>6. CASE StopRunning(t)
  <2>1. /\ running_' = FALSE /\ UNCHANGED <<loops, connections_>>
        /\ pc[t] = "running" /\ pc'[t] = "acceptor"
    BY <1>1, <1>6 DEF StopRunning, Types
  <2>2. InFlight' # Workers
    <3>1. CASE t \in Workers
      BY <1>3, <3>1 DEF InFlight
    <3>2. CASE t = Main
      BY <1>3, <1>5, <3>2 DEF LateInv
    <3> QED
      BY <1>1, <3>1, <3>2
  <2>3. \A s \in Threads : pc[s] = "connections" => pc'[s] = "connections"
    BY <1>4, <2>1
  <2>4. ~running_'
    BY <2>1
  <2> QED
    BY <1>3, <2>1, <2>2, <2>3, <2>4 DEF LateInv
<1>7. CASE StopLoopThreads(t)
  <2>1. pc[t] = "loops" /\ pc'[t] = "connections" /\ UNCHANGED <<running_, connections_>>
    BY <1>1, <1>7 DEF StopLoopThreads, Types
  <2>2. ~running_
    BY <1>5, <2>1
  <2> QED
    BY <1>3, <2>1, <2>2 DEF LateInv
<1>8. CASE StopConnections(t)
  <2>1. pc[t] = "connections" /\ connections_' = {} /\ UNCHANGED <<running_, loops>>
    BY <1>8 DEF StopConnections, flags
  <2>2. ~running_
    BY <1>5, <2>1
  <2>3. Cardinality(InFlight) \in Nat /\ Cardinality(InFlight) < Cardinality(Workers)
    BY <2>2, InFlightFinite DEF LateInv
  <2>4. IsFiniteSet(connections_') /\ Cardinality(connections_') = 0
    BY <2>1, FS_EmptySet
  <2>5. Cardinality(connections_') + Cardinality(InFlight') < Cardinality(Workers)
    BY <1>3, <2>3, <2>4
  <2>6. ~running_' /\ InFlight' # Workers
    BY <1>3, <2>1, <2>2 DEF LateInv
  <2> QED
    BY <2>4, <2>5, <2>6 DEF LateInv
<1>9. CASE StopAcceptor(t) \/ StopClose(t) \/ StopTestLoop(t) \/ StopLoop(t) \/ StopWakeup(t)
           \/ StopServing(t)
  <2>1. UNCHANGED <<running_, loops, connections_>> /\ pc[t] # "connections"
    BY <1>9 DEF StopAcceptor, StopClose, StopTestLoop, StopLoop, StopWakeup, StopServing, flags
  <2> QED
    BY <1>3, <1>4, <2>1, LateSame
<1> QED
  BY <1>6, <1>7, <1>8, <1>9 DEF StopStep

(* A connection comes into the map only with a worker leaving the flight;  *)
(* no worker joins it after running_ was cleared.                          *)
LEMMA LateWorker ==
    ASSUME ServeInv, LateInv, NEW w \in Workers,
           WorkerStep(w) \/ CallbackStops(w), ~StopStep(w)
    PROVE  LateInv'
<1> USE DEF Goto
<1>1. Types /\ w \in Threads /\ Workers \subseteq Threads
  BY DEF ServeInv, Threads
<1>2. /\ pc' = [pc EXCEPT ![w] = pc'[w]]
      /\ pc[w] # "connections"
      /\ UNCHANGED <<running_, loops>>
  BY <1>1 DEF WorkerStep, Take, CheckRunning, InitConnection, Insert, CallbackReturns,
     CallbackStops, flags, Types
<1>3. \A s \in Threads : s # w => pc'[s] = pc[s]
  BY <1>1, <1>2 DEF Types
<1>4. \A s \in Threads : pc[s] = "connections" => pc'[s] = "connections"
  BY <1>2, <1>3
<1>5. CASE Take(w) \/ CallbackReturns(w) \/ CallbackStops(w)
  <2>1. /\ pc[w] \notin {"init", "insert"} /\ pc'[w] \notin {"init", "insert"}
        /\ connections_' = connections_
    BY <1>1, <1>5 DEF Take, CallbackReturns, CallbackStops, Types
  <2> QED
    BY <1>1, <1>2, <1>4, <2>1, MoveKeepsInFlight, LateSame
<1>6. CASE CheckRunning(w)
  <2>1. connections_' = connections_ /\ pc[w] = "check"
    BY <1>6 DEF CheckRunning
  <2>2. CASE running_
    <3>1. running_' /\ loops'
      BY <1>2, <2>2, Zenon DEF LateInv
    <3> QED
      BY <2>1, <3>1, Zenon DEF LateInv
  <2>3. CASE ~running_
    <3>1. pc'[w] = "idle"
      BY <1>1, <1>6, <2>3 DEF CheckRunning, Types
    <3> QED
      BY <1>1, <1>2, <1>4, <2>1, <3>1, MoveKeepsInFlight, LateSame
  <2> QED
    BY <2>2, <2>3
<1>7. CASE InitConnection(w)
  <2>1. connections_' = connections_ /\ pc[w] = "init" /\ pc'[w] = "insert"
    BY <1>1, <1>7 DEF InitConnection, Types
  <2>2. InFlight' = InFlight
    BY <1>1, <1>3, <2>1 DEF InFlight
  <2> QED
    BY <1>2, <1>4, <2>1, <2>2, LateSame
<1>8. CASE Insert(w)
  <2>1. connections_' = connections_ \cup {cur[w]} /\ pc[w] = "insert" /\ pc'[w] = "user"
    BY <1>1, <1>8 DEF Insert, Types
  <2>2. InFlight' = InFlight \ {w} /\ w \in InFlight /\ w \notin InFlight'
    BY <1>1, <1>3, <2>1 DEF InFlight
  <2>3. InFlight' # Workers
    BY <2>2
  <2>4. Cardinality(InFlight') = Cardinality(InFlight) - 1
    BY <2>2, InFlightFinite, FS_RemoveElement
  <2>5. /\ IsFiniteSet(connections_') /\ Cardinality(connections_) \in Nat
        /\ Cardinality(connections_') = Cardinality(connections_)
             \/ Cardinality(connections_') = Cardinality(connections_) + 1
    BY <2>1, FS_AddElement, FS_CardinalityType, Zenon DEF LateInv
  <2>6. Cardinality(InFlight) \in Nat /\ Cardinality(Workers) \in Nat
    BY InFlightFinite
  <2>7. Cardinality(connections_) + Cardinality(InFlight) < Cardinality(Workers)
          => Cardinality(connections_') + Cardinality(InFlight') < Cardinality(Workers)
    BY <2>4, <2>5, <2>6
  <2> QED
    BY <1>2, <1>4, <2>3, <2>5, <2>7 DEF LateInv
<1> QED
  BY <1>5, <1>6, <1>7, <1>8 DEF WorkerStep

(* A smaller map keeps the bound. *)
LEMMA LateShrinks ==
    ASSUME LateInv, UNCHANGED <<running_, loops, InFlight>>, connections_' \subseteq connections_,
           \A t \in Threads : pc[t] = "connections" => pc'[t] = "connections"
    PROVE  LateInv'
<1>1. IsFiniteSet(connections_) /\ connections_' \in SUBSET connections_
  BY DEF LateInv
<1>2. /\ IsFiniteSet(connections_')
      /\ Cardinality(connections_') <= Cardinality(connections_)
  BY <1>1, FS_Subset
<1>3. Cardinality(connections_) \in Nat /\ Cardinality(connections_') \in Nat
  BY <1>1, <1>2, FS_CardinalityType
<1>4. Cardinality(connections_) + Cardinality(InFlight) < Cardinality(Workers)
        => Cardinality(connections_') + Cardinality(InFlight) < Cardinality(Workers)
  BY <1>2, <1>3, InFlightFinite
<1> QED
  BY <1>2, <1>4 DEF LateInv

(* Every step preserves the invariant. *)
LEMMA LateNext == ServeInv /\ LateInv /\ [Next]_vars => LateInv'
<1> SUFFICES ASSUME ServeInv, LateInv, [Next]_vars PROVE LateInv'
  OBVIOUS
<1>1. Types /\ Main \in Threads
  BY DEF ServeInv, Threads
<1>2. CASE LoopTest \/ LoopReady \/ LoopWoken \/ HandleAccept \/ Delete \/ JoinWorkers
           \/ DestroyConnections \/ JoinLoops
  <2> USE DEF Goto
  <2>1. /\ pc' = [pc EXCEPT ![Main] = pc'[Main]]
        /\ pc[Main] \notin {"init", "insert", "connections"} /\ pc'[Main] \notin {"init", "insert"}
    BY <1>1, <1>2 DEF LoopTest, LoopReady, LoopWoken, HandleAccept, Delete, JoinWorkers,
       DestroyConnections, JoinLoops, Types
  <2>2. UNCHANGED <<running_, loops>> /\ connections_' \subseteq connections_
    BY <1>2 DEF LoopTest, LoopReady, LoopWoken, HandleAccept, Delete, JoinWorkers,
       DestroyConnections, JoinLoops, flags
  <2>3. \A s \in Threads : pc[s] = "connections" => pc'[s] = "connections"
    BY <1>1, <2>1 DEF Types
  <2>4. InFlight' = InFlight
    BY <1>1, <2>1, MoveKeepsInFlight
  <2> QED
    BY <2>2, <2>3, <2>4, LateShrinks
<1>3. CASE IoStep \/ IoReady \/ UNCHANGED vars
  <2>1. UNCHANGED <<running_, loops, pc>> /\ connections_' \subseteq connections_
    BY <1>3 DEF IoStep, IoReady, IoTest, IoWoken, IoHandle, IoRead, Closes, vars, flags
  <2>2. InFlight' = InFlight
    BY <2>1 DEF InFlight
  <2> QED
    BY <2>1, <2>2, LateShrinks
<1>4. ASSUME NEW t \in Threads, StopStep(t) PROVE LateInv'
  BY <1>4, LateStop
<1>5. ASSUME NEW w \in Workers, WorkerStep(w) \/ CallbackStops(w) PROVE LateInv'
  <2>1. w \in Threads
    BY DEF Threads
  <2> QED
    BY <1>4, <1>5, <2>1, LateWorker
<1> QED
  BY <1>1, <1>2, <1>3, <1>4, <1>5 DEF Next, MainStep

(* After a Stop has cleared the map, fewer connections than there are      *)
(* workers are inserted late, whatever the number of workers and Stops.    *)
THEOREM ServerLateInsertsBounded == SafeSpec => []LateInsertsBounded
<1>1. LateInv => LateInsertsBounded
  <2> SUFFICES ASSUME LateInv, ~loops, \A t \in Threads : pc[t] \notin InStop
               PROVE  Cardinality(connections_) < Cardinality(Workers)
    BY DEF LateInsertsBounded
  <2>1. \A t \in Threads : pc[t] # "connections"
    BY DEF InStop
  <2>2. Cardinality(connections_) + Cardinality(InFlight) < Cardinality(Workers)
    BY <2>1 DEF LateInv
  <2>3. Cardinality(connections_) \in Nat
    BY FS_CardinalityType DEF LateInv
  <2> QED
    BY <2>2, <2>3, InFlightFinite
<1> QED
  BY <1>1, ServeInit, ServeNext, LateInit, LateNext, PTL DEF SafeSpec
===============================================================================
