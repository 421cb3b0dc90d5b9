------------------------------- MODULE TcpServer -------------------------------
(***************************************************************************)
(* TcpServer from Start to the end of its destructor: the thread in Start  *)
(* runs the accepting loop; workers run OnNewConnection and may call Stop  *)
(* from the connection callback, as tests/stop_server does; the thread     *)
(* deletes the server when Start returns.  One more thread stands for the  *)
(* loops of loop_threads_.  Connections are opaque (see Connection.tla).   *)
(***************************************************************************)
EXTENDS Integers, Sequences, FiniteSets

CONSTANTS
    Main,           \* the thread that calls Start and then deletes the server
    Workers,        \* the threads of working_threads_
    Clients,        \* the connections that may arrive
    None,           \* no thread, no client
    DeleteWaits,    \* whether Main waits for a running Stop before it deletes
    MaxStops        \* bound: calls of Stop from connection callbacks

ASSUME ServerAssumption ==
    /\ IsFiniteSet(Workers) /\ Main \notin Workers
    /\ None \notin Clients \cup Workers \cup {Main}
    /\ DeleteWaits \in BOOLEAN
    /\ MaxStops \in Nat

Threads == Workers \cup {Main}

VARIABLES
    running_,       \* TcpServer::running_
    acceptor_,      \* acceptor_ and channel_ are not null
    listening,      \* the listening socket is open
    loop_,          \* loop_ is not null
    looping,        \* EventLoop::running_ of loop_
    woken,          \* the wakeup pipe of loop_ holds a byte
    serving,        \* the holder of mutex_serving_
    loops,          \* EventLoop::running_ of the loops of loop_threads_
    iopc,           \* where their thread is
    io,             \* the connection whose events it is handling
    connections_,   \* connections_
    watched,        \* the connections in the epoll set
    queue,          \* OnNewConnection tasks of working_threads_
    pc,             \* where each thread is
    cur,            \* the client of a thread's handler or task
    stops,          \* history: calls of Stop from callbacks
    fault           \* the object that was used after it was destroyed

flags == <<running_, acceptor_, listening, loop_, looping, woken, serving, loops>>
ioVars == <<iopc, io, watched>>
vars == <<flags, ioVars, connections_, queue, pc, cur, stops, fault>>

(* Start up to StartLoop, which runs with mutex_serving_ held. *)
Init ==
    /\ running_ = TRUE
    /\ acceptor_ = TRUE
    /\ listening = TRUE
    /\ loop_ = TRUE
    /\ looping = TRUE
    /\ loops = TRUE
    /\ woken = FALSE
    /\ serving = Main
    /\ iopc = "test"
    /\ io = None
    /\ connections_ = {}
    /\ watched = {}
    /\ queue = <<>>
    /\ pc = [t \in Threads |-> IF t = Main THEN "test" ELSE "idle"]
    /\ cur = [t \in Threads |-> None]
    /\ stops = 0
    /\ fault = "none"

(* Undefined behaviour ends what is modelled. *)
Sound == fault = "none"

(* Thread t goes from one place in the code to another. *)
Goto(t, from, to) ==
    /\ Sound
    /\ pc[t] = from
    /\ pc' = [pc EXCEPT ![t] = to]

InStop == {"running", "acceptor", "close", "loop", "stoploop", "wakeup", "serving", "loops",
           "connections"}

(* A connection lives while the map or its OnNewConnection refers to it. *)
Alive(c) == c \in connections_ \/ \E w \in Workers : cur[w] = c

(* A client that has no connection may connect. *)
Arriving == {c \in Clients :
    /\ ~Alive(c) /\ c # io
    /\ \A i \in 1 .. Len(queue) : queue[i] # c}

-------------------------------------------------------------------------------
(* Main in StartLoop: the test of running_, ... *)
LoopTest ==
    /\ Goto(Main, "test", IF looping THEN "poll" ELSE "returned")
    /\ serving' = IF looping THEN serving ELSE None
    /\ fault' = IF loop_ THEN fault ELSE "loop"
    /\ UNCHANGED <<running_, acceptor_, listening, loop_, looping, woken, loops>>
    /\ UNCHANGED <<ioVars, connections_, queue, cur, stops>>

(* ... epoll_wait, which reports a client ... *)
LoopReady ==
    /\ Goto(Main, "poll", "accept")
    /\ listening
    /\ \E c \in Arriving : cur' = [cur EXCEPT ![Main] = c]
    /\ UNCHANGED <<flags, ioVars, connections_, queue, stops, fault>>

(* ... or the byte in the pipe, ... *)
LoopWoken ==
    /\ Goto(Main, "poll", "test")
    /\ woken
    /\ woken' = FALSE
    /\ UNCHANGED <<running_, acceptor_, listening, loop_, looping, serving, loops>>
    /\ UNCHANGED <<ioVars, connections_, queue, cur, stops, fault>>

(* ... and HandleAcceptCallback, through the channel and the acceptor. *)
HandleAccept ==
    /\ Goto(Main, "accept", "test")
    /\ IF acceptor_
       THEN queue' = Append(queue, cur[Main]) /\ fault' = fault
       ELSE queue' = queue /\ fault' = "acceptor"
    /\ cur' = [cur EXCEPT ![Main] = None]
    /\ UNCHANGED <<flags, ioVars, connections_, stops>>

-------------------------------------------------------------------------------
(* A worker in OnNewConnection. *)
Take(w) ==
    /\ Goto(w, "idle", "check")
    /\ queue # <<>>
    /\ cur' = [cur EXCEPT ![w] = Head(queue)]
    /\ queue' = Tail(queue)
    /\ UNCHANGED <<flags, ioVars, connections_, stops, fault>>

Mut_CheckNothing(w) ==
    /\ Goto(w, "check", "init")
    /\ UNCHANGED <<flags, ioVars, connections_, queue, cur, stops, fault>>

(* A client accepted too late is dropped, its descriptor left open. *)
CheckRunning(w) ==
    /\ Goto(w, "check", IF running_ THEN "init" ELSE "idle")
    /\ cur' = [cur EXCEPT ![w] = IF running_ THEN @ ELSE None]
    /\ UNCHANGED <<flags, ioVars, connections_, queue, stops, fault>>

(* Connection::Init registers the socket, ... *)
InitConnection(w) ==
    /\ Goto(w, "init", "insert")
    /\ watched' = watched \cup {cur[w]}
    /\ UNCHANGED <<flags, iopc, io, connections_, queue, cur, stops, fault>>

Mut_InsertNothing(w) ==
    /\ Goto(w, "insert", "user")
    /\ UNCHANGED <<flags, ioVars, connections_, queue, cur, stops, fault>>

(* ... then the map gets it, ... *)
Insert(w) ==
    /\ Goto(w, "insert", "user")
    /\ connections_' = connections_ \cup {cur[w]}
    /\ UNCHANGED <<flags, ioVars, queue, cur, stops, fault>>

(* ... and the connection callback returns, or calls Stop. *)
CallbackReturns(w) ==
    /\ Goto(w, "user", "idle")
    /\ cur' = [cur EXCEPT ![w] = None]
    /\ UNCHANGED <<flags, ioVars, connections_, queue, stops, fault>>

CallbackStops(w) ==
    /\ Goto(w, "user", "running")
    /\ stops < MaxStops
    /\ stops' = stops + 1
    /\ UNCHANGED <<flags, ioVars, connections_, queue, cur, fault>>

-------------------------------------------------------------------------------
(* A loop of loop_threads_: the test of its running_, ... *)
IoTest ==
    /\ Sound /\ iopc = "test"
    /\ iopc' = IF loops THEN "poll" ELSE "exited"
    /\ UNCHANGED <<flags, io, watched, connections_, queue, pc, cur, stops, fault>>

(* ... an event of a connection, or the wakeup of StopLoop, ... *)
IoReady ==
    /\ Sound /\ iopc = "poll"
    /\ iopc' = "handle"
    /\ io' \in {c \in watched : Alive(c)}
    /\ UNCHANGED <<flags, watched, connections_, queue, pc, cur, stops, fault>>

IoWoken ==
    /\ Sound /\ iopc = "poll" /\ ~loops
    /\ iopc' = "test"
    /\ UNCHANGED <<flags, io, watched, connections_, queue, pc, cur, stops, fault>>

(* ... and HandleEvents: a hang-up or an error leaves epoll and the map    *)
(* and is the end; so may the write callback, after a FIN, but then the    *)
(* read event comes, ...                                                   *)
Closes(c) == watched' = watched \ {c} /\ connections_' = connections_ \ {c}
IoHandle ==
    /\ Sound /\ iopc = "handle"
    /\ IF Alive(io)
       THEN /\ iopc' \in {"read", "test"} /\ fault' = fault
            /\ UNCHANGED <<watched, connections_>> \/ Closes(io)
       ELSE iopc' = "test" /\ fault' = "connection" /\ UNCHANGED <<watched, connections_>>
    /\ io' = IF iopc' = "read" THEN io ELSE None
    /\ UNCHANGED <<flags, queue, pc, cur, stops>>

(* ... through the channel: gone, if HandleEvents has closed its own       *)
(* connection before, or another thread has destroyed it.                  *)
IoRead ==
    /\ Sound /\ iopc = "read" /\ iopc' = "test" /\ io' = None
    /\ IF Alive(io)
       THEN fault' = fault /\ (UNCHANGED <<watched, connections_>> \/ Closes(io))
       ELSE /\ fault' = IF io \in watched THEN "connection" ELSE "own"
            /\ UNCHANGED <<watched, connections_>>
    /\ UNCHANGED <<flags, queue, pc, cur, stops>>

-------------------------------------------------------------------------------
(* Stop, by a worker or in the destructor, step by step. *)
StopRunning(t) ==
    /\ Goto(t, "running", "acceptor")
    /\ running_' = FALSE
    /\ UNCHANGED <<acceptor_, listening, loop_, looping, woken, serving, loops>>
    /\ UNCHANGED <<ioVars, connections_, queue, cur, stops, fault>>

(* acceptor_.reset(), and channel_.reset() by the first caller, who closes *)
(* the socket after it.                                                    *)
StopAcceptor(t) ==
    /\ Goto(t, "acceptor", IF acceptor_ THEN "close" ELSE "loop")
    /\ acceptor_' = FALSE
    /\ UNCHANGED <<running_, listening, loop_, looping, woken, serving, loops>>
    /\ UNCHANGED <<ioVars, connections_, queue, cur, stops, fault>>

StopClose(t) ==
    /\ Goto(t, "close", "loop")
    /\ listening' = FALSE
    /\ UNCHANGED <<running_, acceptor_, loop_, looping, woken, serving, loops>>
    /\ UNCHANGED <<ioVars, connections_, queue, cur, stops, fault>>

(* if (loop_) ... *)
StopTestLoop(t) ==
    /\ Goto(t, "loop", IF loop_ THEN "stoploop" ELSE "serving")
    /\ UNCHANGED <<flags, ioVars, connections_, queue, cur, stops, fault>>

(* ... loop_->StopLoop(): running_ = false, then Wakeup(). *)
StopLoop(t) ==
    /\ Goto(t, "stoploop", "wakeup")
    /\ looping' = (looping /\ ~loop_)
    /\ fault' = IF loop_ THEN fault ELSE "loop"
    /\ UNCHANGED <<running_, acceptor_, listening, loop_, woken, serving, loops>>
    /\ UNCHANGED <<ioVars, connections_, queue, cur, stops>>

Mut_NoWakeup(t) ==
    /\ Goto(t, "wakeup", "serving")
    /\ UNCHANGED <<flags, ioVars, connections_, queue, cur, stops, fault>>

StopWakeup(t) ==
    /\ Goto(t, "wakeup", "serving")
    /\ woken' = (woken \/ loop_)
    /\ fault' = IF loop_ THEN fault ELSE "loop"
    /\ UNCHANGED <<running_, acceptor_, listening, loop_, looping, serving, loops>>
    /\ UNCHANGED <<ioVars, connections_, queue, cur, stops>>

Mut_StopServingUnlocked(t) ==
    /\ Goto(t, "serving", "loops")
    /\ loop_' = FALSE
    /\ UNCHANGED <<running_, acceptor_, listening, looping, woken, serving, loops>>
    /\ UNCHANGED <<ioVars, connections_, queue, cur, stops, fault>>

(* Under mutex_serving_, which Main holds while it is in StartLoop. *)
StopServing(t) ==
    /\ Goto(t, "serving", "loops")
    /\ serving = None
    /\ loop_' = FALSE
    /\ UNCHANGED <<running_, acceptor_, listening, looping, woken, serving, loops>>
    /\ UNCHANGED <<ioVars, connections_, queue, cur, stops, fault>>

StopLoopThreads(t) ==
    /\ Goto(t, "loops", "connections")
    /\ loops' = FALSE
    /\ UNCHANGED <<running_, acceptor_, listening, loop_, looping, woken, serving>>
    /\ UNCHANGED <<ioVars, connections_, queue, cur, stops, fault>>

Mut_StopJoinsWorkers(t) ==
    /\ Goto(t, "connections", IF t = Main THEN "join" ELSE "idle")
    /\ \A w \in Workers : pc[w] = "idle"
    /\ connections_' = {}
    /\ cur' = [cur EXCEPT ![t] = None]
    /\ UNCHANGED <<flags, ioVars, queue, stops, fault>>

(* Every connection is shut down and the map cleared; Stop returns, and    *)
(* with it a worker's callback.                                            *)
StopConnections(t) ==
    /\ Goto(t, "connections", IF t = Main THEN "join" ELSE "idle")
    /\ connections_' = {}
    /\ cur' = [cur EXCEPT ![t] = None]
    /\ UNCHANGED <<flags, ioVars, queue, stops, fault>>

-------------------------------------------------------------------------------
(* Start has returned and Main deletes the server: Stop, ... *)
Delete ==
    /\ Goto(Main, "returned", "running")
    /\ DeleteWaits => \A w \in Workers : pc[w] \notin InStop
    /\ UNCHANGED <<flags, ioVars, connections_, queue, cur, stops, fault>>

(* ... then working_threads_.reset(), which joins the workers once they    *)
(* have emptied the queue, ...                                             *)
JoinWorkers ==
    /\ Goto(Main, "join", "members")
    /\ queue = <<>> /\ \A w \in Workers : pc[w] = "idle"
    /\ UNCHANGED <<flags, ioVars, connections_, queue, cur, stops, fault>>

(* ... then the members: connections_ before loop_threads_, whose          *)
(* destructor joins the loops.                                             *)
DestroyConnections ==
    /\ Goto(Main, "members", "joinloops")
    /\ connections_' = {}
    /\ UNCHANGED <<flags, ioVars, queue, cur, stops, fault>>

JoinLoops ==
    /\ Goto(Main, "joinloops", "gone")
    /\ iopc = "exited"
    /\ UNCHANGED <<flags, ioVars, connections_, queue, cur, stops, fault>>

-------------------------------------------------------------------------------
StopStep(t) ==
    \/ StopRunning(t) \/ StopAcceptor(t) \/ StopClose(t) \/ StopTestLoop(t) \/ StopLoop(t)
    \/ StopWakeup(t) \/ StopServing(t) \/ StopLoopThreads(t) \/ StopConnections(t)

MainStep ==
    \/ LoopTest \/ LoopWoken \/ HandleAccept
    \/ Delete \/ JoinWorkers \/ DestroyConnections \/ JoinLoops
    \/ StopStep(Main)

WorkerStep(w) ==
    \/ Take(w) \/ CheckRunning(w) \/ InitConnection(w) \/ Insert(w)
    \/ CallbackReturns(w) \/ StopStep(w)

IoStep == IoTest \/ IoWoken \/ IoHandle \/ IoRead

Next ==
    \/ MainStep \/ LoopReady
    \/ \E w \in Workers : WorkerStep(w) \/ CallbackStops(w)
    \/ IoStep \/ IoReady

SafeSpec == Init /\ [][Next]_vars

(* Threads are scheduled and callbacks return; nothing makes a client      *)
(* arrive, an event occur or a callback call Stop.                         *)
Spec ==
    /\ SafeSpec
    /\ WF_vars(MainStep)
    /\ \A w \in Workers : WF_vars(WorkerStep(w))
    /\ WF_vars(IoStep)

-------------------------------------------------------------------------------
(* The type invariant. *)
TypeOK ==
    /\ {running_, acceptor_, listening, loop_, looping, woken, loops} \subseteq BOOLEAN
    /\ serving \in {Main, None}
    /\ iopc \in {"test", "poll", "handle", "read", "exited"}
    /\ io \in Clients \cup {None}
    /\ connections_ \subseteq Clients
    /\ watched \subseteq Clients
    /\ queue \in Seq(Clients)
    /\ pc \in [Threads -> InStop \cup {"test", "poll", "accept", "returned", "join", "members",
                 "joinloops", "gone", "idle", "check", "init", "insert", "user"}]
    /\ cur \in [Threads -> Clients \cup {None}]
    /\ stops \in 0 .. MaxStops
    /\ fault \in {"none", "acceptor", "loop", "connection", "own"}

(* Neither StartLoop nor a Stop uses the accepting loop after a Stop has   *)
(* let go of it.                                                           *)
LoopOutlivesUse == fault # "loop"

(* While the server serves, no other thread destroys what a loop has       *)
(* reported before or while HandleEvents uses it: only a Stop, which joins *)
(* no loop, does so to the acceptor, the accepting loop or a connection.   *)
(* A connection whose own write callback closes it is the other case.      *)
DestroyedOnlyByStop == fault \notin {"none", "own"} => ~running_

(* Once the Stop of a callback has cleared connections_, only calls of     *)
(* OnNewConnection that had passed the test of running_ before can still   *)
(* insert: at most one for each other worker.                              *)
LateInsertsBounded ==
    (stops > 0 /\ ~loops /\ \A t \in Threads : pc[t] \notin InStop)
        => Cardinality(connections_) < Cardinality(Workers)

(* The destructor returns, also while a callback is in Stop: the threads   *)
(* are joined outside of Stop, "in case of a call to Stop() in connection  *)
(* callback" (TcpServer.cpp:63-65).                                        *)
DestructorReturns == pc[Main] = "returned" ~> (pc[Main] = "gone" \/ ~Sound)

(* A Stop called from a connection callback makes Start return. *)
StopEndsStart == stops > 0 ~> (pc[Main] \notin {"test", "poll", "accept"} \/ ~Sound)
===============================================================================
