------------------------------ MODULE Connection ------------------------------
(***************************************************************************)
(* The life of one server connection: TcpServer::OnNewConnection on one    *)
(* thread registers it, a loop's thread handles its epoll events, workers  *)
(* run its read tasks and send, and the last shared_ptr to go destroys it. *)
(* Bytes are counted, not kept (WritePath and ReadPath have their order).  *)
(*                                                                         *)
(* The Connection object is alive while it is referred to by the thread    *)
(* that creates it, by the server's map, by a queued task, or by a worker, *)
(* whose cur_task keeps its closure until the worker takes another task.   *)
(***************************************************************************)
EXTENDS Integers, FiniteSets

CONSTANTS
    Creator,      \* the thread in OnNewConnection
    Workers,      \* the other threads of the pool
    SendBuffer,   \* messages the kernel takes before it says EAGAIN
    MaxData,      \* bound: times the peer sends
    MaxSends      \* bound: calls of Send

ASSUME ConnectionAssumption ==
    /\ Creator \notin Workers
    /\ SendBuffer \in Nat \ {0}
    /\ MaxData \in Nat
    /\ MaxSends \in Nat

Threads == Workers \cup {Creator}

VARIABLES
    \* the kernel's side of the socket
    rcv,        \* data waits to be read
    fin,        \* the peer has sent a FIN
    rst,        \* the peer has sent a RST
    serr,       \* the pending socket error that the RST left
    shutR,      \* shutdown(SHUT_RD) was called
    shutW,      \* shutdown(SHUT_WR) was called
    room,       \* messages the send buffer has room for
    \* epoll
    reg,        \* the descriptor is in the loop's epoll set
    outInt,     \* with interest in EPOLLOUT
    ready,      \* and on the ready list
    \* the Connection, its Channel and the server's map
    cbs,        \* SetChannelCallbacks has run
    inMap,      \* connections_ has the connection
    shut_down,  \* shut_down_
    unread,     \* read_buffer_ is not empty
    wbuf,       \* messages in write_buffer_
    tasks,      \* read tasks in the pool's queue
    \* control
    loop,       \* where the loop's thread is in HandleEvents
    evts,       \* the events it handles
    lret,       \* what its flush returned
    pc,         \* where each other thread is
    ret,        \* what its flush returned
    exited,     \* EXIT was called
    \* history
    closes,     \* calls of OnCloseCallback
    missed,     \* an event was handled before the callbacks were set
    data,       \* times the peer has sent
    sends       \* calls of Send

kernel == <<rcv, fin, rst, serr, shutR, shutW, room>>
epoll == <<reg, outInt, ready>>
object == <<cbs, inMap, shut_down, unread, wbuf, tasks>>
control == <<loop, evts, lret, pc, ret, exited>>
history == <<closes, missed, data, sends>>
vars == <<kernel, epoll, object, control, history>>

Events == {"In", "RdHup", "Out", "Err", "Hup"}

(* What epoll_wait would report now, whatever was asked for. *)
Mask ==
    LET closedR == fin \/ rst \/ shutR
        closedW == rst \/ shutW
    IN  {e \in Events :
          \/ e = "In" /\ (rcv \/ closedR)
          \/ e = "RdHup" /\ closedR
          \/ e = "Out" /\ (room > 0 \/ closedW)
          \/ e = "Err" /\ serr
          \/ e = "Hup" /\ closedR /\ closedW}

(* No shared_ptr to the connection is left: it has been destroyed. *)
Freed ==
    /\ pc[Creator] = "done" /\ ~inMap /\ tasks = 0
    /\ \A w \in Workers : pc[w] = "idle"

(* Nothing more happens to a destroyed connection, or in a process that    *)
(* EXIT has ended.                                                         *)
Running == ~exited /\ ~Freed

Init ==
    /\ rcv = FALSE /\ fin = FALSE /\ rst = FALSE /\ serr = FALSE
    /\ shutR = FALSE /\ shutW = FALSE /\ room = SendBuffer
    /\ reg = FALSE /\ outInt = FALSE /\ ready = FALSE
    /\ cbs = FALSE /\ inMap = FALSE /\ shut_down = FALSE /\ unread = FALSE
    /\ wbuf = 0 /\ tasks = 0
    /\ loop = "poll" /\ evts = {} /\ lret = 0
    /\ pc = [t \in Threads |-> IF t = Creator THEN "new" ELSE "idle"]
    /\ ret = [t \in Threads |-> 0]
    /\ exited = FALSE
    /\ closes = 0 /\ missed = FALSE /\ data = 0 /\ sends = 0

-------------------------------------------------------------------------------
(* The peer: it sends, reads, closes its side, or resets the connection.   *)
(* Each change that poll could report puts a registered socket on the list.*)
PeerSends ==
    /\ Running
    /\ ~fin /\ ~rst /\ data < MaxData
    /\ rcv' = TRUE /\ data' = data + 1 /\ ready' = reg
    /\ UNCHANGED <<fin, rst, serr, shutR, shutW, room, reg, outInt, object, control,
                   closes, missed, sends>>

PeerFin ==
    /\ Running
    /\ ~fin /\ ~rst
    /\ fin' = TRUE /\ ready' = reg
    /\ UNCHANGED <<rcv, rst, serr, shutR, shutW, room, reg, outInt, object, control, history>>

PeerReset ==
    /\ Running
    /\ ~rst
    /\ rst' = TRUE /\ serr' = TRUE /\ ready' = reg
    /\ UNCHANGED <<rcv, fin, shutR, shutW, room, reg, outInt, object, control, history>>

PeerReads ==
    /\ Running
    /\ ~rst /\ room < SendBuffer
    /\ room' = room + 1
    /\ ready' = (ready \/ (reg /\ outInt /\ room = 0))
    /\ UNCHANGED <<rcv, fin, rst, serr, shutR, shutW, reg, outInt, object, control, history>>

-------------------------------------------------------------------------------
(* Pieces of the handlers. *)

(* WriteBufferToFd: EPIPE or ECONNRESET on a dead socket, else as much as  *)
(* there is room for, and EAGAIN when that is not all.                     *)
FlushResult == IF wbuf > 0 /\ (rst \/ shutW \/ wbuf > room) THEN -1 ELSE 0

WriteBuffer ==
    IF wbuf = 0 THEN UNCHANGED <<wbuf, room, serr>>
    ELSE IF rst \/ shutW THEN serr' = FALSE /\ UNCHANGED <<wbuf, room>>
    ELSE LET n == IF wbuf <= room THEN wbuf ELSE room IN
         /\ wbuf' = wbuf - n
         /\ room' = room - n
         /\ serr' = serr

(* Channel::EnableWrite: EPOLL_CTL_MOD fails with ENOENT, and EXITs, when  *)
(* the descriptor is no longer in the epoll set.                           *)
Mut_EnableWriteStrict(r) ==
    IF reg /\ closes = 0 /\ ~shutW
    THEN /\ outInt' = (r < 0)
         /\ ready' = (ready \/ Mask \ (IF r < 0 THEN {} ELSE {"Out"}) # {})
         /\ UNCHANGED <<reg, exited>>
    ELSE exited' = TRUE /\ UNCHANGED epoll

EnableWrite(r) ==
    IF reg
    THEN /\ outInt' = (r < 0)
         /\ ready' = (ready \/ Mask \ (IF r < 0 THEN {} ELSE {"Out"}) # {})
         /\ UNCHANGED <<reg, exited>>
    ELSE exited' = TRUE /\ UNCHANGED epoll

(* TcpServer::OnCloseConnectionCallback: erase the entry if it is there. *)
OnCloseConnectionCallback == inMap' = FALSE

(* EventPoller::RemoveChannel: EPOLL_CTL_DEL, with ENOENT ignored. *)
Mut_RemoveNothing ==
    /\ reg' = reg /\ ready' = reg
    /\ outInt' = outInt

RemoveChannel ==
    /\ reg' = FALSE /\ ready' = FALSE
    /\ outInt' = outInt

(* Connection::OnCloseCallback. *)
OnClose ==
    /\ shutW' = TRUE
    /\ RemoveChannel
    /\ OnCloseConnectionCallback
    /\ closes' = closes + 1

(* Connection::Close: both directions; the hang-up is reported later. *)
Close ==
    /\ shutR' = TRUE /\ shutW' = TRUE
    /\ ready' = reg

-------------------------------------------------------------------------------
(* The loop's thread: EventPoller::Poll and Channel::HandleEvents. *)

WantsRead(es) == es \cap {"In", "RdHup"} # {}

AfterWrite == IF WantsRead(evts) THEN "in" ELSE "poll"

Poll ==
    /\ Running
    /\ loop = "poll"
    /\ reg /\ ready
    /\ ready' = FALSE
    /\ evts' = Mask \ (IF outInt THEN {} ELSE {"Out"})
    /\ loop' = IF evts' = {} THEN "poll" ELSE "dispatch"
    /\ UNCHANGED <<kernel, reg, outInt, object, lret, pc, ret, exited, history>>

(* The tests in HandleEvents up to the write callback. *)
Dispatch ==
    /\ Running
    /\ loop = "dispatch"
    /\ missed' = (missed \/ (~cbs /\ evts # {"Out"}))
    /\ IF cbs /\ evts \cap {"Hup", "Err"} # {}
       THEN /\ OnClose
            /\ loop' = "poll"
       ELSE /\ loop' = IF ~cbs THEN "poll"
                       ELSE IF "Out" \in evts THEN "flush" ELSE AfterWrite
            /\ UNCHANGED <<shutW, epoll, inMap, closes>>
    /\ UNCHANGED <<rcv, fin, rst, serr, shutR, room, cbs, shut_down, unread, wbuf, tasks,
                   evts, lret, pc, ret, exited, data, sends>>

(* OnWriteCallback: first the flush. *)
OnWriteFlush ==
    /\ Running
    /\ loop = "flush"
    /\ WriteBuffer
    /\ lret' = FlushResult
    /\ loop' = "decide"
    /\ UNCHANGED <<rcv, fin, rst, shutR, shutW, epoll, cbs, inMap, shut_down, unread, tasks,
                   evts, pc, ret, exited, history>>

(* Then close, or change the interest in EPOLLOUT. *)
OnWriteDecide ==
    /\ Running
    /\ loop = "decide"
    /\ IF shut_down /\ wbuf = 0
       THEN OnClose /\ exited' = exited
       ELSE EnableWrite(lret) /\ UNCHANGED <<shutW, inMap, closes>>
    /\ loop' = AfterWrite
    /\ UNCHANGED <<rcv, fin, rst, serr, shutR, room, cbs, shut_down, unread, wbuf, tasks,
                   evts, lret, pc, ret, missed, data, sends>>

Mut_OnReadForgetsFin ==
    /\ Running
    /\ loop = "in"
    /\ loop' = IF shut_down THEN "poll" ELSE "notify"
    /\ rcv' = (rcv /\ shut_down)
    /\ unread' = (unread \/ (rcv /\ ~shut_down))
    /\ UNCHANGED <<fin, rst, serr, shutR, shutW, room, epoll, cbs, inMap, shut_down, wbuf,
                   tasks, evts, lret, pc, ret, exited, history>>

(* OnReadCallback up to the read callback: read to the end, then end of    *)
(* file, a reset or EAGAIN.                                                *)
OnRead ==
    /\ Running
    /\ loop = "in"
    /\ IF shut_down
       THEN /\ loop' = "poll"
            /\ UNCHANGED <<rcv, serr, shutW, epoll, inMap, shut_down, unread, closes>>
       ELSE /\ rcv' = FALSE
            /\ unread' = (unread \/ rcv)
            /\ IF serr /\ ~fin
               THEN /\ serr' = FALSE
                    /\ shut_down' = TRUE
                    /\ OnClose
                    /\ loop' = "poll"
               ELSE /\ shut_down' = (fin \/ rst \/ shutR)
                    /\ loop' = "notify"
                    /\ UNCHANGED <<serr, shutW, epoll, inMap, closes>>
    /\ UNCHANGED <<fin, rst, shutR, room, cbs, wbuf, tasks,
                   evts, lret, pc, ret, exited, missed, data, sends>>

(* The read callback queues a task that holds the connection. *)
OnReadNotify ==
    /\ Running
    /\ loop = "notify"
    /\ tasks' = IF unread THEN tasks + 1 ELSE tasks
    /\ loop' = "finish"
    /\ UNCHANGED <<kernel, epoll, cbs, inMap, shut_down, unread, wbuf,
                   evts, lret, pc, ret, exited, history>>

(* The end of OnReadCallback: Close() when nothing is left to send. *)
OnReadFinish ==
    /\ Running
    /\ loop = "finish"
    /\ loop' = "poll"
    /\ IF shut_down /\ wbuf = 0
       THEN Close
       ELSE UNCHANGED <<shutR, shutW, ready>>
    /\ UNCHANGED <<rcv, fin, rst, serr, room, reg, outInt, object,
                   evts, lret, pc, ret, exited, history>>

-------------------------------------------------------------------------------
(* The other threads. *)
Goto(t, label) == pc' = [pc EXCEPT ![t] = label]

Resting(t) == IF t = Creator THEN "done" ELSE "hold"

(* Connection::Init, first half: EPOLL_CTL_ADD, edge-triggered. *)
Register ==
    /\ Running
    /\ pc[Creator] = "new"
    /\ reg' = TRUE /\ outInt' = TRUE /\ ready' = (Mask # {})
    /\ Goto(Creator, "registered")
    /\ UNCHANGED <<kernel, object, loop, evts, lret, ret, exited, history>>

(* Connection::Init, second half. *)
SetChannelCallbacks ==
    /\ Running
    /\ pc[Creator] = "registered"
    /\ cbs' = TRUE
    /\ Goto(Creator, "insert")
    /\ UNCHANGED <<kernel, epoll, inMap, shut_down, unread, wbuf, tasks,
                   loop, evts, lret, ret, exited, history>>

Mut_InsertNothing ==
    /\ Running
    /\ pc[Creator] = "insert"
    /\ inMap' = FALSE
    /\ Goto(Creator, "user")
    /\ UNCHANGED <<kernel, epoll, cbs, shut_down, unread, wbuf, tasks,
                   loop, evts, lret, ret, exited, history>>

(* connections_.insert, before the connection callback. *)
Insert ==
    /\ Running
    /\ pc[Creator] = "insert"
    /\ inMap' = TRUE
    /\ Goto(Creator, "user")
    /\ UNCHANGED <<kernel, epoll, cbs, shut_down, unread, wbuf, tasks,
                   loop, evts, lret, ret, exited, history>>

(* A worker takes a read task; LockCallback lets one task of a connection  *)
(* run at a time.  The callback reads the whole buffer.                    *)
TakeTask(w) ==
    /\ Running
    /\ pc[w] \in {"idle", "hold"}
    /\ tasks > 0
    /\ \A v \in Workers : pc[v] \in {"idle", "hold"}
    /\ tasks' = tasks - 1
    /\ unread' = FALSE
    /\ Goto(w, "user")
    /\ UNCHANGED <<kernel, epoll, cbs, inMap, shut_down, wbuf,
                   loop, evts, lret, ret, exited, history>>

(* The user's callback returns without a call, ... *)
UserReturns(t) ==
    /\ Running
    /\ pc[t] = "user"
    /\ Goto(t, Resting(t))
    /\ UNCHANGED <<kernel, epoll, object, loop, evts, lret, ret, exited, history>>

(* ... or calls Close, ... *)
UserCloses(t) ==
    /\ Running
    /\ pc[t] = "user"
    /\ Close
    /\ Goto(t, Resting(t))
    /\ UNCHANGED <<rcv, fin, rst, serr, room, reg, outInt, object,
                   loop, evts, lret, ret, exited, history>>

(* ... or calls Send, which does nothing once the FIN was seen. *)
UserSends(t) ==
    /\ Running
    /\ pc[t] = "user"
    /\ sends < MaxSends
    /\ sends' = sends + 1
    /\ IF shut_down
       THEN Goto(t, Resting(t)) /\ wbuf' = wbuf
       ELSE Goto(t, "flush") /\ wbuf' = wbuf + 1
    /\ UNCHANGED <<kernel, epoll, cbs, inMap, shut_down, unread, tasks,
                   loop, evts, lret, ret, exited, closes, missed, data>>

SendFlush(t) ==
    /\ Running
    /\ pc[t] = "flush"
    /\ WriteBuffer
    /\ ret' = [ret EXCEPT ![t] = FlushResult]
    /\ Goto(t, "enable")
    /\ UNCHANGED <<rcv, fin, rst, shutR, shutW, epoll, cbs, inMap, shut_down, unread, tasks,
                   loop, evts, lret, exited, history>>

SendEnable(t) ==
    /\ Running
    /\ pc[t] = "enable"
    /\ EnableWrite(ret[t])
    /\ Goto(t, Resting(t))
    /\ UNCHANGED <<kernel, object, loop, evts, lret, ret, history>>

(* A worker takes a task of another connection and drops this one's. *)
DropTask(w) ==
    /\ Running
    /\ pc[w] = "hold"
    /\ Goto(w, "idle")
    /\ UNCHANGED <<kernel, epoll, object, loop, evts, lret, ret, exited, history>>

-------------------------------------------------------------------------------
LoopStep ==
    \/ Poll \/ Dispatch \/ OnWriteFlush \/ OnWriteDecide
    \/ OnRead \/ OnReadNotify \/ OnReadFinish

ThreadStep(t) ==
    \/ UserReturns(t) \/ UserCloses(t) \/ UserSends(t)
    \/ SendFlush(t) \/ SendEnable(t)

CreatorStep == Register \/ SetChannelCallbacks \/ Insert \/ ThreadStep(Creator)

WorkerStep(w) == TakeTask(w) \/ ThreadStep(w)

Next ==
    \/ PeerSends \/ PeerFin \/ PeerReset \/ PeerReads
    \/ LoopStep
    \/ CreatorStep
    \/ \E w \in Workers : WorkerStep(w) \/ DropTask(w)

SafeSpec == Init /\ [][Next]_vars

(* The library's threads are scheduled and user callbacks return; nothing  *)
(* is asked of the peer.                                                   *)
Spec ==
    /\ SafeSpec
    /\ WF_vars(LoopStep)
    /\ WF_vars(CreatorStep)
    /\ \A w \in Workers : WF_vars(WorkerStep(w))

-------------------------------------------------------------------------------
Labels == {"new", "registered", "insert", "user", "flush", "enable", "idle", "hold", "done"}

(* The type invariant: what the connection, the kernel and epoll can hold; *)
(* write_buffer_ has no more messages than were sent.                      *)
TypeOK ==
    /\ {rcv, fin, rst, serr, shutR, shutW} \subseteq BOOLEAN
    /\ room \in 0 .. SendBuffer
    /\ {reg, outInt, ready} \subseteq BOOLEAN
    /\ {cbs, inMap, shut_down, unread} \subseteq BOOLEAN
    /\ wbuf \in 0 .. sends
    /\ tasks \in Nat
    /\ loop \in {"poll", "dispatch", "flush", "decide", "in", "notify", "finish"}
    /\ evts \subseteq Events
    /\ lret \in {0, -1}
    /\ pc \in [Threads -> Labels]
    /\ ret \in [Threads -> {0, -1}]
    /\ {exited, missed} \subseteq BOOLEAN
    /\ closes \in Nat /\ data \in 0 .. MaxData /\ sends \in 0 .. MaxSends

(* "OnCloseCallback can only be called once" (Connection.cpp:284): no      *)
(* order of resets, hang-ups, flushes and reads calls it a second time.    *)
CloseOnce == closes <= 1

(* A connection is destroyed only after OnCloseCallback has taken it out   *)
(* of epoll, which keeps a bare pointer to its channel.                    *)
FreedIsClosed == Freed => closes > 0 /\ ~reg

(* HandleEvents uses the channel no more once the connection is destroyed. *)
NoUseAfterFree == Freed => loop \notin {"flush", "decide", "in", "notify", "finish"}

(* EXIT is reached only by a Send whose EnableWrite comes after            *)
(* OnCloseCallback: a connection on which nobody sends, or that is not yet *)
(* closed, never ends the process (EventPoller.cpp:71).                    *)
ExitsOnlyAfterClose == exited => closes > 0 /\ sends > 0

(* A peer that closes or resets is noticed: OnCloseCallback runs, unless   *)
(* the event came before the callbacks were set, or something was sent: a  *)
(* Send between its Write and its flush hides the end of the connection.   *)
HangupHandled == (fin \/ rst) ~> (closes > 0 \/ missed \/ sends > 0)
===============================================================================
