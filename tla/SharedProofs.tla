----------------------------- MODULE SharedProofs -----------------------------
(***************************************************************************)
(* Three objects that threads share: a connection, the logger and the memory*)
(* pool, for any number of threads, lines, blocks and wrappers and any     *)
(* bounds.                                                                 *)
(***************************************************************************)
EXTENDS Connection, Logger, MemoryPool, SequenceTheorems, TLAPS

-------------------------------------------------------------------------------
(* Connection.                                                             *)

(* The creating thread has put the connection into the map. *)
Inserted == pc[Creator] \in {"user", "flush", "enable", "done"}

LifeInv ==
    /\ pc \in [Threads -> Labels]
    /\ closes \in Nat
    \* OnCloseCallback runs at most once: afterwards the channel is out of
    \* epoll for good, and the rest of HandleEvents returns at shut_down_.
    /\ CloseOnce
    /\ reg => pc[Creator] # "new"
    /\ loop # "poll" => pc[Creator] # "new"
    /\ closes > 0 =>
          /\ ~reg
          /\ pc[Creator] # "new"
          /\ loop = "poll" \/ (loop = "in" /\ shut_down)
    \* The map's reference lasts until OnCloseCallback.
    /\ Inserted => inMap \/ closes > 0

(* A connection begins in the invariant. *)
LEMMA LifeInit == Init => LifeInv
BY ConnectionAssumption DEF Init, LifeInv, Labels, Threads, CloseOnce, Inserted

(* What OnCloseCallback leaves behind, wherever it is called from. *)
LEMMA OnCloseKeeps ==
    ASSUME LifeInv, closes = 0, OnClose, pc' = pc, pc[Creator] # "new",
           loop' = "poll" \/ (loop' = "in" /\ shut_down')
    PROVE  LifeInv'
BY DEF LifeInv, OnClose, RemoveChannel, OnCloseConnectionCallback, CloseOnce, Inserted

(* A step of the loop's thread that does not close. *)
LEMMA LoopKeeps ==
    ASSUME LifeInv, closes' = closes, reg' = reg, inMap' = inMap, pc' = pc,
           pc[Creator] # "new",
           closes > 0 => loop' = "poll"
    PROVE  LifeInv'
BY DEF LifeInv, CloseOnce, Inserted

(* A step of another thread, or of the peer. *)
LEMMA ThreadKeeps ==
    ASSUME LifeInv, pc' \in [Threads -> Labels], closes' = closes, loop' = loop,
           shut_down' = shut_down, reg' = reg, inMap' = inMap,
           pc[Creator] # "new" => pc'[Creator] # "new",
           pc'[Creator] \in {"user", "flush", "enable", "done"} => Inserted
    PROVE  LifeInv'
BY DEF LifeInv, CloseOnce, Inserted

(* Every step of a connection's life preserves it. *)
LEMMA LifeNext == LifeInv /\ [Next]_vars => LifeInv'
<1> SUFFICES ASSUME LifeInv, [Next]_vars PROVE LifeInv'
  OBVIOUS
<1> USE ConnectionAssumption
<1>0. pc \in [Threads -> Labels] /\ Creator \in Threads /\ closes \in Nat
  BY DEF LifeInv, Threads
<1>1. CASE PeerSends \/ PeerFin \/ PeerReset \/ PeerReads
  <2>1. UNCHANGED <<closes, loop, shut_down, reg, inMap, pc>>
    BY <1>1 DEF PeerSends, PeerFin, PeerReset, PeerReads, object, control, history
  <2> QED BY <1>0, <2>1, ThreadKeeps DEF Inserted
<1>2. CASE Poll
  <2>1. /\ reg /\ UNCHANGED <<closes, reg, inMap, pc>>
        /\ pc[Creator] # "new" /\ closes = 0
    BY <1>0, <1>2 DEF Poll, object, history, LifeInv
  <2> QED BY <2>1, LoopKeeps
<1>3. CASE Dispatch
  <2>1. loop = "dispatch" /\ pc' = pc /\ pc[Creator] # "new" /\ closes = 0
    BY <1>0, <1>3 DEF Dispatch, LifeInv
  <2>2. CASE cbs /\ evts \cap {"Hup", "Err"} # {}
    <3>1. OnClose /\ loop' = "poll"
      BY <1>3, <2>2 DEF Dispatch
    <3> QED BY <2>1, <3>1, OnCloseKeeps
  <2>3. CASE ~(cbs /\ evts \cap {"Hup", "Err"} # {})
    <3>1. UNCHANGED <<closes, reg, inMap>>
      BY <1>3, <2>3 DEF Dispatch, epoll
    <3> QED BY <2>1, <3>1, LoopKeeps
  <2> QED BY <2>2, <2>3
<1>4. CASE OnWriteFlush
  <2>1. /\ UNCHANGED <<closes, reg, inMap, pc>>
        /\ loop = "flush" /\ pc[Creator] # "new" /\ closes = 0
    BY <1>0, <1>4 DEF OnWriteFlush, epoll, history, LifeInv
  <2> QED BY <2>1, LoopKeeps
<1>5. CASE OnWriteDecide
  <2>1. /\ loop = "decide" /\ pc' = pc /\ pc[Creator] # "new" /\ closes = 0
        /\ shut_down' = shut_down /\ loop' = AfterWrite
    BY <1>0, <1>5 DEF OnWriteDecide, LifeInv
  <2>2. CASE shut_down /\ wbuf = 0
    <3>1. OnClose /\ (loop' = "poll" \/ (loop' = "in" /\ shut_down'))
      BY <1>5, <2>1, <2>2 DEF OnWriteDecide, AfterWrite
    <3> QED BY <2>1, <3>1, OnCloseKeeps
  <2>3. CASE ~(shut_down /\ wbuf = 0)
    <3>1. UNCHANGED <<closes, reg, inMap>>
      BY <1>5, <2>3 DEF OnWriteDecide, EnableWrite, epoll
    <3> QED BY <2>1, <3>1, LoopKeeps
  <2> QED BY <2>2, <2>3
<1>6. CASE OnRead
  <2>1. loop = "in" /\ pc' = pc /\ pc[Creator] # "new"
    BY <1>0, <1>6 DEF OnRead, LifeInv
  <2>2. CASE shut_down
    <3>1. loop' = "poll" /\ UNCHANGED <<closes, reg, inMap>>
      BY <1>6, <2>2 DEF OnRead, epoll
    <3> QED BY <2>1, <3>1, LoopKeeps
  <2>3. CASE ~shut_down
    <3>1. closes = 0
      BY <1>0, <2>1, <2>3 DEF LifeInv
    <3>2. CASE serr /\ ~fin
      <4>1. OnClose /\ loop' = "poll"
        BY <1>6, <2>3, <3>2 DEF OnRead
      <4> QED BY <2>1, <3>1, <4>1, OnCloseKeeps
    <3>3. CASE ~(serr /\ ~fin)
      <4>1. UNCHANGED <<closes, reg, inMap>>
        BY <1>6, <2>3, <3>3 DEF OnRead, epoll
      <4> QED BY <2>1, <3>1, <4>1, LoopKeeps
    <3> QED BY <3>2, <3>3
  <2> QED BY <2>2, <2>3
<1>7. CASE OnReadNotify \/ OnReadFinish
  <2>1. /\ UNCHANGED <<closes, reg, inMap, pc>>
        /\ loop # "poll" /\ pc[Creator] # "new" /\ closes = 0
    BY <1>0, <1>7 DEF OnReadNotify, OnReadFinish, Close, epoll, object, history, LifeInv
  <2> QED BY <2>1, LoopKeeps
<1>8. CASE Register
  <2>1. /\ pc[Creator] = "new" /\ pc'[Creator] = "registered"
        /\ pc' \in [Threads -> Labels]
        /\ UNCHANGED <<closes, loop, inMap>>
    BY <1>0, <1>8 DEF Register, Goto, Labels, object, history
  <2> QED BY <2>1 DEF LifeInv, CloseOnce, Inserted
<1>9. CASE SetChannelCallbacks
  <2>1. /\ pc' = [pc EXCEPT ![Creator] = "insert"]
        /\ UNCHANGED <<closes, loop, shut_down, reg, inMap>>
    BY <1>9 DEF SetChannelCallbacks, Goto, epoll, history
  <2>2. pc' \in [Threads -> Labels] /\ pc'[Creator] = "insert"
    BY <1>0, <2>1 DEF Labels
  <2> QED BY <2>1, <2>2, ThreadKeeps
<1>10. CASE Insert
  <2>1. /\ pc' = [pc EXCEPT ![Creator] = "user"] /\ inMap' = TRUE
        /\ UNCHANGED <<closes, loop, shut_down, reg>>
    BY <1>10 DEF Insert, Goto, epoll, history
  <2>2. pc' \in [Threads -> Labels] /\ pc'[Creator] = "user"
    BY <1>0, <2>1 DEF Labels
  <2> QED BY <2>1, <2>2 DEF LifeInv, CloseOnce
<1>11. ASSUME NEW w \in Workers, TakeTask(w) \/ DropTask(w) PROVE LifeInv'
  <2>1. /\ pc' \in [Threads -> Labels] /\ pc'[Creator] = pc[Creator]
        /\ UNCHANGED <<closes, loop, shut_down, reg, inMap>>
    BY <1>0, <1>11 DEF TakeTask, DropTask, Goto, Labels, Threads, epoll, object, history
  <2> QED BY <2>1, ThreadKeeps DEF Inserted
<1>12. ASSUME NEW t \in Threads, ThreadStep(t) PROVE LifeInv'
  <2>1. UNCHANGED <<closes, loop, shut_down, reg, inMap>>
    BY <1>12 DEF ThreadStep, UserReturns, UserCloses, UserSends, SendFlush, SendEnable,
                 EnableWrite, epoll, object, history
  <2>2. /\ pc[t] \in {"user", "flush", "enable"}
        /\ \E l \in {"flush", "enable", "done", "hold"} :
              /\ pc' = [pc EXCEPT ![t] = l]
              /\ t = Creator => l # "hold"
    BY <1>12 DEF ThreadStep, UserReturns, UserCloses, UserSends, SendFlush, SendEnable,
                 Goto, Resting
  <2>3. pc' \in [Threads -> Labels]
    BY <1>0, <2>2 DEF Labels
  <2>4. pc[Creator] # "new" => pc'[Creator] # "new"
    BY <1>0, <2>2
  <2>5. pc'[Creator] \in {"user", "flush", "enable", "done"} => Inserted
    BY <1>0, <2>2 DEF Inserted
  <2> QED BY <2>1, <2>3, <2>4, <2>5, ThreadKeeps
<1>13. CASE UNCHANGED vars
  <2>1. UNCHANGED <<closes, loop, shut_down, reg, inMap, pc>>
    BY <1>13 DEF vars, epoll, object, control, history
  <2> QED BY <1>0, <2>1, ThreadKeeps DEF Inserted
<1>14. \A w \in Workers : w \in Threads
  BY DEF Threads
<1> QED
  BY <1>0, <1>1, <1>2, <1>3, <1>4, <1>5, <1>6, <1>7, <1>8, <1>9, <1>10, <1>11, <1>12,
     <1>13, <1>14
  DEF Next, LoopStep, CreatorStep, WorkerStep

(* OnCloseCallback runs at most once for a connection, as the comment in   *)
(* Connection::OnReadCallback asks.                                        *)
THEOREM ConnectionCloseOnce == SafeSpec => []CloseOnce
<1>1. LifeInv => CloseOnce
  BY DEF LifeInv
<1> QED BY <1>1, LifeInit, LifeNext, PTL DEF SafeSpec

(* A connection is destroyed only when OnCloseCallback has removed its     *)
(* channel from epoll.                                                     *)
THEOREM ConnectionFreedIsClosed == SafeSpec => []FreedIsClosed
<1>1. LifeInv => FreedIsClosed
  BY DEF LifeInv, FreedIsClosed, Freed, Inserted
<1> QED BY <1>1, LifeInit, LifeNext, PTL DEF SafeSpec

-------------------------------------------------------------------------------
(* EXIT is reached only through a Send whose connection was closed before   *)
(* its EnableWrite.                                                         *)
ExitInv ==
    /\ sends \in Nat /\ tasks \in Nat
    \* Tasks are queued only for a connection that has been registered, ...
    /\ tasks > 0 \/ (\E w \in Workers : pc[w] # "idle") => pc[Creator] # "new"
    \* ... and one that has been registered stays so until it is closed.
    /\ pc[Creator] # "new" => reg \/ closes > 0
    /\ (\E t \in Threads : pc[t] \in {"flush", "enable"}) => sends > 0
    /\ ExitsOnlyAfterClose

LEMMA ExitInit == Init => ExitInv
BY ConnectionAssumption DEF Init, ExitInv, Threads, ExitsOnlyAfterClose

(* A step that leaves the threads alone and EXIT unreached. *)
LEMMA ExitKeeps ==
    ASSUME ExitInv, closes \in Nat, closes' \in Nat, pc' = pc, sends' = sends, exited' = exited,
           tasks' = tasks \/ (tasks' \in Nat /\ pc[Creator] # "new"),
           closes > 0 => closes' > 0, reg' = reg \/ closes' > 0
    PROVE  ExitInv'
BY DEF ExitInv, ExitsOnlyAfterClose

(* Every step preserves it. *)
LEMMA ExitNext == LifeInv /\ ExitInv /\ [Next]_vars => ExitInv'
<1> SUFFICES ASSUME LifeInv, ExitInv, [Next]_vars PROVE ExitInv'
  OBVIOUS
<1> USE ConnectionAssumption
<1>0. pc \in [Threads -> Labels] /\ Creator \in Threads /\ closes \in Nat /\ sends \in Nat
  BY DEF LifeInv, ExitInv, Threads
<1>1. CASE PeerSends \/ PeerFin \/ PeerReset \/ PeerReads
  <2>1. UNCHANGED <<closes, reg, sends, tasks, exited, pc>>
    BY <1>1 DEF PeerSends, PeerFin, PeerReset, PeerReads, object, control, history
  <2> QED BY <1>0, <2>1, ExitKeeps
<1>2. CASE Poll \/ OnWriteFlush \/ OnReadFinish
  <2>1. UNCHANGED <<closes, reg, sends, tasks, exited, pc>>
    BY <1>2 DEF Poll, OnWriteFlush, OnReadFinish, Close, epoll, object, history
  <2> QED BY <1>0, <2>1, ExitKeeps
<1>3. CASE Dispatch \/ OnRead
  <2>1. UNCHANGED <<sends, tasks, exited, pc>>
    BY <1>3 DEF Dispatch, OnRead
  <2>2. UNCHANGED <<closes, reg>> \/ closes' = closes + 1
    BY <1>3 DEF Dispatch, OnRead, OnClose, epoll
  <2> QED BY <1>0, <2>1, <2>2, ExitKeeps
<1>4. CASE OnWriteDecide
  <2>1. UNCHANGED <<sends, tasks, pc>> /\ loop = "decide"
    BY <1>4 DEF OnWriteDecide
  <2>2. reg
    BY <1>0, <2>1 DEF LifeInv, ExitInv
  <2>3. (exited' = exited /\ closes' = closes + 1) \/ UNCHANGED <<closes, reg, exited>>
    BY <1>4, <2>2, Zenon DEF OnWriteDecide, OnClose, EnableWrite
  <2> QED BY <1>0, <2>1, <2>3, ExitKeeps
<1>5. CASE OnReadNotify
  <2>1. UNCHANGED <<closes, reg, sends, exited, pc>> /\ loop = "notify" /\ tasks' \in {tasks, tasks + 1}
    BY <1>5 DEF OnReadNotify, epoll, history
  <2>2. pc[Creator] # "new" /\ tasks' \in Nat
    BY <1>0, <2>1 DEF LifeInv, ExitInv
  <2> QED BY <1>0, <2>1, <2>2, ExitKeeps
<1>6. CASE Register \/ SetChannelCallbacks \/ Insert
  <2>1. /\ UNCHANGED <<closes, sends, tasks, exited>>
        /\ \E l \in {"registered", "insert", "user"} : pc' = [pc EXCEPT ![Creator] = l]
        /\ reg' = TRUE \/ (reg' = reg /\ pc[Creator] # "new")
    BY <1>6 DEF Register, SetChannelCallbacks, Insert, Goto, epoll, object, history
  <2>2. /\ pc'[Creator] \notin {"new", "flush", "enable"}
        /\ \A t \in Threads : t # Creator => pc'[t] = pc[t]
    BY <1>0, <2>1
  <2> QED BY <1>0, <2>1, <2>2 DEF ExitInv, ExitsOnlyAfterClose, Threads
<1>7. ASSUME NEW w \in Workers, TakeTask(w) \/ DropTask(w) PROVE ExitInv'
  <2>1. /\ UNCHANGED <<closes, reg, sends, exited>> /\ tasks' \in Nat
        /\ \E l \in {"user", "idle"} : pc' = [pc EXCEPT ![w] = l]
        /\ pc[Creator] # "new"
    BY <1>0, <1>7 DEF TakeTask, DropTask, Goto, epoll, object, history, ExitInv
  <2>2. /\ pc'[Creator] = pc[Creator] /\ pc'[w] \notin {"flush", "enable"}
        /\ \A t \in Threads : t # w => pc'[t] = pc[t]
    BY <1>0, <2>1 DEF Threads
  <2> QED BY <1>0, <2>1, <2>2 DEF ExitInv, ExitsOnlyAfterClose
<1>8. ASSUME NEW t \in Threads, ThreadStep(t) PROVE ExitInv'
  <2>1. /\ UNCHANGED <<closes, reg, tasks>>
        /\ pc[t] \in {"user", "flush", "enable"}
        /\ \E l \in {"flush", "enable", "done", "hold"} : pc' = [pc EXCEPT ![t] = l]
    BY <1>8 DEF ThreadStep, UserReturns, UserCloses, UserSends, SendFlush, SendEnable, EnableWrite,
                Goto, Resting, epoll, object, history
  <2>2. /\ pc[Creator] # "new" /\ pc'[Creator] # "new"
        /\ \A u \in Threads : u # t => pc'[u] = pc[u]
    BY <1>0, <2>1 DEF ExitInv, Threads
  <2>3. /\ sends' = sends \/ sends' = sends + 1
        /\ pc'[t] \in {"flush", "enable"} => sends' > 0
    <3>1. CASE UserSends(t)
      BY <1>0, <3>1 DEF UserSends
    <3>2. CASE SendFlush(t)
      BY <1>0, <3>2, Zenon DEF SendFlush, ExitInv, history
    <3>3. CASE UserReturns(t) \/ UserCloses(t) \/ SendEnable(t)
      BY <1>0, <3>3 DEF UserReturns, UserCloses, SendEnable, Goto, Resting, history
    <3> QED BY <1>8, <3>1, <3>2, <3>3 DEF ThreadStep
  <2>4. exited' = exited \/ (closes > 0 /\ sends > 0 /\ sends' = sends)
    BY <1>0, <1>8, <2>2, Zenon
       DEF ThreadStep, UserReturns, UserCloses, UserSends, SendFlush, SendEnable,
           EnableWrite, history, ExitInv
  <2> QED BY <1>0, <2>1, <2>2, <2>3, <2>4 DEF ExitInv, ExitsOnlyAfterClose
<1>9. CASE UNCHANGED vars
  <2>1. UNCHANGED <<closes, reg, sends, tasks, exited, pc>>
    BY <1>9 DEF vars, epoll, object, control, history
  <2> QED BY <1>0, <2>1, ExitKeeps
<1>10. \A w \in Workers : w \in Threads
  BY DEF Threads
<1> QED
  BY <1>0, <1>1, <1>2, <1>3, <1>4, <1>5, <1>6, <1>7, <1>8, <1>9, <1>10
  DEF Next, LoopStep, CreatorStep, WorkerStep

(* The process ends only by a Send that finds its connection closed.       *)
THEOREM ConnectionExitsOnlyAfterClose == SafeSpec => []ExitsOnlyAfterClose
<1>1. ExitInv => ExitsOnlyAfterClose
  BY DEF ExitInv
<1> QED BY <1>1, LifeInit, LifeNext, ExitInit, ExitNext, PTL DEF SafeSpec

-------------------------------------------------------------------------------
(* The type invariant, the flags apart from the rest. *)
FlagTypes ==
    /\ {rcv, fin, rst, serr, shutR, shutW} \subseteq BOOLEAN
    /\ {reg, outInt, ready} \subseteq BOOLEAN
    /\ {cbs, inMap, shut_down, unread} \subseteq BOOLEAN
    /\ {exited, missed} \subseteq BOOLEAN

DataTypes ==
    /\ room \in 0 .. SendBuffer
    /\ wbuf \in 0 .. sends
    /\ tasks \in Nat
    /\ loop \in {"poll", "dispatch", "flush", "decide", "in", "notify", "finish"}
    /\ evts \subseteq Events
    /\ lret \in {0, -1}
    /\ pc \in [Threads -> Labels]
    /\ ret \in [Threads -> {0, -1}]
    /\ closes \in Nat /\ data \in 0 .. MaxData /\ sends \in 0 .. MaxSends

(* Channel::EnableWrite changes flags to flags. *)
LEMMA EnableWriteFlags ==
    ASSUME FlagTypes, NEW r \in {0, -1}, EnableWrite(r)
    PROVE  {reg', outInt', ready', exited'} \subseteq BOOLEAN
<1>1. CASE reg
  <2>1. outInt' = (r < 0) /\ reg' = reg /\ exited' = exited
    BY <1>1 DEF EnableWrite
  <2>2. ready' \in BOOLEAN
    BY <1>1, Zenon DEF EnableWrite
  <2>3. (r < 0) \in BOOLEAN
    OBVIOUS
  <2> QED BY <2>1, <2>2, <2>3 DEF FlagTypes
<1>2. CASE ~reg
  BY <1>2 DEF EnableWrite, epoll, FlagTypes
<1> QED BY <1>1, <1>2

(* Every step keeps the flags Boolean, ... *)
LEMMA FlagStep == FlagTypes /\ DataTypes /\ [Next]_vars => FlagTypes'
<1> SUFFICES ASSUME FlagTypes, DataTypes, [Next]_vars PROVE FlagTypes'
  OBVIOUS
<1> USE DEF FlagTypes, kernel, epoll, object, control, history
<1>1. CASE PeerSends \/ PeerFin \/ PeerReset \/ PeerReads
  BY <1>1, Zenon DEF PeerSends, PeerFin, PeerReset, PeerReads
<1>2. CASE Poll \/ OnReadNotify
  BY <1>2, Zenon DEF Poll, OnReadNotify
<1>3. CASE Dispatch
  BY <1>3, Zenon DEF Dispatch, OnClose, RemoveChannel, OnCloseConnectionCallback
<1>4. CASE OnWriteFlush
  BY <1>4, Zenon DEF OnWriteFlush, WriteBuffer
<1>5. CASE OnWriteDecide
  <2>1. CASE shut_down /\ wbuf = 0
    BY <1>5, <2>1, Zenon DEF OnWriteDecide, OnClose, RemoveChannel, OnCloseConnectionCallback
  <2>2. CASE ~(shut_down /\ wbuf = 0)
    <3>1. lret \in {0, -1} /\ EnableWrite(lret)
      BY <1>5, <2>2 DEF OnWriteDecide, DataTypes
    <3>2. {reg', outInt', ready', exited'} \subseteq BOOLEAN
      BY <3>1, EnableWriteFlags
    <3> QED BY <1>5, <2>2, <3>2 DEF OnWriteDecide
  <2> QED BY <2>1, <2>2
<1>6. CASE OnRead
  BY <1>6, Zenon DEF OnRead, OnClose, RemoveChannel, OnCloseConnectionCallback
<1>7. CASE OnReadFinish
  BY <1>7, Zenon DEF OnReadFinish, Close
<1>8. CASE Register \/ SetChannelCallbacks \/ Insert
  BY <1>8, Zenon DEF Register, SetChannelCallbacks, Insert
<1>9. ASSUME NEW w \in Workers, TakeTask(w) \/ DropTask(w) PROVE FlagTypes'
  BY <1>9, Zenon DEF TakeTask, DropTask
<1>10. ASSUME NEW t \in Threads, UserReturns(t) \/ UserCloses(t) \/ UserSends(t) PROVE FlagTypes'
  BY <1>10, Zenon DEF UserReturns, UserCloses, UserSends, Close
<1>11. ASSUME NEW t \in Threads, SendFlush(t) PROVE FlagTypes'
  BY <1>11, Zenon DEF SendFlush, WriteBuffer
<1>12. ASSUME NEW t \in Threads, SendEnable(t) PROVE FlagTypes'
  <2>1. ret[t] \in {0, -1} /\ EnableWrite(ret[t])
    BY <1>12 DEF SendEnable, DataTypes
  <2>2. {reg', outInt', ready', exited'} \subseteq BOOLEAN
    BY <2>1, EnableWriteFlags
  <2> QED BY <1>12, <2>2 DEF SendEnable
<1>13. CASE UNCHANGED vars
  BY <1>13 DEF vars
<1> QED
  BY <1>1, <1>2, <1>3, <1>4, <1>5, <1>6, <1>7, <1>8, <1>9, <1>10, <1>11, <1>12, <1>13, Zenon
     DEF Next, LoopStep, CreatorStep, WorkerStep, ThreadStep, Threads

(* ... and the counters within their bounds. *)
LEMMA DataStep == DataTypes /\ [Next]_vars => DataTypes'
<1> SUFFICES ASSUME DataTypes, [Next]_vars PROVE DataTypes'
  OBVIOUS
<1> USE ConnectionAssumption DEF DataTypes, Labels, kernel, epoll, object, control, history
<1>0. Mask \subseteq Events
  BY Zenon DEF Mask
<1>1. CASE PeerSends \/ PeerFin \/ PeerReset \/ PeerReads
  BY <1>1, SMTT(20) DEF PeerSends, PeerFin, PeerReset, PeerReads
<1>2. CASE Poll
  BY <1>0, <1>2 DEF Poll
<1>3. CASE Dispatch
  BY <1>3 DEF Dispatch, OnClose, AfterWrite
<1>4. CASE OnWriteFlush
  BY <1>4 DEF OnWriteFlush, WriteBuffer, FlushResult
<1>5. CASE OnWriteDecide
  BY <1>5 DEF OnWriteDecide, OnClose, AfterWrite
<1>6. CASE OnRead
  BY <1>6 DEF OnRead, OnClose
<1>7. CASE OnReadNotify \/ OnReadFinish
  BY <1>7 DEF OnReadNotify, OnReadFinish
<1>8. CASE Register \/ SetChannelCallbacks \/ Insert
  BY <1>8 DEF Register, SetChannelCallbacks, Insert, Goto, Threads
<1>9. ASSUME NEW w \in Workers, TakeTask(w) \/ DropTask(w) PROVE DataTypes'
  BY <1>9, SMTT(20) DEF TakeTask, DropTask, Goto, Threads
<1>10. ASSUME NEW t \in Threads, UserReturns(t) \/ UserCloses(t) \/ UserSends(t) PROVE DataTypes'
  BY <1>10, SMTT(20) DEF UserReturns, UserCloses, UserSends, Goto, Resting
<1>11. ASSUME NEW t \in Threads, SendFlush(t) PROVE DataTypes'
  BY <1>11 DEF SendFlush, WriteBuffer, FlushResult, Goto
<1>12. ASSUME NEW t \in Threads, SendEnable(t) PROVE DataTypes'
  BY <1>12 DEF SendEnable, Goto, Resting
<1>13. CASE UNCHANGED vars
  BY <1>13 DEF vars
<1> QED
  BY <1>1, <1>2, <1>3, <1>4, <1>5, <1>6, <1>7, <1>8, <1>9, <1>10, <1>11, <1>12, <1>13, Zenon
     DEF Next, LoopStep, CreatorStep, WorkerStep, ThreadStep, Threads

(* Every variable keeps its type; write_buffer_ never has more messages    *)
(* than Send was given, whichever threads flush it.                        *)
THEOREM ConnectionTypeOK == SafeSpec => []TypeOK
<1>1. Init => FlagTypes
  BY Zenon DEF Init, FlagTypes
<1>2. Init => DataTypes
  BY ConnectionAssumption DEF Init, DataTypes, Labels, Threads
<1>3. FlagTypes /\ DataTypes => TypeOK
  BY Zenon DEF FlagTypes, DataTypes, TypeOK
<1> QED BY <1>1, <1>2, <1>3, FlagStep, DataStep, PTL DEF SafeSpec

-------------------------------------------------------------------------------
(* Logger.                                                                 *)

(* Adding a line to a sequence of lines. *)
LEMMA AppendLine ==
    ASSUME NEW s \in Seq(Loud), NEW l \in Loud
    PROVE  /\ Append(s, l) \in Seq(Loud)
           /\ s \o <<l>> = Append(s, l)
           /\ Range(Append(s, l)) = Range(s) \cup {l}
<1>1. Append(s, l) \in Seq(Loud) /\ s \o <<l>> = Append(s, l)
  BY AppendProperties, AppendIsConcat
<1>2. Range(Append(s, l)) = Range(s) \cup {l}
  <2>1. /\ DOMAIN s = 1 .. Len(s) /\ Len(s) \in Nat
        /\ DOMAIN Append(s, l) = 1 .. Len(s) + 1
    BY <1>1, AppendProperties, LenProperties
  <2>2. /\ \A i \in 1 .. Len(s) : Append(s, l)[i] = s[i]
        /\ Append(s, l)[Len(s) + 1] = l
    BY AppendProperties
  <2> QED BY <2>1, <2>2 DEF Range
<1> QED BY <1>1, <1>2

(* Lines are joined in either order. *)
LEMMA LinesConcat ==
    ASSUME NEW a \in Seq(Loud), NEW b \in Seq(Loud), NEW c \in Seq(Loud)
    PROVE  (a \o b) \o c = a \o (b \o c)
BY ConcatAssociative, SMTT(20)

(* The first line of a queue moves into the hands of the logging thread. *)
LEMMA TakeLine ==
    ASSUME NEW s \in Seq(Loud), NEW q \in Seq(Loud), q # <<>>
    PROVE  /\ Head(q) \in Loud /\ Tail(q) \in Seq(Loud)
           /\ (s \o <<>>) \o q = (s \o <<Head(q)>>) \o Tail(q)
<1>1. Head(q) \in Loud /\ Tail(q) \in Seq(Loud) /\ Len(Tail(q)) = Len(q) - 1
      /\ \A i \in 1 .. Len(Tail(q)) : Tail(q)[i] = q[i + 1]
  BY HeadTailProperties
<1>2. <<Head(q)>> \in Seq(Loud) /\ Len(<<Head(q)>>) = 1 /\ Len(q) \in Nat \ {0}
  BY <1>1, EmptySeq
<1>3. q = <<Head(q)>> \o Tail(q)
  <2>1. /\ <<Head(q)>> \o Tail(q) \in Seq(Loud)
        /\ Len(<<Head(q)>> \o Tail(q)) = Len(q)
    BY <1>1, <1>2, ConcatProperties
  <2>2. \A i \in 1 .. Len(q) : (<<Head(q)>> \o Tail(q))[i] = q[i]
    BY <1>1, <1>2, ConcatProperties
  <2> QED BY <2>1, <2>2, SeqEqual
<1>4. s \o <<>> = s
  BY ConcatEmptySeq
<1>5. (s \o <<Head(q)>>) \o Tail(q) = s \o (<<Head(q)>> \o Tail(q))
  BY <1>1, <1>2, LinesConcat, Zenon
<1> QED BY <1>1, <1>3, <1>4, <1>5, Zenon

(* A line queued behind the others. *)
LEMMA QueueLine ==
    ASSUME NEW s \in Seq(Loud), NEW t \in Seq(Loud), NEW q \in Seq(Loud), NEW l \in Loud
    PROVE  Append((s \o t) \o q, l) = (s \o t) \o Append(q, l)
<1>1. s \o t \in Seq(Loud) /\ (s \o t) \o q \in Seq(Loud) /\ <<l>> \in Seq(Loud)
  BY ConcatProperties
<1>2. Append(q, l) = q \o <<l>>
  BY AppendIsConcat
<1>3. Append((s \o t) \o q, l) = ((s \o t) \o q) \o <<l>>
  BY <1>1, AppendIsConcat
<1>4. ((s \o t) \o q) \o <<l>> = (s \o t) \o (q \o <<l>>)
  BY <1>1, LinesConcat, SMTT(20)
<1> QED BY <1>2, <1>3, <1>4, Zenon

LEMMA EmptyRange == Range(<<>>) = {}
BY DEF Range

LEMMA OneRange == ASSUME NEW l PROVE Range(<<l>>) = {l}
BY DEF Range

-------------------------------------------------------------------------------
(* The conjuncts of the type invariant, for the provers. *)
Typed ==
    /\ logger \in {"none", "alive", "destroyed"}
    /\ logRunning \in BOOLEAN /\ late \in BOOLEAN /\ wild \in BOOLEAN
    /\ message_queue \in Seq(Loud) /\ msg \in Seq(Loud) /\ file \in Seq(Loud) /\ logged \in Seq(Loud)
    /\ logThread \in {"check", "wait", "write", "left"} /\ (logThread # "left" => logger = "alive")
    /\ writer \in [LogWriters -> {LogIdle, <<"notify">>} \cup ({"got"} \X Lines)]
    /\ releasing \in {"no", "notify", "join", "done"}

(* The logging thread holds a line exactly while it writes, and leaves     *)
(* only when the queue is empty: a line that is there afterwards came      *)
(* when running_ was already cleared.                                      *)
ThreadInv ==
    /\ logThread = "write" => \E l \in Loud : msg = <<l>>
    /\ logThread # "write" => msg = <<>>
    /\ logThread = "left" => ~logRunning /\ (message_queue = <<>> \/ late)
    /\ releasing \in {"notify", "join"} => logger = "alive" /\ ~logRunning

(* No line is queued twice: the callers hold lines that are new. *)
FreshInv ==
    \A w \in LogWriters, l \in Lines :
        writer[w] = <<"got", l>> =>
            /\ l \notin Range(logged)
            /\ \A v \in LogWriters : v # w => writer[v] # <<"got", l>>

LogInv == Typed /\ ThreadInv /\ FileInOrder

LEMMA LogInvInit == LogInit => LogInv /\ FreshInv
<1>1. LogInit => Typed /\ ThreadInv
  BY EmptySeq, Zenon DEF LogInit, Typed, ThreadInv, LogIdle
<1>2. LogInit => FileInOrder
  BY ConcatEmptySeq, EmptySeq DEF LogInit, FileInOrder
<1>3. LogInit => FreshInv
  BY DEF LogInit, FreshInv, LogIdle
<1> QED BY <1>1, <1>2, <1>3 DEF LogInv

-------------------------------------------------------------------------------
(* The steps that move lines.  In each the line stays in the sequence of   *)
(* what is written, in hand and queued.                                    *)
LEMMA WriteLogKeeps ==
    ASSUME LogInv, NEW w \in LogWriters, NEW l \in Lines, WriteLog(w, l)
    PROVE  LogInv'
<1>1. Typed /\ ThreadInv /\ FileInOrder
  BY DEF LogInv
<1>2. CASE logger = "alive" /\ l \in Loud
  <2>1. Append(message_queue, l) \in Seq(Loud) /\ Append(logged, l) \in Seq(Loud)
    BY <1>1, <1>2, AppendLine DEF Typed
  <2>2. /\ message_queue' = Append(message_queue, l) /\ logged' = Append(logged, l)
        /\ late' = (late \/ ~logRunning) /\ wild' = (logger = "destroyed")
        /\ writer' = [writer EXCEPT ![w] = <<"notify">>]
        /\ UNCHANGED <<logger, logRunning, logThread, msg, file, releasing>>
    BY <1>2 DEF WriteLog
  <2>3. late' \in BOOLEAN /\ wild' \in BOOLEAN
    BY <1>1, <2>2, Zenon DEF Typed
  <2>4. Typed'
    BY <1>1, <2>1, <2>2, <2>3, Zenon DEF Typed
  <2>5. ThreadInv'
    BY <1>1, <2>2, Zenon DEF ThreadInv, Typed
  <2>6. FileInOrder'
    <3>1. file \in Seq(Loud) /\ msg \in Seq(Loud) /\ message_queue \in Seq(Loud) /\ l \in Loud
      BY <1>1, <1>2 DEF Typed
    <3>2. Append((file \o msg) \o message_queue, l) = (file \o msg) \o Append(message_queue, l)
      BY <3>1, QueueLine, ZenonT(30)
    <3> QED BY <1>1, <2>2, <3>2, Zenon DEF FileInOrder
  <2> QED BY <2>4, <2>5, <2>6 DEF LogInv
<1>3. CASE ~(logger = "alive" /\ l \in Loud)
  <2>1. /\ wild' = (logger = "destroyed")
        /\ writer' = [writer EXCEPT ![w] = LogIdle]
        /\ UNCHANGED <<message_queue, logged, late, logger, logRunning, logThread, msg, file, releasing>>
    BY <1>3 DEF WriteLog
  <2>2. wild' \in BOOLEAN
    BY <2>1, Zenon
  <2> QED BY <1>1, <2>1, <2>2, Zenon DEF LogInv, Typed, ThreadInv, FileInOrder
<1> QED BY <1>2, <1>3

LEMMA LogTakeKeeps == ASSUME LogInv, LogTake PROVE LogInv'
<1>1. Typed /\ ThreadInv /\ FileInOrder /\ msg = <<>>
  BY DEF LogInv, LogTake, ThreadInv
<1>2. CASE message_queue # <<>>
  <2>1. /\ logThread' = "write" /\ msg' = <<Head(message_queue)>> /\ message_queue' = Tail(message_queue)
        /\ logThread = "check"
        /\ UNCHANGED <<logger, logRunning, file, writer, releasing, logged, late, wild>>
    BY <1>2 DEF LogTake
  <2>2. /\ Head(message_queue) \in Loud /\ Tail(message_queue) \in Seq(Loud)
        /\ (file \o <<>>) \o message_queue = (file \o <<Head(message_queue)>>) \o Tail(message_queue)
    BY <1>1, <1>2, TakeLine DEF Typed
  <2>3. msg' \in Seq(Loud)
    BY <2>1, <2>2
  <2>4. logThread' \in {"check", "wait", "write", "left"} /\ logger' = "alive"
    BY <1>1, <2>1 DEF Typed
  <2> QED BY <1>1, <2>1, <2>2, <2>3, <2>4, Zenon DEF LogInv, Typed, ThreadInv, FileInOrder
<1>3. CASE message_queue = <<>>
  <2>1. /\ logThread' = (IF logRunning THEN "wait" ELSE "left") /\ msg' = msg /\ message_queue' = message_queue
        /\ logThread = "check"
        /\ UNCHANGED <<logger, logRunning, file, writer, releasing, logged, late, wild>>
    BY <1>1, <1>3 DEF LogTake
  <2>2. Typed'
    BY <1>1, <2>1, Zenon DEF Typed
  <2>3. ThreadInv'
    BY <1>1, <1>3, <2>1 DEF Typed, ThreadInv
  <2> QED BY <1>1, <2>1, <2>2, <2>3, Zenon DEF LogInv, FileInOrder
<1> QED BY <1>2, <1>3

LEMMA LogWriteKeeps == ASSUME LogInv, LogWrite PROVE LogInv'
<1>1. Typed /\ ThreadInv /\ FileInOrder
  BY DEF LogInv
<1>2. /\ file' = file \o msg /\ msg' = <<>> /\ logThread' = "check" /\ logThread = "write"
      /\ UNCHANGED <<logger, logRunning, message_queue, writer, releasing, logged, late, wild>>
  BY DEF LogWrite
<1>3. file \o msg \in Seq(Loud) /\ (file \o msg) \o <<>> = file \o msg /\ <<>> \in Seq(Loud)
  BY <1>1, ConcatProperties, ConcatEmptySeq DEF Typed
<1>4. logThread' \in {"check", "wait", "write", "left"} /\ logger' = "alive" /\ logThread' # "write"
      /\ logThread' # "left"
  BY <1>1, <1>2 DEF Typed
<1> QED BY <1>1, <1>2, <1>3, <1>4, Zenon DEF LogInv, Typed, ThreadInv, FileInOrder

(* The other steps leave every line where it is. *)
LEMMA QuietStepsKeep ==
    ASSUME LogInv,
           \/ \E w \in LogWriters : LogNotify(w) \/ \E l \in Lines : LogCall(w, l)
           \/ LogSpurious \/ ReleaseStop \/ ReleaseNotify \/ ReleaseJoin \/ UNCHANGED logVars
    PROVE  LogInv'
<1>1. Typed /\ ThreadInv /\ FileInOrder
  BY DEF LogInv
<1>2. UNCHANGED <<message_queue, msg, file, logged, late>>
  BY Zenon DEF LogNotify, LogCall, NewLogger, LogSpurious, ReleaseStop, ReleaseNotify, ReleaseJoin, logVars
<1>3. FileInOrder'
  BY <1>1, <1>2 DEF FileInOrder
<1>4. wild' \in BOOLEAN /\ logRunning' \in BOOLEAN /\ late' \in BOOLEAN
  BY <1>1, <1>2, Zenon DEF Typed, LogNotify, LogCall, NewLogger, LogSpurious, ReleaseStop, ReleaseNotify, ReleaseJoin, logVars
<1>5. writer' \in [LogWriters -> {LogIdle, <<"notify">>} \cup ({"got"} \X Lines)]
  BY <1>1, SMTT(20) DEF Typed, LogNotify, LogCall, NewLogger, LogSpurious, ReleaseStop, ReleaseNotify, ReleaseJoin, logVars
<1>6. /\ logger' \in {"none", "alive", "destroyed"} /\ releasing' \in {"no", "notify", "join", "done"}
      /\ logThread' \in {"check", "wait", "write", "left"} /\ (logThread' # "left" => logger' = "alive")
  BY <1>1 DEF Typed, LogNotify, NotifyLogThread, LogCall, NewLogger, LogSpurious, ReleaseStop, ReleaseNotify,
              ReleaseJoin, logVars
<1>7. Typed'
  BY <1>1, <1>2, <1>4, <1>5, <1>6, Zenon DEF Typed
<1>8. ThreadInv'
  <2>1. (logThread' = "write") = (logThread = "write")
    BY <1>1 DEF Typed, ThreadInv, LogNotify, NotifyLogThread, LogCall, NewLogger, LogSpurious, ReleaseStop,
                ReleaseNotify, ReleaseJoin, logVars
  <2>2. logThread' = "left" => ~logRunning' /\ logThread = "left"
    BY <1>1 DEF Typed, ThreadInv, LogNotify, NotifyLogThread, LogCall, NewLogger, LogSpurious, ReleaseStop,
                ReleaseNotify, ReleaseJoin, logVars
  <2>3. releasing' \in {"notify", "join"} => logger' = "alive" /\ ~logRunning'
    BY <1>1 DEF Typed, ThreadInv, LogNotify, LogCall, NewLogger, LogSpurious, ReleaseStop, ReleaseNotify,
                ReleaseJoin, logVars
  <2> QED BY <1>1, <1>2, <2>1, <2>2, <2>3, Zenon DEF ThreadInv
<1> QED BY <1>3, <1>7, <1>8 DEF LogInv

LEMMA LogInvNext == LogInv /\ [LogNext]_logVars => LogInv'
BY WriteLogKeeps, LogTakeKeeps, LogWriteKeeps, QuietStepsKeep
   DEF LogNext, LogThreadStep, LogReleaseStep, LogWriterStep

LEMMA FreshNext == LogInv /\ FreshInv /\ [LogNext]_logVars => FreshInv'
<1> SUFFICES ASSUME LogInv, FreshInv, [LogNext]_logVars PROVE FreshInv'
  OBVIOUS
<1>1. logged \in Seq(Loud) /\ writer \in [LogWriters -> {LogIdle, <<"notify">>} \cup ({"got"} \X Lines)]
  BY DEF LogInv, Typed
<1>2. ASSUME NEW w \in LogWriters, NEW l \in Lines, LogCall(w, l) PROVE FreshInv'
  BY <1>1, <1>2 DEF LogCall, NewLogger, FreshInv
<1>3. ASSUME NEW w \in LogWriters, NEW l \in Lines, WriteLog(w, l) PROVE FreshInv'
  <2>1. Range(logged') \subseteq Range(logged) \cup {l}
    BY <1>1, <1>3, AppendLine, Zenon DEF WriteLog
  <2>2. \A v \in LogWriters : \A k \in Lines :
            writer'[v] = <<"got", k>> => writer[v] = <<"got", k>> /\ v # w
    BY <1>1, <1>3 DEF WriteLog, LogIdle
  <2>3. \A v \in LogWriters : v # w => writer[v] # <<"got", l>>
    BY <1>3 DEF WriteLog, FreshInv
  <2> QED BY <2>1, <2>2, <2>3 DEF FreshInv
<1>4. ASSUME NEW w \in LogWriters, LogNotify(w) PROVE FreshInv'
  <2>1. /\ logged' = logged
        /\ \A v \in LogWriters : \A k \in Lines :
              writer'[v] = <<"got", k>> => writer[v] = <<"got", k>>
    BY <1>1, <1>4 DEF LogNotify, LogIdle
  <2> QED BY <2>1 DEF FreshInv
<1>5. CASE UNCHANGED <<logged, writer>>
  BY <1>5 DEF FreshInv
<1>6. LogTake \/ LogWrite \/ LogSpurious \/ ReleaseStop \/ ReleaseNotify \/ ReleaseJoin \/ UNCHANGED logVars
      => UNCHANGED <<logged, writer>>
  BY DEF LogTake, LogWrite, LogSpurious, ReleaseStop, ReleaseNotify, ReleaseJoin, logVars
<1> QED
  BY <1>2, <1>3, <1>4, <1>5, <1>6 DEF LogNext, LogThreadStep, LogReleaseStep, LogWriterStep

LEMMA LoggerInvariant == LogSpec => [](LogInv /\ FreshInv)
BY LogInvInit, LogInvNext, FreshNext, PTL DEF LogSpec

(* The logger's state keeps its type, and its thread never outlives it. *)
THEOREM LoggerTypeOK == LogSpec => []LogTypeOK
<1>1. LogInv => LogTypeOK
  BY DEF LogInv, Typed, LogTypeOK
<1> QED BY <1>1, LoggerInvariant, PTL

(* The lines of the file, the one in the hands of ThreadFunc and the queue *)
(* are, in this order, the lines that WriteLog and WriteLogFmt queued.     *)
THEOREM LoggerFileInOrder == LogSpec => []FileInOrder
<1>1. LogInv => FileInOrder
  BY DEF LogInv
<1> QED BY <1>1, LoggerInvariant, PTL

-------------------------------------------------------------------------------
(* Every step of the logger is a step of the executor of lines, or leaves  *)
(* the executor's state alone.                                             *)
LEMMA LinesStutter ==
    ASSUME UNCHANGED <<logged, message_queue, msg, file>>,
           (logger = "destroyed" /\ ~late)' = (logger = "destroyed" /\ ~late)
    PROVE  UNCHANGED LineExecutor!vars
BY DEF LineExecutor!vars

LEMMA WriteLogSubmits ==
    ASSUME LogInv, FreshInv, NEW w \in LogWriters, NEW l \in Loud, WriteLog(w, l), logger = "alive"
    PROVE  LineExecutor!Submit(l)
<1>1. /\ message_queue' = Append(message_queue, l) /\ logged' = Append(logged, l)
      /\ writer[w] = <<"got", l>> /\ UNCHANGED <<logger, msg, file>>
  BY DEF WriteLog
<1>2. Range(logged') = Range(logged) \cup {l}
  BY <1>1, AppendLine DEF LogInv, Typed
<1>3. l \notin Range(logged)
  BY <1>1, LoggerAssumption DEF FreshInv
<1> QED BY <1>1, <1>2, <1>3 DEF LineExecutor!Submit

LEMMA LogTakeStarts ==
    ASSUME LogInv, LogTake, message_queue # <<>>
    PROVE  LineExecutor!Start
<1>1. msg = <<>> /\ msg' = <<Head(message_queue)>> /\ message_queue' = Tail(message_queue)
      /\ UNCHANGED <<logger, late, file, logged>>
  BY DEF LogInv, ThreadInv, LogTake
<1>2. Range(msg) = {} /\ Range(msg') = {Head(message_queue)}
  BY <1>1, EmptyRange, OneRange
<1> QED BY <1>1, <1>2 DEF LineExecutor!Start

LEMMA LogWriteFinishes ==
    ASSUME LogInv, LogWrite, NEW l \in Loud, msg = <<l>>
    PROVE  LineExecutor!Finish(l)
<1>1. msg' = <<>> /\ file' = file \o <<l>> /\ UNCHANGED <<logger, late, message_queue, logged>>
  BY DEF LogWrite
<1>2. Range(msg) = {l} /\ Range(msg') = {}
  BY <1>1, EmptyRange, OneRange
<1>3. Range(file') = Range(file) \cup {l}
  BY <1>1, AppendLine, Zenon DEF LogInv, Typed
<1> QED BY <1>1, <1>2, <1>3 DEF LineExecutor!Finish

LEMMA ReleaseJoinCloses ==
    ASSUME LogInv, ReleaseJoin, ~late
    PROVE  LineExecutor!Close
<1>1. /\ logger = "alive" /\ logger' = "destroyed" /\ message_queue = <<>> /\ msg = <<>>
      /\ UNCHANGED <<message_queue, msg, file, logged, late>>
  BY DEF LogInv, ThreadInv, ReleaseJoin
<1>2. logged = file
  BY <1>1, ConcatEmptySeq DEF LogInv, Typed, FileInOrder
<1>3. Range(msg) = {}
  BY <1>1, EmptyRange
<1> QED BY <1>1, <1>2, <1>3 DEF LineExecutor!Close

(* The steps that move no line. *)
LEMMA QuietStepsStutter ==
    ASSUME LogInv,
           \/ \E w \in LogWriters : LogNotify(w) \/ \E l \in Lines : LogCall(w, l)
           \/ LogSpurious \/ ReleaseStop \/ ReleaseNotify \/ UNCHANGED logVars
           \/ \E w \in LogWriters, l \in Lines : WriteLog(w, l) /\ ~(logger = "alive" /\ l \in Loud)
           \/ LogTake /\ message_queue = <<>>
           \/ ReleaseJoin /\ late
    PROVE  UNCHANGED LineExecutor!vars
<1>1. logThread # "write" => msg = <<>>
  BY DEF LogInv, ThreadInv
<1>2. UNCHANGED <<logged, message_queue, msg, file, late>>
  BY <1>1, Zenon DEF LogNotify, LogCall, NewLogger, LogSpurious, ReleaseStop, ReleaseNotify, WriteLog, LogTake,
              ReleaseJoin, logVars
<1>3. (logger' = "destroyed") = (logger = "destroyed") \/ late
  BY Zenon DEF LogNotify, LogCall, NewLogger, LogSpurious, ReleaseStop, ReleaseNotify, WriteLog, LogTake,
         ReleaseJoin, logVars
<1>4. (logger = "destroyed" /\ ~late)' = (logger = "destroyed" /\ ~late)
  BY <1>2, <1>3, Zenon
<1> QED BY <1>2, <1>4, LinesStutter

LEMMA LineExecutorStep ==
    LogInv /\ FreshInv /\ [LogNext]_logVars => [LineExecutor!Next]_(LineExecutor!vars)
<1> SUFFICES ASSUME LogInv, FreshInv, [LogNext]_logVars
             PROVE  LineExecutor!Next \/ UNCHANGED LineExecutor!vars
  OBVIOUS
<1>1. ASSUME NEW w \in LogWriters, NEW l \in Lines, WriteLog(w, l), logger = "alive" /\ l \in Loud
      PROVE  LineExecutor!Next
  <2>1. LineExecutor!Submit(l)
    BY <1>1, WriteLogSubmits
  <2> QED BY <1>1, <2>1 DEF LineExecutor!Next
<1>2. CASE LogTake /\ message_queue # <<>>
  BY <1>2, LogTakeStarts DEF LineExecutor!Next
<1>3. CASE LogWrite
  <2>1. PICK l \in Loud : msg = <<l>>
    BY <1>3 DEF LogWrite, LogInv, ThreadInv
  <2>2. LineExecutor!Finish(l)
    BY <1>3, <2>1, LogWriteFinishes
  <2> QED BY <2>2 DEF LineExecutor!Next
<1>4. CASE ReleaseJoin /\ ~late
  BY <1>4, ReleaseJoinCloses DEF LineExecutor!Next
<1> QED
  BY <1>1, <1>2, <1>3, <1>4, QuietStepsStutter
     DEF LogNext, LogThreadStep, LogReleaseStep, LogWriterStep

(* The logger implements the executor of lines: each is taken up once, in  *)
(* the order of the queue, and the object is destroyed with all of them    *)
(* in the file, unless a line was queued after running_ was cleared.       *)
THEOREM LoggerImplementsExecutor == LogSpec => LoggerDrains
<1>1. LogInit => LineExecutor!Init
  BY EmptyRange DEF LogInit, LineExecutor!Init
<1> QED
  BY <1>1, LineExecutorStep, LoggerInvariant, PTL DEF LogSpec, LoggerDrains, LineExecutor!SafeSpec

-------------------------------------------------------------------------------
(* MemoryPool.                                                             *)

(* pop_front. *)
LEMMA PopBlock ==
    ASSUME NEW S, NEW s \in Seq(S), s # <<>>, IsInjective(s)
    PROVE  /\ Head(s) \in Range(s) /\ Tail(s) \in Seq(S)
           /\ IsInjective(Tail(s)) /\ Range(Tail(s)) = Range(s) \ {Head(s)}
<1>1. /\ Len(s) \in Nat \ {0} /\ Head(s) = s[1] /\ DOMAIN s = 1 .. Len(s)
      /\ Tail(s) \in Seq(S) /\ Len(Tail(s)) = Len(s) - 1 /\ DOMAIN Tail(s) = 1 .. Len(s) - 1
      /\ \A i \in 1 .. Len(s) - 1 : Tail(s)[i] = s[i + 1]
  BY EmptySeq, HeadTailProperties, LenProperties
<1>2. IsInjective(Tail(s))
  BY <1>1 DEF IsInjective
<1> DEFINE t == Tail(s)
<1> HIDE DEF t
<1>3. DOMAIN t = 1 .. Len(s) - 1 /\ \A i \in 1 .. Len(s) - 1 : t[i] = s[i + 1] /\ s[i + 1] # s[1]
  BY <1>1 DEF IsInjective, t
<1>4. Range(t) \subseteq Range(s) \ {s[1]}
  <2>1. \A i \in 1 .. Len(s) - 1 : i + 1 \in 1 .. Len(s)
    BY <1>1
  <2> QED BY <1>1, <1>3, <2>1 DEF Range
<1>5. ASSUME NEW x \in Range(s), x # s[1] PROVE x \in Range(t)
  <2>1. PICK i \in 1 .. Len(s) : x = s[i] /\ i # 1
    BY <1>1, <1>5 DEF Range
  <2>2. i - 1 \in 1 .. Len(s) - 1 /\ t[i - 1] = x
    BY <1>1, <1>3, <2>1
  <2> QED BY <1>3, <2>2 DEF Range
<1>6. s[1] \in Range(s)
  BY <1>1 DEF Range
<1>7. Range(t) = Range(s) \ {Head(s)}
  BY <1>1, <1>4, <1>5, Zenon
<1> QED BY <1>1, <1>2, <1>6, <1>7, Zenon DEF t

(* push_front. *)
LEMMA PushBlock ==
    ASSUME NEW S, NEW s \in Seq(S), NEW b \in S, b \notin Range(s), IsInjective(s)
    PROVE  /\ <<b>> \o s \in Seq(S)
           /\ IsInjective(<<b>> \o s) /\ Range(<<b>> \o s) = Range(s) \cup {b}
<1>1. <<b>> \in Seq(S) /\ Len(<<b>>) = 1 /\ <<b>>[1] = b /\ Len(s) \in Nat /\ DOMAIN s = 1 .. Len(s)
  BY LenProperties
<1>2. <<b>> \o s \in Seq(S) /\ Len(<<b>> \o s) = Len(s) + 1
  BY <1>1, ConcatProperties
<1>3. /\ DOMAIN (<<b>> \o s) = 1 .. Len(s) + 1
      /\ (<<b>> \o s)[1] = b
      /\ \A i \in 2 .. Len(s) + 1 : (<<b>> \o s)[i] = s[i - 1] /\ i - 1 \in DOMAIN s
  BY <1>1, <1>2, ConcatProperties, LenProperties
<1>4. IsInjective(<<b>> \o s)
  <2> DEFINE t == <<b>> \o s
  <2> SUFFICES ASSUME NEW i \in 1 .. Len(s) + 1, NEW j \in 1 .. Len(s) + 1, t[i] = t[j] PROVE i = j
    BY <1>3 DEF IsInjective
  <2>1. \A k \in 2 .. Len(s) + 1 : t[k] # b
    BY <1>3 DEF Range
  <2>2. i \in 2 .. Len(s) + 1 /\ j \in 2 .. Len(s) + 1 => i - 1 = j - 1
    BY <1>3 DEF IsInjective
  <2> QED BY <1>1, <1>3, <2>1, <2>2
<1>5. Range(<<b>> \o s) = Range(s) \cup {b}
  <2> DEFINE t == <<b>> \o s
  <2> HIDE DEF t
  <2>1. /\ DOMAIN t = 1 .. Len(s) + 1 /\ t[1] = b
        /\ \A i \in 2 .. Len(s) + 1 : t[i] = s[i - 1] /\ i - 1 \in DOMAIN s
    BY <1>3 DEF t
  <2>2. Range(t) \subseteq Range(s) \cup {b}
    BY <1>1, <2>1 DEF Range
  <2>3. ASSUME NEW i \in DOMAIN s PROVE s[i] \in Range(t)
    <3>1. i + 1 \in 2 .. Len(s) + 1 /\ (i + 1) - 1 = i
      BY <1>1, <2>3
    <3>2. t[i + 1] = s[i] /\ i + 1 \in DOMAIN t
      BY <1>1, <2>1, <3>1
    <3> QED BY <3>2 DEF Range
  <2>4. b \in Range(t)
    BY <1>1, <2>1 DEF Range
  <2>5. Range(s) \subseteq Range(t)
    BY <2>3, Zenon DEF Range
  <2> QED BY <2>2, <2>4, <2>5, Zenon DEF t
<1> QED BY <1>2, <1>4, <1>5

-------------------------------------------------------------------------------
MemTyped ==
    /\ pool \in {"none", "alive", "deleted"}
    /\ instance \in BOOLEAN /\ memWild \in BOOLEAN
    /\ blocks \in Seq(Range(Blocks))
    /\ wrapper \in [Wrappers -> {NoMemory, Heap, <<"ask">>} \cup ({"block", "back"} \X Range(Blocks))]

(* The free list and the held blocks are a partition of the pool; before   *)
(* there is a pool nothing is held, and a deleted one has no list.         *)
ListInv ==
    /\ IsInjective(blocks)
    /\ pool = "alive" => Range(blocks) = Range(Blocks) \ Held
    /\ pool # "alive" => blocks = <<>>
    /\ pool = "none" => Held = {}

OneHolder ==
    \A b \in Range(Blocks) : \A v, w \in Wrappers : HeldBy(v, b) /\ HeldBy(w, b) => v = w

MemInv == MemTyped /\ ListInv /\ OneHolder

LEMMA MemInvInit == MemInit => MemInv
<1> SUFFICES ASSUME MemInit PROVE MemInv
  OBVIOUS
<1>1. \A w \in Wrappers : \A b : ~HeldBy(w, b)
  BY DEF MemInit, HeldBy, NoMemory
<1>2. Held = {}
  BY <1>1 DEF Held
<1>3. MemTyped
  BY EmptySeq, Zenon DEF MemInit, MemTyped, NoMemory
<1> QED BY <1>1, <1>2, <1>3, EmptySeq DEF MemInit, MemInv, ListInv, OneHolder, IsInjective

(* Steps that move no block: every wrapper holds what it held. *)
LEMMA SameHolders ==
    ASSUME \A w \in Wrappers : \A b \in Range(Blocks) : HeldBy(w, b)' = HeldBy(w, b)
    PROVE  Held' = Held /\ (OneHolder => OneHolder')
<1>1. Held' = Held
  <2>1. Held' = {b \in Range(Blocks) : \E w \in Wrappers : HeldBy(w, b)'}
    BY DEF Held, HeldBy
  <2> QED BY <2>1 DEF Held
<1> QED BY <1>1 DEF OneHolder

(* The first use makes the pool with its whole list. *)
LEMMA CreateKeeps ==
    ASSUME MemInv, CreatePool, memWild' = memWild,
           \A w \in Wrappers : \A b \in Range(Blocks) : HeldBy(w, b)' = HeldBy(w, b),
           wrapper' \in [Wrappers -> {NoMemory, Heap, <<"ask">>} \cup ({"block", "back"} \X Range(Blocks))]
    PROVE  MemInv'
<1>1. MemTyped /\ ListInv /\ OneHolder
  BY DEF MemInv
<1>2. Held' = Held /\ OneHolder'
  BY <1>1, SameHolders
<1>3. instance' \in BOOLEAN /\ memWild' \in BOOLEAN
  BY <1>1, Zenon DEF MemTyped, CreatePool, NewPool
<1>4. CASE pool = "none"
  <2>1. pool' = "alive" /\ blocks' = Blocks /\ Held = {}
    BY <1>1, <1>4 DEF CreatePool, NewPool, ListInv
  <2>2. MemTyped'
    BY <1>3, <2>1, MemoryPoolAssumption, Zenon DEF MemTyped
  <2>3. ListInv'
    BY <1>2, <2>1, MemoryPoolAssumption DEF ListInv
  <2> QED BY <1>2, <2>2, <2>3 DEF MemInv
<1>5. CASE pool # "none"
  <2>1. UNCHANGED <<pool, blocks>>
    BY <1>5 DEF CreatePool, NewPool
  <2>2. MemTyped'
    BY <1>1, <1>3, <2>1, Zenon DEF MemTyped
  <2>3. ListInv'
    BY <1>1, <1>2, <2>1 DEF ListInv
  <2> QED BY <1>2, <2>2, <2>3 DEF MemInv
<1> QED BY <1>4, <1>5

(* Allocate takes the first block of the list, which nobody holds. *)
LEMMA AllocateKeeps ==
    ASSUME MemInv, NEW w \in Wrappers, NEW fits \in BOOLEAN, Allocate(w, fits)
    PROVE  MemInv'
<1>1. MemTyped /\ ListInv /\ OneHolder
  BY DEF MemInv
<1>2. memWild' \in BOOLEAN /\ UNCHANGED <<pool, instance>>
  BY Zenon DEF Allocate
<1>3. CASE fits /\ blocks # <<>>
  <2> DEFINE h == Head(blocks)
  <2>1. wrapper' = [wrapper EXCEPT ![w] = <<"block", h>>] /\ blocks' = Tail(blocks) /\ pool = "alive"
        /\ wrapper[w] = <<"ask">>
    BY <1>1, <1>3 DEF Allocate, InBlock, ListInv
  <2>2. /\ h \in Range(blocks) /\ Tail(blocks) \in Seq(Range(Blocks))
        /\ IsInjective(Tail(blocks)) /\ Range(Tail(blocks)) = Range(blocks) \ {h}
    BY <1>1, <1>3, PopBlock DEF MemTyped, ListInv
  <2>3. h \in Range(Blocks) /\ h \notin Held
    BY <1>1, <2>1, <2>2 DEF ListInv
  <2> HIDE DEF h
  <2>4. \A v \in Wrappers : \A b \in Range(Blocks) :
            HeldBy(v, b)' <=> HeldBy(v, b) \/ (v = w /\ b = h)
    BY <1>1, <2>1 DEF MemTyped, HeldBy
  <2>5. Held' = Held \cup {h}
    <3>1. Held' = {b \in Range(Blocks) : \E v \in Wrappers : HeldBy(v, b)'}
      BY Zenon DEF Held, HeldBy
    <3> QED BY <2>3, <2>4, <3>1 DEF Held
  <2>6. OneHolder'
    BY <1>1, <2>3, <2>4 DEF OneHolder, Held
  <2>7. ListInv'
    BY <1>1, <1>2, <2>1, <2>2, <2>5 DEF ListInv
  <2>8. wrapper' \in [Wrappers -> {NoMemory, Heap, <<"ask">>} \cup ({"block", "back"} \X Range(Blocks))]
    BY <1>1, <2>1, <2>3 DEF MemTyped
  <2>9. MemTyped'
    BY <1>1, <1>2, <2>1, <2>2, <2>8, Zenon DEF MemTyped
  <2> QED BY <2>6, <2>7, <2>9 DEF MemInv
<1>4. CASE ~(fits /\ blocks # <<>>)
  <2>1. wrapper' = [wrapper EXCEPT ![w] = Heap] /\ blocks' = blocks /\ wrapper[w] = <<"ask">>
    BY <1>4 DEF Allocate
  <2>2. \A v \in Wrappers : \A b \in Range(Blocks) : HeldBy(v, b)' = HeldBy(v, b)
    BY <1>1, <2>1 DEF MemTyped, HeldBy, Heap
  <2>3. Held' = Held /\ OneHolder'
    BY <1>1, <2>2, SameHolders
  <2>4. wrapper' \in [Wrappers -> {NoMemory, Heap, <<"ask">>} \cup ({"block", "back"} \X Range(Blocks))]
    BY <1>1, <2>1 DEF MemTyped
  <2>5. MemTyped'
    BY <1>1, <1>2, <2>1, <2>4, Zenon DEF MemTyped
  <2>6. ListInv'
    BY <1>1, <1>2, <2>1, <2>3 DEF ListInv
  <2> QED BY <2>3, <2>5, <2>6 DEF MemInv
<1> QED BY <1>3, <1>4

(* Free puts a block back that is held and so not on the list. *)
LEMMA FreeKeeps ==
    ASSUME MemInv, NEW w \in Wrappers, NEW b \in Range(Blocks), Free(w, b)
    PROVE  MemInv'
<1>1. MemTyped /\ ListInv /\ OneHolder
  BY DEF MemInv
<1>2. memWild' \in BOOLEAN /\ UNCHANGED <<pool, instance>>
  BY Zenon DEF Free
<1>3. wrapper[w] = <<"back", b>> /\ wrapper' = [wrapper EXCEPT ![w] = NoMemory]
      /\ blocks' = IF pool = "alive" THEN <<b>> \o blocks ELSE blocks
  BY DEF Free
<1>4. HeldBy(w, b) /\ b \in Held
  BY <1>3 DEF HeldBy, Held
<1>5. \A v \in Wrappers : \A c \in Range(Blocks) : HeldBy(v, c)' <=> HeldBy(v, c) /\ v # w
  BY <1>1, <1>3 DEF MemTyped, HeldBy, NoMemory
<1>6. \A c \in Range(Blocks) : HeldBy(w, c) => c = b
  BY <1>3 DEF HeldBy
<1>7. Held' = Held \ {b}
  <2>1. Held' = {c \in Range(Blocks) : \E v \in Wrappers : HeldBy(v, c)'}
    BY Zenon DEF Held, HeldBy
  <2>2. \A v \in Wrappers : HeldBy(v, b) => v = w
    BY <1>1, <1>4 DEF OneHolder
  <2> QED BY <1>5, <1>6, <2>1, <2>2 DEF Held
<1>8. OneHolder'
  BY <1>1, <1>5 DEF OneHolder
<1>9. wrapper' \in [Wrappers -> {NoMemory, Heap, <<"ask">>} \cup ({"block", "back"} \X Range(Blocks))]
  BY <1>1, <1>3 DEF MemTyped
<1>10. CASE pool = "alive"
  <2>1. b \notin Range(blocks) /\ blocks' = <<b>> \o blocks
    BY <1>1, <1>3, <1>4, <1>10 DEF ListInv
  <2>2. /\ blocks' \in Seq(Range(Blocks)) /\ IsInjective(blocks')
        /\ Range(blocks') = Range(blocks) \cup {b}
    <3>1. blocks \in Seq(Range(Blocks)) /\ IsInjective(blocks) /\ b \in Range(Blocks)
      BY <1>1 DEF MemTyped, ListInv
    <3> QED
      BY <2>1, <3>1, PushBlock
  <2>3. ListInv'
    BY <1>1, <1>2, <1>7, <1>10, <2>2 DEF ListInv
  <2>4. MemTyped'
    BY <1>1, <1>2, <1>9, <2>2, Zenon DEF MemTyped
  <2> QED BY <1>8, <2>3, <2>4 DEF MemInv
<1>11. CASE pool # "alive"
  <2>1. blocks' = blocks
    BY <1>3, <1>11
  <2>2. ListInv'
    BY <1>1, <1>2, <1>7, <1>11, <2>1 DEF ListInv
  <2>3. MemTyped'
    BY <1>1, <1>2, <1>9, <2>1, Zenon DEF MemTyped
  <2> QED BY <1>8, <2>2, <2>3 DEF MemInv
<1> QED BY <1>10, <1>11

LEMMA NewKeeps ==
    ASSUME MemInv, NEW w \in Wrappers, WrapperNew(w)
    PROVE  MemInv'
<1>1. wrapper \in [Wrappers -> {NoMemory, Heap, <<"ask">>} \cup ({"block", "back"} \X Range(Blocks))]
  BY DEF MemInv, MemTyped
<1>2. wrapper[w] = NoMemory /\ wrapper' = [wrapper EXCEPT ![w] = <<"ask">>]
      /\ CreatePool /\ memWild' = memWild
  BY DEF WrapperNew
<1>3. \A v \in Wrappers : \A b \in Range(Blocks) : HeldBy(v, b)' = HeldBy(v, b)
  BY <1>1, <1>2 DEF HeldBy, NoMemory
<1>4. wrapper' \in [Wrappers -> {NoMemory, Heap, <<"ask">>} \cup ({"block", "back"} \X Range(Blocks))]
  BY <1>1, <1>2
<1> QED BY <1>2, <1>3, <1>4, CreateKeeps

LEMMA DeleteKeeps ==
    ASSUME MemInv, NEW w \in Wrappers, WrapperDelete(w)
    PROVE  MemInv'
<1>1. MemTyped /\ ListInv /\ OneHolder
  BY DEF MemInv
<1>2. wrapper \in [Wrappers -> {NoMemory, Heap, <<"ask">>} \cup ({"block", "back"} \X Range(Blocks))]
  BY <1>1 DEF MemTyped
<1>3. CASE /\ wrapper[w] = Heap /\ wrapper' = [wrapper EXCEPT ![w] = NoMemory]
           /\ UNCHANGED <<pool, instance, blocks, memWild>>
  <2>1. \A v \in Wrappers : \A b \in Range(Blocks) : HeldBy(v, b)' = HeldBy(v, b)
    BY <1>2, <1>3 DEF HeldBy, NoMemory, Heap
  <2>2. Held' = Held /\ OneHolder'
    BY <1>1, <2>1, SameHolders
  <2>3. wrapper' \in [Wrappers -> {NoMemory, Heap, <<"ask">>} \cup ({"block", "back"} \X Range(Blocks))]
    BY <1>2, <1>3
  <2>4. MemTyped'
    BY <1>1, <1>3, <2>3, Zenon DEF MemTyped
  <2>5. ListInv'
    BY <1>1, <1>3, <2>2 DEF ListInv
  <2> QED BY <2>2, <2>4, <2>5 DEF MemInv
<1>4. ASSUME NEW b \in Range(Blocks), wrapper[w] = InBlock(b),
             wrapper' = [wrapper EXCEPT ![w] = <<"back", b>>], CreatePool, memWild' = memWild
      PROVE  MemInv'
  <2>1. \A v \in Wrappers : \A c \in Range(Blocks) : HeldBy(v, c)' = HeldBy(v, c)
    BY <1>2, <1>4 DEF HeldBy, InBlock
  <2>2. wrapper' \in [Wrappers -> {NoMemory, Heap, <<"ask">>} \cup ({"block", "back"} \X Range(Blocks))]
    BY <1>2, <1>4
  <2> QED BY <1>4, <2>1, <2>2, CreateKeeps
<1> QED BY <1>3, <1>4 DEF WrapperDelete

(* release leaves a pool with no list; what is held stays held. *)
LEMMA ReleaseKeeps ==
    ASSUME MemInv, ReleasePool \/ UNCHANGED memVars
    PROVE  MemInv'
<1>1. MemTyped /\ ListInv /\ OneHolder /\ wrapper' = wrapper
  BY DEF MemInv, ReleasePool, DeletePool, memVars
<1>2. Held' = Held /\ OneHolder'
  BY <1>1, SameHolders DEF HeldBy
<1>3. CASE ReleasePool
  <2>1. pool' = "deleted" /\ blocks' = <<>> /\ instance' = FALSE /\ memWild' = (pool = "deleted")
    BY <1>3 DEF ReleasePool, DeletePool
  <2>2. instance' \in BOOLEAN /\ memWild' \in BOOLEAN /\ blocks' \in Seq(Range(Blocks))
    BY <2>1, EmptySeq, Zenon
  <2>3. MemTyped'
    BY <1>1, <2>1, <2>2, Zenon DEF MemTyped
  <2>4. ListInv'
    BY <2>1, EmptySeq DEF ListInv, IsInjective
  <2> QED BY <1>2, <2>3, <2>4 DEF MemInv
<1>4. CASE UNCHANGED memVars
  <2>1. UNCHANGED <<pool, instance, blocks, memWild>>
    BY <1>4 DEF memVars
  <2> QED BY <1>1, <1>2, <2>1, Zenon DEF MemInv, MemTyped, ListInv
<1> QED BY <1>3, <1>4

LEMMA PoolInvariant == MemSpec => []MemInv
<1>1. MemInv /\ [MemNext]_memVars => MemInv'
  BY NewKeeps, DeleteKeeps, AllocateKeeps, FreeKeeps, ReleaseKeeps DEF MemNext
<1> QED BY <1>1, MemInvInit, PTL DEF MemSpec

(* While the pool lives, Allocate, Free, the MemoryWrapper calls and       *)
(* release neither lose a block nor give it to two wrappers.               *)
THEOREM PoolEachBlockOnce == MemSpec => []EachBlockOnce
<1>1. MemInv => EachBlockOnce
  BY DEF MemInv, ListInv, OneHolder, EachBlockOnce
<1> QED BY <1>1, PoolInvariant, PTL

(* The pool's state keeps its type. *)
THEOREM PoolMemTypeOK == MemSpec => []MemTypeOK
<1>1. MemInv => MemTypeOK
  BY DEF MemInv, MemTyped, MemTypeOK
<1> QED BY <1>1, PoolInvariant, PTL
===============================================================================
