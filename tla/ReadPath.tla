------------------------------- MODULE ReadPath --------------------------------
(***************************************************************************)
(* The receiving side of a server's connection.  The loop's thread reads   *)
(* the socket until it would block (epoll is edge-triggered), appends to   *)
(* read_buffer_ and queues a task; a worker runs the task under the        *)
(* connection's callback lock and takes all the bytes with ReadAll, as the *)
(* README's OnMessage does.  Write and HaveRead lock the buffer, Peek does *)
(* not: a Peek during a Write that reallocates buffer_ may read anything.  *)
(***************************************************************************)
EXTENDS Buffer, FiniteSets

CONSTANTS
    Workers,            \* the thread pool's threads
    NoWorker,           \* the callback lock is free
    kReadBufferSize,    \* the most that one read takes
    MaxReceived,        \* bound: bytes the peer sends
    Garbage             \* a byte read from memory that was given back

ASSUME ReadAssumption ==
    /\ NoWorker \notin Workers
    /\ kReadBufferSize \in Nat \ {0}
    /\ MaxReceived \in Nat
    /\ Garbage \notin 1 .. MaxReceived

VARIABLES
    sock,       \* bytes in the kernel's receive queue
    fin,        \* the peer has shut its side down
    readable,   \* the channel is on epoll's list of ready descriptors
    loop,       \* where the loop's thread is
    chunk,      \* the bytes it has read and is inserting into read_buffer_
    shut_down,  \* the connection has seen the FIN
    rbuf,       \* read_buffer_
    tasks,      \* read tasks of this connection in the pool's queue
    step,       \* where each worker is in its task
    lock,       \* the holder of mutex_callback_
    copied,     \* the bytes a worker has copied
    received,   \* history: what the peer sent
    delivered   \* history: what the read callback was given

readVars == <<sock, fin, readable, loop, chunk, shut_down, rbuf, tasks, step,
              lock, copied, received, delivered>>

ReadInit ==
    /\ sock = <<>>
    /\ fin = FALSE
    /\ readable = FALSE
    /\ loop = "poll"
    /\ chunk = <<>>
    /\ shut_down = FALSE
    /\ rbuf = EmptyBuffer
    /\ tasks = 0
    /\ step = [w \in Workers |-> "idle"]
    /\ lock = NoWorker
    /\ copied = [w \in Workers |-> <<>>]
    /\ received = <<>>
    /\ delivered = <<>>

loopVars == <<loop, chunk, shut_down>>
workVars == <<step, lock, copied, delivered>>
peerVars == <<fin, received>>

-------------------------------------------------------------------------------
(* The peer and the kernel. *)
PeerSends ==
    /\ ~fin
    /\ Len(received) < MaxReceived
    /\ received' = Append(received, Len(received) + 1)
    /\ sock' = Append(sock, Len(received) + 1)
    /\ readable' = TRUE
    /\ UNCHANGED <<fin, rbuf, tasks, loopVars, workVars>>

PeerFin ==
    /\ ~fin
    /\ fin' = TRUE
    /\ readable' = TRUE
    /\ UNCHANGED <<sock, received, rbuf, tasks, loopVars, workVars>>

-------------------------------------------------------------------------------
(* The loop's thread. *)

(* epoll reports kPollIn or kPollRdHup; OnReadCallback returns at once     *)
(* when the connection has seen the FIN already.                           *)
PollIn ==
    /\ loop = "poll"
    /\ readable
    /\ readable' = FALSE
    /\ loop' = IF (sock # <<>> \/ fin) /\ ~shut_down THEN "read" ELSE "poll"
    /\ UNCHANGED <<sock, chunk, shut_down, rbuf, tasks, workVars, peerVars>>

Mut_ReadFdOnce ==
    /\ loop = "read"
    /\ LET n == IF Len(sock) <= kReadBufferSize THEN Len(sock) ELSE kReadBufferSize IN
       /\ chunk' = SubSeq(sock, 1, n)
       /\ sock' = SubSeq(sock, n + 1, Len(sock))
       /\ rbuf' = Write(rbuf, chunk')
    /\ loop' = "notify"
    /\ shut_down' = (fin /\ sock' = <<>>)
    /\ UNCHANGED <<readable, tasks, workVars, peerVars>>

(* One socket::read of ReadBufferFromFd: data, end of file or EAGAIN. *)
ReadFd ==
    /\ loop = "read"
    /\ IF sock # <<>>
       THEN LET n == IF Len(sock) <= kReadBufferSize THEN Len(sock) ELSE kReadBufferSize IN
            /\ chunk' = SubSeq(sock, 1, n)
            /\ sock' = SubSeq(sock, n + 1, Len(sock))
            /\ loop' = "insert"
            /\ shut_down' = shut_down
       ELSE /\ shut_down' = fin
            /\ loop' = "notify"
            /\ UNCHANGED <<chunk, sock>>
    /\ UNCHANGED <<readable, rbuf, tasks, workVars, peerVars>>

(* The Write that follows it ends; it began when loop became "insert". *)
Insert ==
    /\ loop = "insert"
    /\ rbuf' = Write(rbuf, chunk)
    /\ chunk' = <<>>
    /\ loop' = "read"
    /\ UNCHANGED <<sock, readable, shut_down, tasks, workVars, peerVars>>

(* read_callback_, which in the server queues a task. *)
Notify ==
    /\ loop = "notify"
    /\ tasks' = IF Empty(rbuf) THEN tasks ELSE tasks + 1
    /\ loop' = "poll"
    /\ UNCHANGED <<sock, readable, chunk, shut_down, rbuf, workVars, peerVars>>

-------------------------------------------------------------------------------
(* The workers. *)

Take(w) ==
    /\ step[w] = "idle"
    /\ tasks > 0
    /\ tasks' = tasks - 1
    /\ step' = [step EXCEPT ![w] = "lock"]
    /\ UNCHANGED <<sock, readable, rbuf, lock, copied, delivered, loopVars, peerVars>>

Mut_LockNothing(w) ==
    /\ step[w] = "lock"
    /\ lock' = w
    /\ step' = [step EXCEPT ![w] = "peek"]
    /\ UNCHANGED <<sock, readable, rbuf, tasks, copied, delivered, loopVars, peerVars>>

LockCallback(w) ==
    /\ step[w] = "lock"
    /\ lock = NoWorker
    /\ lock' = w
    /\ step' = [step EXCEPT ![w] = "peek"]
    /\ UNCHANGED <<sock, readable, rbuf, tasks, copied, delivered, loopVars, peerVars>>

(* ReadAll's Peek.  During an Insert the bytes below write_index_ stay in  *)
(* place unless buffer_ is reallocated.                                    *)
PeekAll(w) ==
    LET bytes == Peek(rbuf, ReadableBytes(rbuf)) IN
    /\ step[w] = "peek"
    /\ \/ copied' = [copied EXCEPT ![w] = bytes]
       \/ /\ loop = "insert"
          /\ bytes # <<>>
          /\ copied' = [copied EXCEPT ![w] = [i \in 1 .. Len(bytes) |-> Garbage]]
    /\ step' = [step EXCEPT ![w] = "have"]
    /\ UNCHANGED <<sock, readable, rbuf, tasks, lock, delivered, loopVars, peerVars>>

(* ReadAll's HaveRead (which waits for an Insert to end), the callback's   *)
(* use of the bytes, and the unlocking.                                    *)
HaveReadAll(w) ==
    /\ step[w] = "have"
    /\ loop # "insert"
    /\ rbuf' = HaveRead(rbuf, Len(copied[w]))
    /\ delivered' = delivered \o copied[w]
    /\ lock' = NoWorker
    /\ step' = [step EXCEPT ![w] = "idle"]
    /\ UNCHANGED <<sock, readable, tasks, copied, loopVars, peerVars>>

-------------------------------------------------------------------------------
LoopStep == PollIn \/ ReadFd \/ Insert \/ Notify

WorkStep(w) == Take(w) \/ LockCallback(w) \/ PeekAll(w) \/ HaveReadAll(w)

ReadNext == PeerSends \/ PeerFin \/ LoopStep \/ \E w \in Workers : WorkStep(w)

ReadSafeSpec == ReadInit /\ [][ReadNext]_readVars

(* Threads are scheduled; nothing is asked of the peer. *)
ReadSpec == ReadSafeSpec /\ WF_readVars(LoopStep) /\ \A w \in Workers : WF_readVars(WorkStep(w))

-------------------------------------------------------------------------------
(* The callbacks of a connection are given its bytes in order and each     *)
(* once, whichever workers run them: a byte that is not torn is where the  *)
(* peer put it in the stream.                                              *)
DeliveredInPlace ==
    /\ Len(delivered) <= Len(received)
    /\ \A i \in 1 .. Len(delivered) : delivered[i] \in {received[i], Garbage}

(* Every byte the peer sent is given to a callback in the end, also those  *)
(* that came together with the FIN or while another callback was reading.  *)
EverythingDelivered == []<>(Len(delivered) = Len(received))
===============================================================================
