------------------------------- MODULE WritePath -------------------------------
(***************************************************************************)
(* The sending side of a connection: Connection::Send on any thread, and   *)
(* OnWriteCallback on the loop's thread, share write_buffer_ and the       *)
(* channel's interest in EPOLLOUT.  Only Write and HaveRead lock the       *)
(* buffer; WriteBufferToFd peeks, writes and consumes in separate steps.   *)
(* The connection stays open here; Connection.tla models how it closes.    *)
(***************************************************************************)
EXTENDS Buffer, FiniteSets

CONSTANTS
    Loop,               \* the event loop's thread
    Senders,            \* the threads that call Send; Loop may be one of them
    MsgLen,             \* bytes in a message
    kWriteBufferSize,   \* the most that WriteBufferToFd peeks at a time
    SendBuffer,         \* bytes the kernel takes before it says EAGAIN
    MaxBytes            \* bound: bytes sent in all

Threads == Senders \cup {Loop}

ASSUME PathAssumption ==
    /\ MsgLen \in Nat \ {0}
    /\ kWriteBufferSize \in Nat \ {0}
    /\ SendBuffer \in Nat \ {0}
    /\ MaxBytes \in Nat

VARIABLES
    buf,        \* write_buffer_
    pc,         \* where each thread is in Send or OnWriteCallback
    peeked,     \* the bytes a thread has copied out and is about to write
    ret,        \* what WriteBufferToFd returned: 0, or -1 for EAGAIN
    events,     \* whether the channel's events_ has kPollOut
    interest,   \* whether epoll's copy of it does
    ready,      \* the channel is on epoll's list of ready descriptors
    room,       \* free bytes in the kernel's send buffer
    written,    \* history: the bytes given to Send, in the order of Write
    wire        \* history: the bytes given to the kernel

vars == <<buf, pc, peeked, ret, events, interest, ready, room, written, wire>>

(* Channel's constructor asks for EPOLLOUT, and Connection::Init has added *)
(* it to epoll: a fresh socket is writable, so it is on the ready list.    *)
Init ==
    /\ buf = EmptyBuffer
    /\ pc = [t \in Threads |-> "idle"]
    /\ peeked = [t \in Threads |-> <<>>]
    /\ ret = [t \in Threads |-> 0]
    /\ events = TRUE
    /\ interest = TRUE
    /\ ready = TRUE
    /\ room = SendBuffer
    /\ written = <<>>
    /\ wire = <<>>

Goto(t, label) == pc' = [pc EXCEPT ![t] = label]

-------------------------------------------------------------------------------
(* Send: put the message in the buffer, then flush. *)
Send(t) ==
    LET msg == [i \in 1 .. MsgLen |-> Len(written) + i] IN
    /\ pc[t] = "idle"
    /\ Len(written) + MsgLen <= MaxBytes
    /\ buf' = Write(buf, msg)
    /\ written' = written \o msg
    /\ Goto(t, "flush")
    /\ UNCHANGED <<peeked, ret, events, interest, ready, room, wire>>

(* epoll_wait takes the channel off the ready list (edge-triggered) and    *)
(* reports kPollOut if it still holds: OnWriteCallback flushes.            *)
OnWriteCallback ==
    /\ pc[Loop] = "idle"
    /\ ready
    /\ ready' = FALSE
    /\ Goto(Loop, IF interest /\ room > 0 THEN "flush" ELSE "idle")
    /\ UNCHANGED <<buf, peeked, ret, events, interest, room, written, wire>>

(* WriteBufferToFd: while (ReadableBytes() > 0) Peek(...) *)
FlushPeek(t) ==
    /\ pc[t] = "flush"
    /\ IF ReadableBytes(buf) > 0
       THEN /\ peeked' = [peeked EXCEPT ![t] = Peek(buf, kWriteBufferSize)]
            /\ Goto(t, "write")
            /\ ret' = ret
       ELSE /\ ret' = [ret EXCEPT ![t] = 0]
            /\ Goto(t, "enable")
            /\ peeked' = peeked
    /\ UNCHANGED <<buf, events, interest, ready, room, written, wire>>

Mut_FlushWriteAll(t) ==
    /\ pc[t] = "write"
    /\ IF room > 0
       THEN LET n == IF Len(peeked[t]) <= room THEN Len(peeked[t]) ELSE room IN
            /\ wire' = wire \o SubSeq(peeked[t], 1, n)
            /\ room' = room - n
            /\ Goto(t, "consume")
            /\ UNCHANGED <<ret, peeked>>
       ELSE /\ ret' = [ret EXCEPT ![t] = -1]
            /\ Goto(t, "enable")
            /\ UNCHANGED <<peeked, room, wire>>
    /\ UNCHANGED <<buf, events, interest, ready, written>>

(* socket::write takes what there is room for, or fails with EAGAIN.  The  *)
(* number of bytes taken stays in peeked, for HaveRead.                    *)
FlushWrite(t) ==
    /\ pc[t] = "write"
    /\ IF room > 0
       THEN LET n == IF Len(peeked[t]) <= room THEN Len(peeked[t]) ELSE room IN
            /\ wire' = wire \o SubSeq(peeked[t], 1, n)
            /\ room' = room - n
            /\ peeked' = [peeked EXCEPT ![t] = SubSeq(@, 1, n)]
            /\ Goto(t, "consume")
            /\ ret' = ret
       ELSE /\ ret' = [ret EXCEPT ![t] = -1]
            /\ Goto(t, "enable")
            /\ UNCHANGED <<peeked, room, wire>>
    /\ UNCHANGED <<buf, events, interest, ready, written>>

(* HaveRead, under the buffer's lock. *)
FlushConsume(t) ==
    /\ pc[t] = "consume"
    /\ buf' = HaveRead(buf, Len(peeked[t]))
    /\ Goto(t, "flush")
    /\ UNCHANGED <<peeked, ret, events, interest, ready, room, written, wire>>

Mut_EnableNever(t) ==
    /\ pc[t] = "enable"
    /\ events' = FALSE
    /\ Goto(t, "update")
    /\ UNCHANGED <<buf, peeked, ret, interest, ready, room, written, wire>>

(* Connection::EnableWrite and Channel::EnableWrite: change events_. *)
EnableWrite(t) ==
    /\ pc[t] = "enable"
    /\ events' = (ret[t] < 0)
    /\ Goto(t, "update")
    /\ UNCHANGED <<buf, peeked, ret, interest, ready, room, written, wire>>

(* UpdateToLoop(EPOLL_CTL_MOD) copies events_ to epoll, which puts the     *)
(* channel on the ready list if an event it asks for already holds.        *)
UpdateChannel(t) ==
    /\ pc[t] = "update"
    /\ interest' = events
    /\ ready' = (ready \/ (events /\ room > 0))
    /\ Goto(t, "idle")
    /\ UNCHANGED <<buf, peeked, ret, events, room, written, wire>>

(* The peer reads; the kernel reports room only after it had run out. *)
PeerReads ==
    /\ room < SendBuffer
    /\ room' = room + 1
    /\ ready' = (ready \/ (interest /\ room = 0))
    /\ UNCHANGED <<buf, pc, peeked, ret, events, interest, written, wire>>

-------------------------------------------------------------------------------
FlushStep(t) ==
    \/ FlushPeek(t) \/ FlushWrite(t) \/ FlushConsume(t)
    \/ EnableWrite(t) \/ UpdateChannel(t)

Next ==
    \/ \E t \in Senders : Send(t)
    \/ \E t \in Threads : FlushStep(t)
    \/ OnWriteCallback
    \/ PeerReads

SafeSpec == Init /\ [][Next]_vars

(* Threads are scheduled, epoll_wait is called again and again, and the    *)
(* peer goes on reading.                                                   *)
Spec ==
    /\ SafeSpec
    /\ \A t \in Threads : WF_vars(FlushStep(t))
    /\ WF_vars(OnWriteCallback)
    /\ WF_vars(PeerReads)

-------------------------------------------------------------------------------
(* The type invariant: the kernel never takes more than it has room for. *)
TypeOK ==
    /\ buf \in [data : Seq(Nat), rd : Nat, wr : Nat]
    /\ pc \in [Threads -> {"idle", "flush", "write", "consume", "enable", "update"}]
    /\ peeked \in [Threads -> Seq(Nat)]
    /\ ret \in [Threads -> {0, -1}]
    /\ events \in BOOLEAN /\ interest \in BOOLEAN /\ ready \in BOOLEAN
    /\ room \in 0 .. SendBuffer
    /\ written \in Seq(Nat)
    /\ wire \in Seq(Nat)

(* Whatever the threads do, the indices stay in order and inside buffer_:  *)
(* HaveRead takes no more than is there, even when another thread has      *)
(* consumed the same bytes since they were peeked.                         *)
IndicesValid == 0 <= buf.rd /\ buf.rd <= buf.wr /\ buf.wr <= Len(buf.data)

(* The kernel is given what Send was given, in order, each byte once: the  *)
(* bytes on the wire are a prefix of the bytes written.                    *)
WireInOrder ==
    /\ Len(wire) <= Len(written)
    /\ wire = SubSeq(written, 1, Len(wire))

(* No byte leaves the buffer without reaching the kernel. *)
NothingDropped ==
    (\A t \in Threads : pc[t] \in {"idle", "flush", "enable", "update"})
        => wire \o Content(buf) = written

(* Bytes that wait in the buffer are not forgotten: when every thread is   *)
(* at rest, the channel is watched for EPOLLOUT or about to be reported.   *)
BacklogIsWatched ==
    (\A t \in Threads : pc[t] = "idle") /\ ~Empty(buf) => interest

(* Everything given to Send is on the wire in the end. *)
AllSent == []<>(wire = written)
===============================================================================
