------------------------------ MODULE FileBuffer ------------------------------
(***************************************************************************)
(* ladder::FileBuffer, the write buffer of a connection that sends files,  *)
(* with the parts of Connection that use it: Send and SendFile queue a     *)
(* header and perhaps a file and flush, OnWriteCallback flushes again, and *)
(* after the peer's FIN the connection closes as soon as Empty() holds.    *)
(*                                                                         *)
(* A FileBuffer has no lock and two threads: the worker in the read        *)
(* callback, which sends, and the loop's thread.  Two of them in it at     *)
(* once is a data race; from then on it is torn: a flush may return        *)
(* anything or end the process, Empty() is any, and what the object holds  *)
(* and has sent is forgotten here, since nothing is said of it any more.   *)
(* Bytes are units that name their place.                                  *)
(***************************************************************************)
EXTENDS Integers, Sequences

CONSTANT SocketRoom  \* units the kernel takes before it says EAGAIN

FbThreads == {"worker", "loop"}

VARIABLES
    pending_files,  \* pending_files_: header, and the file if there is one to open
    buffer_,        \* buffer_: the headers on their way
    fd_,            \* fd_ # 0: the first file is open
    bytes_sent,     \* bytes_sent_
    torn,           \* two threads were in the object at once
    flushing,       \* where each thread is: in WriteBufferToFd, before or after it
    ret,            \* what WriteBufferToFd has returned to it
    entry,          \* what the worker is about to add
    armed,          \* EPOLLOUT is asked for
    fbShut,         \* shut_down_: the FIN was read
    fbClosed,       \* OnCloseCallback has run
    fbExited,       \* EXIT, or the race, has ended the process
    wire,           \* what the kernel has taken
    sockRoom,       \* units it still takes
    shutWr,         \* shutdown(SHUT_WR) was called
    finIn,          \* the peer has sent its FIN
    reset,          \* the peer's RST: "no", "pending" or "told" to a call
    disk,           \* history: a queued file was "changed" before or "cut" after it was opened
    accepted,       \* history: what AddFile was given
    closedAt,       \* history: its length when the connection decided to close, or -1
    stale           \* history: EnableWrite(false) came after another thread queued more

fbObject == <<pending_files, buffer_, fd_, bytes_sent>>
fbConn == <<armed, fbShut, fbClosed, fbExited>>
fbKernel == <<wire, sockRoom, shutWr, finIn, reset>>
fbHistory == <<disk, accepted, closedAt, stale>>
fbVars == <<fbObject, torn, flushing, ret, entry, fbConn, fbKernel, fbHistory>>

NoFile(header) == [header |-> header, hasFile |-> FALSE, body |-> <<>>]

FileBufferInit ==
    /\ pending_files = <<>> /\ buffer_ = <<>> /\ fd_ = FALSE /\ bytes_sent = 0 /\ torn = FALSE
    /\ flushing = [t \in FbThreads |-> "no"] /\ ret = [t \in FbThreads |-> 0]
    /\ entry = NoFile(<<>>) /\ armed = TRUE
    /\ fbShut = FALSE /\ fbClosed = FALSE /\ fbExited = FALSE
    /\ wire = <<>> /\ sockRoom = SocketRoom /\ shutWr = FALSE /\ finIn = FALSE /\ reset = "no"
    /\ disk = "same" /\ accepted = <<>> /\ closedAt = -1 /\ stale = FALSE

InFlush == {"first", "open", "header", "file"}
Other(t) == IF t = "worker" THEN "loop" ELSE "worker"
At(t, place) == ~fbExited /\ flushing[t] = place
Goto(t, place) == flushing' = [flushing EXCEPT ![t] = place]
LoopIdle == At("loop", "no") /\ ~fbClosed

(* Thread t comes into the object, whose queue becomes files. *)
Tears(t) == torn \/ flushing[Other(t)] \in InFlush
Touch(t, files) ==
    /\ torn' = Tears(t)
    /\ IF Tears(t)
       THEN /\ pending_files' = <<>> /\ buffer_' = <<>> /\ fd_' = FALSE /\ bytes_sent' = 0
            /\ wire' = <<>> /\ sockRoom' = SocketRoom
       ELSE pending_files' = files /\ UNCHANGED <<buffer_, fd_, bytes_sent, wire, sockRoom>>

-------------------------------------------------------------------------------
(* Connection::SendFile, and Send (no file), on the worker: the test of    *)
(* shut_down_, ...                                                         *)
SendFile(header, hasFile, body) ==
    /\ At("worker", "no")
    /\ IF fbShut THEN UNCHANGED <<flushing, entry>>
       ELSE /\ Goto("worker", "add")
            /\ entry' = [header |-> header, hasFile |-> hasFile, body |-> body]
    /\ UNCHANGED <<fbObject, torn, ret, fbConn, fbKernel, fbHistory>>

(* ... AddFile (Write adds a header without a file), ... *)
AddFile ==
    /\ At("worker", "add") /\ Goto("worker", "enter")
    /\ Touch("worker", Append(pending_files, entry))
    /\ accepted' = accepted \o entry.header \o entry.body
    /\ entry' = NoFile(<<>>)
    /\ UNCHANGED <<ret, fbConn, shutWr, finIn, reset, disk, closedAt, stale>>

(* ... and WriteBuffer. *)
Enter(t) ==
    /\ Goto(t, "first") /\ Touch(t, pending_files)
    /\ UNCHANGED <<ret, entry, fbConn, shutWr, finIn, reset, fbHistory>>
SendFlushes == At("worker", "enter") /\ Enter("worker")

(* EPOLLOUT: reported while asked for and the socket takes or refuses.     *)
OnWriteCallback ==
    LoopIdle /\ armed /\ (sockRoom > 0 \/ shutWr) /\ reset = "no" /\ Enter("loop")

-------------------------------------------------------------------------------
(* WriteBufferToFd by thread t, alone in the object. *)
InTurn(t, place) == At(t, place) /\ ~torn

Return(t, r) ==
    /\ Goto(t, IF t = "loop" THEN "decide" ELSE "enable")
    /\ ret' = [ret EXCEPT ![t] = r]

(* Buffer::WriteBufferToFd on buffer_: the kernel takes what it has room   *)
(* for; a refusal, whatever the reason, is -1.  More is the next step.     *)
FlushBuffer(t, more) ==
    LET n == IF shutWr \/ reset # "no" THEN 0
             ELSE IF Len(buffer_) <= sockRoom THEN Len(buffer_) ELSE sockRoom
    IN  /\ wire' = wire \o SubSeq(buffer_, 1, n)
        /\ sockRoom' = sockRoom - n
        /\ buffer_' = SubSeq(buffer_, n + 1, Len(buffer_))
        /\ reset' = IF buffer_' # <<>> /\ reset = "pending" THEN "told" ELSE reset
        /\ UNCHANGED <<pending_files, fd_, bytes_sent, torn, entry, fbConn, shutWr, finIn, fbHistory>>
        /\ IF buffer_' # <<>> THEN Return(t, -1) ELSE Goto(t, more) /\ UNCHANGED ret

FlushFirst(t) == InTurn(t, "first") /\ FlushBuffer(t, "open")

(* What is queued when the first file is opened, by how that goes: an      *)
(* entry without a file, or whose file cannot be opened, is popped; a file *)
(* may have become shorter since its length was announced.                 *)
Opened(how) ==
    /\ buffer_' = buffer_ \o pending_files[1].header
    /\ bytes_sent' = 0
    /\ \/ /\ how = "none" /\ ~pending_files[1].hasFile
          /\ fd_' = FALSE /\ pending_files' = Tail(pending_files) /\ UNCHANGED disk
       \/ /\ how = "opened" /\ pending_files[1].hasFile
          /\ fd_' = TRUE /\ UNCHANGED <<pending_files, disk>>
       \/ /\ how = "gone" /\ pending_files[1].hasFile
          /\ fd_' = FALSE /\ pending_files' = Tail(pending_files) /\ disk' = "changed"
       \/ /\ how = "shorter" /\ pending_files[1].hasFile /\ pending_files[1].body # <<>>
          /\ fd_' = TRUE /\ disk' = "changed"
          /\ pending_files' = [pending_files EXCEPT ![1].body = Tail(@)]

(* A turn of the loop: the header goes to buffer_ when its file is opened. *)
Mut_FlushOpenAgain(t) ==
    /\ InTurn(t, "open") /\ pending_files # <<>> /\ Goto(t, "header")
    /\ \E how \in {"none", "opened", "gone", "shorter"} : Opened(how)
    /\ UNCHANGED <<torn, ret, entry, fbConn, fbKernel, accepted, closedAt, stale>>
FlushOpen(t) ==
    /\ InTurn(t, "open") /\ pending_files # <<>> /\ Goto(t, "header")
    /\ IF fd_ THEN UNCHANGED <<fbObject, disk>>
       ELSE \E how \in {"none", "opened", "gone", "shorter"} : Opened(how)
    /\ UNCHANGED <<torn, ret, entry, fbConn, fbKernel, accepted, closedAt, stale>>

FlushHeader(t) == InTurn(t, "header") /\ FlushBuffer(t, IF fd_ THEN "file" ELSE "open")

(* What is left of the open file; nothing, once it was cut short. *)
Left == SubSeq(pending_files[1].body, bytes_sent + 1, Len(pending_files[1].body))

(* sendfile takes a part of what is left.  A file that has become shorter  *)
(* than bytes_pending_ says yields 0 bytes, again and again.               *)
Mut_SendFilePartDone(t) ==
    /\ InTurn(t, "file") /\ Goto(t, "open")
    /\ fd_ /\ \E n \in 0 .. Len(Left) :
          /\ IF disk = "cut" \/ Left = <<>> THEN n = 0
                                           ELSE n \in 1 .. sockRoom /\ ~shutWr /\ reset = "no"
          /\ wire' = wire \o SubSeq(Left, 1, n) /\ sockRoom' = sockRoom - n
          /\ bytes_sent' = bytes_sent + n /\ fd_' = FALSE
    /\ pending_files' = Tail(pending_files)
    /\ UNCHANGED <<buffer_, torn, ret, entry, fbConn, shutWr, finIn, reset, fbHistory>>
SendFilePart(t) ==
    /\ InTurn(t, "file") /\ Goto(t, "open")
    /\ fd_ /\ \E n \in 0 .. Len(Left) :
          /\ IF disk = "cut" \/ Left = <<>> THEN n = 0
                                           ELSE n \in 1 .. sockRoom /\ ~shutWr /\ reset = "no"
          /\ wire' = wire \o SubSeq(Left, 1, n) /\ sockRoom' = sockRoom - n
          /\ bytes_sent' = bytes_sent + n /\ fd_' = (n < Len(Left))
    /\ pending_files' = IF fd_' THEN pending_files ELSE Tail(pending_files)
    /\ UNCHANGED <<buffer_, torn, ret, entry, fbConn, shutWr, finIn, reset, fbHistory>>

(* EAGAIN and EPIPE end the flush; any other error, and so ECONNRESET,     *)
(* which Buffer::WriteBufferToFd tolerates, ends the process.              *)
SendFileFails(t) ==
    /\ InTurn(t, "file") /\ fd_ /\ Left # <<>> /\ disk # "cut"
    /\ sockRoom = 0 \/ shutWr \/ reset # "no"
    /\ UNCHANGED <<fbObject, torn, entry, armed, fbShut, fbClosed, wire, sockRoom, shutWr, finIn,
                   fbHistory>>
    /\ IF reset = "pending"
       THEN reset' = "told" /\ fbExited' = TRUE /\ UNCHANGED <<flushing, ret>>
       ELSE Return(t, -1) /\ UNCHANGED <<reset, fbExited>>

FlushDone(t) ==
    /\ InTurn(t, "open") /\ pending_files = <<>> /\ Return(t, 0)
    /\ UNCHANGED <<fbObject, torn, entry, fbConn, fbKernel, fbHistory>>

(* WriteBufferToFd in a torn object. *)
FlushTorn(t) ==
    /\ ~fbExited /\ flushing[t] \in InFlush /\ torn
    /\ \/ \E r \in {-1, 0} : Return(t, r) /\ UNCHANGED fbExited
       \/ fbExited' = TRUE /\ UNCHANGED <<flushing, ret>>
    /\ UNCHANGED <<fbObject, torn, entry, armed, fbShut, fbClosed, fbKernel, fbHistory>>

-------------------------------------------------------------------------------
(* Thread t's flush left nothing, but the other thread has added more and  *)
(* returned.                                                               *)
Outdated(t) ==
    /\ ret[t] = 0 /\ ~torn /\ (pending_files # <<>> \/ buffer_ # <<>>)
    /\ flushing[Other(t)] \in {"no", "fin"}

(* EnableWrite(ret) ends SendFile and OnWriteCallback.  Each stores into   *)
(* events_ and calls epoll_ctl; the last store decides.  A connection that *)
(* has left epoll ends the process.                                        *)
Mut_EnableWrite(t) ==
    /\ At(t, "enable") /\ Goto(t, "no") /\ ret' = [ret EXCEPT ![t] = 0]
    /\ armed' = (ret[t] < 0 /\ t = "loop") /\ fbExited' = fbClosed
    /\ stale' = (stale \/ Outdated(t))
    /\ UNCHANGED <<fbObject, torn, entry, fbShut, fbClosed, fbKernel, disk, accepted, closedAt>>
EnableWrite(t) ==
    /\ At(t, "enable") /\ Goto(t, "no") /\ ret' = [ret EXCEPT ![t] = 0]
    /\ armed' = (ret[t] < 0) /\ fbExited' = fbClosed
    /\ stale' = (stale \/ Outdated(t))
    /\ UNCHANGED <<fbObject, torn, entry, fbShut, fbClosed, fbKernel, disk, accepted, closedAt>>

(* Empty() looks at the queue, not at buffer_. *)
FbEmpty == IF torn THEN BOOLEAN ELSE {pending_files = <<>>}
Decides == closedAt' = IF closedAt < 0 THEN Len(accepted) ELSE closedAt

(* OnWriteCallback after its flush: after a FIN it closes when Empty(). *)
OnWriteDecides ==
    /\ At("loop", "decide")
    /\ \E empty \in FbEmpty :
          IF fbShut /\ empty
          THEN Goto("loop", "no") /\ fbClosed' = TRUE /\ shutWr' = TRUE /\ Decides
          ELSE Goto("loop", "enable") /\ UNCHANGED <<fbClosed, shutWr, closedAt>>
    /\ UNCHANGED <<fbObject, torn, ret, entry, armed, fbShut, fbExited, wire, sockRoom, finIn, reset,
                   disk, accepted, stale>>

(* OnReadCallback, once shut_down_ is set and the read callback called:    *)
(* Close when Empty().                                                     *)
OnReadDecides ==
    /\ At("loop", "fin") /\ Goto("loop", "no")
    /\ \E empty \in FbEmpty :
          IF empty THEN shutWr' = TRUE /\ Decides ELSE UNCHANGED <<shutWr, closedAt>>
    /\ UNCHANGED <<fbObject, torn, ret, entry, fbConn, wire, sockRoom, finIn, reset, disk, accepted,
                   stale>>

(* EPOLLHUP and EPOLLERR close: both directions are shut, or a RST came. *)
OnHangUp ==
    /\ LoopIdle /\ (reset # "no" \/ (finIn /\ shutWr))
    /\ fbClosed' = TRUE /\ shutWr' = TRUE
    /\ UNCHANGED <<fbObject, torn, flushing, ret, entry, armed, fbShut, fbExited, wire, sockRoom,
                   finIn, reset, fbHistory>>

-------------------------------------------------------------------------------
(* The peer, and another process that cuts short the file being sent. *)
FbPeerReads ==
    /\ ~fbExited /\ sockRoom < SocketRoom /\ reset = "no" /\ sockRoom' = sockRoom + 1
    /\ UNCHANGED <<fbObject, torn, flushing, ret, entry, fbConn, wire, shutWr, finIn, reset, fbHistory>>

FbPeerEnds ==
    /\ ~fbExited /\ ~fbClosed /\ ~finIn /\ reset = "no" /\ finIn' = TRUE
    /\ UNCHANGED <<fbObject, torn, flushing, ret, entry, fbConn, wire, sockRoom, shutWr, reset, fbHistory>>

FbPeerResets ==
    /\ ~fbExited /\ ~fbClosed /\ reset = "no" /\ reset' = "pending"
    /\ UNCHANGED <<fbObject, torn, flushing, ret, entry, fbConn, wire, sockRoom, shutWr, finIn, fbHistory>>

FileShrinks ==
    /\ ~fbExited /\ ~torn /\ fd_ /\ Left # <<>> /\ disk # "cut" /\ disk' = "cut"
    /\ UNCHANGED <<fbObject, torn, flushing, ret, entry, fbConn, fbKernel, accepted, closedAt, stale>>

FlushStep(t) ==
    \/ FlushFirst(t) \/ FlushOpen(t) \/ FlushHeader(t)
    \/ SendFilePart(t) \/ SendFileFails(t) \/ FlushDone(t) \/ FlushTorn(t)
    \/ EnableWrite(t)
SendStep == AddFile \/ SendFlushes \/ FlushStep("worker")
FbLoopStep == FlushStep("loop") \/ OnWriteDecides \/ OnReadDecides \/ OnHangUp \/ OnWriteCallback
FbPeerStep == FbPeerEnds \/ FbPeerResets \/ FileShrinks

-------------------------------------------------------------------------------
(* Partial writes, partial sendfiles and refusals in any order, on either  *)
(* thread: until two threads are in the object at once, what goes out is   *)
(* what Send and SendFile were given, in order, nothing twice.             *)
StreamInOrder == ~torn /\ disk = "same" => wire = SubSeq(accepted, 1, Len(wire))

(* A connection that decides to close after the peer's FIN has sent every  *)
(* file it was given before: what Empty() overlooks is in buffer_, the     *)
(* rest of the last header.  A worker that has passed the test of          *)
(* shut_down_ may still add a file, which is lost.                         *)
ClosedAfterFiles ==
    ~torn /\ disk = "same" /\ closedAt > 0 =>
        /\ closedAt <= Len(wire \o buffer_)
        /\ SubSeq(wire \o buffer_, 1, closedAt) = SubSeq(accepted, 1, closedAt)

(* A flush returns, and a refused one is resumed by the loop's thread: what *)
(* was accepted reaches a peer that reads and does not reset, also after   *)
(* its FIN.  Excepted are a write side that was shut (HTTP/1.0, or the     *)
(* close), a changed file, and what the two threads can do to each other:  *)
(* a torn object, and an EnableWrite(false) that comes after a newer       *)
(* EnableWrite(true).                                                      *)
AcceptedIsSent ==
    LET AllOut == accepted = wire /\ \A t \in FbThreads : flushing[t] \notin InFlush
    IN  ~AllOut ~> (AllOut \/ reset # "no" \/ shutWr \/ disk # "same" \/ torn \/ stale)
===============================================================================
