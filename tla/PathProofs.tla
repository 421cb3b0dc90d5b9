------------------------------ MODULE PathProofs ------------------------------
(***************************************************************************)
(* The byte streams of a connection, for streams cut in any way: what the  *)
(* threads that Send put on the wire (WritePath), and what the workers of a*)
(* server take from read_buffer_ (ReadPath).  The facts about Buffer are in*)
(* BufferTheorems.                                                         *)
(***************************************************************************)
EXTENDS WritePath, ReadPath, BufferTheorems

-------------------------------------------------------------------------------
(* WritePath.                                                              *)

Byte == Nat

(* ConcatIndex and WriteAppends for the bytes of this module. *)
LEMMA BytesConcat ==
    ASSUME NEW s \in Seq(Byte), NEW t \in Seq(Byte)
    PROVE  /\ s \o t \in Seq(Byte)
           /\ Len(s \o t) = Len(s) + Len(t)
           /\ \A i \in 1 .. Len(s) : (s \o t)[i] = s[i]
           /\ \A i \in 1 .. Len(t) : (s \o t)[Len(s) + i] = t[i]
BY ConcatIndex

LEMMA BytesWrite ==
    ASSUME NEW b \in Buffers(Byte), NEW c \in Seq(Byte)
    PROVE  /\ Write(b, c).rd = b.rd
           /\ Write(b, c).wr = b.wr + Len(c)
           /\ \A i \in 1 .. b.wr : Write(b, c).data[i] = b.data[i]
           /\ \A i \in 1 .. Len(c) : Write(b, c).data[b.wr + i] = c[i]
BY WriteAppends

-------------------------------------------------------------------------------
Labels == {"idle", "flush", "write", "consume", "enable", "update"}

(* The types, and the buffer's indices in order: inductive by itself. *)
Sane ==
    /\ buf \in Buffers(Byte)
    /\ pc \in [Threads -> Labels]
    /\ peeked \in [Threads -> Seq(Byte)]
    /\ ret \in [Threads -> {0, -1}]
    /\ events \in BOOLEAN /\ interest \in BOOLEAN /\ ready \in BOOLEAN
    /\ room \in 0 .. SendBuffer
    /\ written \in Seq(Byte)
    /\ wire \in Seq(Byte)

(* The path begins with a well-formed buffer, ... *)
LEMMA SaneInit == Init => Sane
<1>1. EmptyBuffer \in Buffers(Byte)
  BY DEF EmptyBuffer, Buffers
<1> QED BY <1>1, PathAssumption DEF Init, Sane, Labels

(* A message is MsgLen bytes. *)
LEMMA MessageType ==
    ASSUME written \in Seq(Byte)
    PROVE  LET msg == [i \in 1 .. MsgLen |-> Len(written) + i]
           IN  msg \in Seq(Byte) /\ Len(msg) = MsgLen
BY PathAssumption DEF Byte

(* ... and every step of every thread keeps it so. *)
LEMMA SaneNext == Sane /\ [Next]_vars => Sane'
<1> SUFFICES ASSUME Sane, [Next]_vars PROVE Sane'
  OBVIOUS
<1> USE PathAssumption DEF Sane, Labels
<1>1. ASSUME NEW t \in Senders, Send(t) PROVE Sane'
  <2> DEFINE msg == [i \in 1 .. MsgLen |-> Len(written) + i]
  <2>1. msg \in Seq(Byte)
    BY MessageType
  <2>2. buf' = Write(buf, msg) /\ written' = written \o msg
    BY <1>1 DEF Send
  <2>3. pc' \in [Threads -> Labels]
    BY <1>1, Zenon DEF Send, Goto
  <2>4. UNCHANGED <<peeked, ret, events, interest, ready, room, wire>>
    BY <1>1 DEF Send
  <2> HIDE DEF msg
  <2>5. buf' \in Buffers(Byte) /\ written' \in Seq(Byte)
    BY <2>1, <2>2, WriteAppends, ConcatProperties
  <2> QED BY <2>3, <2>4, <2>5
<1>2. ASSUME NEW t \in Threads, FlushPeek(t) PROVE Sane'
  <2>1. Peek(buf, kWriteBufferSize) \in Seq(Byte)
    BY PeekCopies, PathAssumption
  <2> QED BY <1>2, <2>1, Zenon DEF FlushPeek, Goto
<1>3. ASSUME NEW t \in Threads, FlushWrite(t) PROVE Sane'
  <2>1. CASE room > 0
    <3> DEFINE n == IF Len(peeked[t]) <= room THEN Len(peeked[t]) ELSE room
               part == SubSeq(peeked[t], 1, n)
    <3>1. n \in Nat /\ n <= Len(peeked[t]) /\ n <= room
      OBVIOUS
    <3>2. /\ wire' = wire \o part
          /\ room' = room - n
          /\ peeked' = [peeked EXCEPT ![t] = part]
          /\ pc' = [pc EXCEPT ![t] = "consume"]
          /\ UNCHANGED <<ret, buf, events, interest, ready, written>>
      BY <1>3, <2>1 DEF FlushWrite, Goto
    <3>3. part \in Seq(Byte)
      BY <3>1
    <3> HIDE DEF n, part
    <3>4. wire' \in Seq(Byte)
      BY <3>2, <3>3, ConcatProperties
    <3> QED BY <3>1, <3>2, <3>3, <3>4
  <2>2. CASE ~(room > 0)
    BY <1>3, <2>2, Zenon DEF FlushWrite, Goto
  <2> QED BY <2>1, <2>2
<1>4. ASSUME NEW t \in Threads, FlushConsume(t) PROVE Sane'
  <2>1. Len(peeked[t]) \in Nat
    OBVIOUS
  <2>2. HaveRead(buf, Len(peeked[t])) \in Buffers(Byte)
    BY <2>1, HaveReadDrops
  <2> QED BY <1>4, <2>2 DEF FlushConsume, Goto
<1>5. ASSUME NEW t \in Threads, EnableWrite(t) PROVE Sane'
  BY <1>5 DEF EnableWrite, Goto
<1>6. ASSUME NEW t \in Threads, UpdateChannel(t) PROVE Sane'
  BY <1>6 DEF UpdateChannel, Goto
<1>7. ASSUME OnWriteCallback PROVE Sane'
  BY <1>7, Zenon DEF OnWriteCallback, Goto, Threads
<1>8. ASSUME PeerReads PROVE Sane'
  BY <1>8 DEF PeerReads
<1>9. ASSUME UNCHANGED vars PROVE Sane'
  BY <1>9 DEF vars
<1> QED BY <1>1, <1>2, <1>3, <1>4, <1>5, <1>6, <1>7, <1>8, <1>9 DEF Next, FlushStep

(* Every variable of the path keeps its type, and the kernel is never      *)
(* given more bytes than its buffer has room for.                          *)
THEOREM PathTypeOK == SafeSpec => []TypeOK
<1>1. Sane => TypeOK
  BY DEF Sane, Labels, Byte, Buffers, TypeOK
<1> QED BY <1>1, SaneInit, SaneNext, PTL DEF SafeSpec

(* However many threads send and flush at once, HaveRead keeps             *)
(* read_index_ <= write_index_ <= buffer_.size().                          *)
THEOREM PathIndicesValid == SafeSpec => []IndicesValid
<1>1. Sane => IndicesValid
  BY DEF Sane, Buffers, IndicesValid
<1> QED BY <1>1, SaneInit, SaneNext, PTL DEF SafeSpec

-------------------------------------------------------------------------------
(* From here on every Send is on the loop's thread, as in the client's     *)
(* connections, whose callbacks run there.                                 *)

(* Bytes the kernel has taken and HaveRead has not yet dropped. *)
Unacked == IF pc[Loop] = "consume" THEN Len(peeked[Loop]) ELSE 0

(* The bytes on the wire, then the bytes in the buffer, are the bytes      *)
(* written; a peeked chunk is still the front of the buffer.               *)
Flow ==
    /\ Unacked <= ReadableBytes(buf)
    /\ Unacked <= Len(wire)
    /\ Len(written) = Len(wire) - Unacked + ReadableBytes(buf)
    /\ \A i \in 1 .. Len(wire) : wire[i] = written[i]
    /\ \A i \in 1 .. ReadableBytes(buf) :
          buf.data[buf.rd + i] = written[Len(wire) - Unacked + i]
    /\ pc[Loop] = "write" =>
          /\ Len(peeked[Loop]) <= ReadableBytes(buf)
          /\ \A i \in 1 .. Len(peeked[Loop]) : peeked[Loop][i] = buf.data[buf.rd + i]

(* EPOLLOUT is given up only with an empty buffer, at each of the three    *)
(* places where the decision rests.                                        *)
Watched ==
    /\ pc[Loop] = "enable" /\ ret[Loop] = 0 => Empty(buf)
    /\ pc[Loop] = "update" /\ ~events => Empty(buf)
    /\ pc[Loop] = "idle" /\ ~interest => Empty(buf)

LoopInv == Sane /\ Flow /\ Watched

(* Nothing is on the wire at first, and EPOLLOUT is asked for. *)
LEMMA FlowInit == Init => Flow /\ Watched
BY DEF Init, Flow, Watched, Unacked, EmptyBuffer, ReadableBytes, Threads

(* Send puts its bytes behind those in the buffer. *)
LEMMA FlowSend ==
    ASSUME LoopInv, Sane', Send(Loop)
    PROVE  Flow' /\ Watched'
<1> DEFINE msg == [i \in 1 .. MsgLen |-> Len(written) + i]
           rd == buf.rd
           k == ReadableBytes(buf)
           n == Len(wire)
<1>0. Sane /\ Flow
  BY DEF LoopInv
<1>1. msg \in Seq(Byte) /\ Len(msg) = MsgLen /\ MsgLen \in Nat
  BY <1>0, MessageType, PathAssumption DEF Sane
<1>2. /\ pc[Loop] = "idle" /\ pc'[Loop] = "flush"
      /\ buf' = Write(buf, msg) /\ written' = written \o msg
      /\ wire' = wire
  BY <1>0 DEF Send, Goto, Sane, Threads
<1>3. Unacked = 0 /\ Unacked' = 0
  BY <1>2 DEF Unacked
<1> HIDE DEF msg
<1>4. rd \in Nat /\ buf.wr \in Nat /\ k \in Nat /\ buf.wr = rd + k /\ n \in Nat
  BY <1>0 DEF Sane, Buffers, ReadableBytes
<1>5. Len(written) = n + k
  BY <1>0, <1>3, <1>4 DEF Flow
<1>6. \A i \in 1 .. k : buf.data[rd + i] = written[n + i]
  <2>1. \A i \in 1 .. k : buf.data[rd + i] = written[n - Unacked + i]
    BY <1>0 DEF Flow
  <2>2. n - Unacked = n
    BY <1>3, <1>4
  <2> QED BY <2>1, <2>2
<1>7. /\ Len(written') = n + k + MsgLen
      /\ \A i \in 1 .. n + k : written'[i] = written[i]
      /\ \A i \in 1 .. MsgLen : written'[n + k + i] = msg[i]
  <2>0. written \in Seq(Byte)
    BY <1>0 DEF Sane
  <2>1. /\ Len(written \o msg) = Len(written) + Len(msg)
        /\ \A i \in 1 .. Len(written) : (written \o msg)[i] = written[i]
        /\ \A i \in 1 .. Len(msg) : (written \o msg)[Len(written) + i] = msg[i]
    BY <1>1, <2>0, BytesConcat, Zenon
  <2>2. /\ Len(written') = Len(written) + Len(msg)
        /\ \A i \in 1 .. Len(written) : written'[i] = written[i]
        /\ \A i \in 1 .. Len(msg) : written'[Len(written) + i] = msg[i]
    BY <1>2, <2>1, Zenon
  <2> QED BY <1>1, <1>5, <2>2, Zenon
<1>8. /\ buf'.rd = rd
      /\ buf'.wr = rd + k + MsgLen
      /\ \A i \in 1 .. rd + k : buf'.data[i] = buf.data[i]
      /\ \A i \in 1 .. MsgLen : buf'.data[rd + k + i] = msg[i]
  <2>1. /\ buf'.rd = buf.rd
        /\ buf'.wr = buf.wr + Len(msg)
        /\ \A i \in 1 .. buf.wr : buf'.data[i] = buf.data[i]
        /\ \A i \in 1 .. Len(msg) : buf'.data[buf.wr + i] = msg[i]
    BY <1>0, <1>1, <1>2, BytesWrite, Zenon DEF Sane
  <2> QED BY <1>1, <1>4, <2>1, Zenon
<1>9. ReadableBytes(buf') = k + MsgLen
  BY <1>1, <1>4, <1>8 DEF ReadableBytes
<1>10. \A i \in 1 .. n : wire'[i] = written'[i]
  <2>1. \A i \in 1 .. n : wire[i] = written[i]
    BY <1>0 DEF Flow
  <2> HIDE DEF n, k
  <2>2. \A i \in 1 .. n : i \in 1 .. n + k
    BY <1>4
  <2> QED BY <1>2, <1>7, <2>1, <2>2, Zenon
<1>11. \A i \in 1 .. k + MsgLen : buf'.data[rd + i] = written'[n + i]
  <2> HIDE DEF n, k, rd
  <2> TAKE i \in 1 .. k + MsgLen
  <2>1. CASE i <= k
    <3>1. i \in 1 .. k /\ rd + i \in 1 .. rd + k /\ n + i \in 1 .. n + k
      BY <1>1, <1>4, <2>1
    <3> QED BY <1>6, <1>7, <1>8, <3>1, Zenon
  <2>2. CASE i > k
    <3>1. PICK j \in 1 .. MsgLen : i = k + j
      <4>1. i - k \in 1 .. MsgLen /\ i = k + (i - k)
        BY <1>1, <1>4, <2>2
      <4> QED BY <4>1
    <3>2. rd + i = rd + k + j /\ n + i = n + k + j
      BY <1>4, <3>1
    <3>3. buf'.data[rd + k + j] = msg[j] /\ written'[n + k + j] = msg[j]
      BY <1>7, <1>8, <3>1, Zenon
    <3> QED BY <3>2, <3>3, Zenon
  <2> QED BY <1>1, <1>4, <2>1, <2>2
<1>12. Flow'
  <2>1. n - 0 = n /\ Len(wire') = n
    BY <1>2, <1>4
  <2> HIDE DEF n, k, rd
  <2>2. Len(written') = Len(wire') - Unacked' + ReadableBytes(buf')
    BY <1>1, <1>3, <1>4, <1>7, <1>9, <2>1
  <2>3. \A i \in 1 .. ReadableBytes(buf') :
           buf'.data[buf'.rd + i] = written'[Len(wire') - Unacked' + i]
    BY <1>3, <1>8, <1>9, <1>11, <2>1, Zenon
  <2>4. Unacked' <= ReadableBytes(buf') /\ Unacked' <= Len(wire')
    BY <1>1, <1>3, <1>4, <1>9, <2>1
  <2> QED BY <1>2, <1>10, <2>1, <2>2, <2>3, <2>4, Zenon DEF Flow
<1> QED BY <1>2, <1>12 DEF Watched

(* Peek copies the bytes that follow the wire's. *)
LEMMA FlowPeek ==
    ASSUME LoopInv, Sane', FlushPeek(Loop)
    PROVE  Flow' /\ Watched'
<1>0. Sane /\ Flow
  BY DEF LoopInv
<1>1. /\ pc[Loop] = "flush"
      /\ buf' = buf /\ wire' = wire /\ written' = written
  BY DEF FlushPeek
<1>2. buf.rd \in Nat /\ buf.wr \in Nat /\ buf.rd <= buf.wr
  BY <1>0 DEF Sane, Buffers
<1>3. CASE ReadableBytes(buf) > 0
  <2> DEFINE front == Peek(buf, kWriteBufferSize)
  <2>1. /\ Len(front) = Clip(kWriteBufferSize, buf)
        /\ \A i \in 1 .. Clip(kWriteBufferSize, buf) : front[i] = buf.data[buf.rd + i]
    BY <1>0, PeekCopies, PathAssumption, Zenon DEF Sane
  <2>2. Clip(kWriteBufferSize, buf) <= ReadableBytes(buf)
    BY <1>2, PathAssumption DEF Clip, ReadableBytes
  <2>3. pc'[Loop] = "write" /\ peeked'[Loop] = front
    BY <1>0, <1>3 DEF FlushPeek, Goto, Sane, Threads
  <2> HIDE DEF front
  <2>4. Unacked = 0 /\ Unacked' = 0
    BY <1>1, <2>3 DEF Unacked
  <2> QED BY <1>0, <1>1, <2>1, <2>2, <2>3, <2>4, Zenon DEF Flow, Watched
<1>4. CASE ~(ReadableBytes(buf) > 0)
  <2>1. pc'[Loop] = "enable"
    BY <1>0, <1>4 DEF FlushPeek, Goto, Sane, Threads
  <2>2. Empty(buf)
    BY <1>2, <1>4 DEF Empty, ReadableBytes
  <2>3. Unacked = 0 /\ Unacked' = 0
    BY <1>1, <2>1 DEF Unacked
  <2> QED BY <1>0, <1>1, <2>1, <2>2, <2>3, Zenon DEF Flow, Watched
<1> QED BY <1>3, <1>4

(* The kernel takes the first of them, and they follow the wire's. *)
LEMMA FlowWrite ==
    ASSUME LoopInv, Sane', FlushWrite(Loop)
    PROVE  Flow' /\ Watched'
<1>0. Sane /\ Flow
  BY DEF LoopInv
<1>1. /\ pc[Loop] = "write"
      /\ buf' = buf /\ written' = written
  BY DEF FlushWrite
<1>2. Unacked = 0
  BY <1>1 DEF Unacked
<1>3. CASE room > 0
  <2> DEFINE all == peeked[Loop]
             m == IF Len(all) <= room THEN Len(all) ELSE room
             part == SubSeq(all, 1, m)
             n == Len(wire)
             k == ReadableBytes(buf)
  <2>1. all \in Seq(Byte) /\ room \in Nat /\ n \in Nat /\ wire \in Seq(Byte)
    BY <1>0 DEF Sane, Threads
  <2>2. k \in Nat
    BY <1>0 DEF Sane, Buffers, ReadableBytes
  <2>3. Len(all) <= k /\ \A i \in 1 .. Len(all) : all[i] = buf.data[buf.rd + i]
    BY <1>0, <1>1 DEF Flow
  <2>4. Len(written) = n + k
    BY <1>0, <1>2, <2>1, <2>2 DEF Flow
  <2>5. \A i \in 1 .. k : buf.data[buf.rd + i] = written[n + i]
    <3>1. \A i \in 1 .. k : buf.data[buf.rd + i] = written[n - Unacked + i]
      BY <1>0 DEF Flow
    <3>2. n - Unacked = n
      BY <1>2, <2>1
    <3> QED BY <3>1, <3>2
  <2>6. \A i \in 1 .. n : wire[i] = written[i]
    BY <1>0 DEF Flow
  <2>7. /\ wire' = wire \o part
        /\ peeked'[Loop] = part
        /\ pc'[Loop] = "consume"
    BY <1>0, <1>1, <1>3 DEF FlushWrite, Goto, Sane, Threads
  <2> HIDE DEF all, n, k
  <2>8. m \in Nat /\ m <= Len(all) /\ m <= k
    BY <2>1, <2>2, <2>3
  <2>9. part \in Seq(Byte) /\ Len(part) = m /\ \A i \in 1 .. m : part[i] = all[i]
    BY <2>1, <2>8
  <2> HIDE DEF m, part
  <2>10. /\ Len(wire \o part) = n + m
         /\ \A i \in 1 .. n : (wire \o part)[i] = wire[i]
         /\ \A i \in 1 .. m : (wire \o part)[n + i] = part[i]
    BY <2>1, <2>9, BytesConcat, Zenon DEF n
  <2>11. Unacked' = m
    BY <2>7, <2>9 DEF Unacked
  <2>12. ASSUME NEW i \in 1 .. m
         PROVE  (wire \o part)[n + i] = written[n + i]
    <3>1. i \in 1 .. Len(all) /\ i \in 1 .. k
      BY <2>1, <2>2, <2>8
    <3> QED BY <2>3, <2>5, <2>9, <2>10, <3>1, Zenon
  <2>13. ASSUME NEW i \in 1 .. n + m
         PROVE  (wire \o part)[i] = written[i]
    <3>1. CASE i <= n
      <4>1. i \in 1 .. n
        BY <2>1, <2>8, <3>1
      <4> QED BY <2>6, <2>10, <4>1, Zenon
    <3>2. CASE i > n
      <4>1. PICK j \in 1 .. m : i = n + j
        <5>1. i - n \in 1 .. m /\ i = n + (i - n)
          BY <2>1, <2>8, <3>2
        <5> QED BY <5>1
      <4> QED BY <2>12, <4>1, Zenon
    <3>3. i <= n \/ i > n
      BY <2>1, <2>8
    <3> QED BY <3>1, <3>2, <3>3, Zenon
  <2>14. n + m - m = n /\ n + m - m + k = n + k /\ m <= n + m
    BY <2>1, <2>2, <2>8
  <2>15. Len(wire') = n + m /\ Len(wire') - Unacked' = n
    <3>1. Len(wire') = n + m
      BY <2>7, <2>10, Zenon
    <3> QED BY <2>1, <2>8, <2>11, <3>1
  <2>16. ReadableBytes(buf') = k /\ buf' = buf
    BY <1>1 DEF k
  <2>17. Unacked' <= ReadableBytes(buf') /\ Unacked' <= Len(wire')
    BY <2>8, <2>11, <2>14, <2>15, <2>16, Zenon
  <2>18. Len(written') = Len(wire') - Unacked' + ReadableBytes(buf')
    BY <1>1, <2>4, <2>15, <2>16, Zenon
  <2>19. \A i \in 1 .. Len(wire') : wire'[i] = written'[i]
    BY <1>1, <2>7, <2>13, <2>15, Zenon
  <2>20. \A i \in 1 .. ReadableBytes(buf') :
            buf'.data[buf'.rd + i] = written'[Len(wire') - Unacked' + i]
    BY <1>1, <2>5, <2>15, <2>16, Zenon
  <2> QED BY <2>7, <2>17, <2>18, <2>19, <2>20, Zenon DEF Flow, Watched
<1>4. CASE ~(room > 0)
  <2>1. pc'[Loop] = "enable" /\ wire' = wire /\ ret'[Loop] = -1
    BY <1>0, <1>4 DEF FlushWrite, Goto, Sane, Threads
  <2>2. Unacked' = 0
    BY <2>1 DEF Unacked
  <2>3. Flow'
    BY <1>0, <1>1, <1>2, <2>1, <2>2, Zenon DEF Flow
  <2> QED BY <2>1, <2>3 DEF Watched
<1> QED BY <1>3, <1>4

(* HaveRead drops the bytes that the kernel took. *)
LEMMA FlowConsume ==
    ASSUME LoopInv, Sane', FlushConsume(Loop)
    PROVE  Flow' /\ Watched'
<1> DEFINE m == Len(peeked[Loop])
           n == Len(wire)
           k == ReadableBytes(buf)
           rd == buf.rd
<1>0. Sane /\ Flow
  BY DEF LoopInv
<1>1. /\ pc[Loop] = "consume" /\ pc'[Loop] = "flush"
      /\ buf' = HaveRead(buf, m)
      /\ wire' = wire /\ written' = written
  BY <1>0 DEF FlushConsume, Goto, Sane, Threads
<1>2. Unacked = m /\ Unacked' = 0
  BY <1>1 DEF Unacked
<1>3. m \in Nat /\ n \in Nat /\ k \in Nat /\ rd \in Nat
  <2>1. buf.rd \in Nat /\ buf.wr \in Nat /\ buf.rd <= buf.wr
    BY <1>0 DEF Sane, Buffers
  <2>2. k \in Nat
    BY <2>1 DEF ReadableBytes
  <2>3. m \in Nat /\ n \in Nat
    BY <1>0 DEF Sane, Threads
  <2> QED
    BY <2>1, <2>2, <2>3
<1>4. m <= k /\ m <= n
  BY <1>0, <1>2 DEF Flow
<1>5. Clip(m, buf) = m
  BY <1>4 DEF Clip
<1>6. /\ buf'.data = buf.data
      /\ ReadableBytes(buf') = k - m
      /\ ~Empty(buf') => buf'.rd = rd + m
  <2>1. buf \in Buffers(Byte)
    BY <1>0 DEF Sane
  <2>2. /\ HaveRead(buf, m).data = buf.data
        /\ ReadableBytes(HaveRead(buf, m)) = ReadableBytes(buf) - Clip(m, buf)
        /\ ~Empty(HaveRead(buf, m)) => HaveRead(buf, m).rd = buf.rd + Clip(m, buf)
    BY <1>3, <2>1, HaveReadDrops, Zenon
  <2> QED BY <1>1, <1>5, <2>2, Zenon
<1>7. Len(written) = n - m + k
  BY <1>0, <1>2 DEF Flow
<1>8. \A i \in 1 .. k : buf.data[rd + i] = written[n - m + i]
  BY <1>0, <1>2, Zenon DEF Flow
<1>9. \A i \in 1 .. n : wire[i] = written[i]
  BY <1>0 DEF Flow
<1>10. ASSUME k - m > 0 PROVE buf'.rd = rd + m
  <2>1. buf'.rd \in Nat /\ buf'.wr \in Nat
    BY DEF Sane, Buffers
  <2>2. ~Empty(buf')
    BY <1>6, <1>10, <2>1 DEF Empty, ReadableBytes
  <2> QED BY <1>6, <2>2
<1> HIDE DEF m, n, k, rd
<1>11. ASSUME NEW i \in 1 .. k - m
       PROVE  buf'.data[buf'.rd + i] = written[n + i]
  <2>1. k - m > 0 /\ m + i \in 1 .. k /\ rd + (m + i) = rd + m + i /\ n - m + (m + i) = n + i
    BY <1>3, <1>4
  <2>2. buf'.rd = rd + m
    BY <1>10, <2>1
  <2>3. buf.data[rd + (m + i)] = written[n - m + (m + i)]
    BY <1>8, <2>1, Zenon
  <2> QED BY <1>6, <2>1, <2>2, <2>3, Zenon
<1>12. Len(wire') = n /\ n - 0 = n /\ 0 <= k - m /\ 0 <= n
       /\ Len(written') = n + (k - m)
  BY <1>1, <1>3, <1>4, <1>7 DEF n
<1>13. \A i \in 1 .. Len(wire') : wire'[i] = written'[i]
  BY <1>1, <1>9, <1>12, Zenon
<1>14. \A i \in 1 .. ReadableBytes(buf') :
          buf'.data[buf'.rd + i] = written'[Len(wire') - Unacked' + i]
  BY <1>1, <1>2, <1>6, <1>11, <1>12, Zenon
<1>15. /\ Unacked' <= ReadableBytes(buf') /\ Unacked' <= Len(wire')
       /\ Len(written') = Len(wire') - Unacked' + ReadableBytes(buf')
  BY <1>2, <1>6, <1>12, Zenon
<1> QED BY <1>1, <1>13, <1>14, <1>15, Zenon DEF Flow, Watched

(* The steps that move no byte. *)
LEMMA FlowRest ==
    ASSUME LoopInv, Sane',
           \/ EnableWrite(Loop) \/ UpdateChannel(Loop)
           \/ OnWriteCallback \/ PeerReads \/ UNCHANGED vars
    PROVE  Flow' /\ Watched'
<1>0. Sane /\ Flow /\ Watched
  BY DEF LoopInv
<1>1. UNCHANGED <<buf, peeked, wire, written>>
  BY DEF EnableWrite, UpdateChannel, OnWriteCallback, PeerReads, vars
<1>2. \/ pc' = pc
      \/ /\ pc[Loop] \in {"enable", "update", "idle"}
         /\ pc'[Loop] \in {"update", "idle", "flush"}
  BY <1>0 DEF EnableWrite, UpdateChannel, OnWriteCallback, PeerReads, vars, Goto, Sane, Threads
<1>3. Unacked' = Unacked
  BY <1>1, <1>2 DEF Unacked
<1>4. pc'[Loop] = "write" => pc[Loop] = "write"
  BY <1>2
<1>5. Flow'
  BY <1>0, <1>1, <1>3, <1>4, Zenon DEF Flow
<1>6. CASE EnableWrite(Loop)
  <2>1. pc'[Loop] = "update" /\ pc[Loop] = "enable" /\ events' = (ret[Loop] < 0)
    BY <1>0, <1>6 DEF EnableWrite, Goto, Sane, Threads
  <2>2. ret[Loop] \in {0, -1}
    BY <1>0 DEF Sane, Threads
  <2>3. ~events' => ret[Loop] = 0
    <3>1. ret[Loop] # 0 => ret[Loop] < 0
      BY <2>2
    <3> QED BY <2>1, <3>1, Zenon
  <2> QED BY <1>0, <1>1, <1>5, <2>1, <2>3 DEF Watched
<1>7. CASE UpdateChannel(Loop)
  <2>1. pc'[Loop] = "idle" /\ pc[Loop] = "update" /\ interest' = events
    BY <1>0, <1>7 DEF UpdateChannel, Goto, Sane, Threads
  <2> QED BY <1>0, <1>1, <1>5, <2>1 DEF Watched
<1>8. CASE OnWriteCallback
  <2>1. /\ pc'[Loop] \in {"flush", "idle"} /\ pc[Loop] = "idle"
        /\ UNCHANGED <<ret, events, interest>>
    BY <1>0, <1>8 DEF OnWriteCallback, Goto, Sane, Threads
  <2> QED BY <1>0, <1>1, <1>5, <2>1 DEF Watched
<1>9. CASE PeerReads \/ UNCHANGED vars
  <2>1. UNCHANGED <<pc, ret, events, interest>>
    BY <1>9 DEF PeerReads, vars
  <2> QED BY <1>0, <1>1, <1>5, <2>1 DEF Watched
<1> QED BY <1>6, <1>7, <1>8, <1>9

(* With one thread, every step preserves the three together. *)
LEMMA LoopInvNext ==
    ASSUME Senders \subseteq {Loop}
    PROVE  LoopInv /\ [Next]_vars => LoopInv'
<1> SUFFICES ASSUME LoopInv, [Next]_vars PROVE LoopInv'
  OBVIOUS
<1>1. Sane'
  BY SaneNext DEF LoopInv
<1>2. \A t \in Threads : t = Loop
  BY DEF Threads
<1>3. \A t \in Senders : t = Loop
  OBVIOUS
<1>4. CASE Send(Loop) \/ FlushPeek(Loop) \/ FlushWrite(Loop) \/ FlushConsume(Loop)
  BY <1>1, <1>4, FlowSend, FlowPeek, FlowWrite, FlowConsume DEF LoopInv
<1>5. CASE \/ EnableWrite(Loop) \/ UpdateChannel(Loop)
           \/ OnWriteCallback \/ PeerReads \/ UNCHANGED vars
  BY <1>1, <1>5, FlowRest DEF LoopInv
<1> QED BY <1>2, <1>3, <1>4, <1>5 DEF Next, FlushStep

(* With every Send on the loop's thread, the kernel gets the bytes of Send *)
(* in order, each once.                                                    *)
THEOREM PathWireInOrder ==
    ASSUME Senders \subseteq {Loop}
    PROVE  SafeSpec => []WireInOrder
<1>1. LoopInv => WireInOrder
  <2> SUFFICES ASSUME Sane, Flow PROVE WireInOrder
    BY DEF LoopInv
  <2> DEFINE n == Len(wire)
             front == SubSeq(written, 1, n)
  <2>1. /\ wire \in Seq(Byte) /\ written \in Seq(Byte)
        /\ n \in Nat /\ Len(written) \in Nat
    BY DEF Sane
  <2>2. ReadableBytes(buf) \in Nat /\ Unacked <= ReadableBytes(buf) /\ Unacked \in Nat
    BY DEF Sane, Flow, Buffers, ReadableBytes, Unacked, Threads
  <2>3. n <= Len(written)
    BY <2>1, <2>2 DEF Flow
  <2>4. front \in Seq(Byte) /\ Len(front) = n /\ \A i \in 1 .. n : front[i] = written[i]
    BY <2>1, <2>3
  <2>5. \A i \in 1 .. n : wire[i] = front[i]
    BY <2>4 DEF Flow
  <2> HIDE DEF front
  <2>6. wire = front
    BY <2>1, <2>4, <2>5, SeqEqual
  <2> QED BY <2>3, <2>6 DEF WireInOrder, front
<1> QED BY <1>1, SaneInit, FlowInit, LoopInvNext, PTL DEF SafeSpec, LoopInv

(* With every Send on the loop's thread, bytes left in the buffer are      *)
(* never left without interest in EPOLLOUT.                                *)
THEOREM PathBacklogIsWatched ==
    ASSUME Senders \subseteq {Loop}
    PROVE  SafeSpec => []BacklogIsWatched
<1>1. LoopInv => BacklogIsWatched
  BY DEF LoopInv, Watched, BacklogIsWatched, Threads
<1> QED BY <1>1, SaneInit, FlowInit, LoopInvNext, PTL DEF SafeSpec, LoopInv

(* With every Send on the loop's thread, no byte leaves the buffer before  *)
(* it is on the wire: the wire and the buffer's content are what Send got. *)
THEOREM PathNothingDropped ==
    ASSUME Senders \subseteq {Loop}
    PROVE  SafeSpec => []NothingDropped
<1>1. LoopInv => NothingDropped
  <2> SUFFICES ASSUME Sane, Flow, pc[Loop] \in {"idle", "flush", "enable", "update"}
               PROVE  wire \o Content(buf) = written
    BY DEF LoopInv, NothingDropped, Threads
  <2> DEFINE n == Len(wire)
             k == ReadableBytes(buf)
             rest == Content(buf)
             all == wire \o rest
  <2>1. /\ wire \in Seq(Byte) /\ written \in Seq(Byte)
        /\ n \in Nat /\ Len(written) \in Nat
        /\ buf.data \in Seq(Byte) /\ buf.rd \in Nat /\ buf.wr \in Nat
        /\ buf.rd <= buf.wr /\ buf.wr <= Len(buf.data)
    BY DEF Sane, Buffers
  <2>2. Unacked = 0 /\ k \in Nat /\ k = buf.wr - buf.rd
    BY <2>1 DEF Unacked, ReadableBytes
  <2>3. /\ Len(written) = n + k
        /\ \A i \in 1 .. n : wire[i] = written[i]
        /\ \A i \in 1 .. k : buf.data[buf.rd + i] = written[n + i]
    <3>1. n - Unacked = n
      BY <2>1, <2>2
    <3>2. /\ Len(written) = (n - Unacked) + k
          /\ \A i \in 1 .. n : wire[i] = written[i]
          /\ \A i \in 1 .. k : buf.data[buf.rd + i] = written[(n - Unacked) + i]
      BY DEF Flow
    <3> HIDE DEF n, k
    <3> QED BY <3>1, <3>2
  <2>4. rest \in Seq(Byte) /\ Len(rest) = k /\ \A i \in 1 .. k : rest[i] = buf.data[buf.rd + i]
    <3>1. Clip(k, buf) = k /\ buf.rd + k = buf.wr
      BY <2>1, <2>2 DEF Clip
    <3>2. rest = Peek(buf, k)
      BY <3>1, Zenon DEF Content, Peek
    <3>3. buf \in Buffers(Byte) /\ k \in Nat
      BY <2>2 DEF Sane
    <3> HIDE DEF k, rest
    <3> QED BY <3>1, <3>2, <3>3, PeekCopies, Zenon
  <2> HIDE DEF k, rest
  <2>5. /\ all \in Seq(Byte) /\ Len(all) = n + k
        /\ \A i \in 1 .. n : all[i] = wire[i]
        /\ \A i \in 1 .. k : all[n + i] = rest[i]
    BY <2>1, <2>4, BytesConcat, Zenon
  <2> HIDE DEF all, n
  <2>6. ASSUME NEW i \in 1 .. n + k
        PROVE  all[i] = written[i]
    <3>1. CASE i <= n
      BY <2>1, <2>2, <2>3, <2>5, <3>1
    <3>2. CASE i > n
      <4>1. i - n \in 1 .. k /\ n + (i - n) = i
        BY <2>1, <2>2, <3>2
      <4>2. all[n + (i - n)] = written[n + (i - n)]
        BY <2>3, <2>4, <2>5, <4>1
      <4> QED BY <4>1, <4>2
    <3> QED BY <2>1, <2>2, <3>1, <3>2
  <2>7. all = written
    BY <2>1, <2>3, <2>5, <2>6, SeqEqual
  <2> QED BY <2>7 DEF all, rest
<1> QED BY <1>1, SaneInit, FlowInit, LoopInvNext, PTL DEF SafeSpec, LoopInv

-------------------------------------------------------------------------------
(* ReadPath.                                                               *)

(* What is in the memory that Peek may read. *)
RByte == Nat \cup {Garbage}

(* Parts of the stream are joined in either order. *)
LEMMA RBytesConcat ==
    ASSUME NEW a \in Seq(RByte), NEW b \in Seq(RByte), NEW c \in Seq(RByte)
    PROVE  (a \o b) \o c = a \o (b \o c)
BY ConcatAssociative, SMTT(20)

ReadTypes ==
    /\ sock \in Seq(RByte) /\ chunk \in Seq(RByte) /\ received \in Seq(RByte)
    /\ delivered \in Seq(RByte) /\ rbuf \in Buffers(RByte)
    /\ step \in [Workers -> {"idle", "lock", "peek", "have"}]
    /\ copied \in [Workers -> Seq(RByte)]
    /\ lock \in Workers \cup {NoWorker}

(* The bytes that have arrived and were not given to a callback are those  *)
(* of the buffer, of the chunk that is being inserted and of the socket.   *)
ReadFlow ==
    /\ loop # "insert" => chunk = <<>>
    /\ (Content(rbuf) \o chunk) \o sock = Drop(received, Len(delivered))

(* Only the holder of mutex_callback_ is between its Peek and its HaveRead *)
(* (so nobody else takes bytes out meanwhile) and what it has copied is    *)
(* still the front of the buffer, whatever the loop's thread has appended. *)
ReadLocked == \A w \in Workers : step[w] \in {"peek", "have"} => lock = w
PeekStillThere ==
    \A w \in Workers : step[w] = "have" =>
        /\ Len(copied[w]) <= ReadableBytes(rbuf)
        /\ \A i \in 1 .. Len(copied[w]) : copied[w][i] \in {Content(rbuf)[i], Garbage}

ReadInv == ReadTypes /\ ReadFlow /\ ReadLocked /\ PeekStillThere /\ DeliveredInPlace

(* The path begins empty. *)
LEMMA ReadInvInit == ReadInit => ReadInv
<1> SUFFICES ASSUME ReadInit PROVE ReadInv
  OBVIOUS
<1>1. EmptyBuffer \in Buffers(RByte) /\ Content(EmptyBuffer) = <<>>
  BY DEF EmptyBuffer, Buffers, Content
<1>2. ReadTypes
  BY <1>1 DEF ReadInit, ReadTypes
<1>3. ReadFlow
  BY <1>1 DEF ReadInit, ReadFlow, Drop
<1> QED
  BY <1>2, <1>3 DEF ReadInit, ReadInv, ReadLocked, PeekStillThere, DeliveredInPlace

(* Steps that move no bytes. *)
LEMMA ReadQuietStep ==
    ASSUME ReadInv,
           UNCHANGED <<sock, chunk, received, delivered, rbuf, copied>>,
           loop' = "insert" => loop = "insert",
           loop = "insert" => chunk = <<>> \/ loop' = "insert",
           \/ UNCHANGED <<step, lock>>
           \/ \E w \in Workers : Take(w) \/ LockCallback(w)
    PROVE  ReadInv'
<1>1. ReadTypes'
  BY DEF ReadInv, ReadTypes, Take, LockCallback
<1>2. ReadFlow'
  BY DEF ReadInv, ReadFlow
<1>3. ReadLocked'
  BY ReadAssumption DEF ReadInv, ReadTypes, ReadLocked, Take, LockCallback
<1>4. PeekStillThere'
  BY DEF ReadInv, ReadTypes, PeekStillThere, Take, LockCallback
<1>5. DeliveredInPlace'
  BY DEF ReadInv, DeliveredInPlace
<1> QED
  BY <1>1, <1>2, <1>3, <1>4, <1>5 DEF ReadInv
(* The peer's bytes go to the end of the stream. *)
LEMMA PeerSendsStep == ReadInv /\ PeerSends => ReadInv'
<1> SUFFICES ASSUME ReadInv, PeerSends PROVE ReadInv'
  OBVIOUS
<1> DEFINE x == Len(received) + 1
           C == Content(rbuf) \o chunk
           D == Len(delivered)
<1>1. /\ received' = Append(received, x) /\ sock' = Append(sock, x)
      /\ UNCHANGED <<chunk, rbuf, delivered, step, lock, copied, loop>>
  BY DEF PeerSends, loopVars, workVars
<1>2. /\ received \in Seq(RByte) /\ sock \in Seq(RByte) /\ x \in RByte /\ <<x>> \in Seq(RByte)
      /\ D \in 0 .. Len(received) /\ C \o sock = Drop(received, D)
  BY DEF ReadInv, ReadTypes, ReadFlow, DeliveredInPlace, RByte
<1>3. C \in Seq(RByte)
  BY ContentIndex, ConcatProperties DEF ReadInv, ReadTypes
<1> HIDE DEF x, C
<1>4. received' = received \o <<x>> /\ sock' = sock \o <<x>>
  BY <1>1, <1>2, AppendIsConcat
<1>5. Drop(received', D) = Drop(received, D) \o <<x>>
  BY <1>2, <1>4, DropConcat, Zenon
<1>6. C \o sock' = (C \o sock) \o <<x>>
  <2>1. sock \in Seq(RByte) /\ <<x>> \in Seq(RByte)
    BY <1>2
  <2>2. (C \o sock) \o <<x>> = C \o (sock \o <<x>>)
    BY <1>3, <2>1, RBytesConcat, Zenon
  <2> QED
    BY <1>4, <2>2, Zenon
<1>7. ReadFlow'
  BY <1>1, <1>2, <1>5, <1>6 DEF ReadInv, ReadFlow, C, D
<1>8. ReadTypes'
  BY <1>1, <1>2, AppendProperties DEF ReadInv, ReadTypes
<1>9. DeliveredInPlace'
  BY <1>1, <1>2, AppendProperties DEF ReadInv, DeliveredInPlace, ReadTypes
<1>10. ReadLocked' /\ PeekStillThere'
  BY <1>1 DEF ReadInv, ReadLocked, PeekStillThere
<1> QED
  BY <1>7, <1>8, <1>9, <1>10 DEF ReadInv

(* socket::read cuts the front off the socket's bytes. *)
LEMMA ReadFdStep == ReadInv /\ ReadFd => ReadInv'
<1> SUFFICES ASSUME ReadInv, ReadFd PROVE ReadInv'
  OBVIOUS
<1>1. UNCHANGED <<rbuf, delivered, received, step, lock, copied>> /\ loop' \in {"insert", "notify"}
  BY DEF ReadFd, workVars, peerVars
<1>2. chunk = <<>> /\ sock \in Seq(RByte)
  BY DEF ReadInv, ReadTypes, ReadFlow, ReadFd
<1>3. Content(rbuf) \in Seq(RByte)
  BY ContentIndex DEF ReadInv, ReadTypes
<1>4. chunk' \in Seq(RByte) /\ sock' \in Seq(RByte) /\ chunk' \o sock' = sock
      /\ (loop' # "insert" => chunk' = <<>>)
  <2>1. CASE sock = <<>>
    BY <1>2, <2>1, ConcatEmptySeq DEF ReadFd
  <2>2. CASE sock # <<>>
    <3> DEFINE n == IF Len(sock) <= kReadBufferSize THEN Len(sock) ELSE kReadBufferSize
    <3>1. n \in 0 .. Len(sock)
      BY <1>2, ReadAssumption
    <3>2. chunk' = SubSeq(sock, 1, n) /\ sock' = Drop(sock, n) /\ loop' = "insert"
      BY <2>2 DEF ReadFd, Drop
    <3> HIDE DEF n
    <3> QED
      BY <1>2, <3>1, <3>2, FirstPart, LastPart, CutAndJoin, Zenon
  <2> QED
    BY <2>1, <2>2
<1>5. (Content(rbuf) \o chunk') \o sock' = (Content(rbuf) \o chunk) \o sock
  <2>0. chunk' \in Seq(RByte) /\ sock' \in Seq(RByte)
    BY <1>4
  <2>1. (Content(rbuf) \o chunk') \o sock' = Content(rbuf) \o (chunk' \o sock')
    BY <1>3, <2>0, RBytesConcat, Zenon
  <2>2. Content(rbuf) \o chunk = Content(rbuf)
    BY <1>2, <1>3, ConcatEmptySeq, Zenon
  <2> QED
    BY <1>4, <2>1, <2>2, Zenon
<1>6. ReadTypes'
  BY <1>1, <1>4 DEF ReadInv, ReadTypes
<1>7. ReadFlow'
  BY <1>1, <1>4, <1>5 DEF ReadInv, ReadFlow
<1>8. ReadLocked' /\ PeekStillThere' /\ DeliveredInPlace'
  BY <1>1 DEF ReadInv, ReadLocked, PeekStillThere, DeliveredInPlace
<1> QED
  BY <1>6, <1>7, <1>8 DEF ReadInv

(* Buffer::Write puts the chunk behind the bytes that are there. *)
LEMMA InsertStep == ReadInv /\ Insert => ReadInv'
<1> SUFFICES ASSUME ReadInv, Insert PROVE ReadInv'
  OBVIOUS
<1> DEFINE C == Content(rbuf)
<1>1. /\ UNCHANGED <<sock, delivered, received, step, lock, copied>> /\ loop' = "read"
      /\ rbuf' = Write(rbuf, chunk) /\ chunk' = <<>>
  BY DEF Insert, workVars, peerVars
<1>2. rbuf \in Buffers(RByte) /\ chunk \in Seq(RByte) /\ sock \in Seq(RByte)
  BY DEF ReadInv, ReadTypes
<1>3. /\ C \in Seq(RByte) /\ Len(C) = ReadableBytes(rbuf) /\ ReadableBytes(rbuf) \in Nat
  BY <1>2, ContentIndex
<1>4. rbuf' \in Buffers(RByte) /\ Content(rbuf') = C \o chunk
  BY <1>1, <1>2, WriteAppends, WriteContent, Zenon
<1>5. ReadableBytes(rbuf') = Len(C \o chunk)
  BY <1>4, ContentIndex
<1> HIDE DEF C
<1>6. /\ C \o chunk \in Seq(RByte) /\ Len(C \o chunk) >= Len(C)
      /\ \A i \in 1 .. Len(C) : (C \o chunk)[i] = C[i]
  BY <1>2, <1>3, ConcatIndex
<1>7. (Content(rbuf') \o chunk') \o sock = (C \o chunk) \o sock
  BY <1>1, <1>2, <1>4, <1>6, ConcatEmptySeq
<1>8. ReadFlow'
  BY <1>1, <1>7 DEF ReadInv, ReadFlow, C
<1>9. ReadTypes'
  BY <1>1, <1>4 DEF ReadInv, ReadTypes
<1>10. ASSUME NEW w \in Workers, step'[w] = "have"
       PROVE  /\ Len(copied'[w]) <= ReadableBytes(rbuf')
              /\ \A i \in 1 .. Len(copied'[w]) : copied'[w][i] \in {Content(rbuf')[i], Garbage}
  <2>1. /\ Len(copied[w]) \in Nat /\ Len(copied[w]) <= Len(C)
        /\ \A i \in 1 .. Len(copied[w]) : copied[w][i] \in {C[i], Garbage}
    BY <1>1, <1>3, <1>10 DEF ReadInv, ReadTypes, PeekStillThere, C
  <2>2. Len(copied[w]) <= Len(C \o chunk)
    BY <1>3, <1>5, <1>6, <2>1
  <2>3. \A i \in 1 .. Len(copied[w]) : copied[w][i] \in {(C \o chunk)[i], Garbage}
    BY <1>3, <1>6, <2>1
  <2> QED
    BY <1>1, <1>4, <1>5, <2>2, <2>3
<1>11. ReadLocked' /\ DeliveredInPlace'
  BY <1>1 DEF ReadInv, ReadLocked, DeliveredInPlace
<1> QED
  BY <1>8, <1>9, <1>10, <1>11 DEF ReadInv, PeekStillThere
(* Peek, torn or not, copies no more than the buffer holds. *)
LEMMA PeekAllStep ==
    ASSUME ReadInv, NEW w \in Workers, PeekAll(w)
    PROVE  ReadInv'
<1> DEFINE bytes == Peek(rbuf, ReadableBytes(rbuf))
           torn == [i \in 1 .. Len(bytes) |-> Garbage]
           C == Content(rbuf)
<1>1. /\ UNCHANGED <<sock, chunk, received, delivered, rbuf, lock, loop>>
      /\ step[w] = "peek" /\ step' = [step EXCEPT ![w] = "have"]
      /\ \/ copied' = [copied EXCEPT ![w] = bytes]
         \/ copied' = [copied EXCEPT ![w] = torn]
  BY DEF PeekAll, loopVars, peerVars
<1>2. /\ rbuf \in Buffers(RByte) /\ copied \in [Workers -> Seq(RByte)]
      /\ step \in [Workers -> {"idle", "lock", "peek", "have"}]
  BY DEF ReadInv, ReadTypes
<1>3. C \in Seq(RByte) /\ Len(C) = ReadableBytes(rbuf) /\ ReadableBytes(rbuf) \in Nat
  BY <1>2, ContentIndex
<1>4. bytes = C
  <2>1. ReadableBytes(rbuf) \in 0 .. ReadableBytes(rbuf)
    BY <1>3
  <2>2. bytes = SubSeq(C, 1, Len(C))
    BY <1>2, <1>3, <2>1, PeekContent
  <2> QED
    BY <1>3, <2>2, SubSeqFull
<1>5. torn \in Seq(RByte) /\ Len(torn) = Len(C) /\ \A i \in 1 .. Len(C) : torn[i] = Garbage
  BY <1>3, <1>4 DEF RByte
<1> HIDE DEF bytes, torn, C
<1>6. /\ copied'[w] \in Seq(RByte) /\ Len(copied'[w]) = Len(C)
      /\ \A i \in 1 .. Len(C) : copied'[w][i] \in {C[i], Garbage}
      /\ \A v \in Workers \ {w} : copied'[v] = copied[v]
      /\ copied' \in [Workers -> Seq(RByte)]
  BY <1>1, <1>2, <1>3, <1>4, <1>5, Zenon
<1>7. ReadTypes'
  BY <1>1, <1>2, <1>6 DEF ReadInv, ReadTypes
<1>8. ReadFlow' /\ DeliveredInPlace'
  BY <1>1 DEF ReadInv, ReadFlow, DeliveredInPlace
<1>9. ReadLocked'
  BY <1>1, <1>2 DEF ReadInv, ReadLocked
<1>10. ASSUME NEW v \in Workers, step'[v] = "have"
       PROVE  /\ Len(copied'[v]) <= ReadableBytes(rbuf')
              /\ \A i \in 1 .. Len(copied'[v]) : copied'[v][i] \in {Content(rbuf')[i], Garbage}
  <2>1. CASE v = w
    BY <1>1, <1>3, <1>6, <2>1 DEF C
  <2>2. CASE v # w
    BY <1>1, <1>2, <1>6, <1>10, <2>2 DEF ReadInv, PeekStillThere
  <2> QED
    BY <2>1, <2>2
<1> QED
  BY <1>7, <1>8, <1>9, <1>10 DEF ReadInv, PeekStillThere

(* HaveRead takes out what the callback was given. *)
LEMMA HaveReadAllStep ==
    ASSUME ReadInv, NEW w \in Workers, HaveReadAll(w)
    PROVE  ReadInv'
<1> DEFINE C == Content(rbuf)
           given == copied[w]
           n == Len(given)
           D == Len(delivered)
           flow == (C \o chunk) \o sock
<1>1. /\ UNCHANGED <<sock, chunk, received, copied, loop>>
      /\ step[w] = "have" /\ step' = [step EXCEPT ![w] = "idle"] /\ lock' = NoWorker
      /\ rbuf' = HaveRead(rbuf, n) /\ delivered' = delivered \o given
  BY DEF HaveReadAll, loopVars, peerVars
<1>2. /\ rbuf \in Buffers(RByte) /\ given \in Seq(RByte) /\ chunk \in Seq(RByte)
      /\ sock \in Seq(RByte) /\ received \in Seq(RByte) /\ delivered \in Seq(RByte)
      /\ step \in [Workers -> {"idle", "lock", "peek", "have"}] /\ n \in Nat /\ D \in Nat
  BY DEF ReadInv, ReadTypes
<1>3. C \in Seq(RByte) /\ Len(C) = ReadableBytes(rbuf) /\ ReadableBytes(rbuf) \in Nat
  BY <1>2, ContentIndex
<1>4. n \in 0 .. Len(C) /\ \A i \in 1 .. n : given[i] \in {C[i], Garbage}
  BY <1>1, <1>2, <1>3 DEF ReadInv, PeekStillThere
<1>5. flow = Drop(received, D) /\ D \in 0 .. Len(received)
      /\ \A i \in 1 .. D : delivered[i] \in {received[i], Garbage}
  BY <1>2 DEF ReadInv, ReadFlow, DeliveredInPlace
<1>6. rbuf' \in Buffers(RByte) /\ Content(rbuf') = Drop(C, n)
  <2>1. n \in 0 .. ReadableBytes(rbuf)
    BY <1>3, <1>4
  <2> QED
    BY <1>1, <1>2, <2>1, HaveReadDrops, HaveReadContent, Zenon
<1> HIDE DEF C, n, D, given
<1>7. C \o chunk \in Seq(RByte) /\ n \in 0 .. Len(C \o chunk) /\ Drop(C, n) \in Seq(RByte)
  <2>1. C \in Seq(RByte) /\ chunk \in Seq(RByte)
    BY <1>2, <1>3
  <2>2. C \o chunk \in Seq(RByte) /\ Len(C \o chunk) = Len(C) + Len(chunk)
    BY <2>1, ConcatProperties
  <2>3. Drop(C, n) \in Seq(RByte)
    BY <1>4, <2>1, LastPart
  <2>4. Len(C) \in Nat /\ Len(chunk) \in Nat
    BY <2>1
  <2> QED
    BY <1>4, <2>2, <2>3, <2>4
<1>8. Drop(flow, n) = (Content(rbuf') \o chunk) \o sock
  <2>1. Drop(C \o chunk, n) = Drop(C, n) \o chunk
    BY <1>2, <1>3, <1>4, DropConcat, Zenon
  <2>2. Drop((C \o chunk) \o sock, n) = Drop(C \o chunk, n) \o sock
    BY <1>2, <1>7, DropConcat, Zenon
  <2> QED
    BY <1>6, <2>1, <2>2, Zenon DEF flow
<1>9. Len(flow) >= Len(C) /\ \A i \in 1 .. Len(C) : flow[i] = C[i]
  <2>1. /\ Len(C \o chunk) = Len(C) + Len(chunk)
        /\ \A i \in 1 .. Len(C) : (C \o chunk)[i] = C[i]
    BY <1>2, <1>3, ConcatIndex, Zenon
  <2>2. /\ Len((C \o chunk) \o sock) = Len(C \o chunk) + Len(sock)
        /\ \A i \in 1 .. Len(C \o chunk) : ((C \o chunk) \o sock)[i] = (C \o chunk)[i]
    BY <1>2, <1>7, ConcatIndex
  <2>3. Len(C) \in Nat /\ Len(chunk) \in Nat /\ Len(sock) \in Nat
    BY <1>2, <1>3
  <2> QED
    BY <2>1, <2>2, <2>3
<1> HIDE DEF flow
<1>10. Len(flow) = Len(received) - D /\ \A i \in 1 .. Len(received) - D : flow[i] = received[D + i]
  BY <1>2, <1>5, LastPart, Zenon
<1>11. Len(delivered') = D + n
  BY <1>1, <1>2, ConcatIndex DEF D, n
<1>12. ReadFlow'
  <2>1. n \in 0 .. Len(received) - D
    BY <1>2, <1>3, <1>4, <1>9, <1>10
  <2>2. Drop(received, D + n) = Drop(flow, n)
    BY <1>2, <1>5, <2>1, DropDrop
  <2> QED
    BY <1>1, <1>8, <1>11, <2>2 DEF ReadInv, ReadFlow
<1>13. ReadTypes'
  <2>1. delivered' \in Seq(RByte)
    BY <1>1, <1>2, ConcatProperties
  <2> QED
    BY <1>1, <1>2, <1>6, <2>1 DEF ReadInv, ReadTypes
<1>14. ReadLocked' /\ PeekStillThere'
  <2>1. \A v \in Workers : step'[v] \notin {"peek", "have"}
    BY <1>1, <1>2 DEF ReadInv, ReadLocked
  <2> QED
    BY <2>1 DEF ReadLocked, PeekStillThere
<1>15. DeliveredInPlace'
  <2>1. D + n <= Len(received)
    BY <1>2, <1>3, <1>4, <1>5, <1>9, <1>10
  <2>2. ASSUME NEW i \in 1 .. D + n PROVE delivered'[i] \in {received[i], Garbage}
    <3>0. /\ \A j \in 1 .. D : delivered'[j] = delivered[j]
          /\ \A j \in 1 .. n : delivered'[D + j] = given[j]
      BY <1>1, <1>2, ConcatIndex DEF D, n
    <3>1. CASE i <= D
      BY <1>2, <1>5, <3>0, <3>1
    <3>2. CASE i > D
      <4>1. PICK j \in 1 .. n : i = D + j
        <5>1. i - D \in 1 .. n /\ i = D + (i - D)
          BY <1>2, <3>2
        <5> QED
          BY <5>1
      <4>2. j \in 1 .. Len(C) /\ j \in 1 .. Len(received) - D
        BY <1>2, <1>3, <1>4, <1>9, <1>10
      <4>3. given[j] \in {C[j], Garbage} /\ C[j] = flow[j] /\ flow[j] = received[D + j]
        BY <1>4, <1>9, <1>10, <4>2
      <4> QED
        BY <3>0, <4>1, <4>3
    <3> QED
      BY <1>2, <3>1, <3>2
  <2> QED
    BY <1>1, <1>11, <2>1, <2>2 DEF DeliveredInPlace
<1> QED
  BY <1>12, <1>13, <1>14, <1>15 DEF ReadInv

(* Whatever the loop's thread and the workers do, and also when a Peek is  *)
(* torn, callbacks are given the peer's bytes in order, each once.         *)
THEOREM ReadDeliveredInPlace == ReadSafeSpec => []DeliveredInPlace
<1>1. ReadInv /\ [ReadNext]_readVars => ReadInv'
  <2> SUFFICES ASSUME ReadInv, [ReadNext]_readVars PROVE ReadInv'
    OBVIOUS
  <2>1. CASE PeerSends
    BY <2>1, PeerSendsStep
  <2>2. CASE PeerFin \/ PollIn \/ Notify \/ UNCHANGED readVars
    <3>1. /\ UNCHANGED <<sock, chunk, received, delivered, rbuf, copied, step, lock>>
          /\ loop' = loop \/ {loop, loop'} \subseteq {"poll", "read", "notify"}
      BY <2>2 DEF PeerFin, PollIn, Notify, readVars, workVars, peerVars, loopVars
    <3> QED
      BY <3>1, ReadQuietStep
  <2>3. CASE ReadFd
    BY <2>3, ReadFdStep
  <2>4. CASE Insert
    BY <2>4, InsertStep
  <2>5. ASSUME NEW w \in Workers, Take(w) \/ LockCallback(w) PROVE ReadInv'
    <3>1. UNCHANGED <<sock, chunk, received, delivered, rbuf, copied, loop>>
      BY <2>5 DEF Take, LockCallback, peerVars, loopVars
    <3> QED
      BY <2>5, <3>1, ReadQuietStep
  <2>6. ASSUME NEW w \in Workers, PeekAll(w) PROVE ReadInv'
    BY <2>6, PeekAllStep
  <2>7. ASSUME NEW w \in Workers, HaveReadAll(w) PROVE ReadInv'
    BY <2>7, HaveReadAllStep
  <2> QED
    BY <2>1, <2>2, <2>3, <2>4, <2>5, <2>6, <2>7 DEF ReadNext, LoopStep, WorkStep
<1>2. ReadInv => DeliveredInPlace
  BY DEF ReadInv
<1> QED
  BY <1>1, <1>2, ReadInvInit, PTL DEF ReadSafeSpec
===============================================================================
