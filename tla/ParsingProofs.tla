---------------------------- MODULE ParsingProofs -----------------------------
(***************************************************************************)
(* What is made of input that comes in pieces: the packets that a codec cuts*)
(* out of a stream, for any packets and any cuts (Codec), and the options  *)
(* and values of a command line, for any fields and arguments              *)
(* (ArgumentParser).                                                       *)
(***************************************************************************)
EXTENDS Codec, ArgumentParser, BufferTheorems

-------------------------------------------------------------------------------
(* Codec.                                                                  *)

(* Codec: the bytes, the frames of the packets sent, and the stream that   *)
(* is yet to be decoded.                                                   *)
CByte == Nat \X Nat
Frames == [i \in 1 .. Len(packets) |-> Encapsulate(i, packets[i])]
Undecoded == Content(readBuffer) \o inFlight

(* Streams of packets are joined in either order. *)
LEMMA CBytesConcat ==
    ASSUME NEW a \in Seq(CByte), NEW b \in Seq(CByte), NEW c \in Seq(CByte)
    PROVE  (a \o b) \o c = a \o (b \o c)
BY ConcatAssociative, SMTT(20)

CodecTypes ==
    /\ packets \in Seq(Packets) /\ inFlight \in Seq(CByte) /\ readBuffer \in Buffers(CByte)
    /\ calls \in Seq({"registered", "default", "unknown"} \X Nat)

(* The callbacks made and the objects left are those of the first t        *)
(* packets.                                                                *)
CallsFor(t) ==
    /\ {calls[j][2] : j \in 1 .. Len(calls)} = Due(t)
    /\ \A j \in 1 .. Len(calls) : calls[j][1] = packets[calls[j][2]].type
    /\ \A j, k \in 1 .. Len(calls) : j < k => calls[j][2] < calls[k][2]
    /\ live = {i \in 1 .. t : packets[i].intact /\ CodecParseMessage(packets[i]).leaks}

CodecInv ==
    /\ CodecTypes /\ NoPacketWaits
    /\ \E t \in Nat : Pending(Undecoded, Frames, t) /\ CallsFor(t)

LEMMA FrameShape ==
    ASSUME NEW i \in Nat, NEW p \in Packets
    PROVE  /\ Encapsulate(i, p) \in Seq(CByte) /\ Len(Encapsulate(i, p)) = 2 + p.size
           /\ Encapsulate(i, p)[1] = <<i, 1>> /\ p.size \in Nat
<1>1. p.size \in Nat
  BY CodecAssumption
<1> DEFINE h == [j \in 1 .. kHeaderLength |-> <<i, j>>]
           c == ComposeMessage(i, p)
<1>2. h \in Seq(CByte) /\ Len(h) = 2 /\ h[1] = <<i, 1>>
  <2>1. \A j \in 1 .. 2 : <<i, j>> \in CByte
    BY DEF CByte
  <2> QED
    BY <2>1 DEF kHeaderLength
<1>3. c \in Seq(CByte) /\ Len(c) = p.size
  <2>1. \A j \in 1 .. p.size : <<i, kHeaderLength + j>> \in CByte
    BY <1>1 DEF CByte, kHeaderLength
  <2> QED
    BY <1>1, <2>1 DEF ComposeMessage
<1> HIDE DEF h, c
<1>4. h \o c \in Seq(CByte) /\ Len(h \o c) = Len(h) + Len(c) /\ (h \o c)[1] = h[1]
  <2>1. h \in Seq(CByte) /\ c \in Seq(CByte) /\ 1 \in 1 .. Len(h)
    BY <1>2, <1>3
  <2> QED
    BY <2>1, ConcatIndex
<1>5. Encapsulate(i, p) = h \o c
  BY DEF Encapsulate, h, c
<1> QED
  BY <1>1, <1>2, <1>3, <1>4, <1>5

LEMMA FramesType ==
    ASSUME packets \in Seq(Packets)
    PROVE  /\ Frames \in Seq(Seq(CByte)) /\ Len(Frames) = Len(packets)
           /\ \A i \in 1 .. Len(packets) : Frames[i] = Encapsulate(i, packets[i])
<1>1. \A i \in 1 .. Len(packets) : Encapsulate(i, packets[i]) \in Seq(CByte)
  <2> SUFFICES ASSUME NEW i \in 1 .. Len(packets)
               PROVE  Encapsulate(i, packets[i]) \in Seq(CByte)
    OBVIOUS
  <2>1. packets[i] \in Packets /\ i \in Nat
    OBVIOUS
  <2> QED
    BY <2>1, FrameShape
<1>2. Len(packets) \in Nat
  OBVIOUS
<1> QED
  BY <1>1, <1>2 DEF Frames

LEMMA FramesAppend ==
    ASSUME packets \in Seq(Packets), NEW p \in Packets, packets' = Append(packets, p)
    PROVE  Frames' = Append(Frames, Encapsulate(Len(packets'), p))
<1> DEFINE f == Encapsulate(Len(packets'), p)
           g == Append(Frames, f)
<1>1. /\ packets' \in Seq(Packets) /\ Len(packets') = Len(packets) + 1 /\ Len(packets) \in Nat
      /\ \A i \in 1 .. Len(packets) : packets'[i] = packets[i]
      /\ packets'[Len(packets')] = p
  OBVIOUS
<1>2. f \in Seq(CByte)
  BY <1>1, FrameShape
<1>3. /\ Frames \in Seq(Seq(CByte)) /\ Len(Frames) = Len(packets)
      /\ \A i \in 1 .. Len(packets) : Frames[i] = Encapsulate(i, packets[i])
  BY FramesType
<1> HIDE DEF f
<1>4. /\ g \in Seq(Seq(CByte)) /\ Len(g) = Len(Frames) + 1
      /\ \A i \in 1 .. Len(Frames) : g[i] = Frames[i]
      /\ g[Len(Frames) + 1] = f
  <2>1. Frames \in Seq(Seq(CByte))
    BY <1>3
  <2> QED
    BY <1>2, <2>1, AppendProperties
<1> HIDE DEF g
<1>5. \A i \in 1 .. Len(packets') : g[i] = Encapsulate(i, packets'[i])
  <2> SUFFICES ASSUME NEW i \in 1 .. Len(packets')
               PROVE  g[i] = Encapsulate(i, packets'[i])
    OBVIOUS
  <2>1. CASE i = Len(packets')
    <3>1. g[i] = f
      BY <1>1, <1>3, <1>4, <2>1
    <3> QED
      BY <1>1, <2>1, <3>1 DEF f
  <2>2. CASE i # Len(packets')
    <3>1. i \in 1 .. Len(packets)
      BY <1>1, <2>2
    <3>2. g[i] = Encapsulate(i, packets[i])
      BY <1>3, <1>4, <3>1
    <3> QED
      BY <1>1, <3>1, <3>2
  <2> QED
    BY <2>1, <2>2
<1>6. Len(g) = Len(packets')
  BY <1>1, <1>3, <1>4
<1>7. g = [i \in 1 .. Len(packets') |-> Encapsulate(i, packets'[i])]
  BY <1>1, <1>4, <1>5, <1>6
<1>8. Frames' = [i \in 1 .. Len(packets') |-> Encapsulate(i, packets'[i])]
  BY DEF Frames
<1> QED
  BY <1>7, <1>8, Zenon DEF g, f

(* Content and what is in flight are a stream of bytes. *)
LEMMA UndecodedType ==
    ASSUME CodecTypes
    PROVE  /\ Content(readBuffer) \in Seq(CByte) /\ Undecoded \in Seq(CByte)
           /\ Len(Content(readBuffer)) = ReadableBytes(readBuffer)
           /\ ReadableBytes(readBuffer) \in Nat
           /\ Len(Undecoded) = Len(Content(readBuffer)) + Len(inFlight)
           /\ \A i \in 1 .. Len(Content(readBuffer)) : Undecoded[i] = Content(readBuffer)[i]
<1>1. readBuffer \in Buffers(CByte) /\ inFlight \in Seq(CByte)
  BY DEF CodecTypes
<1>2. /\ Content(readBuffer) \in Seq(CByte) /\ ReadableBytes(readBuffer) \in Nat
      /\ Len(Content(readBuffer)) = ReadableBytes(readBuffer)
  BY <1>1, ContentIndex
<1> DEFINE c == Content(readBuffer)
<1>3. c \in Seq(CByte)
  BY <1>2
<1> HIDE DEF c
<1>4. /\ c \o inFlight \in Seq(CByte) /\ Len(c \o inFlight) = Len(c) + Len(inFlight)
      /\ \A i \in 1 .. Len(c) : (c \o inFlight)[i] = c[i]
  BY <1>1, <1>3, ConcatIndex
<1> QED
  BY <1>2, <1>4, Zenon DEF Undecoded, c

(* What is not decoded starts with the next packet. *)
LEMMA NextPacket ==
    ASSUME CodecTypes, NEW t \in Nat, Pending(Undecoded, Frames, t)
    PROVE  /\ t \in 0 .. Len(packets)
           /\ Undecoded = <<>> => t = Len(packets)
           /\ Undecoded # <<>> => t < Len(packets) /\ Undecoded[1] = <<t + 1, 1>>
<1>1. packets \in Seq(Packets)
  BY DEF CodecTypes
<1>2. /\ Frames \in Seq(Seq(CByte)) /\ Len(Frames) = Len(packets)
      /\ \A i \in 1 .. Len(packets) : Frames[i] = Encapsulate(i, packets[i])
  BY <1>1, FramesType
<1>3. t \in 0 .. Len(packets)
  BY <1>2 DEF Pending
<1>4. Undecoded \in Seq(CByte)
  BY UndecodedType
<1>5. ASSUME t < Len(packets) PROVE Undecoded # <<>> /\ Undecoded[1] = <<t + 1, 1>>
  <2> DEFINE f == Frames[t + 1]
  <2>1. t + 1 \in 1 .. Len(packets) /\ t + 1 \in Nat /\ t < Len(Frames)
    BY <1>2, <1>3, <1>5
  <2>2. packets[t + 1] \in Packets
    BY <1>1, <2>1
  <2>3. f = Encapsulate(t + 1, packets[t + 1])
    BY <1>2, <2>1
  <2>4. f \in Seq(CByte) /\ Len(f) = 2 + packets[t + 1].size /\ f[1] = <<t + 1, 1>>
        /\ packets[t + 1].size \in Nat
    BY <2>1, <2>2, <2>3, FrameShape, Zenon
  <2>5. Len(f) \in 0 .. Len(Undecoded) /\ SubSeq(Undecoded, 1, Len(f)) = f
    <3>1. Frames \in Seq(Seq(CByte)) /\ t < Len(Frames)
      BY <1>2, <2>1
    <3> QED
      BY <1>4, <3>1, PendingFirst
  <2> HIDE DEF f
  <2>6. 1 \in 1 .. Len(f)
    BY <2>4
  <2>7. SubSeq(Undecoded, 1, Len(f))[1] = Undecoded[1]
    BY <1>4, <2>5, <2>6, FirstPart
  <2> QED
    BY <1>4, <2>4, <2>5, <2>6, <2>7
<1>6. ASSUME t = Len(packets) PROVE Undecoded = <<>>
  <2>1. Frames \in Seq(Seq(CByte)) /\ t = Len(Frames)
    BY <1>2, <1>6
  <2> QED
    BY <1>4, <2>1, PendingNone
<1> QED
  BY <1>3, <1>5, <1>6

(* The length field at the front of the buffer is the length of the next   *)
(* frame.                                                                  *)
LEMMA NextLength ==
    ASSUME CodecTypes, NEW t \in Nat, Pending(Undecoded, Frames, t),
           ReadableBytes(readBuffer) >= 1
    PROVE  /\ t + 1 \in 1 .. Len(packets) /\ Head(Peek(readBuffer, 1)) = <<t + 1, 1>>
           /\ PeekUInt32(readBuffer) = 2 + packets[t + 1].size
           /\ PeekUInt32(readBuffer) = Len(Frames[t + 1])
           /\ Frames[t + 1] = Encapsulate(t + 1, packets[t + 1])
<1> DEFINE c == Content(readBuffer)
<1>1. /\ c \in Seq(CByte) /\ Undecoded \in Seq(CByte)
      /\ Len(c) = ReadableBytes(readBuffer) /\ ReadableBytes(readBuffer) \in Nat
      /\ Len(Undecoded) = Len(c) + Len(inFlight)
      /\ \A i \in 1 .. Len(c) : Undecoded[i] = c[i]
  BY UndecodedType
<1>2. readBuffer \in Buffers(CByte) /\ inFlight \in Seq(CByte) /\ packets \in Seq(Packets)
  BY DEF CodecTypes
<1> HIDE DEF c
<1>3. Undecoded # <<>> /\ 1 \in 1 .. Len(c) /\ 1 \in 0 .. ReadableBytes(readBuffer)
  BY <1>1, <1>2
<1>4. t < Len(packets) /\ Undecoded[1] = <<t + 1, 1>>
  BY <1>3, NextPacket
<1>5. t + 1 \in 1 .. Len(packets) /\ t + 1 \in Nat
  BY <1>2, <1>4
<1>6. c[1] = <<t + 1, 1>>
  BY <1>1, <1>3, <1>4
<1>7. Peek(readBuffer, 1) = SubSeq(c, 1, 1)
  BY <1>2, <1>3, PeekContent, Zenon DEF c
<1>8. Head(SubSeq(c, 1, 1)) = c[1]
  BY <1>1, <1>3
<1>9. Head(Peek(readBuffer, 1)) = <<t + 1, 1>>
  BY <1>6, <1>7, <1>8, Zenon
<1>10. PeekUInt32(readBuffer) = 2 + packets[t + 1].size
  BY <1>9 DEF PeekUInt32, kHeaderLength
<1>11. Frames[t + 1] = Encapsulate(t + 1, packets[t + 1])
  BY <1>2, <1>5, FramesType
<1>12. packets[t + 1] \in Packets
  BY <1>2, <1>5
<1>13. Len(Encapsulate(t + 1, packets[t + 1])) = 2 + packets[t + 1].size
  BY <1>5, <1>12, FrameShape
<1> QED
  BY <1>5, <1>9, <1>10, <1>11, <1>13, Zenon

LEMMA CodecInvInit ==
    ASSUME CodecInit
    PROVE  CodecInv
<1>1. CodecTypes
  <2>1. <<>> \in Seq(Packets) /\ <<>> \in Seq(CByte)
        /\ <<>> \in Seq({"registered", "default", "unknown"} \X Nat)
    OBVIOUS
  <2>2. EmptyBuffer \in Buffers(CByte)
    BY DEF EmptyBuffer, Buffers
  <2> QED
    BY <2>1, <2>2, Zenon DEF CodecInit, CodecTypes
<1>2. NoPacketWaits
  BY DEF CodecInit, NoPacketWaits, HasPacket, ReadableBytes, EmptyBuffer, kHeaderLength
<1>3. Pending(Undecoded, Frames, 0)
  <2>1. Undecoded = <<>>
    BY DEF CodecInit, Undecoded, Content, EmptyBuffer
  <2>2. Frames \in Seq(Seq(CByte)) /\ Len(Frames) = 0
    <3>1. packets \in Seq(Packets) /\ Len(packets) = 0
      BY DEF CodecInit
    <3> QED
      BY <3>1, FramesType
  <2>3. Frames = <<>>
    BY <2>2
  <2>4. Drop(Frames, 0) = <<>>
    BY <2>3 DEF Drop
  <2>5. Joins(<<>>, <<>>)
    <3>1. <<>> \in Seq(CByte)
      OBVIOUS
    <3> QED
      BY <3>1, JoinsNone, Zenon
  <2>6. 0 \in 0 .. Len(Frames)
    BY <2>2
  <2> QED
    BY <2>1, <2>4, <2>5, <2>6, Zenon DEF Pending
<1>4. CallsFor(0)
  BY DEF CodecInit, CallsFor, Due
<1> QED
  BY <1>1, <1>2, <1>3, <1>4 DEF CodecInv

(* A packet sent is behind the others; what was called stays right. *)
LEMMA CodecSendStep ==
    ASSUME CodecInv, NEW p \in Packets, CodecSend(p)
    PROVE  CodecInv'
<1> DEFINE f == Encapsulate(Len(packets'), p)
<1>1. /\ packets \in Seq(Packets) /\ inFlight \in Seq(CByte) /\ readBuffer \in Buffers(CByte)
      /\ Content(readBuffer) \in Seq(CByte) /\ Undecoded \in Seq(CByte)
  BY UndecodedType DEF CodecInv, CodecTypes
<1>2. /\ packets' = Append(packets, p) /\ inFlight' = inFlight \o f
      /\ UNCHANGED <<readBuffer, decoding, calls, live, skipped>>
  BY DEF CodecSend
<1>3. /\ packets' \in Seq(Packets) /\ Len(packets') = Len(packets) + 1 /\ Len(packets) \in Nat
      /\ \A i \in 1 .. Len(packets) : packets'[i] = packets[i]
  BY <1>1, <1>2
<1>4. f \in Seq(CByte)
  BY <1>3, FrameShape
<1>5. Frames' = Append(Frames, f)
  BY <1>1, <1>2, FramesAppend
<1>6. Frames \in Seq(Seq(CByte))
  BY <1>1, FramesType
<1> HIDE DEF f
<1>7. CodecTypes'
  <2>1. inFlight \o f \in Seq(CByte)
    BY <1>1, <1>4, ConcatProperties
  <2> QED
    BY <1>2, <1>3, <2>1 DEF CodecInv, CodecTypes
<1>8. Undecoded' = Undecoded \o f
  <2> DEFINE c == Content(readBuffer)
  <2>1. c \in Seq(CByte) /\ inFlight \in Seq(CByte)
    BY <1>1
  <2> HIDE DEF c
  <2>2. (c \o inFlight) \o f = c \o (inFlight \o f)
    BY <1>4, <2>1, CBytesConcat, Zenon
  <2>3. Content(readBuffer)' = c
    BY <1>2 DEF c, Content
  <2> QED
    BY <1>2, <2>2, <2>3, Zenon DEF Undecoded, c
<1>9. PICK t \in Nat : Pending(Undecoded, Frames, t) /\ CallsFor(t)
  BY DEF CodecInv
<1>10. Pending(Undecoded', Frames', t)
  <2>1. Pending(Undecoded \o f, Append(Frames, f), t)
    BY <1>1, <1>4, <1>6, <1>9, PendingSend
  <2> QED
    BY <1>5, <1>8, <2>1, Zenon
<1>11. t \in 0 .. Len(packets)
  BY <1>9, NextPacket DEF CodecInv
<1>12. CallsFor(t)'
  <2>1. \A i \in 1 .. t : i \in 1 .. Len(packets) /\ packets'[i] = packets[i]
    BY <1>3, <1>11
  <2>2. Due(t)' = Due(t)
    BY <2>1 DEF Due
  <2>3. {calls'[j][2] : j \in 1 .. Len(calls')} = Due(t)'
    BY <1>2, <1>9, <2>2 DEF CallsFor
  <2>4. \A j \in 1 .. Len(calls) : calls[j][2] \in 1 .. t
    BY <1>9 DEF CallsFor, Due
  <2>5. \A j \in 1 .. Len(calls') : calls'[j][1] = packets'[calls'[j][2]].type
    BY <1>2, <1>9, <2>1, <2>4 DEF CallsFor
  <2>6. \A j, k \in 1 .. Len(calls') : j < k => calls'[j][2] < calls'[k][2]
    BY <1>2, <1>9 DEF CallsFor
  <2>7. live' = {i \in 1 .. t : packets'[i].intact /\ CodecParseMessage(packets'[i]).leaks}
    BY <1>2, <1>9, <2>1 DEF CallsFor
  <2> QED
    BY <2>3, <2>5, <2>6, <2>7 DEF CallsFor, CodecParseMessage, CreateMessage
<1>13. NoPacketWaits'
  <2> SUFFICES ASSUME ~decoding, ~skipped, HasPacket(readBuffer)'
               PROVE  FALSE
    BY <1>2 DEF NoPacketWaits
  <2>1. ReadableBytes(readBuffer) >= 2 /\ ReadableBytes(readBuffer) >= PeekUInt32(readBuffer)'
    BY <1>2 DEF HasPacket, ReadableBytes, kHeaderLength
  <2>2. ReadableBytes(readBuffer) >= 1
    BY <2>1, UndecodedType DEF CodecInv
  <2>3. t + 1 \in 1 .. Len(packets) /\ Head(Peek(readBuffer, 1)) = <<t + 1, 1>>
    BY <1>9, <2>2, NextLength DEF CodecInv
  <2>4. PeekUInt32(readBuffer)' = PeekUInt32(readBuffer)
    <3>1. Head(Peek(readBuffer, 1))' = <<t + 1, 1>>
      BY <1>2, <2>3, Zenon DEF Peek, Clip, ReadableBytes
    <3>2. packets'[t + 1] = packets[t + 1]
      BY <1>3, <2>3
    <3> QED
      BY <2>3, <3>1, <3>2 DEF PeekUInt32
  <2>5. HasPacket(readBuffer)
    BY <2>1, <2>4 DEF HasPacket, kHeaderLength
  <2> QED
    BY <2>5 DEF CodecInv, NoPacketWaits
<1> QED
  BY <1>7, <1>9, <1>10, <1>12, <1>13 DEF CodecInv

(* Reading moves bytes from the socket to the buffer. *)
LEMMA CodecReadStep ==
    ASSUME CodecInv, NEW n \in 1 .. Len(inFlight), CodecRead(n)
    PROVE  CodecInv'
<1> DEFINE x == SubSeq(inFlight, 1, n)
           y == Drop(inFlight, n)
           c == Content(readBuffer)
<1>1. /\ packets \in Seq(Packets) /\ inFlight \in Seq(CByte) /\ readBuffer \in Buffers(CByte)
      /\ c \in Seq(CByte)
  BY UndecodedType DEF CodecInv, CodecTypes
<1>2. n \in 0 .. Len(inFlight)
  BY <1>1
<1>3. x \in Seq(CByte) /\ y \in Seq(CByte) /\ x \o y = inFlight
  BY <1>1, <1>2, FirstPart, LastPart, CutAndJoin, Zenon
<1>4. /\ readBuffer' = Write(readBuffer, x) /\ inFlight' = y /\ decoding' = TRUE
      /\ UNCHANGED <<packets, calls, live>>
  BY DEF CodecRead, Drop
<1> HIDE DEF x, y
<1>5. readBuffer' \in Buffers(CByte)
  BY <1>1, <1>3, <1>4, WriteAppends
<1>6. Content(readBuffer)' = c \o x
  <2>1. Content(Write(readBuffer, x)) = c \o x
    BY <1>1, <1>3, WriteContent
  <2>2. Content(readBuffer)' = Content(Write(readBuffer, x))
    BY <1>4 DEF Content
  <2> QED
    BY <2>1, <2>2, Zenon
<1> HIDE DEF c
<1>7. (c \o x) \o y = c \o (x \o y)
  <2>1. c \in Seq(CByte) /\ x \in Seq(CByte) /\ y \in Seq(CByte)
    BY <1>1, <1>3
  <2> QED
    BY <2>1, CBytesConcat, Zenon
<1>8. Undecoded' = Undecoded
  BY <1>3, <1>4, <1>6, <1>7, Zenon DEF Undecoded, c
<1>9. CodecTypes'
  BY <1>3, <1>4, <1>5 DEF CodecInv, CodecTypes
<1>10. NoPacketWaits'
  BY <1>4 DEF NoPacketWaits
<1>11. PICK t \in Nat : Pending(Undecoded, Frames, t) /\ CallsFor(t)
  BY DEF CodecInv
<1>12. Frames' = Frames
  BY <1>4 DEF Frames
<1>13. Pending(Undecoded', Frames', t)
  BY <1>8, <1>11, <1>12, Zenon
<1>14. CallsFor(t)'
  BY <1>4, <1>11 DEF CallsFor, Due
<1> QED
  BY <1>9, <1>10, <1>11, <1>13, <1>14 DEF CodecInv

(* The packet that a turn of the loop takes is the next one, whole. *)
LEMMA TakesNext ==
    ASSUME CodecInv, NEW t \in Nat, Pending(Undecoded, Frames, t), HasPacket(readBuffer)
    PROVE  LET n == PeekUInt32(readBuffer)
           IN  /\ t + 1 \in 1 .. Len(packets)
               /\ HaveRead(readBuffer, n) \in Buffers(CByte)
               /\ Peek(readBuffer, n) = Encapsulate(t + 1, packets[t + 1])
               /\ Peek(readBuffer, n)[1] = <<t + 1, 1>>
               /\ Pending(Content(HaveRead(readBuffer, n)) \o inFlight, Frames, t + 1)
<1> DEFINE n == PeekUInt32(readBuffer)
           c == Content(readBuffer)
<1>1. CodecTypes /\ packets \in Seq(Packets) /\ readBuffer \in Buffers(CByte)
      /\ inFlight \in Seq(CByte)
  BY DEF CodecInv, CodecTypes
<1>2. /\ c \in Seq(CByte) /\ Undecoded \in Seq(CByte) /\ Len(c) = ReadableBytes(readBuffer)
      /\ ReadableBytes(readBuffer) \in Nat /\ Undecoded = c \o inFlight
  BY <1>1, UndecodedType DEF Undecoded
<1>3. ReadableBytes(readBuffer) >= 1 /\ ReadableBytes(readBuffer) >= n
  BY <1>2 DEF HasPacket, kHeaderLength
<1>4. /\ t + 1 \in 1 .. Len(packets) /\ n = 2 + packets[t + 1].size
      /\ n = Len(Frames[t + 1]) /\ Frames[t + 1] = Encapsulate(t + 1, packets[t + 1])
  BY <1>1, <1>3, NextLength
<1>5. packets[t + 1] \in Packets /\ t + 1 \in Nat
  BY <1>1, <1>4
<1>6. packets[t + 1].size \in Nat /\ Encapsulate(t + 1, packets[t + 1])[1] = <<t + 1, 1>>
  BY <1>5, FrameShape
<1>7. n \in 0 .. ReadableBytes(readBuffer) /\ n \in Nat
  BY <1>2, <1>3, <1>4, <1>6
<1> HIDE DEF n, c
<1>8. HaveRead(readBuffer, n) \in Buffers(CByte)
  BY <1>1, <1>7, HaveReadDrops
<1>9. Content(HaveRead(readBuffer, n)) = Drop(c, n)
  BY <1>1, <1>7, HaveReadContent DEF c
<1>10. Peek(readBuffer, n) = SubSeq(c, 1, n)
  BY <1>1, <1>7, PeekContent DEF c
<1>11. n \in 0 .. Len(c)
  BY <1>2, <1>7
<1>12. Drop(Undecoded, n) = Drop(c, n) \o inFlight
  <2>1. Drop(c \o inFlight, n) = Drop(c, n) \o inFlight
    BY <1>1, <1>2, <1>11, DropConcat
  <2> QED
    BY <1>2, <2>1, Zenon
<1>13. Frames \in Seq(Seq(CByte)) /\ Len(Frames) = Len(packets)
  BY <1>1, FramesType
<1>14. /\ SubSeq(Undecoded, 1, Len(Frames[t + 1])) = Frames[t + 1]
       /\ Pending(Drop(Undecoded, Len(Frames[t + 1])), Frames, t + 1)
  <2>1. t < Len(Frames) /\ Frames \in Seq(Seq(CByte)) /\ Undecoded \in Seq(CByte)
    BY <1>1, <1>2, <1>4, <1>13
  <2> QED
    BY <2>1, PendingFirst
<1>15. SubSeq(c, 1, n) = SubSeq(Undecoded, 1, n)
  <2>1. SubSeq(c \o inFlight, 1, n) = SubSeq(c, 1, n)
    <3>1. c \in Seq(CByte) /\ inFlight \in Seq(CByte) /\ n \in 0 .. Len(c)
      BY <1>1, <1>2, <1>11
    <3> QED
      BY <3>1, FirstOfConcat
  <2> QED
    BY <1>2, <2>1, Zenon
<1>16. Peek(readBuffer, n) = Encapsulate(t + 1, packets[t + 1])
  BY <1>4, <1>10, <1>14, <1>15, Zenon
<1>17. Pending(Content(HaveRead(readBuffer, n)) \o inFlight, Frames, t + 1)
  BY <1>4, <1>9, <1>12, <1>14, Zenon
<1> QED
  BY <1>4, <1>6, <1>8, <1>16, <1>17, Zenon DEF n

(* What handling packet t + 1 does to the callbacks. *)
LEMMA HandlesNext ==
    ASSUME CodecTypes, NEW t \in Nat, t + 1 \in 1 .. Len(packets), CallsFor(t),
           packets' = packets,
           IF packets[t + 1].intact THEN ParseAndHandleMessage(t + 1) ELSE UNCHANGED <<calls, live>>
    PROVE  CallsFor(t + 1)' /\ calls' \in Seq({"registered", "default", "unknown"} \X Nat)
<1> DEFINE p == packets[t + 1]
           C == {"registered", "default", "unknown"} \X Nat
           good == /\ p.intact /\ p.parses /\ p.size >= kMinMessageLength /\ p.type # "unknown"
           leaks == p.intact /\ CodecParseMessage(p).leaks
<1>1. p \in Packets /\ calls \in Seq(C) /\ t + 1 \in Nat
  BY DEF CodecTypes
<1>2. /\ p.size \in Nat /\ p.intact \in BOOLEAN /\ p.parses \in BOOLEAN
      /\ p.type \in {"registered", "default", "unknown"}
  BY <1>1, CodecAssumption
<1>3. /\ good => calls' = Append(calls, <<p.type, t + 1>>)
      /\ ~good => calls' = calls
      /\ leaks => live' = live \cup {t + 1}
      /\ ~leaks => live' = live
  BY <1>2, Zenon DEF ParseAndHandleMessage, CodecParseMessage, CreateMessage, CodecHandleMessage
<1>4. 1 .. t + 1 = (1 .. t) \cup {t + 1} /\ t + 1 \notin 1 .. t
  OBVIOUS
<1>5. /\ good => Due(t + 1) = Due(t) \cup {t + 1}
      /\ ~good => Due(t + 1) = Due(t)
  BY <1>4 DEF Due
<1>6. Due(t + 1)' = Due(t + 1)
  BY DEF Due
<1>7. \A j \in 1 .. Len(calls) : calls[j][2] \in 1 .. t
  BY DEF CallsFor, Due
<1>8. live' = {i \in 1 .. t + 1 : packets[i].intact /\ CodecParseMessage(packets[i]).leaks}
  BY <1>3, <1>4 DEF CallsFor
<1> DEFINE numbers == {calls[j][2] : j \in 1 .. Len(calls)}
<1>9. CASE good
  <2> DEFINE e == <<p.type, t + 1>>
  <2>1. e \in C /\ e[1] = p.type /\ e[2] = t + 1
    BY <1>1, <1>2
  <2>2. calls' = Append(calls, e)
    BY <1>3, <1>9
  <2> HIDE DEF e, C, p
  <2>3. /\ calls' \in Seq(C) /\ Len(calls') = Len(calls) + 1 /\ Len(calls) \in Nat
        /\ \A j \in 1 .. Len(calls) : calls'[j] = calls[j]
        /\ calls'[Len(calls) + 1] = e
    BY <1>1, <2>1, <2>2
  <2>4. {calls'[j][2] : j \in 1 .. Len(calls')} = numbers \cup {t + 1}
    <3>1. ASSUME NEW j \in 1 .. Len(calls') PROVE calls'[j][2] \in numbers \cup {t + 1}
      <4>1. CASE j = Len(calls) + 1
        BY <2>1, <2>3, <4>1
      <4>2. CASE j # Len(calls) + 1
        <5>1. j \in 1 .. Len(calls)
          BY <2>3, <4>2
        <5> QED
          BY <2>3, <5>1
      <4> QED
        BY <4>1, <4>2
    <3>2. ASSUME NEW j \in 1 .. Len(calls)
          PROVE  calls[j][2] \in {calls'[k][2] : k \in 1 .. Len(calls')}
      <4>1. j \in 1 .. Len(calls')
        BY <2>3
      <4> QED
        BY <2>3, <4>1
    <3>3. t + 1 \in {calls'[k][2] : k \in 1 .. Len(calls')}
      <4>1. Len(calls) + 1 \in 1 .. Len(calls')
        BY <2>3
      <4> QED
        BY <2>1, <2>3, <4>1
    <3> QED
      BY <3>1, <3>2, <3>3, Zenon
  <2>5. {calls'[j][2] : j \in 1 .. Len(calls')} = Due(t + 1)'
    BY <1>5, <1>6, <1>9, <2>4, Zenon DEF CallsFor
  <2>6. ASSUME NEW j \in 1 .. Len(calls')
        PROVE  calls'[j][1] = packets'[calls'[j][2]].type
    <3>1. CASE j = Len(calls) + 1
      BY <2>1, <2>3, <3>1 DEF p
    <3>2. CASE j # Len(calls) + 1
      <4>1. j \in 1 .. Len(calls)
        BY <2>3, <3>2
      <4> QED
        BY <2>3, <4>1 DEF CallsFor
    <3> QED
      BY <3>1, <3>2
  <2>7. ASSUME NEW j \in 1 .. Len(calls'), NEW k \in 1 .. Len(calls'), j < k
        PROVE  calls'[j][2] < calls'[k][2]
    <3>1. j \in 1 .. Len(calls) /\ calls'[j] = calls[j]
      BY <2>3, <2>7
    <3>2. CASE k = Len(calls) + 1
      <4>1. calls[j][2] \in 1 .. t /\ calls'[k][2] = t + 1
        BY <1>7, <2>1, <2>3, <3>1, <3>2
      <4> QED
        BY <3>1, <4>1
    <3>3. CASE k # Len(calls) + 1
      <4>1. k \in 1 .. Len(calls) /\ calls'[k] = calls[k]
        BY <2>3, <3>3
      <4> QED
        BY <2>7, <3>1, <4>1 DEF CallsFor
    <3> QED
      BY <3>2, <3>3
  <2> QED
    BY <1>8, <2>3, <2>5, <2>6, <2>7 DEF CallsFor, C
<1>10. CASE ~good
  <2>1. calls' = calls
    BY <1>3, <1>10
  <2>2. {calls'[j][2] : j \in 1 .. Len(calls')} = Due(t + 1)'
    BY <1>5, <1>6, <1>10, <2>1 DEF CallsFor
  <2> HIDE DEF good
  <2> QED
    BY <1>1, <1>8, <2>1, <2>2 DEF CallsFor
<1> QED
  BY <1>9, <1>10

LEMMA OnMessageStep ==
    ASSUME CodecInv, OnMessage
    PROVE  CodecInv'
<1>1. PICK t \in Nat : Pending(Undecoded, Frames, t) /\ CallsFor(t)
  BY DEF CodecInv
<1>2. CodecTypes /\ UNCHANGED <<packets, inFlight>>
  BY DEF CodecInv, OnMessage
<1>3. Frames' = Frames
  BY <1>2 DEF Frames
<1>4. CASE HasPacket(readBuffer)
  <2> DEFINE n == PeekUInt32(readBuffer)
             bytes == Peek(readBuffer, n)
  <2>1. /\ t + 1 \in 1 .. Len(packets)
        /\ HaveRead(readBuffer, n) \in Buffers(CByte)
        /\ bytes = Encapsulate(t + 1, packets[t + 1])
        /\ bytes[1] = <<t + 1, 1>>
        /\ Pending(Content(HaveRead(readBuffer, n)) \o inFlight, Frames, t + 1)
    BY <1>1, <1>4, TakesNext
  <2>2. /\ readBuffer' = HaveRead(readBuffer, n)
        /\ decoding' = ChecksumRight(bytes) /\ skipped' = ~decoding'
        /\ IF decoding' THEN ParseAndHandleMessage(bytes[1][1]) ELSE UNCHANGED <<calls, live>>
    BY <1>4, Zenon DEF OnMessage
  <2> HIDE DEF n, bytes
  <2>3. bytes[1][1] = t + 1
    BY <2>1
  <2>4. ChecksumRight(bytes) = packets[t + 1].intact
    <3>1. packets[t + 1] \in Packets
      BY <1>2, <2>1 DEF CodecTypes
    <3>2. packets[t + 1].intact \in BOOLEAN
      BY <3>1, CodecAssumption
    <3>3. ChecksumRight(bytes) <=> packets[t + 1].intact
      BY <2>1, <2>3, Zenon DEF ChecksumRight
    <3>4. ChecksumRight(bytes) \in BOOLEAN
      BY Zenon DEF ChecksumRight
    <3> QED
      BY <3>2, <3>3, <3>4, Zenon
  <2>5. IF packets[t + 1].intact THEN ParseAndHandleMessage(t + 1) ELSE UNCHANGED <<calls, live>>
    BY <2>2, <2>3, <2>4, Zenon
  <2>6. CallsFor(t + 1)' /\ calls' \in Seq({"registered", "default", "unknown"} \X Nat)
    BY <1>1, <1>2, <2>1, <2>5, HandlesNext
  <2>7. CodecTypes'
    BY <1>2, <2>1, <2>2, <2>6 DEF CodecTypes
  <2>8. Pending(Undecoded', Frames', t + 1)
    <3>1. Undecoded' = Content(HaveRead(readBuffer, n)) \o inFlight
      BY <1>2, <2>2 DEF Undecoded, Content
    <3> QED
      BY <1>3, <2>1, <3>1, Zenon
  <2>9. NoPacketWaits'
    BY <2>2, Zenon DEF NoPacketWaits
  <2>10. t + 1 \in Nat
    OBVIOUS
  <2> QED
    BY <2>6, <2>7, <2>8, <2>9, <2>10 DEF CodecInv
<1>5. CASE ~HasPacket(readBuffer)
  <2>1. UNCHANGED <<readBuffer, calls, live, skipped>>
    BY <1>5, Zenon DEF OnMessage
  <2>2. NoPacketWaits'
    <3>1. ~HasPacket(readBuffer)'
      BY <1>2, <1>5, <2>1, Zenon DEF HasPacket, PeekUInt32, ReadableBytes, Peek, Clip
    <3> QED
      BY <3>1 DEF NoPacketWaits
  <2>3. Pending(Undecoded', Frames', t)
    <3>1. Undecoded' = Undecoded
      BY <1>2, <2>1 DEF Undecoded, Content
    <3> QED
      BY <1>1, <1>3, <3>1, Zenon
  <2>4. CallsFor(t)'
    BY <1>1, <1>2, <2>1 DEF CallsFor, Due
  <2> QED
    BY <1>1, <1>2, <2>1, <2>2, <2>3, <2>4 DEF CodecInv, CodecTypes
<1> QED
  BY <1>4, <1>5

LEMMA CodecInductive == CodecSpec => []CodecInv
<1>1. CodecInit => CodecInv
  BY CodecInvInit
<1>2. ASSUME CodecInv, [CodecNext]_codecVars PROVE CodecInv'
  <2>1. CASE \E p \in Packets : CodecSend(p)
    BY <1>2, <2>1, CodecSendStep
  <2>2. CASE \E n \in 1 .. Len(inFlight) : CodecRead(n)
    BY <1>2, <2>2, CodecReadStep
  <2>3. CASE OnMessage
    BY <1>2, <2>3, OnMessageStep
  <2>4. CASE UNCHANGED codecVars
    <3>1. UNCHANGED <<packets, inFlight, readBuffer, decoding, calls, live, skipped>>
      BY <2>4 DEF codecVars
    <3>2. PICK t \in Nat : Pending(Undecoded, Frames, t) /\ CallsFor(t)
      BY <1>2 DEF CodecInv
    <3>3. Undecoded' = Undecoded /\ Frames' = Frames
      BY <3>1 DEF Undecoded, Content, Frames
    <3>4. Pending(Undecoded', Frames', t)
      BY <3>2, <3>3, Zenon
    <3>5. CallsFor(t)'
      BY <3>1, <3>2 DEF CallsFor, Due
    <3>6. CodecTypes'
      BY <1>2, <3>1 DEF CodecInv, CodecTypes
    <3>7. NoPacketWaits'
      BY <1>2, <3>1, Zenon DEF CodecInv, NoPacketWaits, HasPacket, PeekUInt32, ReadableBytes, Peek, Clip
    <3> QED
      BY <3>2, <3>4, <3>5, <3>6, <3>7 DEF CodecInv
  <2> QED
    BY <1>2, <2>1, <2>2, <2>3, <2>4 DEF CodecNext
<1> QED
  BY <1>1, <1>2, PTL DEF CodecSpec

(* However the network cuts the stream of framed messages, Codec::OnMessage *)
(* calls back for exactly the good packets that it has taken out of the     *)
(* buffer, once each and in order, and leaves alive only the messages that  *)
(* did not parse.                                                           *)
THEOREM CodecCallsInOrder == CodecSpec => []CallsInOrder
<1>1. ASSUME CodecInv PROVE CallsInOrder
  <2>1. PICK t \in Nat : Pending(Undecoded, Frames, t) /\ CallsFor(t)
    BY <1>1 DEF CodecInv
  <2>2. /\ t \in 0 .. Len(packets)
        /\ Undecoded = <<>> => t = Len(packets)
        /\ Undecoded # <<>> => t < Len(packets) /\ Undecoded[1] = <<t + 1, 1>>
    BY <1>1, <2>1, NextPacket DEF CodecInv
  <2>3. t = IF Undecoded = <<>> THEN Len(packets) ELSE Undecoded[1][1] - 1
    BY <2>2
  <2>4. Undecoded # <<>> => Undecoded[1][2] = 1
    BY <2>2
  <2> QED
    BY <2>1, <2>3, <2>4, Zenon DEF CallsInOrder, CallsFor, Undecoded
<1> QED
  BY <1>1, CodecInductive, PTL

(* OnMessage leaves no whole packet in the buffer, unless it stopped at a   *)
(* wrong checksum.                                                          *)
THEOREM CodecNoPacketWaits == CodecSpec => []NoPacketWaits
<1>1. CodecInv => NoPacketWaits
  BY DEF CodecInv
<1> QED
  BY <1>1, CodecInductive, PTL

-------------------------------------------------------------------------------
(* ArgumentParser.                                                         *)

(* ArgumentParser.  argument i of given is the option k; k is among the       *)
(* arguments before n; and m is where it is first.                         *)
Gives(given, i, k) == given[i] = <<TRUE, k>>
Seen(given, n, k) == \E i \in 1 .. n - 1 : Gives(given, i, k)
First(given, m, k) == Gives(given, m, k) /\ ~Seen(given, m, k)
IsValue(given, i) == ~IsOption(given[i])

(* What Init has made of the arguments before n when os is options_ and es *)
(* is enabled_.                                                            *)
Read(given, os, es, n) ==
    /\ \A i \in 1 .. n - 1 : \A k \in Names : Gives(given, i, k) =>
          k \notin Unknown /\ (k \in DOMAIN fields_options => i + 1 < n /\ IsValue(given, i + 1))
    /\ \A o \in os : \E m \in 1 .. n - 1 : First(given, m, o[1]) /\ o[2] = given[m + 1][2]
    /\ \A k \in DOMAIN fields_options : Seen(given, n, k) => \E o \in os : o[1] = k
    /\ es = {k \in DOMAIN fields_enabled : Seen(given, n, k)}

ArgTypes ==
    /\ args \in Seq(Arguments) /\ argAt \in Nat /\ 1 <= argAt /\ argAt <= Len(args) + 1
    /\ options \in SUBSET ((DOMAIN fields_options) \X Values)
    /\ parsing = "no" => argAt = 1 /\ options = {} /\ enabled = {}

ArgInv ==
    /\ ArgTypes /\ ParsedAsGiven
    /\ parsing \in {"no", "loop"} => Read(args, options, enabled, argAt)

(* A pair is made of its two parts. *)
LEMMA PairParts ==
    ASSUME NEW S, NEW T, NEW p \in S \X T
    PROVE  p = <<p[1], p[2]>> /\ p[1] \in S /\ p[2] \in T
OBVIOUS

(* The elements of a sequence are in its range. *)
LEMMA ElementIn ==
    ASSUME NEW S, NEW s \in Seq(S), NEW i \in 1 .. Len(s)
    PROVE  s[i] \in S
OBVIOUS

(* An argument is an option with a name or a value. *)
LEMMA ArgumentShape ==
    ASSUME NEW a \in Arguments
    PROVE  /\ IsOption(a) => a[2] \in Names /\ a = <<TRUE, a[2]>>
           /\ ~IsOption(a) => a[2] \in Values /\ \A k : a # <<TRUE, k>>
<1>1. CASE a \in {TRUE} \X Names
  <2> DEFINE Yes == {TRUE}
  <2>0. a \in Yes \X Names
    BY <1>1, Zenon
  <2> HIDE DEF Yes
  <2>1. a = <<a[1], a[2]>> /\ a[1] \in Yes /\ a[2] \in Names
    BY <2>0, PairParts
  <2>2. a[1] = TRUE
    BY <2>1, Zenon DEF Yes
  <2> QED
    BY <2>1, <2>2, Zenon DEF IsOption
<1>2. CASE a \in {FALSE} \X Values
  <2> DEFINE No == {FALSE}
  <2>0. a \in No \X Values
    BY <1>2, Zenon
  <2> HIDE DEF No
  <2>1. a[1] \in No /\ a[2] \in Values
    BY <2>0, PairParts
  <2>2. a[1] = FALSE
    BY <2>1, Zenon DEF No
  <2>3. ASSUME NEW k, a = <<TRUE, k>>
        PROVE  FALSE
    <3>1. <<TRUE, k>>[1] = TRUE
      OBVIOUS
    <3> QED
      BY <2>2, <2>3, <3>1, Zenon
  <2> QED
    BY <2>1, <2>2, <2>3, Zenon DEF IsOption
<1> QED
  BY <1>1, <1>2, Zenon DEF Arguments

(* The same for the arguments of a command line. *)
LEMMA GivenShape ==
    ASSUME NEW given \in Seq(Arguments), NEW i \in 1 .. Len(given)
    PROVE  /\ IsValue(given, i) => given[i][2] \in Values /\ \A k : ~Gives(given, i, k)
           /\ ~IsValue(given, i) => given[i][2] \in Names /\ Gives(given, i, given[i][2])
           /\ \A k : Gives(given, i, k) => k = given[i][2] /\ ~IsValue(given, i)
<1>1. given[i] \in Arguments
  BY ElementIn
<1>2. \A k : given[i] = <<TRUE, k>> => given[i][2] = k
  OBVIOUS
<1> QED
  BY <1>1, <1>2, ArgumentShape, Zenon DEF IsValue, Gives

(* The options before n + 1 are those before n and the one at n. *)
LEMMA SeenNext ==
    ASSUME NEW given, NEW n \in Nat, n >= 1, NEW k
    PROVE  Seen(given, n + 1, k) <=> Seen(given, n, k) \/ Gives(given, n, k)
<1>1. 1 .. (n + 1) - 1 = (1 .. n - 1) \cup {n}
  OBVIOUS
<1> QED
  BY <1>1 DEF Seen

(* A value changes nothing. *)
LEMMA ReadValue ==
    ASSUME NEW given \in Seq(Arguments), NEW os, NEW es, NEW n \in Nat, n >= 1, n <= Len(given),
           IsValue(given, n), Read(given, os, es, n)
    PROVE  Read(given, os, es, n + 1)
<1>1. n \in 1 .. Len(given)
  OBVIOUS
<1>2. \A k : ~Gives(given, n, k)
  BY <1>1, GivenShape
<1>3. \A k : Seen(given, n + 1, k) <=> Seen(given, n, k)
  BY <1>2, SeenNext
<1>4. 1 .. (n + 1) - 1 = (1 .. n - 1) \cup {n}
  OBVIOUS
<1>6. ASSUME NEW i \in 1 .. (n + 1) - 1, NEW k \in Names, Gives(given, i, k)
      PROVE  /\ k \notin Unknown
             /\ k \in DOMAIN fields_options => i + 1 < n + 1 /\ IsValue(given, i + 1)
  <2>1. i \in 1 .. n - 1
    BY <1>2, <1>4, <1>6
  <2>2. k \notin Unknown /\ (k \in DOMAIN fields_options => i + 1 < n /\ IsValue(given, i + 1))
    BY <1>6, <2>1, Zenon DEF Read
  <2> QED
    BY <2>1, <2>2
<1>7. \A o \in os : \E m \in 1 .. (n + 1) - 1 : First(given, m, o[1]) /\ o[2] = given[m + 1][2]
  BY <1>4 DEF Read
<1>8. \A k \in DOMAIN fields_options : Seen(given, n + 1, k) => \E o \in os : o[1] = k
  BY <1>3 DEF Read
<1>9. es = {k \in DOMAIN fields_enabled : Seen(given, n + 1, k)}
  BY <1>3 DEF Read
<1> QED
  BY <1>6, <1>7, <1>8, <1>9, Zenon DEF Read
(* An option without a value is put into enabled_. *)
LEMMA ReadFlag ==
    ASSUME NEW given \in Seq(Arguments), NEW os, NEW es, NEW n \in Nat, n >= 1, n <= Len(given),
           NEW k \in DOMAIN fields_enabled, Gives(given, n, k), Read(given, os, es, n)
    PROVE  Read(given, os, es \cup {k}, n + 1)
<1>1. n \in 1 .. Len(given)
  OBVIOUS
<1>2. \A x : Gives(given, n, x) => x = k
  BY <1>1, GivenShape
<1>3. \A x : Seen(given, n + 1, x) <=> Seen(given, n, x) \/ x = k
  BY <1>2, SeenNext
<1>4. 1 .. (n + 1) - 1 = (1 .. n - 1) \cup {n}
  OBVIOUS
<1>5. k \notin Unknown /\ k \notin DOMAIN fields_options
  BY ArgumentAssumption
<1>6. ASSUME NEW i \in 1 .. (n + 1) - 1, NEW x \in Names, Gives(given, i, x)
      PROVE  /\ x \notin Unknown
             /\ x \in DOMAIN fields_options => i + 1 < n + 1 /\ IsValue(given, i + 1)
  <2>1. CASE i \in 1 .. n - 1
    <3>1. /\ x \notin Unknown
          /\ x \in DOMAIN fields_options => i + 1 < n /\ IsValue(given, i + 1)
      BY <1>6, <2>1, Zenon DEF Read
    <3> QED
      BY <2>1, <3>1
  <2>2. CASE i = n
    BY <1>2, <1>5, <1>6, <2>2, Zenon
  <2> QED
    BY <1>4, <2>1, <2>2, Zenon
<1>7. \A o \in os : \E m \in 1 .. (n + 1) - 1 :
         First(given, m, o[1]) /\ o[2] = given[m + 1][2]
  BY <1>4 DEF Read
<1>8. \A x \in DOMAIN fields_options : Seen(given, n + 1, x) => \E o \in os : o[1] = x
  BY <1>3, <1>5 DEF Read
<1>9. es \cup {k} = {x \in DOMAIN fields_enabled : Seen(given, n + 1, x)}
  BY <1>3 DEF Read
<1> QED
  BY <1>6, <1>7, <1>8, <1>9, Zenon DEF Read

(* An option with a value is put into options_ unless it is there. *)
LEMMA ReadOption ==
    ASSUME NEW given \in Seq(Arguments), NEW os, NEW ot, NEW es, NEW n \in Nat, n >= 1,
           n < Len(given), NEW k \in DOMAIN fields_options, Gives(given, n, k),
           IsValue(given, n + 1), Read(given, os, es, n),
           \/ (\E o \in os : o[1] = k) /\ ot = os
           \/ ~(\E o \in os : o[1] = k) /\ ot = os \cup {<<k, given[n + 1][2]>>}
    PROVE  Read(given, ot, es, n + 2)
<1>1. n \in 1 .. Len(given) /\ n + 1 \in 1 .. Len(given) /\ n + 1 \in Nat /\ n + 1 >= 1
  OBVIOUS
<1>2. (\A x : Gives(given, n, x) => x = k) /\ \A x : ~Gives(given, n + 1, x)
  BY <1>1, GivenShape
<1>a. \A x : Seen(given, n + 1, x) <=> Seen(given, n, x) \/ x = k
  BY <1>2, SeenNext
<1>b. \A x : Seen(given, (n + 1) + 1, x) <=> Seen(given, n + 1, x)
  BY <1>1, <1>2, SeenNext, Zenon
<1>3. \A x : Seen(given, n + 2, x) <=> Seen(given, n, x) \/ x = k
  <2>1. (n + 1) + 1 = n + 2
    OBVIOUS
  <2> QED
    BY <2>1, <1>a, <1>b, Zenon
<1>4. 1 .. (n + 2) - 1 = (1 .. n - 1) \cup {n, n + 1}
  OBVIOUS
<1>5. k \notin Unknown /\ k \notin DOMAIN fields_enabled
  BY ArgumentAssumption
<1>6. ASSUME NEW i \in 1 .. (n + 2) - 1, NEW x \in Names, Gives(given, i, x)
      PROVE  /\ x \notin Unknown
             /\ x \in DOMAIN fields_options => i + 1 < n + 2 /\ IsValue(given, i + 1)
  <2>1. CASE i \in 1 .. n - 1
    <3>1. /\ x \notin Unknown
          /\ x \in DOMAIN fields_options => i + 1 < n /\ IsValue(given, i + 1)
      BY <1>6, <2>1, Zenon DEF Read
    <3> QED
      BY <2>1, <3>1
  <2>2. CASE i = n
    <3>1. n + 1 < n + 2
      OBVIOUS
    <3> QED
      BY <1>2, <1>5, <1>6, <2>2, <3>1, Zenon
  <2>3. CASE i = n + 1
    BY <1>2, <1>6, <2>3, Zenon
  <2> QED
    BY <1>4, <2>1, <2>2, <2>3, Zenon
<1>7. ASSUME NEW o \in ot
      PROVE  \E m \in 1 .. (n + 2) - 1 : First(given, m, o[1]) /\ o[2] = given[m + 1][2]
  <2>1. CASE o \in os
    BY <1>4, <2>1 DEF Read
  <2>2. CASE o = <<k, given[n + 1][2]>> /\ ~\E q \in os : q[1] = k
    <3>1. o[1] = k /\ o[2] = given[n + 1][2]
      BY <2>2
    <3>2. ~Seen(given, n, k)
      BY <2>2, Zenon DEF Read
    <3> QED
      BY <1>4, <3>1, <3>2 DEF First
  <2> QED
    BY <2>1, <2>2
<1>8. ASSUME NEW x \in DOMAIN fields_options, Seen(given, n + 2, x)
      PROVE  \E o \in ot : o[1] = x
  <2>1. CASE x = k
    <3>1. <<k, given[n + 1][2]>>[1] = k
      OBVIOUS
    <3> QED
      BY <2>1, <3>1, Zenon
  <2>2. CASE Seen(given, n, x)
    <3>1. PICK o \in os : o[1] = x
      BY <2>2, Zenon DEF Read
    <3>2. o \in ot
      BY <3>1
    <3> QED
      BY <3>1, <3>2
  <2> QED
    BY <1>3, <1>8, <2>1, <2>2, Zenon
<1>9. es = {x \in DOMAIN fields_enabled : Seen(given, n + 2, x)}
  BY <1>3, <1>5 DEF Read
<1> QED
  BY <1>6, <1>7, <1>8, <1>9, Zenon DEF Read

(* Two pairs of options_ with the same name are the same pair. *)
LEMMA OneValue ==
    ASSUME NEW given, NEW os, NEW es, NEW n \in Nat, Read(given, os, es, n),
           NEW o \in os, NEW m \in 1 .. n - 1, First(given, m, o[1])
    PROVE  o[2] = given[m + 1][2]
<1>1. PICK p \in 1 .. n - 1 : First(given, p, o[1]) /\ o[2] = given[p + 1][2]
  BY Zenon DEF Read
<1>2. ~(p < m) /\ ~(m < p)
  <2>1. p < m => p \in 1 .. m - 1
    OBVIOUS
  <2>2. m < p => m \in 1 .. p - 1
    OBVIOUS
  <2> QED
    BY <1>1, <2>1, <2>2, Zenon DEF First, Seen
<1>3. p = m
  BY <1>2
<1> QED
  BY <1>1, <1>3
(* At collects the places of an option. *)
LEMMA AtSeen ==
    ASSUME args \in Seq(Arguments), NEW k
    PROVE  /\ \A i : i \in At(k) <=> i \in 1 .. Len(args) /\ Gives(args, i, k)
           /\ At(k) # {} <=> Seen(args, Len(args) + 1, k)
<1>1. \A i : i \in At(k) <=> i \in 1 .. Len(args) /\ Gives(args, i, k)
  BY Zenon DEF At, Gives
<1>2. 1 .. (Len(args) + 1) - 1 = 1 .. Len(args)
  OBVIOUS
<1> QED
  BY <1>1, <1>2, Zenon DEF Seen

(* A least element is the minimum. *)
LEMMA MinIs ==
    ASSUME NEW S \in SUBSET Nat, NEW m \in S, \A y \in S : m <= y
    PROVE  Min(S) = m
<1>1. Min(S) \in S /\ \A y \in S : Min(S) <= y
  BY Zenon DEF Min
<1>2. Min(S) \in Nat /\ m \in Nat /\ Min(S) <= m /\ m <= Min(S)
  BY <1>1, Zenon
<1> HIDE DEF Min
<1> QED
  BY <1>2

(* The first place of an option is the least of At. *)
LEMMA MinFirst ==
    ASSUME args \in Seq(Arguments), NEW k, NEW m \in 1 .. Len(args), First(args, m, k)
    PROVE  Min(At(k)) = m
<1>1. m \in At(k)
  BY AtSeen, Zenon DEF First
<1>2. At(k) \in SUBSET Nat
  BY AtSeen
<1>3. ASSUME NEW y \in At(k)
      PROVE  m <= y
  <2>1. y \in 1 .. Len(args) /\ Gives(args, y, k)
    BY AtSeen, Zenon
  <2>2. y \notin 1 .. m - 1
    BY <2>1, Zenon DEF First, Seen
  <2> QED
    BY <2>1, <2>2
<1> QED
  BY <1>1, <1>2, <1>3, MinIs

(* What options_ and enabled_ hold when the loop has ended. *)
LEMMA LoopEnds ==
    ASSUME ArgTypes, Read(args, options, enabled, Len(args) + 1)
    PROVE  /\ \A k \in Unknown : At(k) = {}
           /\ \A k \in DOMAIN fields_options : \A i \in At(k) : ValueAfter(i)
           /\ \A k \in DOMAIN fields_options : (\E o \in options : o[1] = k) <=> At(k) # {}
           /\ \A k \in DOMAIN fields_enabled : k \in enabled <=> At(k) # {}
           /\ \A k \in DOMAIN fields_options :
                 GetStringArg(k) = IF At(k) = {} THEN {} ELSE {args[Min(At(k)) + 1][2]}
<1>1. args \in Seq(Arguments) /\ Len(args) + 1 \in Nat /\ 1 .. (Len(args) + 1) - 1 = 1 .. Len(args)
  BY DEF ArgTypes
<1>2. \A k \in Names : \A i \in At(k) :
         /\ k \notin Unknown
         /\ k \in DOMAIN fields_options => i + 1 < Len(args) + 1 /\ IsValue(args, i + 1)
  BY <1>1, AtSeen, Zenon DEF Read
<1>3. \A k \in Unknown : At(k) = {}
  BY <1>2 DEF Names
<1>4. ASSUME NEW k \in DOMAIN fields_options, NEW i \in At(k)
      PROVE  ValueAfter(i)
  <2>1. i + 1 < Len(args) + 1 /\ IsValue(args, i + 1)
    BY <1>2, Zenon DEF Names
  <2>2. i \in Nat /\ Len(args) \in Nat
    BY <1>1, AtSeen
  <2>3. i < Len(args)
    BY <2>1, <2>2
  <2> QED
    BY <2>1, <2>3, Zenon DEF ValueAfter, IsValue
<1>5. ASSUME NEW o \in options
      PROVE  \E m \in 1 .. Len(args) : First(args, m, o[1])
  BY <1>1, Zenon DEF Read
<1>6. ASSUME NEW k \in DOMAIN fields_options
      PROVE  (\E o \in options : o[1] = k) <=> At(k) # {}
  <2>1. At(k) # {} => \E o \in options : o[1] = k
    BY <1>1, AtSeen, Zenon DEF Read
  <2>2. ASSUME NEW o \in options, o[1] = k
        PROVE  At(k) # {}
    BY <1>1, <1>5, <2>2, AtSeen, Zenon DEF First
  <2> QED
    BY <2>1, <2>2, Zenon
<1>7. \A k \in DOMAIN fields_enabled : k \in enabled <=> At(k) # {}
  <2>1. enabled = {k \in DOMAIN fields_enabled : Seen(args, Len(args) + 1, k)}
    BY Zenon DEF Read
  <2> QED
    BY <1>1, <2>1, AtSeen, Zenon
<1>8. ASSUME NEW k \in DOMAIN fields_options
      PROVE  GetStringArg(k) = IF At(k) = {} THEN {} ELSE {args[Min(At(k)) + 1][2]}
  <2>1. CASE At(k) = {}
    <3>1. \A o \in options : o[1] # k
      BY <1>6, <2>1, Zenon
    <3> QED
      BY <2>1, <3>1 DEF GetStringArg
  <2>2. CASE At(k) # {}
    <3>1. PICK o \in options : o[1] = k
      BY <1>6, <2>2, Zenon
    <3>2. PICK m \in 1 .. Len(args) : First(args, m, k)
      BY <1>5, <3>1, Zenon
    <3>3. \A q \in options : q[1] = k => q[2] = args[m + 1][2]
      <4> SUFFICES ASSUME NEW q \in options, q[1] = k
                   PROVE  q[2] = args[m + 1][2]
        OBVIOUS
      <4>1. m \in 1 .. (Len(args) + 1) - 1 /\ First(args, m, q[1])
        BY <1>1, <3>2, Zenon
      <4> QED
        BY <1>1, <4>1, OneValue
    <3>4. GetStringArg(k) = {args[m + 1][2]}
      BY <3>1, <3>3, Zenon DEF GetStringArg
    <3>5. Min(At(k)) = m
      BY <1>1, <3>2, MinFirst, Zenon
    <3> QED
      BY <2>2, <3>4, <3>5, Zenon
  <2> QED
    BY <2>1, <2>2, Zenon
<1> QED
  BY <1>3, <1>4, <1>6, <1>7, <1>8, Zenon
(* Before the first argument nothing is read. *)
LEMMA ReadNothing ==
    ASSUME NEW given
    PROVE  Read(given, {}, {}, 1)
<1>1. 1 .. 1 - 1 = {}
  OBVIOUS
<1>2. \A k : ~Seen(given, 1, k)
  BY <1>1, Zenon DEF Seen
<1> QED
  BY <1>1, <1>2, Zenon DEF Read

(* Init's early return: the command line is not well-formed. *)
LEMMA EarlyReturn ==
    ASSUME ArgTypes, argAt <= Len(args), NEW k, Gives(args, argAt, k),
           k \in Unknown \/ (k \in DOMAIN fields_options /\ ~ValueAfter(argAt))
    PROVE  ~WellFormed
<1>1. args \in Seq(Arguments) /\ argAt \in 1 .. Len(args)
  BY DEF ArgTypes
<1>2. argAt \in At(k)
  BY <1>1, AtSeen, Zenon
<1> QED
  BY <1>2, Zenon DEF WellFormed

(* The end of the loop: Init returns what CheckRequired says. *)
LEMMA ReturnsRight ==
    ASSUME ArgTypes, parsing = "loop", Read(args, options, enabled, argAt), argAt > Len(args),
           parsing' = (IF CheckRequired THEN "good" ELSE "bad"),
           UNCHANGED <<args, argAt, options, enabled>>
    PROVE  ArgInv'
<1>1. argAt = Len(args) + 1
  BY DEF ArgTypes
<1>2. Read(args, options, enabled, Len(args) + 1)
  BY <1>1, Zenon
<1>3. WellFormed <=> CheckRequired
  BY <1>2, LoopEnds, Zenon DEF WellFormed, CheckRequired
<1>4. parsing' \in {"good", "bad"} /\ (parsing' = "good" <=> CheckRequired)
  <2>1. CASE CheckRequired
    BY <2>1
  <2>2. CASE ~CheckRequired
    BY <2>2
  <2> QED
    BY <2>1, <2>2, Zenon
<1>5. WellFormed' <=> WellFormed
  BY Zenon DEF WellFormed, At, ValueAfter
<1>6. /\ \A k \in DOMAIN fields_options :
            GetStringArg(k)' = IF At(k)' = {} THEN {} ELSE {args'[Min(At(k)') + 1][2]}
      /\ \A k \in DOMAIN fields_enabled : GetBoolArg(k)' <=> At(k)' # {}
  <2>1. \A k : At(k)' = At(k) /\ GetStringArg(k)' = GetStringArg(k) /\ GetBoolArg(k)' = (k \in enabled)
    BY DEF At, GetStringArg, GetBoolArg
  <2> QED
    BY <1>2, <2>1, LoopEnds, Zenon
<1>7. ParsedAsGiven'
  BY <1>3, <1>4, <1>5, <1>6, Zenon DEF ParsedAsGiven
<1>8. parsing' # "no" /\ parsing' # "loop"
  BY <1>4
<1>9. ArgTypes'
  BY <1>8 DEF ArgTypes
<1> QED
  BY <1>7, <1>8, <1>9 DEF ArgInv

(* A turn of Init's loop keeps the invariant. *)
LEMMA ArgTurn ==
    ASSUME ArgInv, InitTurn
    PROVE  ArgInv'
<1>1. /\ ArgTypes /\ parsing = "loop" /\ Read(args, options, enabled, argAt)
      /\ args' = args
  BY DEF ArgInv, InitTurn
<1>2. CASE argAt > Len(args)
  BY <1>1, <1>2, ReturnsRight DEF InitTurn
<1>3. CASE ~(argAt > Len(args))
  <2> DEFINE a == args[argAt]
             k == a[2]
             n == argAt
  <2>1. n \in Nat /\ n >= 1 /\ n <= Len(args) /\ n \in 1 .. Len(args) /\ args \in Seq(Arguments)
    BY <1>1, <1>3 DEF ArgTypes
  <2>2. \/ /\ ~IsOption(a)
           /\ argAt' = argAt + 1 /\ UNCHANGED <<options, enabled, parsing>>
        \/ /\ IsOption(a) /\ k \in DOMAIN fields_options /\ ValueAfter(n)
           /\ options' = InsertOption(k, args[argAt + 1][2])
           /\ argAt' = argAt + 2 /\ UNCHANGED <<enabled, parsing>>
        \/ /\ IsOption(a) /\ k \in DOMAIN fields_enabled
           /\ enabled' = enabled \cup {k}
           /\ argAt' = argAt + 1 /\ UNCHANGED <<options, parsing>>
        \/ /\ IsOption(a) /\ (k \in Unknown \/ (k \in DOMAIN fields_options /\ ~ValueAfter(n)))
           /\ parsing' = "bad" /\ UNCHANGED <<argAt, options, enabled>>
    BY <1>3, Zenon DEF InitTurn, ValueAfter
  <2>3. IsOption(a) => Gives(args, n, k)
    BY <2>1, GivenShape, Zenon DEF IsValue
  <2>4. ASSUME Read(args, options', enabled', argAt'), parsing' = "loop", argAt' \in Nat,
               1 <= argAt', argAt' <= Len(args) + 1,
               options' \in SUBSET ((DOMAIN fields_options) \X Values)
        PROVE  ArgInv'
    <3>1. ArgTypes'
      BY <1>1, <2>1, <2>4 DEF ArgTypes
    <3>2. ParsedAsGiven'
      <4>1. parsing' \notin {"good", "bad"}
        BY <2>4
      <4> QED
        BY <4>1, Zenon DEF ParsedAsGiven
    <3> QED
      BY <1>1, <2>4, <3>1, <3>2, Zenon DEF ArgInv
  <2>5. CASE ~IsOption(a) /\ argAt' = argAt + 1 /\ UNCHANGED <<options, enabled, parsing>>
    <3>1. Read(args, options, enabled, n + 1)
      <4>1. IsValue(args, n)
        BY <2>5, Zenon DEF IsValue
      <4> QED
        BY <1>1, <2>1, <4>1, ReadValue
    <3> HIDE DEF a, k
    <3>2. argAt' \in Nat /\ 1 <= argAt' /\ argAt' <= Len(args) + 1
      BY <2>1, <2>5
    <3>3. Read(args, options', enabled', argAt') /\ parsing' = "loop"
      BY <1>1, <2>5, <3>1, Zenon
    <3> QED
      BY <1>1, <2>4, <2>5, <3>2, <3>3 DEF ArgTypes
  <2>6. CASE /\ IsOption(a) /\ k \in DOMAIN fields_options /\ ValueAfter(n)
             /\ options' = InsertOption(k, args[argAt + 1][2])
             /\ argAt' = argAt + 2 /\ UNCHANGED <<enabled, parsing>>
    <3> DEFINE v == args[n + 1][2]
    <3>1. n < Len(args) /\ IsValue(args, n + 1)
      BY <2>6, Zenon DEF ValueAfter, IsValue
    <3>2. v \in Values
      <4>1. n + 1 \in 1 .. Len(args)
        BY <2>1, <3>1
      <4> QED
        BY <2>1, <3>1, <4>1, GivenShape, Zenon
    <3>3. \/ (\E o \in options : o[1] = k) /\ options' = options
          \/ ~(\E o \in options : o[1] = k) /\ options' = options \cup {<<k, v>>}
      BY <2>6, Zenon DEF InsertOption
    <3>4. Gives(args, n, k)
      BY <2>3, <2>6, Zenon
    <3> HIDE DEF a, k, n
    <3>5. Read(args, options', enabled, n + 2)
      BY <1>1, <2>1, <2>6, <3>1, <3>3, <3>4, ReadOption DEF n
    <3>6. options' \in SUBSET ((DOMAIN fields_options) \X Values)
      <4>1. options \in SUBSET ((DOMAIN fields_options) \X Values)
        BY <1>1 DEF ArgTypes
      <4>2. <<k, v>> \in (DOMAIN fields_options) \X Values
        BY <2>6, <3>2
      <4> HIDE DEF v
      <4> QED
        BY <3>3, <4>1, <4>2
    <3>7. argAt' \in Nat /\ 1 <= argAt' /\ argAt' <= Len(args) + 1
      BY <2>1, <2>6, <3>1 DEF n
    <3>8. Read(args, options', enabled', argAt') /\ parsing' = "loop"
      BY <1>1, <2>6, <3>5, Zenon DEF n
    <3> QED
      BY <2>4, <3>6, <3>7, <3>8
  <2>7. CASE /\ IsOption(a) /\ k \in DOMAIN fields_enabled
             /\ enabled' = enabled \cup {k}
             /\ argAt' = argAt + 1 /\ UNCHANGED <<options, parsing>>
    <3>1. Gives(args, n, k)
      BY <2>3, <2>7, Zenon
    <3> HIDE DEF a, k, n
    <3>2. Read(args, options, enabled \cup {k}, n + 1)
      BY <1>1, <2>1, <2>7, <3>1, ReadFlag DEF n
    <3>3. argAt' \in Nat /\ 1 <= argAt' /\ argAt' <= Len(args) + 1
      BY <2>1, <2>7 DEF n
    <3>4. Read(args, options', enabled', argAt') /\ parsing' = "loop"
      BY <1>1, <2>7, <3>2, Zenon DEF n
    <3> QED
      BY <1>1, <2>4, <2>7, <3>3, <3>4 DEF ArgTypes
  <2>8. CASE /\ IsOption(a) /\ (k \in Unknown \/ (k \in DOMAIN fields_options /\ ~ValueAfter(n)))
             /\ parsing' = "bad" /\ UNCHANGED <<argAt, options, enabled>>
    <3>1. Gives(args, argAt, k)
      BY <2>3, <2>8, Zenon
    <3> HIDE DEF a, k
    <3>2. ~WellFormed
      BY <1>1, <2>1, <2>8, <3>1, EarlyReturn
    <3>3. WellFormed' <=> WellFormed
      BY <1>1, Zenon DEF WellFormed, At, ValueAfter
    <3>4. parsing' # "good" /\ parsing' # "no" /\ parsing' # "loop"
      BY <2>8
    <3>5. ParsedAsGiven'
      BY <3>2, <3>3, <3>4, Zenon DEF ParsedAsGiven
    <3>6. ArgTypes'
      BY <1>1, <2>8, <3>4 DEF ArgTypes
    <3> QED
      BY <3>4, <3>5, <3>6 DEF ArgInv
  <2> QED
    BY <2>2, <2>5, <2>6, <2>7, <2>8, Zenon
<1> QED
  BY <1>2, <1>3, Zenon

(* Init accepts exactly the command lines whose options are known, valued  *)
(* where they must be and all there where required, and GetStringArg and   *)
(* GetBoolArg return what was given, for every set of fields and every     *)
(* command line (IArgumentParser::Init).                                   *)
THEOREM ArgumentsParsedAsGiven == ArgSpec => []ParsedAsGiven
<1>1. ArgInit => ArgInv
  <2> SUFFICES ASSUME ArgInit
               PROVE  ArgInv
    OBVIOUS
  <2>1. ArgTypes
    BY DEF ArgInit, ArgTypes
  <2>2. Read(args, options, enabled, argAt)
    BY ReadNothing, Zenon DEF ArgInit
  <2>3. parsing \notin {"good", "bad"}
    BY DEF ArgInit
  <2> QED
    BY <2>1, <2>2, <2>3, Zenon DEF ArgInv, ParsedAsGiven
<1>2. ArgInv /\ [ArgNext]_argVars => ArgInv'
  <2> SUFFICES ASSUME ArgInv, [ArgNext]_argVars
               PROVE  ArgInv'
    OBVIOUS
  <2>1. ASSUME NEW n \in 0 .. MaxArgs, NEW given \in [1 .. n -> Arguments], InitCall(given)
        PROVE  ArgInv'
    <3>1. given \in Seq(Arguments) /\ Len(given) \in Nat
      <4>1. n \in Nat
        BY ArgumentAssumption
      <4> QED
        BY <4>1
    <3>2. argAt' = 1 /\ options' = {} /\ enabled' = {} /\ args' = given /\ parsing' = "loop"
      BY <2>1 DEF InitCall, ArgInv, ArgTypes
    <3>3. ArgTypes'
      BY <3>1, <3>2 DEF ArgTypes
    <3>4. Read(args', options', enabled', argAt')
      BY <3>2, ReadNothing, Zenon
    <3>5. parsing' \notin {"good", "bad"}
      BY <3>2
    <3> QED
      BY <3>3, <3>4, <3>5, Zenon DEF ArgInv, ParsedAsGiven
  <2>2. CASE UNCHANGED argVars
    <3>1. WellFormed' <=> WellFormed
      BY <2>2, Zenon DEF WellFormed, At, ValueAfter, argVars
    <3>2. \A k : At(k)' = At(k) /\ GetStringArg(k)' = GetStringArg(k) /\ GetBoolArg(k)' = GetBoolArg(k)
      BY <2>2 DEF At, GetStringArg, GetBoolArg, argVars
    <3>3. /\ args' = args /\ argAt' = argAt /\ options' = options /\ enabled' = enabled
          /\ parsing' = parsing
      BY <2>2 DEF argVars
    <3>4. ParsedAsGiven'
      BY <3>1, <3>2, <3>3, Zenon DEF ArgInv, ParsedAsGiven
    <3>5. ArgTypes'
      BY <3>3, Zenon DEF ArgInv, ArgTypes
    <3> QED
      BY <3>3, <3>4, <3>5, Zenon DEF ArgInv
  <2> QED
    BY <2>1, <2>2, ArgTurn, Zenon DEF ArgNext
<1>3. ArgInv => ParsedAsGiven
  BY DEF ArgInv
<1> QED
  BY <1>1, <1>2, <1>3, PTL DEF ArgSpec
===============================================================================
