--------------------------------- MODULE Codec ---------------------------------
(***************************************************************************)
(* ladder::Codec and ladder::ProtobufCodec: messages framed by a length    *)
(* and a checksum, sent over a stream that the network cuts anywhere, and  *)
(* taken out of the read buffer by OnMessage.  A packet is known by what   *)
(* the decoder asks about it: its size, whether its checksum is right,     *)
(* whether its type exists and has a callback, and whether it parses.  Its *)
(* bytes are pairs of its number and a position; the two header fields, a  *)
(* length and a checksum, are one byte each.                               *)
(***************************************************************************)
EXTENDS Buffer

CONSTANTS
    Packets,     \* packets: [size, intact, type, parses], size without the header
    MaxPackets   \* bound: packets sent

kHeaderLength == 2
kMinMessageLength == 1

ASSUME CodecAssumption ==
    /\ \A p \in Packets : /\ p.size \in Nat /\ {p.intact, p.parses} \subseteq BOOLEAN
                          /\ p.type \in {"registered", "default", "unknown"}
    /\ MaxPackets \in Nat

VARIABLES
    packets,     \* history: the packets sent
    inFlight,    \* bytes sent and not yet read from the socket
    readBuffer,  \* the connection's read buffer
    decoding,    \* OnMessage is in its loop
    calls,       \* history: the callbacks made, with their packets
    live,        \* the message objects that exist
    skipped      \* the last OnMessage ended at a wrong checksum

codecVars == <<packets, inFlight, readBuffer, decoding, calls, live, skipped>>

CodecInit ==
    /\ packets = <<>> /\ inFlight = <<>> /\ readBuffer = EmptyBuffer
    /\ decoding = FALSE /\ calls = <<>> /\ live = {} /\ skipped = FALSE

(* ComposeMessage: the name of the type and the serialised message. *)
ComposeMessage(i, p) == [j \in 1 .. p.size |-> <<i, kHeaderLength + j>>]

(* Encapsulate: the header and what ComposeMessage made. *)
Encapsulate(i, p) == [j \in 1 .. kHeaderLength |-> <<i, j>>] \o ComposeMessage(i, p)

(* Codec::Send on the other side. *)
CodecSend(p) ==
    /\ Len(packets) < MaxPackets
    /\ packets' = Append(packets, p)
    /\ inFlight' = inFlight \o Encapsulate(Len(packets'), p)
    /\ UNCHANGED <<readBuffer, decoding, calls, live, skipped>>

(* The connection reads n bytes and calls OnMessage. *)
CodecRead(n) ==
    /\ ~decoding /\ n \in 1 .. Len(inFlight)
    /\ readBuffer' = Write(readBuffer, SubSeq(inFlight, 1, n))
    /\ inFlight' = SubSeq(inFlight, n + 1, Len(inFlight))
    /\ decoding' = TRUE /\ skipped' = FALSE
    /\ UNCHANGED <<packets, calls, live>>

(* The length field at the front of the buffer. *)
PeekUInt32(b) == kHeaderLength + packets[Head(Peek(b, 1))[1]].size

(* A whole packet is in the buffer. *)
Mut_HasPacketHeader(b) == ReadableBytes(b) >= kHeaderLength
HasPacket(b) ==
    /\ ReadableBytes(b) >= kHeaderLength
    /\ ReadableBytes(b) >= PeekUInt32(b)

(* The checksum is that of an undamaged packet that starts in the header. *)
ChecksumRight(bytes) ==
    LET i == bytes[1][1] IN packets[i].intact /\ bytes = Encapsulate(i, packets[i])

(* ParseMessage creates the object once the type is known; when parsing    *)
(* fails it returns without it, and nothing deletes it.                    *)
CreateMessage(p) == p.type # "unknown"
CodecParseMessage(p) ==
    LET created == p.size >= kMinMessageLength /\ CreateMessage(p)
    IN  [good |-> created /\ p.parses, leaks |-> created /\ ~p.parses]

(* HandleMessage calls the type's callback or the default one, and deletes *)
(* the object.                                                             *)
CodecHandleMessage(i) == calls' = Append(calls, <<packets[i].type, i>>)

ParseAndHandleMessage(i) ==
    LET parsed == CodecParseMessage(packets[i]) IN
    /\ IF parsed.good THEN CodecHandleMessage(i) ELSE UNCHANGED calls
    /\ live' = IF parsed.leaks THEN live \cup {i} ELSE live

(* A turn of OnMessage's loop.  Decapsulate takes the packet out before it *)
(* compares the checksum; a wrong one ends the loop.                       *)
Mut_OnMessageOnce ==
    /\ decoding /\ decoding' = FALSE
    /\ IF HasPacket(readBuffer)
       THEN /\ readBuffer' = HaveRead(readBuffer, PeekUInt32(readBuffer))
            /\ skipped' = ~packets[Content(readBuffer)[1][1]].intact
            /\ IF skipped' THEN UNCHANGED <<calls, live>>
                           ELSE ParseAndHandleMessage(Content(readBuffer)[1][1])
       ELSE UNCHANGED <<readBuffer, calls, live, skipped>>
    /\ UNCHANGED <<packets, inFlight>>
OnMessage ==
    /\ decoding
    /\ IF HasPacket(readBuffer)
       THEN LET bytes == Peek(readBuffer, PeekUInt32(readBuffer)) IN
            /\ readBuffer' = HaveRead(readBuffer, PeekUInt32(readBuffer))
            /\ decoding' = ChecksumRight(bytes) /\ skipped' = ~decoding'
            /\ IF decoding' THEN ParseAndHandleMessage(bytes[1][1]) ELSE UNCHANGED <<calls, live>>
       ELSE decoding' = FALSE /\ UNCHANGED <<readBuffer, calls, live, skipped>>
    /\ UNCHANGED <<packets, inFlight>>

CodecNext ==
    \/ \E p \in Packets : CodecSend(p)
    \/ \E n \in 1 .. Len(inFlight) : CodecRead(n)
    \/ OnMessage

CodecSpec == CodecInit /\ [][CodecNext]_codecVars

-------------------------------------------------------------------------------
(* The packets numbered up to n that a decoder should hand to a callback. *)
Due(n) ==
    {i \in 1 .. n : /\ packets[i].intact /\ packets[i].parses
                    /\ packets[i].size >= kMinMessageLength /\ packets[i].type # "unknown"}

(* However the stream is cut, the callbacks made are those of the packets  *)
(* taken out so far, each once and in order: no byte is skipped or reread. *)
(* "`message` freed in HandleMessage" (Codec.cpp:89): what remains of them *)
(* are the messages that did not parse.                                    *)
CallsInOrder ==
    LET rest == Content(readBuffer) \o inFlight
        taken == IF rest = <<>> THEN Len(packets) ELSE rest[1][1] - 1
    IN  /\ rest # <<>> => rest[1][2] = 1
        /\ {calls[j][2] : j \in 1 .. Len(calls)} = Due(taken)
        /\ \A j \in 1 .. Len(calls) : calls[j][1] = packets[calls[j][2]].type
        /\ \A j, k \in 1 .. Len(calls) : j < k => calls[j][2] < calls[k][2]
        /\ live = {i \in 1 .. taken : packets[i].intact /\ CodecParseMessage(packets[i]).leaks}

(* OnMessage leaves no whole packet behind, unless it met a wrong checksum *)
(* (the packets after that one wait for more data).                        *)
NoPacketWaits == ~decoding /\ ~skipped => ~HasPacket(readBuffer)
===============================================================================
