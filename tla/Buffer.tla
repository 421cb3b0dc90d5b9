-------------------------------- MODULE Buffer --------------------------------
(***************************************************************************)
(* ladder::Buffer as operators on its state: buffer_ (data), read_index_   *)
(* (rd) and write_index_ (wr).  The bytes in the buffer are those from rd  *)
(* up to wr.  Write inserts at wr, and nothing ever shrinks buffer_: when  *)
(* HaveRead brings the indices together they go back to 0 and the bytes    *)
(* already read stay in buffer_, to the right of wr.                       *)
(***************************************************************************)
EXTENDS Integers, Sequences

EmptyBuffer == [data |-> <<>>, rd |-> 0, wr |-> 0]

ReadableBytes(b) == b.wr - b.rd

Empty(b) == b.rd = b.wr

(* The smaller of a request and what is there. *)
Clip(n, b) == IF n <= ReadableBytes(b) THEN n ELSE ReadableBytes(b)

Peek(b, n) == SubSeq(b.data, b.rd + 1, b.rd + Clip(n, b))

Write(b, content) ==
    [b EXCEPT !.data = SubSeq(@, 1, b.wr) \o content \o SubSeq(@, b.wr + 1, Len(@)),
              !.wr = @ + Len(content)]

HaveRead(b, n) ==
    IF b.rd + Clip(n, b) = b.wr THEN [b EXCEPT !.rd = 0, !.wr = 0]
                                ELSE [b EXCEPT !.rd = @ + Clip(n, b)]

-------------------------------------------------------------------------------
(* The buffers that the operations can produce. *)
Buffers(Byte) ==
    {b \in [data : Seq(Byte), rd : Nat, wr : Nat] : b.rd <= b.wr /\ b.wr <= Len(b.data)}

(* What a user of the buffer sees: the bytes written and not yet read. *)
Content(b) == SubSeq(b.data, b.rd + 1, b.wr)
===============================================================================
