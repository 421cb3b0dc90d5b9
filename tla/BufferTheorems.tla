---------------------------- MODULE BufferTheorems ----------------------------
(***************************************************************************)
(* Facts about Buffer's operations, and about cutting and joining the      *)
(* streams that go through it, for bytes of any kind.                      *)
(***************************************************************************)
EXTENDS Buffer, SequenceTheorems, TLAPS

(* Where the elements of a concatenation come from. *)
LEMMA ConcatIndex ==
    ASSUME NEW S, NEW s \in Seq(S), NEW t \in Seq(S)
    PROVE  /\ s \o t \in Seq(S)
           /\ Len(s \o t) = Len(s) + Len(t)
           /\ \A i \in 1 .. Len(s) : (s \o t)[i] = s[i]
           /\ \A i \in 1 .. Len(t) : (s \o t)[Len(s) + i] = t[i]
<1>1. Len(s) \in Nat /\ Len(t) \in Nat
  OBVIOUS
<1>2. s \o t \in Seq(S) /\ Len(s \o t) = Len(s) + Len(t)
  OBVIOUS
<1>3. \A i \in 1 .. Len(s) : (s \o t)[i] = s[i]
  BY <1>1
<1>4. ASSUME NEW i \in 1 .. Len(t)
      PROVE  (s \o t)[Len(s) + i] = t[i]
  <2>1. Len(s) + i \in 1 .. Len(s) + Len(t) /\ Len(s) + i > Len(s) /\ Len(s) + i - Len(s) = i
    BY <1>1
  <2> QED BY <1>1, <2>1
<1> QED BY <1>2, <1>3, <1>4

(* Buffer::Write appends to what a reader of the buffer sees, wherever     *)
(* write_index_ is in buffer_ (stated byte by byte).                       *)
LEMMA WriteAppends ==
    ASSUME NEW S, NEW b \in Buffers(S), NEW c \in Seq(S)
    PROVE  /\ Write(b, c) \in Buffers(S)
           /\ Write(b, c).rd = b.rd
           /\ Write(b, c).wr = b.wr + Len(c)
           /\ \A i \in 1 .. b.wr : Write(b, c).data[i] = b.data[i]
           /\ \A i \in 1 .. Len(c) : Write(b, c).data[b.wr + i] = c[i]
<1> DEFINE left == SubSeq(b.data, 1, b.wr)
           right == SubSeq(b.data, b.wr + 1, Len(b.data))
           front == left \o c
           all == front \o right
<1>1. b.data \in Seq(S) /\ b.rd \in Nat /\ b.wr \in Nat /\ b.rd <= b.wr
      /\ b.wr <= Len(b.data)
  BY DEF Buffers
<1>2. left \in Seq(S) /\ Len(left) = b.wr
  BY <1>1
<1>3. \A i \in 1 .. b.wr : left[i] = b.data[i]
  BY <1>1
<1>4. right \in Seq(S)
  BY <1>1
<1> HIDE DEF left, right
<1>5. /\ front \in Seq(S)
      /\ Len(front) = b.wr + Len(c)
      /\ \A i \in 1 .. b.wr : front[i] = left[i]
      /\ \A i \in 1 .. Len(c) : front[b.wr + i] = c[i]
  BY <1>2, ConcatIndex
<1>6. Write(b, c) = [b EXCEPT !.data = all, !.wr = b.wr + Len(c)]
  BY Zenon DEF Write, left, right
<1> HIDE DEF front
<1>7. /\ all \in Seq(S)
      /\ Len(all) = b.wr + Len(c) + Len(right)
      /\ \A i \in 1 .. Len(front) : all[i] = front[i]
  BY <1>4, <1>5, ConcatIndex
<1> HIDE DEF all
<1>8. Len(right) \in Nat /\ Len(c) \in Nat
  BY <1>4
<1>9. /\ Write(b, c) \in Buffers(S)
      /\ Write(b, c).data = all
      /\ Write(b, c).rd = b.rd
      /\ Write(b, c).wr = b.wr + Len(c)
  <2>1. b = [data |-> b.data, rd |-> b.rd, wr |-> b.wr]
    BY DEF Buffers
  <2>2. Write(b, c) = [data |-> all, rd |-> b.rd, wr |-> b.wr + Len(c)]
    BY <1>6, <2>1, Zenon
  <2> QED BY <1>1, <1>7, <1>8, <2>2 DEF Buffers
<1>10. \A i \in 1 .. b.wr : all[i] = b.data[i]
  BY <1>1, <1>3, <1>5, <1>7, <1>8
<1>11. ASSUME NEW i \in 1 .. Len(c)
       PROVE  all[b.wr + i] = c[i]
  <2>1. b.wr + i \in 1 .. Len(front)
    BY <1>1, <1>5, <1>8
  <2> QED BY <1>5, <1>7, <2>1, Zenon
<1> QED
  BY <1>9, <1>10, <1>11

(* Buffer::HaveRead drops exactly the bytes asked for, or all there are,   *)
(* also when it puts both indices back to 0.                               *)
LEMMA HaveReadDrops ==
    ASSUME NEW S, NEW b \in Buffers(S), NEW n \in Nat
    PROVE  /\ HaveRead(b, n) \in Buffers(S)
           /\ HaveRead(b, n).data = b.data
           /\ ReadableBytes(HaveRead(b, n)) = ReadableBytes(b) - Clip(n, b)
           /\ ~Empty(HaveRead(b, n)) => HaveRead(b, n).rd = b.rd + Clip(n, b)
<1>1. b.data \in Seq(S) /\ b.rd \in Nat /\ b.wr \in Nat /\ b.rd <= b.wr
      /\ b.wr <= Len(b.data) /\ b = [data |-> b.data, rd |-> b.rd, wr |-> b.wr]
  BY DEF Buffers
<1>2. Clip(n, b) \in Nat /\ Clip(n, b) <= b.wr - b.rd
  BY <1>1 DEF Clip, ReadableBytes
<1>3. CASE b.rd + Clip(n, b) = b.wr
  <2>1. HaveRead(b, n) = [data |-> b.data, rd |-> 0, wr |-> 0]
    BY <1>1, <1>3, Zenon DEF HaveRead
  <2> QED BY <1>1, <1>2, <1>3, <2>1 DEF Buffers, ReadableBytes, Empty
<1>4. CASE b.rd + Clip(n, b) # b.wr
  <2>1. HaveRead(b, n) = [data |-> b.data, rd |-> b.rd + Clip(n, b), wr |-> b.wr]
    BY <1>1, <1>4 DEF HaveRead
  <2> QED BY <1>1, <1>2, <1>4, <2>1 DEF Buffers, ReadableBytes, Empty
<1> QED BY <1>3, <1>4

(* Buffer::Peek copies the first bytes and no more than are there. *)
LEMMA PeekCopies ==
    ASSUME NEW S, NEW b \in Buffers(S), NEW n \in Nat
    PROVE  /\ Peek(b, n) \in Seq(S)
           /\ Len(Peek(b, n)) = Clip(n, b)
           /\ \A i \in 1 .. Clip(n, b) : Peek(b, n)[i] = b.data[b.rd + i]
<1>1. b.data \in Seq(S) /\ b.rd \in Nat /\ b.wr \in Nat /\ b.rd <= b.wr
      /\ b.wr <= Len(b.data)
  BY DEF Buffers
<1>2. Clip(n, b) \in Nat /\ b.rd + Clip(n, b) <= b.wr
  BY <1>1 DEF Clip, ReadableBytes
<1> DEFINE from == b.rd + 1
           to == b.rd + Clip(n, b)
           s == b.data
<1>3. Peek(b, n) = SubSeq(s, from, to)
  BY Zenon DEF Peek
<1>4. from \in Int /\ to \in Int /\ to - from + 1 = Clip(n, b) /\ from = b.rd + 1
  BY <1>1, <1>2
<1>5. \A i \in from .. to : s[i] \in S
  BY <1>1, <1>2
<1> HIDE DEF from, to, s
<1>6. /\ SubSeq(s, from, to) \in Seq(S)
      /\ Len(SubSeq(s, from, to)) = IF from <= to THEN to - from + 1 ELSE 0
      /\ \A i \in 1 .. to - from + 1 : SubSeq(s, from, to)[i] = s[from + i - 1]
  BY <1>4, <1>5, SubSeqProperties, SMT
<1>7. Len(SubSeq(s, from, to)) = Clip(n, b)
  BY <1>2, <1>4, <1>6
<1>8. ASSUME NEW i \in 1 .. Clip(n, b)
      PROVE  Peek(b, n)[i] = b.data[b.rd + i]
  <2>1. from + i - 1 = b.rd + i
    BY <1>1, <1>2, <1>4
  <2>2. i \in 1 .. to - from + 1
    BY <1>4
  <2> QED BY <1>3, <1>6, <2>1, <2>2 DEF s
<1> QED BY <1>3, <1>6, <1>7, <1>8

-------------------------------------------------------------------------------
(* What remains of a sequence without its first n elements. *)
Drop(s, n) == SubSeq(s, n + 1, Len(s))

(* A part of a sequence, element by element. *)
LEMMA FirstPart ==
    ASSUME NEW S, NEW s \in Seq(S), NEW n \in 0 .. Len(s)
    PROVE  /\ SubSeq(s, 1, n) \in Seq(S) /\ Len(SubSeq(s, 1, n)) = n
           /\ \A i \in 1 .. n : SubSeq(s, 1, n)[i] = s[i]
<1>1. \A i \in 1 .. n : s[i] \in S
  OBVIOUS
<1>2. /\ SubSeq(s, 1, n) \in Seq(S)
      /\ Len(SubSeq(s, 1, n)) = IF 1 <= n THEN n - 1 + 1 ELSE 0
      /\ \A i \in 1 .. n - 1 + 1 : SubSeq(s, 1, n)[i] = s[1 + i - 1]
  BY <1>1, SubSeqProperties
<1> QED
  BY <1>2

LEMMA LastPart ==
    ASSUME NEW S, NEW s \in Seq(S), NEW n \in 0 .. Len(s)
    PROVE  /\ Drop(s, n) \in Seq(S) /\ Len(Drop(s, n)) = Len(s) - n
           /\ \A i \in 1 .. Len(s) - n : Drop(s, n)[i] = s[n + i]
<1> DEFINE m == n + 1
           k == Len(s)
<1>1. m \in Int /\ k \in Int /\ k - m + 1 = k - n /\ \A i \in m .. k : s[i] \in S
  OBVIOUS
<1>2. m <= k <=> k - n > 0
  OBVIOUS
<1>3. \A i \in 1 .. k - n : m + i - 1 = n + i
  OBVIOUS
<1> HIDE DEF m, k
<1>4. /\ SubSeq(s, m, k) \in Seq(S)
      /\ Len(SubSeq(s, m, k)) = IF m <= k THEN k - m + 1 ELSE 0
      /\ \A i \in 1 .. k - m + 1 : SubSeq(s, m, k)[i] = s[m + i - 1]
  BY <1>1, SubSeqProperties
<1>5. Drop(s, n) = SubSeq(s, m, k)
  BY DEF Drop, m, k
<1>6. k - n >= 0
  BY DEF k
<1> QED
  BY <1>1, <1>2, <1>3, <1>4, <1>5, <1>6 DEF k

(* A sequence is its first part and the rest. *)
LEMMA CutAndJoin ==
    ASSUME NEW S, NEW s \in Seq(S), NEW n \in 0 .. Len(s)
    PROVE  SubSeq(s, 1, n) \o Drop(s, n) = s
<1> DEFINE t == SubSeq(s, 1, n) \o Drop(s, n)
<1>1. /\ SubSeq(s, 1, n) \in Seq(S) /\ Len(SubSeq(s, 1, n)) = n
      /\ \A i \in 1 .. n : SubSeq(s, 1, n)[i] = s[i]
  BY FirstPart
<1>2. /\ Drop(s, n) \in Seq(S) /\ Len(Drop(s, n)) = Len(s) - n
      /\ \A i \in 1 .. Len(s) - n : Drop(s, n)[i] = s[n + i]
  BY LastPart
<1>3. /\ t \in Seq(S) /\ Len(t) = n + (Len(s) - n)
      /\ \A i \in 1 .. n : t[i] = SubSeq(s, 1, n)[i]
      /\ \A i \in 1 .. Len(s) - n : t[n + i] = Drop(s, n)[i]
  <2> DEFINE f == SubSeq(s, 1, n)
             d == Drop(s, n)
  <2>1. f \in Seq(S) /\ d \in Seq(S) /\ Len(f) = n /\ Len(d) = Len(s) - n
    BY <1>1, <1>2
  <2> HIDE DEF f, d
  <2>2. /\ f \o d \in Seq(S) /\ Len(f \o d) = Len(f) + Len(d)
        /\ \A i \in 1 .. Len(f) : (f \o d)[i] = f[i]
        /\ \A i \in 1 .. Len(d) : (f \o d)[Len(f) + i] = d[i]
    BY <2>1, ConcatIndex
  <2> QED
    BY <2>1, <2>2 DEF f, d
<1> HIDE DEF t
<1>4. Len(t) = Len(s)
  BY <1>3
<1>5. ASSUME NEW i \in 1 .. Len(s) PROVE t[i] = s[i]
  <2>1. CASE i <= n
    BY <1>1, <1>3, <2>1
  <2>2. CASE i > n
    <3>1. i - n \in 1 .. Len(s) - n /\ n + (i - n) = i
      BY <2>2
    <3> QED
      BY <1>2, <1>3, <3>1, Zenon
  <2> QED
    BY <2>1, <2>2
<1> QED
  BY <1>3, <1>4, <1>5, SeqEqual, Zenon DEF t

(* Dropping from a concatenation drops from its first part. *)
LEMMA DropConcat ==
    ASSUME NEW S, NEW s \in Seq(S), NEW t \in Seq(S), NEW n \in 0 .. Len(s)
    PROVE  Drop(s \o t, n) = Drop(s, n) \o t
<1> DEFINE u == s \o t
           v == Drop(s, n) \o t
<1>1. /\ Drop(s, n) \in Seq(S) /\ Len(Drop(s, n)) = Len(s) - n
      /\ \A i \in 1 .. Len(s) - n : Drop(s, n)[i] = s[n + i]
  BY LastPart, Zenon
<1>2. /\ u \in Seq(S) /\ Len(u) = Len(s) + Len(t)
      /\ \A i \in 1 .. Len(s) : u[i] = s[i]
      /\ \A i \in 1 .. Len(t) : u[Len(s) + i] = t[i]
  BY ConcatIndex
<1>3. /\ v \in Seq(S) /\ Len(v) = Len(s) - n + Len(t)
      /\ \A i \in 1 .. Len(s) - n : v[i] = Drop(s, n)[i]
      /\ \A i \in 1 .. Len(t) : v[Len(s) - n + i] = t[i]
  <2> DEFINE d == Drop(s, n)
  <2>0. d \in Seq(S)
    BY <1>1
  <2>1. Len(d) = Len(s) - n
    BY <1>1
  <2> HIDE DEF d
  <2>2. /\ d \o t \in Seq(S) /\ Len(d \o t) = Len(d) + Len(t)
        /\ \A i \in 1 .. Len(d) : (d \o t)[i] = d[i]
        /\ \A i \in 1 .. Len(t) : (d \o t)[Len(d) + i] = t[i]
    BY <2>0, ConcatIndex
  <2> QED
    BY <2>1, <2>2 DEF d
<1> HIDE DEF u, v
<1>4. n \in 0 .. Len(u) /\ Len(s) \in Nat /\ Len(t) \in Nat /\ n \in Nat
  BY <1>2
<1>5. /\ Drop(u, n) \in Seq(S) /\ Len(Drop(u, n)) = Len(u) - n
      /\ \A i \in 1 .. Len(u) - n : Drop(u, n)[i] = u[n + i]
  BY <1>2, <1>4, LastPart, Zenon
<1>6. Len(Drop(u, n)) = Len(v)
  BY <1>2, <1>3, <1>4, <1>5
<1>7. ASSUME NEW i \in 1 .. Len(v) PROVE Drop(u, n)[i] = v[i]
  <2>1. Drop(u, n)[i] = u[n + i]
    BY <1>5, <1>6
  <2>2. CASE i <= Len(s) - n
    <3>1. n + i \in 1 .. Len(s) /\ i \in 1 .. Len(s) - n
      BY <1>3, <1>4, <2>2
    <3>2. u[n + i] = s[n + i] /\ v[i] = Drop(s, n)[i] /\ Drop(s, n)[i] = s[n + i]
      BY <1>1, <1>2, <1>3, <3>1
    <3> QED
      BY <2>1, <3>2
  <2>3. CASE i > Len(s) - n
    <3>1. PICK j \in 1 .. Len(t) : Len(s) - n + j = i /\ Len(s) + j = n + i
      <4>1. i - (Len(s) - n) \in 1 .. Len(t)
        BY <1>3, <1>4, <2>3
      <4>2. /\ Len(s) - n + (i - (Len(s) - n)) = i
            /\ Len(s) + (i - (Len(s) - n)) = n + i
        BY <1>3, <1>4
      <4> QED
        BY <4>1, <4>2, Zenon
    <3>2. u[Len(s) + j] = t[j] /\ v[Len(s) - n + j] = t[j]
      BY <1>2, <1>3
    <3> QED
      BY <2>1, <3>1, <3>2
  <2> QED
    BY <1>4, <2>2, <2>3
<1> QED
  BY <1>3, <1>5, <1>6, <1>7, SeqEqual, Zenon DEF u, v

(* Two drops are one. *)
LEMMA DropDrop ==
    ASSUME NEW S, NEW s \in Seq(S), NEW m \in 0 .. Len(s), NEW n \in 0 .. Len(s) - m
    PROVE  Drop(Drop(s, m), n) = Drop(s, m + n)
<1> DEFINE u == Drop(s, m)
<1>1. /\ u \in Seq(S) /\ Len(u) = Len(s) - m
      /\ \A i \in 1 .. Len(s) - m : u[i] = s[m + i]
  BY LastPart
<1>2. m + n \in 0 .. Len(s) /\ m \in Nat /\ n \in Nat /\ Len(s) \in Nat
  OBVIOUS
<1>3. /\ Drop(s, m + n) \in Seq(S) /\ Len(Drop(s, m + n)) = Len(s) - (m + n)
      /\ \A i \in 1 .. Len(s) - (m + n) : Drop(s, m + n)[i] = s[(m + n) + i]
  BY <1>2, LastPart
<1> HIDE DEF u
<1>4. n \in 0 .. Len(u)
  BY <1>1
<1>5. /\ Drop(u, n) \in Seq(S) /\ Len(Drop(u, n)) = Len(u) - n
      /\ \A i \in 1 .. Len(u) - n : Drop(u, n)[i] = u[n + i]
  BY <1>1, <1>4, LastPart, SMTT(20)
<1>6. Len(Drop(u, n)) = Len(Drop(s, m + n))
  <2>1. Len(u) - n = Len(s) - (m + n)
    BY <1>1, <1>2
  <2> QED
    BY <1>3, <1>5, <2>1
<1>7. ASSUME NEW i \in 1 .. Len(Drop(u, n)) PROVE Drop(u, n)[i] = Drop(s, m + n)[i]
  <2>1. /\ i \in 1 .. Len(u) - n /\ i \in 1 .. Len(s) - (m + n) /\ n + i \in 1 .. Len(s) - m
        /\ m + (n + i) = (m + n) + i
    BY <1>1, <1>3, <1>5
  <2>2. Drop(u, n)[i] = u[n + i] /\ u[n + i] = s[m + (n + i)]
    BY <1>1, <1>5, <2>1
  <2>3. Drop(s, m + n)[i] = s[(m + n) + i]
    BY <1>3, <2>1
  <2> QED
    BY <2>1, <2>2, <2>3
<1> QED
  BY <1>3, <1>5, <1>6, <1>7, SeqEqual DEF u

(* Dropping nothing, and dropping everything. *)
LEMMA DropNone ==
    ASSUME NEW S, NEW s \in Seq(S)
    PROVE  Drop(s, 0) = s /\ Drop(s, Len(s)) = <<>>
<1>1. Len(s) \in Nat
  OBVIOUS
<1>2. /\ Drop(s, 0) \in Seq(S) /\ Len(Drop(s, 0)) = Len(s)
      /\ \A i \in 1 .. Len(s) : Drop(s, 0)[i] = s[i]
  BY <1>1, LastPart
<1>3. Drop(s, 0) = s
  BY <1>2, SeqEqual
<1>4. Drop(s, Len(s)) \in Seq(S) /\ Len(Drop(s, Len(s))) = 0
  BY <1>1, LastPart
<1> QED
  BY <1>3, <1>4

(* A whole first part is dropped. *)
LEMMA DropFirst ==
    ASSUME NEW S, NEW s \in Seq(S), NEW t \in Seq(S)
    PROVE  Drop(s \o t, Len(s)) = t
<1>1. Len(s) \in 0 .. Len(s)
  OBVIOUS
<1>2. Drop(s \o t, Len(s)) = Drop(s, Len(s)) \o t
  BY <1>1, DropConcat
<1> QED
  BY <1>2, DropNone, ConcatEmptySeq

(* The front of a concatenation is in its first part. *)
LEMMA FirstOfConcat ==
    ASSUME NEW S, NEW s \in Seq(S), NEW t \in Seq(S), NEW n \in 0 .. Len(s)
    PROVE  SubSeq(s \o t, 1, n) = SubSeq(s, 1, n)
<1> DEFINE u == s \o t
<1>1. /\ u \in Seq(S) /\ Len(u) = Len(s) + Len(t)
      /\ \A i \in 1 .. Len(s) : u[i] = s[i]
  BY ConcatIndex
<1> HIDE DEF u
<1>2. n \in 0 .. Len(u) /\ n \in Nat
  BY <1>1
<1>3. /\ SubSeq(u, 1, n) \in Seq(S) /\ Len(SubSeq(u, 1, n)) = n
      /\ \A i \in 1 .. n : SubSeq(u, 1, n)[i] = u[i]
  BY <1>1, <1>2, FirstPart
<1>4. /\ SubSeq(s, 1, n) \in Seq(S) /\ Len(SubSeq(s, 1, n)) = n
      /\ \A i \in 1 .. n : SubSeq(s, 1, n)[i] = s[i]
  BY FirstPart
<1>5. \A i \in 1 .. n : SubSeq(u, 1, n)[i] = SubSeq(s, 1, n)[i]
  <2> SUFFICES ASSUME NEW i \in 1 .. n PROVE SubSeq(u, 1, n)[i] = SubSeq(s, 1, n)[i]
    OBVIOUS
  <2>1. i \in 1 .. Len(s)
    OBVIOUS
  <2> QED
    BY <1>1, <1>3, <1>4, <2>1
<1>6. SubSeq(u, 1, n) = SubSeq(s, 1, n)
  <2> DEFINE a == SubSeq(u, 1, n)
             b == SubSeq(s, 1, n)
  <2>1. /\ a \in Seq(S) /\ b \in Seq(S) /\ Len(a) = Len(b)
        /\ \A i \in 1 .. Len(a) : a[i] = b[i]
    BY <1>3, <1>4, <1>5
  <2> HIDE DEF a, b
  <2>2. a = b
    BY <2>1, SeqEqual
  <2> QED
    BY <2>2 DEF a, b
<1> QED
  BY <1>6 DEF u

-------------------------------------------------------------------------------
(* What a user of the buffer sees, byte by byte. *)
LEMMA ContentIndex ==
    ASSUME NEW S, NEW b \in Buffers(S)
    PROVE  /\ Content(b) \in Seq(S) /\ Len(Content(b)) = ReadableBytes(b)
           /\ ReadableBytes(b) \in Nat
           /\ \A i \in 1 .. ReadableBytes(b) : Content(b)[i] = b.data[b.rd + i]
<1>1. b.data \in Seq(S) /\ b.rd \in Nat /\ b.wr \in Nat /\ b.rd <= b.wr
      /\ b.wr <= Len(b.data)
  BY DEF Buffers
<1>2. ReadableBytes(b) \in Nat /\ Clip(ReadableBytes(b), b) = ReadableBytes(b)
      /\ b.rd + ReadableBytes(b) = b.wr
  BY <1>1 DEF ReadableBytes, Clip
<1>3. Content(b) = Peek(b, ReadableBytes(b))
  BY <1>2, Zenon DEF Content, Peek
<1> QED
  BY <1>2, <1>3, PeekCopies, SMTT(20)

(* The buffer is a queue of bytes: Write appends to what is in it, ... *)
LEMMA WriteContent ==
    ASSUME NEW S, NEW b \in Buffers(S), NEW c \in Seq(S)
    PROVE  Content(Write(b, c)) = Content(b) \o c
<1> DEFINE w == Write(b, c)
           u == Content(b)
           v == Content(w)
           n == ReadableBytes(b)
<1>1. /\ w \in Buffers(S) /\ w.rd = b.rd /\ w.wr = b.wr + Len(c)
      /\ \A i \in 1 .. b.wr : w.data[i] = b.data[i]
      /\ \A i \in 1 .. Len(c) : w.data[b.wr + i] = c[i]
  BY WriteAppends
<1>2. b.rd \in Nat /\ b.wr \in Nat /\ b.rd <= b.wr /\ n \in Nat /\ b.rd + n = b.wr
      /\ Len(c) \in Nat
  BY DEF Buffers, ReadableBytes
<1>3. u \in Seq(S) /\ Len(u) = n /\ \A i \in 1 .. n : u[i] = b.data[b.rd + i]
  BY ContentIndex
<1> HIDE DEF w, u, n
<1>4. ReadableBytes(w) = n + Len(c)
  BY <1>1, <1>2 DEF ReadableBytes, n
<1>5. /\ v \in Seq(S) /\ Len(v) = n + Len(c)
      /\ \A i \in 1 .. n + Len(c) : v[i] = w.data[b.rd + i]
  BY <1>1, <1>4, ContentIndex
<1> HIDE DEF v
<1>6. /\ u \o c \in Seq(S) /\ Len(u \o c) = n + Len(c)
      /\ \A i \in 1 .. n : (u \o c)[i] = u[i]
      /\ \A i \in 1 .. Len(c) : (u \o c)[n + i] = c[i]
  <2>1. u \in Seq(S)
    BY <1>3
  <2>2. /\ u \o c \in Seq(S) /\ Len(u \o c) = Len(u) + Len(c)
        /\ \A i \in 1 .. Len(u) : (u \o c)[i] = u[i]
        /\ \A i \in 1 .. Len(c) : (u \o c)[Len(u) + i] = c[i]
    BY <2>1, ConcatIndex
  <2> QED
    BY <1>3, <2>2
<1>7. ASSUME NEW i \in 1 .. Len(v) PROVE v[i] = (u \o c)[i]
  <2>1. CASE i <= n
    <3>1. i \in 1 .. n /\ i \in 1 .. n + Len(c) /\ b.rd + i \in 1 .. b.wr
      BY <1>2, <1>5, <2>1
    <3>2. v[i] = w.data[b.rd + i] /\ w.data[b.rd + i] = b.data[b.rd + i]
      BY <1>1, <1>5, <3>1
    <3>3. (u \o c)[i] = u[i] /\ u[i] = b.data[b.rd + i]
      BY <1>3, <1>6, <3>1
    <3> QED
      BY <3>2, <3>3
  <2>2. CASE i > n
    <3>1. i - n \in 1 .. Len(c) /\ b.wr + (i - n) = b.rd + i /\ n + (i - n) = i
      BY <1>2, <1>5, <2>2
    <3>2. w.data[b.rd + i] = c[i - n] /\ (u \o c)[i] = c[i - n]
      BY <1>1, <1>6, <3>1, Zenon
    <3> QED
      BY <1>5, <3>2
  <2>3. i <= n \/ i > n
    BY <1>2, <1>5
  <2> QED
    BY <2>1, <2>2, <2>3, Zenon
<1>8. v = u \o c
  BY <1>5, <1>6, <1>7, SeqEqual
<1> QED
  BY <1>8 DEF u, v, w

(* ... HaveRead takes from its front, ... *)
LEMMA HaveReadContent ==
    ASSUME NEW S, NEW b \in Buffers(S), NEW n \in 0 .. ReadableBytes(b)
    PROVE  Content(HaveRead(b, n)) = Drop(Content(b), n)
<1> DEFINE h == HaveRead(b, n)
           u == Content(b)
           v == Content(h)
           k == ReadableBytes(b)
<1>1. n \in Nat /\ Clip(n, b) = n /\ n <= k
  <2>1. k \in Nat
    BY ContentIndex
  <2> QED
    BY <2>1 DEF Clip
<1>2. /\ h \in Buffers(S) /\ h.data = b.data
      /\ ReadableBytes(h) = k - n /\ (~Empty(h) => h.rd = b.rd + n)
  BY <1>1, HaveReadDrops
<1>3. u \in Seq(S) /\ Len(u) = k /\ k \in Nat /\ \A i \in 1 .. k : u[i] = b.data[b.rd + i]
  BY ContentIndex
<1> HIDE DEF h, u, k
<1>4. /\ v \in Seq(S) /\ Len(v) = k - n
      /\ \A i \in 1 .. k - n : v[i] = h.data[h.rd + i]
  BY <1>2, ContentIndex
<1> HIDE DEF v
<1>5. /\ Drop(u, n) \in Seq(S) /\ Len(Drop(u, n)) = k - n
      /\ \A i \in 1 .. k - n : Drop(u, n)[i] = u[n + i]
  <2>1. u \in Seq(S)
    BY <1>3
  <2>2. n \in 0 .. Len(u)
    BY <1>1, <1>3
  <2>3. /\ Drop(u, n) \in Seq(S) /\ Len(Drop(u, n)) = Len(u) - n
        /\ \A i \in 1 .. Len(u) - n : Drop(u, n)[i] = u[n + i]
    BY <2>1, <2>2, LastPart
  <2> QED
    BY <1>3, <2>3
<1>6. ASSUME NEW i \in 1 .. Len(v) PROVE v[i] = Drop(u, n)[i]
  <2>1. b.rd \in Nat /\ h.rd \in Nat /\ h.wr \in Nat
    BY <1>2 DEF Buffers
  <2>2. i \in 1 .. k - n /\ n + i \in 1 .. k /\ k - n > 0
    BY <1>1, <1>3, <1>4
  <2>3. ~Empty(h)
    BY <1>2, <2>1, <2>2 DEF Empty, ReadableBytes
  <2>4. v[i] = b.data[h.rd + i] /\ h.rd = b.rd + n
    BY <1>2, <1>4, <2>2, <2>3
  <2>5. Drop(u, n)[i] = b.data[b.rd + (n + i)]
    BY <1>3, <1>5, <2>2
  <2>6. h.rd + i = b.rd + (n + i)
    BY <1>1, <2>1, <2>4
  <2> QED
    BY <2>4, <2>5, <2>6
<1>7. v = Drop(u, n)
  BY <1>4, <1>5, <1>6, SeqEqual
<1> QED
  BY <1>7 DEF u, v, h

(* ... and Peek copies its front. *)
LEMMA PeekContent ==
    ASSUME NEW S, NEW b \in Buffers(S), NEW n \in 0 .. ReadableBytes(b)
    PROVE  Peek(b, n) = SubSeq(Content(b), 1, n)
<1> DEFINE u == Content(b)
           p == Peek(b, n)
           k == ReadableBytes(b)
<1>1. u \in Seq(S) /\ Len(u) = k /\ k \in Nat /\ \A i \in 1 .. k : u[i] = b.data[b.rd + i]
  BY ContentIndex
<1>2. n \in Nat /\ Clip(n, b) = n /\ n <= k
  BY <1>1 DEF Clip
<1>3. p \in Seq(S) /\ Len(p) = n /\ \A i \in 1 .. n : p[i] = b.data[b.rd + i]
  BY <1>2, PeekCopies
<1> HIDE DEF u, p, k
<1>4. /\ SubSeq(u, 1, n) \in Seq(S) /\ Len(SubSeq(u, 1, n)) = n
      /\ \A i \in 1 .. n : SubSeq(u, 1, n)[i] = u[i]
  BY <1>1, <1>2, FirstPart
<1>5. \A i \in 1 .. n : p[i] = SubSeq(u, 1, n)[i]
  BY <1>1, <1>2, <1>3, <1>4
<1>6. p = SubSeq(u, 1, n)
  BY <1>3, <1>4, <1>5, SeqEqual
<1> QED
  BY <1>6 DEF u, p

-------------------------------------------------------------------------------
(* The stream s is the pieces p one after the other: piece i begins after  *)
(* the first pos[i] elements.  (The conjunct on order follows from the     *)
(* next one by induction, which is why it is part of the definition.)      *)
JoinsAt(s, p, pos) ==
    /\ pos[1] = 0 /\ pos[Len(p) + 1] = Len(s)
    /\ \A i, j \in 1 .. Len(p) + 1 : i <= j => pos[i] <= pos[j]
    /\ \A i \in 1 .. Len(p) :
          /\ pos[i + 1] = pos[i] + Len(p[i])
          /\ \A k \in 1 .. Len(p[i]) : s[pos[i] + k] = p[i][k]

Joins(s, p) == \E pos \in [1 .. Len(p) + 1 -> Nat] : JoinsAt(s, p, pos)

(* No pieces make the empty stream, ... *)
LEMMA JoinsNone ==
    ASSUME NEW S, NEW s \in Seq(S)
    PROVE  Joins(s, <<>>) <=> s = <<>>
<1>1. ASSUME Joins(s, <<>>) PROVE s = <<>>
  BY <1>1 DEF Joins, JoinsAt
<1>2. ASSUME s = <<>> PROVE Joins(s, <<>>)
  <2> DEFINE pos == [i \in 1 .. 1 |-> 0]
  <2>1. pos \in [1 .. Len(<<>>) + 1 -> Nat] /\ JoinsAt(s, <<>>, pos)
    BY <1>2 DEF JoinsAt
  <2> QED
    BY <2>1 DEF Joins
<1> QED
  BY <1>1, <1>2

(* ... a piece more makes the stream longer by that piece, ... *)
LEMMA JoinsAppend ==
    ASSUME NEW S, NEW s \in Seq(S), NEW p \in Seq(Seq(S)), NEW q \in Seq(S), Joins(s, p)
    PROVE  Joins(s \o q, Append(p, q))
<1>1. PICK pos \in [1 .. Len(p) + 1 -> Nat] : JoinsAt(s, p, pos)
  BY DEF Joins
<1> DEFINE n == Len(p)
           t == s \o q
           r == Append(p, q)
           new == [i \in 1 .. n + 2 |-> IF i <= n + 1 THEN pos[i] ELSE Len(s) + Len(q)]
<1>2. n \in Nat /\ Len(s) \in Nat /\ Len(q) \in Nat
  OBVIOUS
<1>3. /\ Len(t) = Len(s) + Len(q)
      /\ \A i \in 1 .. Len(s) : t[i] = s[i]
      /\ \A i \in 1 .. Len(q) : t[Len(s) + i] = q[i]
  BY ConcatIndex
<1>4. /\ Len(r) = n + 1 /\ r[n + 1] = q
      /\ \A i \in 1 .. n : r[i] = p[i]
  BY AppendProperties
<1>5. /\ pos \in [1 .. n + 1 -> Nat] /\ pos[1] = 0 /\ pos[n + 1] = Len(s)
      /\ \A i, j \in 1 .. n + 1 : i <= j => pos[i] <= pos[j]
  BY <1>1 DEF JoinsAt
<1>6. \A i \in 1 .. n : /\ pos[i + 1] = pos[i] + Len(p[i])
                        /\ \A k \in 1 .. Len(p[i]) : s[pos[i] + k] = p[i][k]
  BY <1>1 DEF JoinsAt
<1>7. \A i \in 1 .. n : p[i] \in Seq(S) /\ Len(p[i]) \in Nat
  OBVIOUS
<1> HIDE DEF n, t, r
<1>8. /\ new \in [1 .. n + 2 -> Nat] /\ new[n + 2] = Len(s) + Len(q)
      /\ \A i \in 1 .. n + 1 : new[i] = pos[i]
  BY <1>2, <1>5
<1> HIDE DEF new
<1>9. \A i, j \in 1 .. n + 2 : i <= j => new[i] <= new[j]
  <2> SUFFICES ASSUME NEW i \in 1 .. n + 2, NEW j \in 1 .. n + 2, i <= j
               PROVE  new[i] <= new[j]
    OBVIOUS
  <2>1. CASE j <= n + 1
    <3>1. i \in 1 .. n + 1 /\ j \in 1 .. n + 1
      BY <1>2, <2>1
    <3> QED
      BY <1>5, <1>8, <3>1
  <2>2. CASE j = n + 2 /\ i <= n + 1
    <3>1. i \in 1 .. n + 1 /\ n + 1 \in 1 .. n + 1
      BY <1>2, <2>2
    <3>2. pos[i] <= Len(s) /\ pos[i] \in Nat
      BY <1>2, <1>5, <3>1
    <3> QED
      BY <1>2, <1>8, <2>2, <3>1, <3>2
  <2>3. CASE j = n + 2 /\ i = n + 2
    BY <1>2, <1>8, <2>3
  <2> QED
    BY <1>2, <2>1, <2>2, <2>3
<1>10. ASSUME NEW i \in 1 .. n + 1
       PROVE  /\ new[i + 1] = new[i] + Len(r[i])
              /\ \A k \in 1 .. Len(r[i]) : t[new[i] + k] = r[i][k]
  <2>1. CASE i = n + 1
    <3>1. r[i] = q /\ new[i] = Len(s) /\ new[i + 1] = Len(s) + Len(q)
      <4>1. (n + 1) + 1 = n + 2 /\ n + 1 \in 1 .. n + 1
        BY <1>2
      <4> QED
        BY <1>4, <1>5, <1>8, <2>1, <4>1
    <3> QED
      BY <1>3, <3>1
  <2>2. CASE i <= n
    <3>1. /\ i \in 1 .. n /\ i + 1 \in 1 .. n + 1 /\ i \in 1 .. n + 1 /\ n + 1 \in 1 .. n + 1
          /\ i + 1 <= n + 1
      BY <1>2, <2>2
    <3>2. new[i] = pos[i] /\ new[i + 1] = pos[i + 1] /\ r[i] = p[i] /\ pos[i] \in Nat
      BY <1>4, <1>5, <1>8, <3>1, Zenon
    <3>3. pos[i + 1] = pos[i] + Len(p[i]) /\ pos[i + 1] <= Len(s)
      BY <1>5, <1>6, <3>1
    <3>4. ASSUME NEW k \in 1 .. Len(p[i]) PROVE t[pos[i] + k] = p[i][k]
      <4>1. pos[i] + k \in 1 .. Len(s)
        BY <1>2, <1>7, <3>1, <3>2, <3>3, SMTT(20)
      <4> QED
        BY <1>3, <1>6, <3>1, <4>1, Zenon
    <3> QED
      BY <3>2, <3>3, <3>4
  <2> QED
    BY <1>2, <2>1, <2>2
<1>11. new[1] = 0
  BY <1>2, <1>5, <1>8
<1>12. JoinsAt(t, r, new) /\ new \in [1 .. Len(r) + 1 -> Nat]
  <2>1. Len(r) + 1 = n + 2 /\ Len(r) = n + 1
    BY <1>2, <1>4
  <2> QED
    BY <1>3, <1>8, <1>9, <1>10, <1>11, <2>1 DEF JoinsAt
<1> QED
  BY <1>12 DEF Joins, t, r

(* ... the first piece is at the front, ... *)
LEMMA JoinsHead ==
    ASSUME NEW S, NEW s \in Seq(S), NEW p \in Seq(Seq(S)), Joins(s, p), p # <<>>
    PROVE  /\ p[1] \in Seq(S) /\ Len(p[1]) \in 0 .. Len(s)
           /\ SubSeq(s, 1, Len(p[1])) = p[1]
<1>1. PICK pos \in [1 .. Len(p) + 1 -> Nat] : JoinsAt(s, p, pos)
  BY DEF Joins
<1> DEFINE n == Len(p)
           m == Len(p[1])
<1>2. n \in Nat /\ n >= 1 /\ p[1] \in Seq(S) /\ m \in Nat /\ Len(s) \in Nat
  OBVIOUS
<1>3. /\ pos[1] = 0 /\ pos[n + 1] = Len(s)
      /\ \A i, j \in 1 .. n + 1 : i <= j => pos[i] <= pos[j]
  BY <1>1 DEF JoinsAt
<1>4. pos[1 + 1] = pos[1] + m /\ \A k \in 1 .. m : s[pos[1] + k] = p[1][k]
  BY <1>1, <1>2 DEF JoinsAt
<1> HIDE DEF n, m
<1>5. pos[2] <= pos[n + 1]
  BY <1>2, <1>3, SMTT(20)
<1>6. m \in 0 .. Len(s) /\ \A k \in 1 .. m : s[k] = p[1][k]
  BY <1>2, <1>3, <1>4, <1>5
<1>7. /\ SubSeq(s, 1, m) \in Seq(S) /\ Len(SubSeq(s, 1, m)) = m
      /\ \A i \in 1 .. m : SubSeq(s, 1, m)[i] = s[i]
  BY <1>6, FirstPart
<1>8. Len(p[1]) = m
  BY DEF m
<1>9. SubSeq(s, 1, m) = p[1]
  BY <1>2, <1>6, <1>7, <1>8, SeqEqual
<1> QED
  BY <1>2, <1>6, <1>9 DEF m

(* ... and without it the stream is made of the other pieces. *)
LEMMA JoinsTail ==
    ASSUME NEW S, NEW s \in Seq(S), NEW p \in Seq(Seq(S)), Joins(s, p), p # <<>>
    PROVE  Joins(Drop(s, Len(p[1])), Tail(p))
<1>1. PICK pos \in [1 .. Len(p) + 1 -> Nat] : JoinsAt(s, p, pos)
  BY DEF Joins
<1> DEFINE n == Len(p)
           m == Len(p[1])
           t == Drop(s, m)
           r == Tail(p)
           new == [i \in 1 .. n |-> pos[i + 1] - m]
<1>2. n \in Nat /\ n >= 1 /\ m \in Nat /\ Len(s) \in Nat
  OBVIOUS
<1>3. m \in 0 .. Len(s)
  BY JoinsHead
<1>4. Len(t) = Len(s) - m /\ \A i \in 1 .. Len(s) - m : t[i] = s[m + i]
  BY <1>3, LastPart, Zenon
<1>5. Len(r) = n - 1 /\ \A i \in 1 .. n - 1 : r[i] = p[i + 1]
  BY HeadTailProperties
<1>6. /\ pos \in [1 .. n + 1 -> Nat] /\ pos[1] = 0 /\ pos[n + 1] = Len(s)
      /\ \A i, j \in 1 .. n + 1 : i <= j => pos[i] <= pos[j]
  BY <1>1 DEF JoinsAt
<1>7. \A i \in 1 .. n : /\ pos[i + 1] = pos[i] + Len(p[i])
                        /\ \A k \in 1 .. Len(p[i]) : s[pos[i] + k] = p[i][k]
  BY <1>1 DEF JoinsAt
<1>8. \A i \in 1 .. n : Len(p[i]) \in Nat
  OBVIOUS
<1>9. pos[2] = m
  <2>1. pos[1 + 1] = pos[1] + Len(p[1])
    BY <1>2, <1>7
  <2> QED
    BY <1>2, <1>6, <2>1
<1> HIDE DEF n, m, t, r
<1>10. \A i \in 1 .. n : pos[i + 1] \in Nat /\ pos[i + 1] >= m /\ pos[i + 1] <= Len(s)
  <2> SUFFICES ASSUME NEW i \in 1 .. n
               PROVE  pos[i + 1] \in Nat /\ pos[i + 1] >= m /\ pos[i + 1] <= Len(s)
    OBVIOUS
  <2>1. i + 1 \in 1 .. n + 1 /\ 2 \in 1 .. n + 1 /\ n + 1 \in 1 .. n + 1 /\ 2 <= i + 1
        /\ i + 1 <= n + 1
    BY <1>2
  <2> QED
    BY <1>6, <1>9, <2>1, Zenon
<1>11. new \in [1 .. n -> Nat] /\ \A i \in 1 .. n : new[i] = pos[i + 1] - m
  BY <1>2, <1>10
<1> HIDE DEF new
<1>12. new[1] = 0 /\ new[n] = Len(s) - m
  <2>1. 1 \in 1 .. n /\ n \in 1 .. n
    BY <1>2
  <2>2. new[1] = pos[1 + 1] - m /\ new[n] = pos[n + 1] - m
    BY <1>11, <2>1
  <2> QED
    BY <1>2, <1>6, <1>9, <2>2
<1>13. \A i, j \in 1 .. n : i <= j => new[i] <= new[j]
  <2> SUFFICES ASSUME NEW i \in 1 .. n, NEW j \in 1 .. n, i <= j PROVE new[i] <= new[j]
    OBVIOUS
  <2>1. i + 1 \in 1 .. n + 1 /\ j + 1 \in 1 .. n + 1 /\ i + 1 <= j + 1
    BY <1>2
  <2>2. pos[i + 1] <= pos[j + 1]
    BY <1>6, <2>1
  <2>3. /\ new[i] = pos[i + 1] - m /\ new[j] = pos[j + 1] - m
        /\ pos[i + 1] \in Nat /\ pos[j + 1] \in Nat
    BY <1>10, <1>11
  <2> QED
    BY <1>2, <2>2, <2>3, SMTT(20)
<1>14. ASSUME NEW i \in 1 .. n - 1
       PROVE  /\ new[i + 1] = new[i] + Len(r[i])
              /\ \A k \in 1 .. Len(r[i]) : t[new[i] + k] = r[i][k]
  <2>1. i \in 1 .. n /\ i + 1 \in 1 .. n
    BY <1>2
  <2>2. /\ new[i] = pos[i + 1] - m /\ new[i + 1] = pos[(i + 1) + 1] - m
        /\ r[i] = p[i + 1] /\ Len(p[i + 1]) \in Nat
    BY <1>5, <1>8, <1>11, <2>1
  <2>3. pos[(i + 1) + 1] = pos[i + 1] + Len(p[i + 1])
    BY <1>7, <2>1
  <2>4. /\ pos[i + 1] \in Nat /\ pos[i + 1] >= m
        /\ pos[(i + 1) + 1] <= Len(s)
    BY <1>10, <2>1
  <2>5. ASSUME NEW k \in 1 .. Len(p[i + 1]) PROVE t[new[i] + k] = p[i + 1][k]
    <3>1. new[i] + k \in 1 .. Len(s) - m /\ m + (new[i] + k) = pos[i + 1] + k
      <4> DEFINE a == pos[i + 1]
                 b == new[i]
                 l == Len(p[i + 1])
      <4>1. /\ a \in Nat /\ a >= m /\ a + l <= Len(s) /\ b = a - m /\ l \in Nat /\ k \in 1 .. l
        BY <2>2, <2>3, <2>4
      <4> HIDE DEF a, b, l
      <4>2. b + k \in 1 .. Len(s) - m /\ m + (b + k) = a + k
        BY <1>2, <4>1
      <4> QED
        BY <4>2 DEF a, b
    <3>2. t[new[i] + k] = s[m + (new[i] + k)]
      BY <1>4, <3>1
    <3>3. s[pos[i + 1] + k] = p[i + 1][k]
      BY <1>7, <2>1
    <3> QED
      BY <3>1, <3>2, <3>3
  <2> QED
    BY <1>2, <2>2, <2>3, <2>4, <2>5, SMTT(20)
<1>15. JoinsAt(t, r, new) /\ new \in [1 .. Len(r) + 1 -> Nat]
  <2>1. Len(r) + 1 = n /\ Len(r) = n - 1
    BY <1>2, <1>5
  <2> QED
    BY <1>4, <1>11, <1>12, <1>13, <1>14, <2>1 DEF JoinsAt
<1> QED
  BY <1>15 DEF Joins, t, r, m

-------------------------------------------------------------------------------
(* A stream carries the messages behind the first t of msgs. *)
Pending(s, msgs, t) == t \in 0 .. Len(msgs) /\ Joins(s, Drop(msgs, t))

LEMMA DropAppend ==
    ASSUME NEW S, NEW s \in Seq(S), NEW x \in S, NEW n \in 0 .. Len(s)
    PROVE  Drop(Append(s, x), n) = Append(Drop(s, n), x)
<1>1. Append(s, x) = s \o <<x>> /\ <<x>> \in Seq(S)
  BY AppendIsConcat
<1>2. Drop(s \o <<x>>, n) = Drop(s, n) \o <<x>>
  BY <1>1, DropConcat, Zenon
<1>3. Drop(s, n) \in Seq(S)
  BY LastPart
<1>4. Append(Drop(s, n), x) = Drop(s, n) \o <<x>>
  BY <1>3, AppendIsConcat
<1> QED
  BY <1>1, <1>2, <1>4, Zenon

LEMMA DropOne ==
    ASSUME NEW S, NEW s \in Seq(S), NEW n \in 0 .. Len(s), n < Len(s)
    PROVE  /\ Drop(s, n) # <<>> /\ Drop(s, n)[1] = s[n + 1]
           /\ Tail(Drop(s, n)) = Drop(s, n + 1)
<1> DEFINE u == Drop(s, n)
<1>1. /\ u \in Seq(S) /\ Len(u) = Len(s) - n
      /\ \A i \in 1 .. Len(s) - n : u[i] = s[n + i]
  BY LastPart, Zenon
<1>2. Len(s) - n >= 1 /\ 1 \in 1 .. Len(s) - n /\ 1 \in 0 .. Len(s) - n
  OBVIOUS
<1>3. Drop(u, 1) = Drop(s, n + 1)
  BY <1>2, DropDrop
<1> HIDE DEF u
<1>4. Tail(u) = Drop(u, 1)
  <2>1. u \in Seq(S) /\ u # <<>>
    BY <1>1, <1>2
  <2> QED
    BY <2>1 DEF Drop
<1> QED
  BY <1>1, <1>2, <1>3, <1>4 DEF u

(* A message sent goes to the end of the stream, ... *)
LEMMA PendingSend ==
    ASSUME NEW S, NEW s \in Seq(S), NEW m \in Seq(Seq(S)), NEW t, NEW q \in Seq(S),
           Pending(s, m, t)
    PROVE  Pending(s \o q, Append(m, q), t)
<1>1. t \in 0 .. Len(m) /\ Joins(s, Drop(m, t))
  BY DEF Pending
<1>2. Drop(m, t) \in Seq(Seq(S))
  BY <1>1, LastPart
<1>3. Joins(s \o q, Append(Drop(m, t), q))
  BY <1>1, <1>2, JoinsAppend
<1>4. Drop(Append(m, q), t) = Append(Drop(m, t), q)
  BY <1>1, DropAppend
<1>5. t \in 0 .. Len(Append(m, q))
  BY <1>1
<1> QED
  BY <1>3, <1>4, <1>5 DEF Pending

(* ... the first one is at its front, and behind it is the next, ... *)
LEMMA PendingFirst ==
    ASSUME NEW S, NEW s \in Seq(S), NEW m \in Seq(Seq(S)), NEW t,
           Pending(s, m, t), t < Len(m)
    PROVE  /\ m[t + 1] \in Seq(S) /\ Len(m[t + 1]) \in 0 .. Len(s)
           /\ SubSeq(s, 1, Len(m[t + 1])) = m[t + 1]
           /\ Pending(Drop(s, Len(m[t + 1])), m, t + 1)
<1>1. t \in 0 .. Len(m) /\ Joins(s, Drop(m, t))
  BY DEF Pending
<1> DEFINE p == Drop(m, t)
<1>2. p # <<>> /\ p[1] = m[t + 1] /\ Tail(p) = Drop(m, t + 1)
  BY <1>1, DropOne
<1>3. p \in Seq(Seq(S)) /\ Joins(s, p)
  BY <1>1, LastPart
<1> HIDE DEF p
<1>4. /\ p[1] \in Seq(S) /\ Len(p[1]) \in 0 .. Len(s)
      /\ SubSeq(s, 1, Len(p[1])) = p[1]
  BY <1>2, <1>3, JoinsHead
<1>5. Joins(Drop(s, Len(p[1])), Tail(p))
  BY <1>2, <1>3, JoinsTail
<1>6. t + 1 \in 0 .. Len(m)
  BY <1>1
<1>7. Joins(Drop(s, Len(m[t + 1])), Drop(m, t + 1))
  BY <1>2, <1>5, Zenon
<1>8. Pending(Drop(s, Len(m[t + 1])), m, t + 1)
  BY <1>6, <1>7 DEF Pending
<1> QED
  BY <1>2, <1>4, <1>8, Zenon

(* ... and the stream is empty when there is none. *)
LEMMA PendingNone ==
    ASSUME NEW S, NEW s \in Seq(S), NEW m \in Seq(Seq(S)), NEW t, Pending(s, m, t), t = Len(m)
    PROVE  s = <<>>
<1>1. Joins(s, Drop(m, Len(m)))
  BY DEF Pending
<1>2. Drop(m, Len(m)) = <<>>
  BY DropNone
<1>3. Joins(s, <<>>)
  BY <1>1, <1>2, Zenon
<1> QED
  BY <1>3, JoinsNone
===============================================================================
