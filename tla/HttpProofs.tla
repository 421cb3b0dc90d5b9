------------------------------ MODULE HttpProofs ------------------------------
(***************************************************************************)
(* What a client of the HTTP server gets, for any requests, file sizes,    *)
(* compression threshold and room in the socket: the file sender puts      *)
(* headers and files on the wire in order and whole (FileBuffer), and      *)
(* every request is answered once, in order and with a framed reply (Http).*)
(***************************************************************************)
EXTENDS Http, BufferTheorems

-------------------------------------------------------------------------------
(* FileBuffer.  A unit of the stream is a header line or a byte of a file. *)
Unit == [reply : Nat, status : {"kOk", "error", "file", "gzip"}, length : Int]
File == [header : Seq(Unit), hasFile : BOOLEAN, body : Seq(Unit)]

Places == InFlush \cup {"no", "add", "enter", "decide", "enable", "fin"}

FbTypes ==
    /\ pending_files \in Seq(File) /\ fd_ \in BOOLEAN /\ torn \in BOOLEAN
    /\ buffer_ \in Seq(Unit) /\ wire \in Seq(Unit) /\ accepted \in Seq(Unit)
    /\ bytes_sent \in Nat /\ sockRoom \in Nat /\ closedAt \in Int
    /\ flushing \in [FbThreads -> Places]

(* An entry without a file has no body. *)
FbEntry == entry \in File /\ (~entry.hasFile => entry.body = <<>>)

(* The open file is the first of the queue, an entry without a file has no *)
(* body, and a file is sent only once the headers have gone out.           *)
FbShape ==
    /\ fd_ => pending_files # <<>> /\ bytes_sent <= Len(pending_files[1].body)
    /\ \A i \in 1 .. Len(pending_files) : ~pending_files[i].hasFile => pending_files[i].body = <<>>
    /\ \A t \in FbThreads : flushing[t] = "file" => buffer_ = <<>>

(* Two threads in WriteBufferToFd make a torn object. *)
FbAlone == ~torn => ~(flushing["worker"] \in InFlush /\ flushing["loop"] \in InFlush)

(* What is yet to be taken from the queue: the rest of the open file, then *)
(* the entries behind it.                                                  *)
OpenRest == IF fd_ THEN Left ELSE <<>>
Todo == IF fd_ THEN Tail(pending_files) ELSE pending_files
Pieces(files) == [i \in 1 .. Len(files) |-> files[i].header \o files[i].body]

(* What was accepted is what the kernel has, what is in buffer_, what is   *)
(* left of the open file and the entries of the queue, in this order.      *)
FbStream ==
    ~torn /\ disk = "same" => \E rest \in Seq(Unit) :
        /\ Joins(rest, Pieces(Todo))
        /\ accepted = ((wire \o buffer_) \o OpenRest) \o rest

(* What was accepted before the decision to close has left the queue. *)
FbClosing == ~torn /\ disk = "same" /\ closedAt > 0 => closedAt <= Len(wire \o buffer_)

FbInv == FbTypes /\ FbEntry /\ FbShape /\ FbAlone /\ FbStream /\ FbClosing

(* Concatenation, on units. *)
LEMMA UnitsConcat ==
    ASSUME NEW a \in Seq(Unit), NEW b \in Seq(Unit), NEW c \in Seq(Unit)
    PROVE  a \o b \in Seq(Unit) /\ (a \o b) \o c = a \o (b \o c)
<1>1. a \o b \in Seq(Unit)
  BY ConcatProperties, SMTT(20)
<1>2. (a \o b) \o c = a \o (b \o c)
  BY ConcatAssociative, SMTT(20)
<1> QED
  BY <1>1, <1>2

(* The pieces of a queue, and of a queue with one entry more or less. *)
LEMMA PiecesType ==
    ASSUME NEW files \in Seq(File)
    PROVE  /\ Pieces(files) \in Seq(Seq(Unit)) /\ Len(Pieces(files)) = Len(files)
           /\ \A i \in 1 .. Len(files) : Pieces(files)[i] = files[i].header \o files[i].body
<1>1. \A i \in 1 .. Len(files) : files[i].header \o files[i].body \in Seq(Unit)
  <2> SUFFICES ASSUME NEW i \in 1 .. Len(files)
               PROVE  files[i].header \o files[i].body \in Seq(Unit)
    OBVIOUS
  <2>1. files[i] \in File
    OBVIOUS
  <2>2. files[i].header \in Seq(Unit) /\ files[i].body \in Seq(Unit)
    BY <2>1 DEF File
  <2> QED
    BY <2>2, ConcatProperties
<1>2. Len(files) \in Nat
  OBVIOUS
<1>3. Pieces(files) \in [1 .. Len(files) -> Seq(Unit)]
  BY <1>1, Zenon DEF Pieces
<1>4. Pieces(files) \in Seq(Seq(Unit)) /\ Len(Pieces(files)) = Len(files)
  BY <1>2, <1>3
<1>5. \A i \in 1 .. Len(files) : Pieces(files)[i] = files[i].header \o files[i].body
  BY Zenon DEF Pieces
<1> QED
  BY <1>4, <1>5, Zenon

LEMMA PiecesAppend ==
    ASSUME NEW files \in Seq(File), NEW f \in File
    PROVE  Pieces(Append(files, f)) = Append(Pieces(files), f.header \o f.body)
<1> DEFINE more == Append(files, f)
           n == Len(files)
           piece == f.header \o f.body
           u == Pieces(more)
           v == Append(Pieces(files), piece)
<1>1. /\ more \in Seq(File) /\ Len(more) = n + 1 /\ more[n + 1] = f
      /\ \A i \in 1 .. n : more[i] = files[i]
  BY AppendProperties
<1>2. piece \in Seq(Unit)
  <2>1. f.header \in Seq(Unit) /\ f.body \in Seq(Unit)
    BY DEF File
  <2> QED
    BY <2>1, ConcatProperties
<1>3. /\ Pieces(files) \in Seq(Seq(Unit)) /\ Len(Pieces(files)) = n
      /\ \A i \in 1 .. n : Pieces(files)[i] = files[i].header \o files[i].body
  BY PiecesType, Zenon
<1> HIDE DEF more
<1>4. /\ u \in Seq(Seq(Unit)) /\ Len(u) = n + 1
      /\ \A i \in 1 .. n + 1 : u[i] = more[i].header \o more[i].body
  BY <1>1, PiecesType, Zenon
<1> HIDE DEF piece, u
<1>5. /\ v \in Seq(Seq(Unit)) /\ Len(v) = n + 1 /\ v[n + 1] = piece
      /\ \A i \in 1 .. n : v[i] = Pieces(files)[i]
  BY <1>2, <1>3, AppendProperties
<1> HIDE DEF v
<1>6. n \in Nat
  OBVIOUS
<1> HIDE DEF n
<1>7. ASSUME NEW i \in 1 .. n + 1 PROVE u[i] = v[i]
  <2>1. CASE i = n + 1
    BY <1>1, <1>4, <1>5, <1>6, <2>1, Zenon DEF piece
  <2>2. CASE i # n + 1
    <3>1. i \in 1 .. n
      BY <1>6, <2>2
    <3> QED
      BY <1>1, <1>3, <1>4, <1>5, <3>1, ZenonT(40)
  <2> QED
    BY <2>1, <2>2
<1>8. u = v
  BY <1>4, <1>5, <1>7, SeqEqual
<1> QED
  BY <1>8 DEF u, v, more, piece

LEMMA PiecesTail ==
    ASSUME NEW files \in Seq(File), files # <<>>
    PROVE  /\ Pieces(Tail(files)) = Tail(Pieces(files)) /\ Pieces(files) # <<>>
           /\ Pieces(files)[1] = files[1].header \o files[1].body
<1> DEFINE n == Len(files)
           u == Pieces(Tail(files))
           p == Pieces(files)
<1>1. n \in Nat /\ n >= 1
  OBVIOUS
<1>2. /\ Tail(files) \in Seq(File) /\ Len(Tail(files)) = n - 1
      /\ \A i \in 1 .. n - 1 : Tail(files)[i] = files[i + 1]
  BY HeadTailProperties
<1>3. /\ p \in Seq(Seq(Unit)) /\ Len(p) = n
      /\ \A i \in 1 .. n : p[i] = files[i].header \o files[i].body
  BY PiecesType, Zenon
<1>4. /\ u \in Seq(Seq(Unit)) /\ Len(u) = n - 1
      /\ \A i \in 1 .. n - 1 : u[i] = Tail(files)[i].header \o Tail(files)[i].body
  BY <1>2, PiecesType, Zenon
<1> HIDE DEF u, p, n
<1>5. p # <<>>
  BY <1>1, <1>3
<1>6. /\ Tail(p) \in Seq(Seq(Unit)) /\ Len(Tail(p)) = n - 1
      /\ \A i \in 1 .. n - 1 : Tail(p)[i] = p[i + 1]
  BY <1>3, <1>5, HeadTailProperties
<1>7. ASSUME NEW i \in 1 .. n - 1 PROVE u[i] = Tail(p)[i]
  <2>1. i + 1 \in 1 .. n
    BY <1>1
  <2>2. Tail(p)[i] = files[i + 1].header \o files[i + 1].body
    BY <1>3, <1>6, <2>1, Zenon
  <2> QED
    BY <1>2, <1>4, <2>2, Zenon
<1>8. u = Tail(p)
  BY <1>4, <1>6, <1>7, SeqEqual, SMTT(40)
<1>9. p[1] = files[1].header \o files[1].body
  <2>1. 1 \in 1 .. n
    BY <1>1
  <2> QED
    BY <1>3, <2>1, Zenon
<1> QED
  BY <1>5, <1>8, <1>9, Zenon DEF u, p

(* What is left of the open file. *)
LEMMA OpenRestType ==
    ASSUME FbTypes, FbShape
    PROVE  /\ OpenRest \in Seq(Unit) /\ Todo \in Seq(File)
           /\ fd_ => /\ pending_files[1] \in File /\ pending_files[1].body \in Seq(Unit)
                     /\ OpenRest = Drop(pending_files[1].body, bytes_sent)
                     /\ bytes_sent \in 0 .. Len(pending_files[1].body)
<1>1. CASE fd_
  <2>1. pending_files \in Seq(File) /\ pending_files # <<>> /\ bytes_sent \in Nat
    BY <1>1 DEF FbTypes, FbShape
  <2>2. pending_files[1] \in File
    BY <2>1
  <2>3. pending_files[1].body \in Seq(Unit)
    BY <2>2 DEF File
  <2>4. bytes_sent \in 0 .. Len(pending_files[1].body)
    BY <1>1, <2>1, <2>3 DEF FbShape
  <2>5. OpenRest = Drop(pending_files[1].body, bytes_sent)
    BY <1>1, Zenon DEF OpenRest, Left, Drop
  <2>6. OpenRest \in Seq(Unit)
    BY <2>3, <2>4, <2>5, LastPart
  <2>7. Todo \in Seq(File)
    BY <1>1, <2>1, HeadTailProperties DEF Todo
  <2> QED
    BY <2>2, <2>3, <2>4, <2>5, <2>6, <2>7
<1>2. CASE ~fd_
  BY <1>2 DEF OpenRest, Todo, FbTypes
<1> QED
  BY <1>1, <1>2

(* The stream depends on the queue, the kernel and the history only. *)
LEMMA FbSame ==
    ASSUME FbInv, UNCHANGED <<pending_files, fd_, buffer_, wire, accepted, bytes_sent>>,
           torn' = torn, disk' = "same" => disk = "same", sockRoom' \in Nat, closedAt' \in Int,
           flushing' \in [FbThreads -> Places],
           \A t \in FbThreads : flushing'[t] = "file" => flushing[t] = "file",
           FbEntry', FbAlone', FbClosing'
    PROVE  FbInv'
<1>1. FbTypes' /\ FbShape'
  BY DEF FbInv, FbTypes, FbShape
<1>2. OpenRest' = OpenRest /\ Todo' = Todo
  BY DEF OpenRest, Todo, Left
<1>3. FbStream'
  <2> SUFFICES ASSUME ~torn', disk' = "same" PROVE FbStream'
    BY Zenon DEF FbStream
  <2>1. ~torn /\ disk = "same"
    BY Zenon
  <2>2. PICK rest \in Seq(Unit) :
           /\ Joins(rest, Pieces(Todo))
           /\ accepted = ((wire \o buffer_) \o OpenRest) \o rest
    BY <2>1, ZenonT(40) DEF FbInv, FbStream
  <2>3. Joins(rest, Pieces(Todo')) /\ accepted' = ((wire' \o buffer_') \o OpenRest') \o rest
    BY <1>2, <2>2, Zenon
  <2> QED
    BY <2>3, Zenon DEF FbStream
<1> QED
  BY <1>1, <1>3 DEF FbInv

(* Nothing is said of a torn object. *)
LEMMA FbTorn ==
    ASSUME FbInv, SocketRoom \in Nat, NEW t \in FbThreads, NEW files, Touch(t, files), Tears(t),
           accepted' \in Seq(Unit), closedAt' = closedAt, flushing' \in [FbThreads -> Places],
           FbEntry'
    PROVE  FbInv'
<1>1. /\ torn' = TRUE /\ pending_files' = <<>> /\ buffer_' = <<>> /\ fd_' = FALSE
      /\ bytes_sent' = 0 /\ wire' = <<>> /\ sockRoom' = SocketRoom
  <2>1. Tears(t) = TRUE
    BY Zenon DEF Tears
  <2> QED
    BY <2>1, Zenon DEF Touch
<1>2. FbTypes'
  <2>1. <<>> \in Seq(File) /\ <<>> \in Seq(Unit) /\ 0 \in Nat
    OBVIOUS
  <2>2. closedAt' \in Int
    BY DEF FbInv, FbTypes
  <2> QED
    BY <1>1, <2>1, <2>2, Zenon DEF FbTypes
<1>3. FbShape'
  BY <1>1 DEF FbShape
<1>4. FbAlone' /\ FbStream' /\ FbClosing'
  BY <1>1, Zenon DEF FbAlone, FbStream, FbClosing
<1> QED
  BY <1>2, <1>3, <1>4 DEF FbInv

(* A thread that goes on in the flush, or leaves it, stays alone. *)
LEMMA FbGoto ==
    ASSUME FbTypes, FbAlone, NEW t \in FbThreads, NEW place \in Places, Goto(t, place),
           torn' = torn, place \in InFlush => flushing[t] \in InFlush
    PROVE  /\ flushing' \in [FbThreads -> Places] /\ flushing'[t] = place /\ FbAlone'
           /\ \A s \in FbThreads : s # t => flushing'[s] = flushing[s]
           /\ ~torn /\ flushing[t] \in InFlush =>
                 \A s \in FbThreads : s # t => flushing[s] # "file"
<1>1. /\ flushing' \in [FbThreads -> Places] /\ flushing'[t] = place
      /\ \A s \in FbThreads : s # t => flushing'[s] = flushing[s]
  BY DEF Goto, FbTypes
<1>2. FbThreads = {"worker", "loop"} /\ t \in {"worker", "loop"}
  BY DEF FbThreads
<1>3. FbAlone'
  BY <1>1, <1>2 DEF FbAlone
<1>4. ~torn /\ flushing[t] \in InFlush => \A s \in FbThreads : s # t => flushing[s] # "file"
  BY <1>2 DEF FbAlone, InFlush
<1> QED
  BY <1>1, <1>3, <1>4

(* AddFile appends the header and the file to the queue and to the stream. *)
LEMMA FbAdd ==
    ASSUME FbInv, SocketRoom \in Nat, AddFile
    PROVE  FbInv'
<1> DEFINE e == entry
           h == entry.header
           b == entry.body
           pf == pending_files
<1>1. /\ accepted' = (accepted \o h) \o b /\ Goto("worker", "enter")
      /\ Touch("worker", Append(pf, e)) /\ entry' = NoFile(<<>>)
      /\ UNCHANGED <<closedAt, disk>>
  BY DEF AddFile
<1>2. /\ e \in File /\ pf \in Seq(File) /\ accepted \in Seq(Unit) /\ buffer_ \in Seq(Unit)
      /\ wire \in Seq(Unit) /\ bytes_sent \in Nat /\ fd_ \in BOOLEAN
      /\ "worker" \in FbThreads /\ "enter" \in Places
  BY DEF FbInv, FbTypes, FbEntry, FbThreads, Places
<1>3. h \in Seq(Unit) /\ b \in Seq(Unit) /\ (~e.hasFile => b = <<>>)
  BY DEF FbInv, FbEntry, File
<1>4. FbEntry'
  <2>1. NoFile(<<>>) \in File /\ NoFile(<<>>).body = <<>>
    BY DEF NoFile, File
  <2> QED
    BY <1>1, <2>1, Zenon DEF FbEntry
<1> HIDE DEF e, h, b, pf
<1>5. /\ accepted \o h \in Seq(Unit) /\ h \o b \in Seq(Unit) /\ accepted' \in Seq(Unit)
      /\ accepted' = accepted \o (h \o b)
  <2>1. accepted \o h \in Seq(Unit) /\ h \o b \in Seq(Unit)
    BY <1>2, <1>3, ConcatProperties
  <2>2. (accepted \o h) \o b \in Seq(Unit)
    BY <1>3, <2>1, ConcatProperties
  <2>3. (accepted \o h) \o b = accepted \o (h \o b)
    <3>1. accepted \in Seq(Unit)
      BY <1>2
    <3> QED
      BY <1>3, <3>1, UnitsConcat, SMTT(40)
  <2> QED
    BY <1>1, <2>1, <2>2, <2>3, Zenon
<1>6. flushing' \in [FbThreads -> Places]
  BY <1>1, <1>2 DEF Goto, FbInv, FbTypes
<1>7. CASE Tears("worker")
  BY <1>1, <1>2, <1>4, <1>5, <1>6, <1>7, FbTorn, Zenon
<1>8. CASE ~Tears("worker")
  <2>1. /\ pf' = Append(pf, e) /\ torn' = torn /\ ~torn
        /\ UNCHANGED <<buffer_, fd_, bytes_sent, wire, sockRoom>>
    <3>1. ~torn /\ Tears("worker") = FALSE
      BY <1>8, Zenon DEF Tears
    <3>2. torn = FALSE
      BY <3>1 DEF FbInv, FbTypes
    <3> QED
      BY <1>1, <3>1, <3>2, Zenon DEF Touch, pf
  <2>2. /\ FbAlone'
        /\ \A t \in FbThreads : flushing'[t] = "file" => flushing[t] = "file"
    <3>1. FbTypes /\ FbAlone /\ ~("enter" \in InFlush)
      BY DEF FbInv, InFlush
    <3>2. /\ flushing'["worker"] = "enter" /\ FbAlone'
          /\ \A s \in FbThreads : s # "worker" => flushing'[s] = flushing[s]
      BY <1>1, <1>2, <2>1, <3>1, FbGoto
    <3> QED
      BY <3>2
  <2>3. /\ pf' \in Seq(File) /\ Len(pf') = Len(pf) + 1 /\ pf' # <<>>
        /\ \A i \in 1 .. Len(pf) : pf'[i] = pf[i]
        /\ pf'[Len(pf) + 1] = e
    <3>1. /\ Append(pf, e) \in Seq(File) /\ Len(Append(pf, e)) = Len(pf) + 1
          /\ \A i \in 1 .. Len(pf) : Append(pf, e)[i] = pf[i]
          /\ Append(pf, e)[Len(pf) + 1] = e
      BY <1>2, AppendProperties
    <3>2. Append(pf, e) # <<>>
      <4>1. Len(pf) \in Nat
        BY <1>2
      <4>2. Len(Append(pf, e)) # 0
        BY <3>1, <4>1
      <4>3. Len(<<>>) = 0
        OBVIOUS
      <4> QED
        BY <4>2, <4>3, Zenon
    <3> QED
      BY <2>1, <3>1, <3>2, Zenon
  <2>4. FbTypes'
    BY <1>1, <1>5, <1>6, <2>1, <2>3 DEF FbInv, FbTypes, pf
  <2>5. pf # <<>> => pf'[1] = pf[1] /\ Len(pf) >= 1
    BY <1>2, <2>3
  <2>6. FbShape'
    <3>1. fd_' => pf' # <<>> /\ bytes_sent' <= Len(pf'[1].body)
      BY <2>1, <2>3, <2>5 DEF FbInv, FbShape, pf
    <3>2. ASSUME NEW i \in 1 .. Len(pf'), ~pf'[i].hasFile PROVE pf'[i].body = <<>>
      <4>1. CASE i = Len(pf) + 1
        BY <1>3, <2>3, <3>2, <4>1 DEF b, e
      <4>2. CASE i # Len(pf) + 1
        <5>1. i \in 1 .. Len(pf)
          BY <1>2, <2>3, <4>2
        <5> QED
          BY <2>3, <3>2, <5>1 DEF FbInv, FbShape, pf
      <4> QED
        BY <4>1, <4>2
    <3>3. \A t \in FbThreads : flushing'[t] = "file" => buffer_' = <<>>
      BY <2>1, <2>2 DEF FbInv, FbShape
    <3> QED
      BY <3>1, <3>2, <3>3 DEF FbShape, pf
  <2>7. OpenRest' = OpenRest
    BY <2>1, <2>5 DEF OpenRest, Left, FbInv, FbShape, pf
  <2>8. Todo' = Append(Todo, e)
    <3>1. CASE fd_
      <4>1. pf # <<>>
        BY <3>1 DEF FbInv, FbShape, pf
      <4>2. Tail(Append(pf, e)) = Append(Tail(pf), e)
        BY <1>2, <4>1, HeadTailAppend
      <4> QED
        BY <2>1, <3>1, <4>2, Zenon DEF Todo, pf
    <3>2. CASE ~fd_
      BY <2>1, <3>2 DEF Todo, pf
    <3> QED
      BY <3>1, <3>2
  <2>9. FbStream'
    <3> SUFFICES ASSUME disk' = "same" PROVE FbStream'
      BY Zenon DEF FbStream
    <3>1. PICK rest \in Seq(Unit) :
             /\ Joins(rest, Pieces(Todo))
             /\ accepted = ((wire \o buffer_) \o OpenRest) \o rest
      BY <1>1, <2>1, Zenon DEF FbInv, FbStream
    <3>2. OpenRest \in Seq(Unit) /\ Todo \in Seq(File)
      BY OpenRestType DEF FbInv
    <3>3. Pieces(Todo') = Append(Pieces(Todo), h \o b) /\ Pieces(Todo) \in Seq(Seq(Unit))
      <4>1. e.header = h /\ e.body = b
        BY DEF e, h, b
      <4> QED
        BY <1>2, <2>8, <3>2, <4>1, PiecesAppend, PiecesType, Zenon
    <3>4. Joins(rest \o (h \o b), Pieces(Todo'))
      BY <1>5, <3>1, <3>3, JoinsAppend, Zenon
    <3> DEFINE out == (wire \o buffer_) \o OpenRest
               new == rest \o (h \o b)
    <3>5. out \in Seq(Unit) /\ new \in Seq(Unit)
      BY <1>2, <1>5, <3>2, ConcatProperties
    <3>6. accepted' = out \o new
      <4> HIDE DEF out
      <4>1. (out \o rest) \o (h \o b) = out \o (rest \o (h \o b))
        <5> DEFINE x == h \o b
        <5>1. out \in Seq(Unit) /\ x \in Seq(Unit)
          BY <1>5, <3>5
        <5> HIDE DEF x
        <5>2. (out \o rest) \o x = out \o (rest \o x)
          BY <5>1, UnitsConcat, SMTT(40)
        <5> QED
          BY <5>2, Zenon DEF x
      <4>2. accepted = out \o rest
        BY <3>1 DEF out
      <4> QED
        BY <1>5, <4>1, <4>2, Zenon
    <3>7. accepted' = ((wire' \o buffer_') \o OpenRest') \o new
      BY <2>1, <2>7, <3>6, Zenon
    <3> HIDE DEF new
    <3> QED
      BY <3>4, <3>5, <3>7, Zenon DEF FbStream, new
  <2>10. FbClosing'
    BY <1>1, <2>1, Zenon DEF FbInv, FbClosing
  <2> QED
    BY <1>4, <2>2, <2>4, <2>6, <2>9, <2>10 DEF FbInv
<1> QED
  BY <1>7, <1>8

(* Where a thread goes when its flush returns. *)
LEMMA FbReturn ==
    ASSUME FbTypes, FbAlone, NEW t \in FbThreads, NEW r, Return(t, r), torn' = torn
    PROVE  /\ flushing' \in [FbThreads -> Places] /\ FbAlone'
           /\ \A s \in FbThreads : flushing'[s] = "file" => flushing[s] = "file"
<1> DEFINE place == IF t = "loop" THEN "decide" ELSE "enable"
<1>1. Goto(t, place)
  BY DEF Return
<1>2. place \in Places /\ place \notin InFlush /\ place # "file"
  BY DEF Places, InFlush
<1> HIDE DEF place
<1>3. /\ flushing' \in [FbThreads -> Places] /\ flushing'[t] = place /\ FbAlone'
      /\ \A s \in FbThreads : s # t => flushing'[s] = flushing[s]
  BY <1>1, <1>2, FbGoto
<1> QED
  BY <1>2, <1>3

(* Flushing buffer_ moves its front to the kernel. *)
LEMMA FbFlush ==
    ASSUME FbInv, NEW t \in FbThreads, NEW more \in {"open", "file"}, FlushBuffer(t, more),
           ~torn, flushing[t] \in InFlush
    PROVE  FbInv'
<1> DEFINE n == IF shutWr \/ reset # "no" THEN 0
                ELSE IF Len(buffer_) <= sockRoom THEN Len(buffer_) ELSE sockRoom
<1>1. /\ buffer_ \in Seq(Unit) /\ wire \in Seq(Unit) /\ sockRoom \in Nat
      /\ Len(buffer_) \in Nat
  BY DEF FbInv, FbTypes
<1>2. n \in 0 .. Len(buffer_) /\ sockRoom - n \in Nat
  BY <1>1
<1>3. /\ wire' = wire \o SubSeq(buffer_, 1, n) /\ buffer_' = Drop(buffer_, n)
      /\ sockRoom' = sockRoom - n
      /\ UNCHANGED <<pending_files, fd_, bytes_sent, torn, entry, accepted, disk, closedAt>>
      /\ buffer_' # <<>> => Return(t, -1)
      /\ buffer_' = <<>> => Goto(t, more)
  BY DEF FlushBuffer, Drop, fbHistory
<1> HIDE DEF n
<1>4. SubSeq(buffer_, 1, n) \in Seq(Unit)
  BY <1>1, <1>2, FirstPart
<1>5. Drop(buffer_, n) \in Seq(Unit)
  BY <1>1, <1>2, LastPart
<1>6. SubSeq(buffer_, 1, n) \o Drop(buffer_, n) = buffer_
  BY <1>1, <1>2, CutAndJoin
<1>7. wire' \o buffer_' = wire \o buffer_
  <2> DEFINE x == SubSeq(buffer_, 1, n)
             y == Drop(buffer_, n)
  <2>1. x \in Seq(Unit) /\ y \in Seq(Unit) /\ x \o y = buffer_ /\ wire' = wire \o x /\ buffer_' = y
    BY <1>3, <1>4, <1>5, <1>6
  <2> HIDE DEF x, y
  <2>2. (wire \o x) \o y = wire \o (x \o y)
    BY <1>1, <2>1, UnitsConcat, ZenonT(40)
  <2> QED
    BY <2>1, <2>2, Zenon
<1>8. wire' \in Seq(Unit)
  BY <1>1, <1>3, <1>4, ConcatProperties
<1>9. FbTypes /\ FbAlone /\ more \in Places /\ torn' = torn
  BY <1>3 DEF FbInv, Places, InFlush
<1>10. /\ flushing' \in [FbThreads -> Places] /\ FbAlone'
       /\ \A s \in FbThreads : flushing'[s] = "file" => buffer_' = <<>>
  <2>1. CASE buffer_' = <<>>
    <3>1. Goto(t, more)
      BY <1>3, <2>1
    <3>2. flushing' \in [FbThreads -> Places] /\ FbAlone'
      BY <1>9, <3>1, FbGoto
    <3> QED
      BY <2>1, <3>2
  <2>2. CASE buffer_' # <<>>
    <3>1. Return(t, -1)
      BY <1>3, <2>2
    <3>2. /\ flushing' \in [FbThreads -> Places] /\ FbAlone'
          /\ \A s \in FbThreads : flushing'[s] = "file" => flushing[s] = "file"
      BY <1>9, <3>1, FbReturn
    <3>3. \A s \in FbThreads : flushing[s] = "file" => buffer_ = <<>>
      BY DEF FbInv, FbShape
    <3>4. buffer_ # <<>>
      BY <1>1, <1>2, <1>3, <2>2 DEF Drop
    <3> QED
      BY <3>2, <3>3, <3>4
  <2> QED
    BY <2>1, <2>2
<1>11. FbTypes'
  BY <1>1, <1>2, <1>3, <1>5, <1>8, <1>10, SMTT(40) DEF FbInv, FbTypes
<1>12. FbShape' /\ FbEntry'
  BY <1>3, <1>10 DEF FbInv, FbShape, FbEntry
<1>13. FbStream'
  <2> SUFFICES ASSUME disk' = "same" PROVE FbStream'
    BY Zenon DEF FbStream
  <2>1. OpenRest' = OpenRest /\ Todo' = Todo
    BY <1>3 DEF OpenRest, Todo, Left
  <2>2. PICK rest \in Seq(Unit) :
           /\ Joins(rest, Pieces(Todo))
           /\ accepted = ((wire \o buffer_) \o OpenRest) \o rest
    BY <1>3, Zenon DEF FbInv, FbStream
  <2>3. Joins(rest, Pieces(Todo')) /\ accepted' = ((wire' \o buffer_') \o OpenRest') \o rest
    BY <1>3, <1>7, <2>1, <2>2, Zenon
  <2> QED
    BY <2>3, ZenonT(40) DEF FbStream
<1>14. FbClosing'
  BY <1>3, <1>7, Zenon DEF FbInv, FbClosing
<1> QED
  BY <1>10, <1>11, <1>12, <1>13, <1>14 DEF FbInv

(* What has left the queue only grows. *)
LEMMA ClosingGrows ==
    ASSUME FbInv, wire' \in Seq(Unit), buffer_' \in Seq(Unit),
           Len(wire \o buffer_) <= Len(wire' \o buffer_'),
           torn' = torn, disk' = "same" => disk = "same", closedAt' = closedAt
    PROVE  FbClosing'
<1> DEFINE m == Len(wire \o buffer_)
           n == Len(wire' \o buffer_')
<1>1. m \in Nat /\ n \in Nat /\ closedAt \in Int
  <2>1. wire \o buffer_ \in Seq(Unit) /\ wire' \o buffer_' \in Seq(Unit)
    BY ConcatProperties DEF FbInv, FbTypes
  <2>2. m \in Nat
    BY <2>1
  <2>3. n \in Nat
    BY <2>1
  <2> QED
    BY <2>2, <2>3 DEF FbInv, FbTypes
<1>2. m <= n
  OBVIOUS
<1> HIDE DEF m, n
<1>3. ~torn /\ disk = "same" /\ closedAt > 0 => closedAt <= m
  BY DEF FbInv, FbClosing, m
<1>4. ~torn /\ disk = "same" /\ closedAt > 0 => closedAt <= n
  BY <1>1, <1>2, <1>3
<1> QED
  BY <1>4, Zenon DEF FbClosing, n

(* A queue without its first entry. *)
LEMMA QueuePopped ==
    ASSUME NEW files \in Seq(File), files # <<>>,
           \A i \in 1 .. Len(files) : ~files[i].hasFile => files[i].body = <<>>
    PROVE  /\ Tail(files) \in Seq(File)
           /\ \A i \in 1 .. Len(Tail(files)) : ~Tail(files)[i].hasFile => Tail(files)[i].body = <<>>
<1>1. /\ Tail(files) \in Seq(File) /\ Len(Tail(files)) = Len(files) - 1 /\ Len(files) \in Nat
      /\ \A i \in 1 .. Len(Tail(files)) : Tail(files)[i] = files[i + 1]
  BY HeadTailProperties
<1>2. ASSUME NEW i \in 1 .. Len(Tail(files)), ~Tail(files)[i].hasFile
      PROVE  Tail(files)[i].body = <<>>
  <2>1. i + 1 \in 1 .. Len(files)
    BY <1>1
  <2>2. Tail(files)[i] = files[i + 1]
    BY <1>1
  <2> QED
    BY <1>2, <2>1, <2>2
<1> QED
  BY <1>1, <1>2

(* A queue whose first file has become shorter. *)
LEMMA QueueCut ==
    ASSUME NEW files \in Seq(File), files # <<>>,
           \A i \in 1 .. Len(files) : ~files[i].hasFile => files[i].body = <<>>,
           files[1].hasFile, files[1].body # <<>>,
           NEW cut, cut = [files EXCEPT ![1].body = Tail(@)]
    PROVE  /\ cut \in Seq(File) /\ cut # <<>> /\ cut[1].body \in Seq(Unit)
           /\ \A i \in 1 .. Len(cut) : ~cut[i].hasFile => cut[i].body = <<>>
<1> DEFINE e == files[1]
           f == [e EXCEPT !.body = Tail(@)]
<1>1. e \in File /\ 1 \in 1 .. Len(files)
  OBVIOUS
<1>2. Tail(e.body) \in Seq(Unit)
  <2>1. e.body \in Seq(Unit)
    BY <1>1 DEF File
  <2> QED
    BY <2>1, HeadTailProperties
<1>3. f \in File /\ f.hasFile /\ f.body \in Seq(Unit)
  BY <1>1, <1>2, ZenonT(40) DEF File
<1>4. cut = [files EXCEPT ![1] = f]
  OBVIOUS
<1> HIDE DEF f
<1>5. /\ cut \in Seq(File) /\ Len(cut) = Len(files) /\ cut[1] = f
      /\ \A i \in 1 .. Len(files) : i # 1 => cut[i] = files[i]
  <2> DEFINE n == Len(files)
  <2>1. files \in [1 .. n -> File] /\ n \in Nat
    OBVIOUS
  <2> HIDE DEF n
  <2>2. 1 \in 1 .. n /\ f \in File /\ cut = [files EXCEPT ![1] = f]
    BY <1>1, <1>3, <1>4, ZenonT(40) DEF n
  <2>3. /\ cut \in [1 .. n -> File] /\ cut[1] = f
        /\ \A i \in 1 .. n : i # 1 => cut[i] = files[i]
    BY <2>1, <2>2, ZenonT(40)
  <2>4. cut \in Seq(File) /\ Len(cut) = n
    BY <2>1, <2>3
  <2> QED
    BY <2>3, <2>4 DEF n
<1>6. cut # <<>>
  BY <1>1, <1>5
<1>7. ASSUME NEW i \in 1 .. Len(cut), ~cut[i].hasFile PROVE cut[i].body = <<>>
  BY <1>3, <1>5, <1>7
<1> QED
  BY <1>3, <1>5, <1>6, <1>7, ZenonT(40)

(* Opening the first entry moves its header to buffer_; its file, or       *)
(* nothing, becomes the open rest.                                         *)
LEMMA FbOpen ==
    ASSUME FbInv, NEW t \in FbThreads, FlushOpen(t)
    PROVE  FbInv'
<1>1. /\ Goto(t, "header") /\ ~torn /\ flushing[t] = "open" /\ pending_files # <<>>
      /\ UNCHANGED <<torn, entry, wire, sockRoom, accepted, closedAt>>
  BY DEF FlushOpen, InTurn, At, fbKernel
<1>2. /\ flushing' \in [FbThreads -> Places] /\ FbAlone'
      /\ \A s \in FbThreads : flushing'[s] # "file"
  <2>1. FbTypes /\ FbAlone /\ "header" \in Places /\ "header" # "file" /\ flushing[t] \in InFlush
    BY <1>1 DEF FbInv, Places, InFlush
  <2>2. /\ flushing' \in [FbThreads -> Places] /\ flushing'[t] = "header" /\ FbAlone'
        /\ \A s \in FbThreads : s # t => flushing'[s] = flushing[s]
        /\ \A s \in FbThreads : s # t => flushing[s] # "file"
    BY <1>1, <2>1, FbGoto
  <2> QED
    BY <2>2
<1>3. FbEntry'
  BY <1>1 DEF FbInv, FbEntry
<1>4. CASE fd_
  <2>1. UNCHANGED <<pending_files, fd_, buffer_, bytes_sent, disk>>
    BY <1>4 DEF FlushOpen, fbObject
  <2>2. FbClosing'
    BY <1>1, <2>1, Zenon DEF FbInv, FbClosing
  <2>3. sockRoom' \in Nat /\ closedAt' \in Int
    BY <1>1 DEF FbInv, FbTypes
  <2> QED
    BY <1>1, <1>2, <1>3, <2>1, <2>2, <2>3, FbSame
<1>5. CASE ~fd_
  <2> DEFINE e == pending_files[1]
  <2>1. /\ pending_files \in Seq(File) /\ pending_files # <<>> /\ buffer_ \in Seq(Unit)
        /\ wire \in Seq(Unit)
    BY <1>1 DEF FbInv, FbTypes
  <2>2. e \in File
    BY <2>1
  <2>3. e.header \in Seq(Unit) /\ e.body \in Seq(Unit) /\ e.hasFile \in BOOLEAN
    BY <2>2, SMTT(40) DEF File
  <2>4. /\ buffer_' = buffer_ \o e.header /\ bytes_sent' = 0 /\ ~torn /\ UNCHANGED <<wire, accepted>>
        /\ disk' = "same" => disk = "same"
    BY <1>1, <1>5, SMTT(40) DEF FlushOpen, Opened
  <2>5. \/ fd_' = FALSE /\ pending_files' = Tail(pending_files) /\ (disk' = "same" => ~e.hasFile)
        \/ fd_' = TRUE /\ pending_files' = pending_files
        \/ /\ fd_' = TRUE /\ disk' = "changed" /\ e.hasFile /\ e.body # <<>>
           /\ pending_files' = [pending_files EXCEPT ![1].body = Tail(@)]
    BY <1>5 DEF FlushOpen, Opened
  <2>6. \A i \in 1 .. Len(pending_files) : ~pending_files[i].hasFile => pending_files[i].body = <<>>
    BY DEF FbInv, FbShape
  <2>7. /\ pending_files' \in Seq(File) /\ fd_' \in BOOLEAN
        /\ fd_' => pending_files' # <<>> /\ pending_files'[1].body \in Seq(Unit)
        /\ \A i \in 1 .. Len(pending_files') :
              ~pending_files'[i].hasFile => pending_files'[i].body = <<>>
    <3> DEFINE next == pending_files'
    <3>1. CASE fd_' = FALSE /\ next = Tail(pending_files)
      BY <2>1, <2>6, <3>1, QueuePopped, Zenon
    <3>2. CASE fd_' = TRUE /\ next = pending_files
      BY <2>1, <2>3, <2>6, <3>2, Zenon
    <3>3. CASE /\ fd_' = TRUE /\ e.hasFile /\ e.body # <<>>
               /\ next = [pending_files EXCEPT ![1].body = Tail(@)]
      <4> HIDE DEF next
      <4>1. /\ next \in Seq(File) /\ next # <<>> /\ next[1].body \in Seq(Unit)
            /\ \A i \in 1 .. Len(next) : ~next[i].hasFile => next[i].body = <<>>
        BY <2>1, <2>6, <3>3, QueueCut, ZenonT(40)
      <4> QED
        BY <3>3, <4>1, Zenon DEF next
    <3> QED
      BY <2>5, <3>1, <3>2, <3>3, Zenon
  <2>8. FbTypes'
    <3>1. buffer_' \in Seq(Unit)
      BY <2>1, <2>3, <2>4, ConcatProperties
    <3> QED
      BY <1>1, <1>2, <2>4, <2>7, <3>1, SMTT(40) DEF FbInv, FbTypes
  <2>9. FbShape'
    <3>1. fd_' => pending_files' # <<>> /\ bytes_sent' <= Len(pending_files'[1].body)
      BY <2>4, <2>7
    <3> QED
      BY <1>2, <2>7, <3>1, Zenon DEF FbShape
  <2>10. disk' = "same" =>
            /\ Todo' = Tail(pending_files) /\ OpenRest' = e.body
    <3> SUFFICES ASSUME disk' = "same" PROVE Todo' = Tail(pending_files) /\ OpenRest' = e.body
      OBVIOUS
    <3>1. CASE fd_' = TRUE /\ pending_files' = pending_files
      <4>1. OpenRest' = Drop(e.body, 0)
        BY <2>4, <3>1 DEF OpenRest, Left, Drop
      <4>2. OpenRest' = e.body
        BY <2>3, <4>1, DropNone
      <4> QED
        BY <3>1, <4>2, Zenon DEF Todo
    <3>2. CASE fd_' = FALSE /\ pending_files' = Tail(pending_files) /\ ~e.hasFile
      <4>1. 1 \in 1 .. Len(pending_files)
        BY <2>1
      <4>2. e.body = <<>>
        BY <2>6, <3>2, <4>1
      <4> QED
        BY <3>2, <4>2, Zenon DEF Todo, OpenRest
    <3> QED
      BY <2>5, <3>1, <3>2, ZenonT(40)
  <2>11. Todo = pending_files /\ OpenRest = <<>>
    BY <1>5 DEF Todo, OpenRest
  <2> HIDE DEF e
  <2>12. FbStream'
    <3> SUFFICES ASSUME disk' = "same" PROVE FbStream'
      BY Zenon DEF FbStream
    <3>1. PICK rest \in Seq(Unit) :
             /\ Joins(rest, Pieces(pending_files))
             /\ accepted = ((wire \o buffer_) \o <<>>) \o rest
      BY <2>4, <2>11, Zenon DEF FbInv, FbStream
    <3> DEFINE p == Pieces(pending_files)
               piece == e.header \o e.body
    <3>2. /\ p \in Seq(Seq(Unit)) /\ p # <<>> /\ p[1] = piece
          /\ Tail(p) = Pieces(Tail(pending_files))
      <4>1. Len(p) = Len(pending_files) /\ p \in Seq(Seq(Unit)) /\ p[1] = piece
        <5>1. 1 \in 1 .. Len(pending_files)
          BY <2>1
        <5>2. /\ Len(p) = Len(pending_files) /\ p \in Seq(Seq(Unit))
              /\ \A i \in 1 .. Len(pending_files) :
                   p[i] = pending_files[i].header \o pending_files[i].body
          <6> HIDE DEF p
          <6>1. pending_files \in Seq(File)
            BY <2>1
          <6> QED
            BY <6>1, PiecesType, Zenon DEF p
        <5> QED
          BY <5>1, <5>2, Zenon DEF e
      <4>2. p # <<>>
        BY <2>1, <4>1
      <4>3. Tail(p) = Pieces(Tail(pending_files))
        BY <2>1, PiecesTail, Zenon
      <4> QED
        BY <4>1, <4>2, <4>3
    <3> HIDE DEF p
    <3>3. Len(p[1]) \in 0 .. Len(rest) /\ SubSeq(rest, 1, Len(p[1])) = p[1]
      BY <3>1, <3>2, JoinsHead, Zenon DEF p
    <3>4. Joins(Drop(rest, Len(p[1])), Tail(p))
      BY <3>1, <3>2, JoinsTail, Zenon DEF p
    <3> DEFINE rest2 == Drop(rest, Len(p[1]))
    <3>5. rest2 \in Seq(Unit) /\ rest = piece \o rest2
      <4>1. rest2 \in Seq(Unit)
        BY <3>3, LastPart
      <4>2. SubSeq(rest, 1, Len(p[1])) \o rest2 = rest
        BY <3>3, CutAndJoin, Zenon
      <4> QED
        BY <3>2, <3>3, <4>1, <4>2, Zenon
    <3>6. Joins(rest2, Pieces(Todo'))
      BY <2>10, <3>2, <3>4, Zenon
    <3> HIDE DEF rest2
    <3>7. accepted' = ((wire' \o buffer_') \o OpenRest') \o rest2
      <4> DEFINE out == wire \o buffer_
      <4>1. out \in Seq(Unit) /\ out \o <<>> = out
        <5>1. out \in Seq(Unit)
          BY <2>1, ConcatProperties
        <5> HIDE DEF out
        <5> QED
          BY <5>1, ConcatEmptySeq
      <4>2. out \o e.header = wire \o (buffer_ \o e.header)
        <5> DEFINE x == e.header
        <5>1. x \in Seq(Unit) /\ wire \in Seq(Unit) /\ buffer_ \in Seq(Unit)
          BY <2>1, <2>3
        <5> HIDE DEF x
        <5>2. (wire \o buffer_) \o x = wire \o (buffer_ \o x)
          BY <5>1, UnitsConcat, SMTT(40)
        <5> QED
          BY <5>2, Zenon DEF x
      <4> HIDE DEF out
      <4>3. (out \o e.header) \o e.body = out \o piece
        BY <2>3, <4>1, UnitsConcat, Zenon
      <4>4. piece \in Seq(Unit)
        BY <2>3, ConcatProperties
      <4> HIDE DEF piece
      <4>5. (out \o piece) \o rest2 = out \o (piece \o rest2)
        BY <3>5, <4>1, <4>4, UnitsConcat, SMTT(40)
      <4>6. accepted = out \o (piece \o rest2)
        BY <3>1, <3>5, <4>1, Zenon DEF out
      <4> QED
        BY <2>4, <2>10, <4>2, <4>3, <4>5, <4>6, Zenon
    <3> QED
      BY <3>5, <3>6, <3>7, Zenon DEF FbStream
  <2>13. FbClosing'
    <3>1. buffer_' \in Seq(Unit) /\ wire' \in Seq(Unit)
      BY <2>8 DEF FbTypes
    <3>2. /\ Len(wire' \o buffer_') = Len(wire) + (Len(buffer_) + Len(e.header))
          /\ Len(wire \o buffer_) = Len(wire) + Len(buffer_)
      BY <2>1, <2>3, <2>4, <3>1, ConcatProperties
    <3>3. Len(wire) \in Nat /\ Len(buffer_) \in Nat /\ Len(e.header) \in Nat
      BY <2>1, <2>3
    <3>4. Len(wire \o buffer_) <= Len(wire' \o buffer_')
      BY <3>2, <3>3
    <3> QED
      BY <1>1, <2>4, <3>1, <3>4, ClosingGrows
  <2> QED
    BY <1>2, <1>3, <2>8, <2>9, <2>12, <2>13 DEF FbInv
<1> QED
  BY <1>4, <1>5 DEF FbInv, FbTypes

(* sendfile moves the front of the open rest to the kernel, and drops the  *)
(* entry when nothing is left of it.                                       *)
LEMMA FbFilePart ==
    ASSUME FbInv, NEW t \in FbThreads, SendFilePart(t)
    PROVE  FbInv'
<1> DEFINE body == pending_files[1].body
<1>1. /\ fd_ /\ buffer_ = <<>> /\ ~torn /\ flushing[t] = "file" /\ Goto(t, "open")
      /\ UNCHANGED <<buffer_, accepted, disk, torn, entry, closedAt>>
  BY DEF FbInv, FbShape, SendFilePart, InTurn, At, fbHistory
<1>2. /\ body \in Seq(Unit) /\ OpenRest \in Seq(Unit) /\ OpenRest = Drop(body, bytes_sent)
      /\ bytes_sent \in 0 .. Len(body) /\ Todo \in Seq(File)
  BY <1>1, OpenRestType DEF FbInv
<1>3. /\ wire \in Seq(Unit) /\ sockRoom \in Nat /\ bytes_sent \in Nat
      /\ pending_files \in Seq(File) /\ pending_files # <<>>
  BY <1>1 DEF FbInv, FbTypes, FbShape
<1>4. PICK n \in 0 .. Len(OpenRest) :
        /\ n = 0 \/ n \in 1 .. sockRoom
        /\ wire' = wire \o SubSeq(OpenRest, 1, n) /\ sockRoom' = sockRoom - n
        /\ bytes_sent' = bytes_sent + n /\ fd_' = (n < Len(OpenRest))
  <2>1. OpenRest = Left
    BY <1>1 DEF OpenRest
  <2> QED
    BY <2>1, ZenonT(40) DEF SendFilePart
<1>5. pending_files' = IF fd_' THEN pending_files ELSE Tail(pending_files)
  BY DEF SendFilePart
<1>6. /\ Tail(pending_files) \in Seq(File) /\ Len(Tail(pending_files)) = Len(pending_files) - 1
      /\ \A i \in 1 .. Len(Tail(pending_files)) : Tail(pending_files)[i] = pending_files[i + 1]
  BY <1>3, HeadTailProperties
<1> HIDE DEF body
<1>7. Len(OpenRest) = Len(body) - bytes_sent /\ Len(body) \in Nat
  <2>1. body \in Seq(Unit) /\ bytes_sent \in 0 .. Len(body)
    BY <1>2
  <2>2. Len(Drop(body, bytes_sent)) = Len(body) - bytes_sent /\ Len(body) \in Nat
    BY <2>1, LastPart
  <2> QED
    BY <1>2, <2>2, Zenon
<1>8. SubSeq(OpenRest, 1, n) \in Seq(Unit)
  BY <1>2, FirstPart, SMTT(40)
<1>9. flushing' \in [FbThreads -> Places] /\ FbAlone' /\ FbEntry'
  <2>1. FbTypes /\ FbAlone /\ "open" \in Places /\ flushing[t] \in InFlush
    BY <1>1 DEF FbInv, Places, InFlush
  <2>2. flushing' \in [FbThreads -> Places] /\ FbAlone'
    BY <1>1, <2>1, FbGoto
  <2> QED
    BY <1>1, <2>2 DEF FbInv, FbEntry
<1>10. FbTypes'
  <2>1. wire' \in Seq(Unit)
    BY <1>3, <1>4, <1>8, ConcatProperties
  <2>2. sockRoom' \in Nat /\ bytes_sent' \in Nat
    BY <1>3, <1>4
  <2>3. fd_' \in BOOLEAN
    BY <1>4
  <2>4. pending_files' \in Seq(File)
    BY <1>3, <1>5, <1>6
  <2> QED
    BY <1>1, <1>9, <2>1, <2>2, <2>3, <2>4, SMTT(40) DEF FbInv, FbTypes
<1>11. FbShape'
  <2>1. ASSUME fd_' PROVE pending_files' # <<>> /\ bytes_sent' <= Len(pending_files'[1].body)
    <3>1. pending_files' = pending_files
      BY <1>5, <2>1
    <3>2. bytes_sent' <= Len(body)
      BY <1>2, <1>4, <1>7
    <3> QED
      BY <1>3, <3>1, <3>2 DEF body
  <2>2. ASSUME NEW i \in 1 .. Len(pending_files'), ~pending_files'[i].hasFile
        PROVE  pending_files'[i].body = <<>>
    <3>1. CASE fd_'
      BY <1>5, <2>2, <3>1 DEF FbInv, FbShape
    <3>2. CASE ~fd_'
      <4>1. i \in 1 .. Len(Tail(pending_files)) /\ pending_files'[i] = Tail(pending_files)[i]
        BY <1>5, <3>2
      <4>2. i + 1 \in 1 .. Len(pending_files)
        BY <1>3, <1>6, <4>1
      <4>3. pending_files'[i] = pending_files[i + 1]
        BY <1>6, <4>1
      <4> QED
        BY <2>2, <4>2, <4>3 DEF FbInv, FbShape
    <3> QED
      BY <3>1, <3>2
  <2> QED
    BY <1>1, <2>1, <2>2, Zenon DEF FbShape
<1>12. Todo' = Todo
  BY <1>1, <1>5 DEF Todo
<1>13. OpenRest' = Drop(OpenRest, n)
  <2>1. Drop(OpenRest, n) = Drop(body, bytes_sent + n)
    <3>1. n \in 0 .. Len(body) - bytes_sent
      BY <1>7
    <3> QED
      BY <1>2, <3>1, DropDrop
  <2>2. CASE fd_'
    BY <1>4, <1>5, <2>1, <2>2, Zenon DEF OpenRest, Left, Drop, body
  <2>3. CASE ~fd_'
    <3>1. n = Len(OpenRest)
      <4>1. ~(n < Len(OpenRest))
        BY <1>4, <2>3, Zenon
      <4>2. Len(OpenRest) \in Nat
        BY <1>2
      <4> QED
        BY <4>1, <4>2
    <3>2. Drop(OpenRest, n) = <<>>
      BY <1>2, <3>1 DEF Drop
    <3> QED
      BY <2>3, <3>2 DEF OpenRest
  <2> QED
    BY <2>2, <2>3
<1>14. FbStream'
  <2> SUFFICES ASSUME disk' = "same" PROVE FbStream'
    BY Zenon DEF FbStream
  <2>1. PICK rest \in Seq(Unit) :
           /\ Joins(rest, Pieces(Todo))
           /\ accepted = ((wire \o buffer_) \o OpenRest) \o rest
    BY <1>1, Zenon DEF FbInv, FbStream
  <2> DEFINE x == SubSeq(OpenRest, 1, n)
             y == Drop(OpenRest, n)
  <2>2. x \in Seq(Unit) /\ y \in Seq(Unit) /\ x \o y = OpenRest
    BY <1>2, <1>8, LastPart, CutAndJoin, Zenon
  <2>3. wire' = wire \o x /\ OpenRest' = y
    BY <1>4, <1>13
  <2> HIDE DEF x, y
  <2>4. wire \o <<>> = wire
    BY <1>3, ConcatEmptySeq
  <2>5. (wire \o x) \o <<>> = wire \o x
    <3>1. wire \o x \in Seq(Unit)
      BY <1>3, <2>2, ConcatProperties
    <3> QED
      BY <3>1, ConcatEmptySeq
  <2>6. (wire \o x) \o y = wire \o (x \o y)
    BY <1>3, <2>2, UnitsConcat, ZenonT(40)
  <2>7. accepted' = ((wire' \o buffer_') \o OpenRest') \o rest
    BY <1>1, <2>1, <2>2, <2>3, <2>4, <2>5, <2>6, Zenon
  <2>8. Joins(rest, Pieces(Todo'))
    BY <1>12, <2>1, Zenon
  <2> QED
    BY <2>7, <2>8, Zenon DEF FbStream
<1>15. FbClosing'
  <2> DEFINE x == SubSeq(OpenRest, 1, n)
  <2>1. wire' \in Seq(Unit) /\ x \in Seq(Unit) /\ wire' = wire \o x
    BY <1>4, <1>8, <1>10, SMTT(40) DEF FbTypes
  <2> HIDE DEF x
  <2>2. Len(wire') = Len(wire) + Len(x)
    BY <1>3, <2>1, ConcatProperties
  <2>3. Len(wire \o buffer_) = Len(wire)
    BY <1>1, <1>3, ConcatEmptySeq, SMTT(40)
  <2>4. Len(wire' \o buffer_') = Len(wire')
    BY <1>1, <2>1, ConcatEmptySeq
  <2>5. Len(wire \o buffer_) <= Len(wire' \o buffer_')
    <3>1. Len(wire) \in Nat /\ Len(x) \in Nat
      BY <1>3, <2>1
    <3> QED
      BY <2>2, <2>3, <2>4, <3>1
  <2>6. buffer_' \in Seq(Unit)
    BY <1>10 DEF FbTypes
  <2> QED
    BY <1>1, <2>1, <2>5, <2>6, ClosingGrows
<1> QED
  BY <1>10, <1>11, <1>14, <1>15, <1>9, SMTT(40) DEF FbInv

(* A thread that comes into the object finds it free, or tears it. *)
LEMMA FbEnter ==
    ASSUME FbInv, SocketRoom \in Nat, NEW t \in FbThreads, Enter(t)
    PROVE  FbInv'
<1>1. /\ Goto(t, "first") /\ Touch(t, pending_files)
      /\ UNCHANGED <<entry, disk, accepted, closedAt>>
  BY DEF Enter, fbHistory
<1>2. /\ flushing' \in [FbThreads -> Places] /\ flushing'[t] = "first"
      /\ \A s \in FbThreads : s # t => flushing'[s] = flushing[s]
  BY <1>1 DEF Goto, FbInv, FbTypes, Places, InFlush
<1>3. FbEntry' /\ accepted' \in Seq(Unit) /\ closedAt' \in Int
  BY <1>1 DEF FbInv, FbEntry, FbTypes
<1>4. CASE Tears(t)
  BY <1>1, <1>2, <1>3, <1>4, FbTorn, Zenon
<1>5. CASE ~Tears(t)
  <2>1. ~torn /\ Tears(t) = FALSE /\ flushing[Other(t)] \notin InFlush
    BY <1>5, Zenon DEF Tears
  <2>2. torn = FALSE
    BY <2>1 DEF FbInv, FbTypes
  <2>3. /\ torn' = torn /\ pending_files' = pending_files
        /\ UNCHANGED <<buffer_, fd_, bytes_sent, wire, sockRoom>>
    BY <1>1, <2>1, <2>2, Zenon DEF Touch
  <2>4. FbAlone'
    <3>1. Other(t) \in FbThreads /\ Other(t) # t /\ flushing'[Other(t)] \notin InFlush
      BY <1>2, <2>1 DEF Other, FbThreads
    <3>2. {t, Other(t)} = {"worker", "loop"}
      BY DEF Other, FbThreads
    <3> QED
      BY <3>1, <3>2 DEF FbAlone
  <2>5. \A s \in FbThreads : flushing'[s] = "file" => flushing[s] = "file"
    BY <1>2
  <2>6. FbClosing'
    BY <1>1, <2>3, Zenon DEF FbInv, FbClosing
  <2>7. sockRoom' \in Nat
    BY <2>3 DEF FbInv, FbTypes
  <2> QED
    BY <1>1, <1>2, <1>3, <2>3, <2>4, <2>5, <2>6, <2>7, FbSame, Zenon
<1> QED
  BY <1>4, <1>5

(* With an empty queue everything accepted is on the wire or in buffer_. *)
LEMMA FbQueueEmpty ==
    ASSUME FbInv, ~torn, disk = "same", pending_files = <<>>
    PROVE  accepted = wire \o buffer_
<1>1. wire \in Seq(Unit) /\ buffer_ \in Seq(Unit)
  BY DEF FbInv, FbTypes
<1>2. ~fd_
  BY DEF FbInv, FbShape
<1>3. Todo = <<>> /\ OpenRest = <<>>
  BY <1>2 DEF Todo, OpenRest
<1>4. Pieces(<<>>) = <<>>
  <2>1. <<>> \in Seq(File)
    OBVIOUS
  <2>2. Pieces(<<>>) \in Seq(Seq(Unit)) /\ Len(Pieces(<<>>)) = Len(<<>>)
    BY <2>1, PiecesType, Zenon
  <2> QED
    BY <2>2
<1>5. PICK rest \in Seq(Unit) :
         Joins(rest, <<>>) /\ accepted = ((wire \o buffer_) \o <<>>) \o rest
  BY <1>3, <1>4, Zenon DEF FbInv, FbStream
<1>6. rest = <<>>
  BY <1>5, JoinsNone
<1> DEFINE out == wire \o buffer_
<1>7. out \in Seq(Unit)
  BY <1>1, ConcatProperties
<1> HIDE DEF out
<1>8. out \o <<>> = out
  BY <1>7, ConcatEmptySeq
<1> QED
  BY <1>5, <1>6, <1>8, ZenonT(40) DEF out

(* The decision to close is taken with an empty queue. *)
LEMMA FbDecides ==
    ASSUME FbInv, UNCHANGED <<torn, wire, buffer_, disk>>, NEW empty \in FbEmpty,
           UNCHANGED closedAt \/ (empty /\ Decides)
    PROVE  FbClosing' /\ closedAt' \in Int
<1>1. accepted \in Seq(Unit) /\ closedAt \in Int /\ Len(accepted) \in Nat
  BY DEF FbInv, FbTypes
<1>2. closedAt' = closedAt \/ (empty /\ closedAt' = Len(accepted))
  BY Zenon DEF Decides
<1>3. closedAt' \in Int
  BY <1>1, <1>2
<1>4. CASE closedAt' = closedAt
  BY <1>3, <1>4, Zenon DEF FbInv, FbClosing
<1>5. CASE empty /\ closedAt' = Len(accepted)
  <2> SUFFICES ASSUME ~torn, disk = "same" PROVE closedAt' <= Len(wire \o buffer_)
    BY <1>3, Zenon DEF FbClosing
  <2>1. FbEmpty = {pending_files = <<>>}
    BY Zenon DEF FbEmpty
  <2>2. pending_files = <<>>
    BY <1>5, <2>1, Zenon
  <2>3. accepted = wire \o buffer_
    BY <2>2, FbQueueEmpty
  <2> QED
    BY <1>1, <1>5, <2>3
<1> QED
  BY <1>2, <1>3, <1>4, <1>5

(* A step that leaves the object alone. *)
LEMMA FbMove ==
    ASSUME FbInv, UNCHANGED <<pending_files, fd_, buffer_, wire, accepted, bytes_sent>>,
           torn' = torn, disk' = "same" => disk = "same", sockRoom' \in Nat,
           closedAt' \in Int, FbClosing', FbEntry',
           \/ flushing' = flushing
           \/ \E t \in FbThreads, place \in Places \ InFlush : Goto(t, place)
    PROVE  FbInv'
<1>1. FbTypes /\ FbAlone
  BY DEF FbInv
<1>2. CASE flushing' = flushing
  <2>1. /\ flushing' \in [FbThreads -> Places] /\ FbAlone'
        /\ \A t \in FbThreads : flushing'[t] = "file" => flushing[t] = "file"
    BY <1>1, <1>2, SMTT(40) DEF FbTypes, FbAlone
  <2> QED
    BY <2>1, FbSame
<1>3. ASSUME NEW t \in FbThreads, NEW place \in Places \ InFlush, Goto(t, place)
      PROVE  FbInv'
  <2>1. place \in Places /\ place \notin InFlush /\ place # "file"
    BY DEF InFlush
  <2>2. /\ flushing' \in [FbThreads -> Places] /\ flushing'[t] = place /\ FbAlone'
        /\ \A s \in FbThreads : s # t => flushing'[s] = flushing[s]
    BY <1>1, <1>3, <2>1, FbGoto
  <2>3. \A s \in FbThreads : flushing'[s] = "file" => flushing[s] = "file"
    BY <2>1, <2>2
  <2> QED
    BY <2>2, <2>3, FbSame
<1> QED
  BY <1>2, <1>3

LEMMA FbReturns ==
    ASSUME NEW t \in FbThreads, NEW r, Return(t, r)
    PROVE  \E s \in FbThreads, place \in Places \ InFlush : Goto(s, place)
<1> DEFINE place == IF t = "loop" THEN "decide" ELSE "enable"
<1>1. Goto(t, place)
  BY DEF Return
<1>2. place \in Places \ InFlush
  BY DEF Places, InFlush
<1> HIDE DEF place
<1> QED
  BY <1>1, <1>2, Zenon

(* Every step of a flush. *)
LEMMA FbFlushStep ==
    ASSUME FbInv, NEW t \in FbThreads, FlushStep(t)
    PROVE  FbInv'
<1>1. CASE FlushFirst(t)
  <2>1. FlushBuffer(t, "open") /\ ~torn /\ flushing[t] \in InFlush
    BY <1>1 DEF FlushFirst, InTurn, At, InFlush
  <2> QED
    BY <2>1, FbFlush
<1>2. CASE FlushHeader(t)
  <2>1. /\ FlushBuffer(t, IF fd_ THEN "file" ELSE "open") /\ ~torn /\ flushing[t] \in InFlush
        /\ (IF fd_ THEN "file" ELSE "open") \in {"open", "file"}
    BY <1>2 DEF FlushHeader, InTurn, At, InFlush
  <2> QED
    BY <2>1, FbFlush
<1>3. CASE FlushOpen(t)
  BY <1>3, FbOpen
<1>4. CASE SendFilePart(t)
  BY <1>4, FbFilePart
<1>5. CASE SendFileFails(t) \/ FlushDone(t) \/ FlushTorn(t) \/ EnableWrite(t)
  <2>1. /\ UNCHANGED <<pending_files, fd_, buffer_, wire, accepted, bytes_sent, torn, disk,
                       sockRoom, closedAt, entry>>
    BY <1>5 DEF SendFileFails, FlushDone, FlushTorn, EnableWrite, fbObject, fbKernel, fbHistory
  <2>2. \/ flushing' = flushing
        \/ \E s \in FbThreads, place \in Places \ InFlush : Goto(s, place)
    <3>1. CASE SendFileFails(t)
      <4>1. flushing' = flushing \/ Return(t, -1)
        BY <3>1, Zenon DEF SendFileFails
      <4> QED
        BY <4>1, FbReturns, Zenon
    <3>2. CASE FlushDone(t)
      <4>1. Return(t, 0)
        BY <3>2, Zenon DEF FlushDone
      <4> QED
        BY <4>1, FbReturns, Zenon
    <3>3. CASE FlushTorn(t)
      <4>1. flushing' = flushing \/ \E r \in {-1, 0} : Return(t, r)
        BY <3>3, Zenon DEF FlushTorn
      <4> QED
        BY <4>1, FbReturns, Zenon
    <3>4. CASE EnableWrite(t)
      <4>1. Goto(t, "no") /\ "no" \in Places \ InFlush
        BY <3>4 DEF EnableWrite, Places, InFlush
      <4> QED
        BY <4>1, Zenon
    <3> QED
      BY <1>5, <3>1, <3>2, <3>3, <3>4
  <2>3. FbClosing' /\ FbEntry'
    BY <2>1, ZenonT(40) DEF FbInv, FbClosing, FbEntry
  <2>4. sockRoom' \in Nat /\ closedAt' \in Int
    BY <2>1 DEF FbInv, FbTypes
  <2> QED
    BY <2>1, <2>2, <2>3, <2>4, FbMove, ZenonT(40)
<1> QED
  BY <1>1, <1>2, <1>3, <1>4, <1>5 DEF FlushStep

(* Every step of the connection and of the peer. *)
LEMMA FbStep ==
    ASSUME FbInv, SocketRoom \in Nat, SendStep \/ FbLoopStep \/ FbPeerReads \/ FbPeerStep
    PROVE  FbInv'
<1>1. "worker" \in FbThreads /\ "loop" \in FbThreads
  BY DEF FbThreads
<1>2. CASE FlushStep("worker") \/ FlushStep("loop")
  BY <1>1, <1>2, FbFlushStep
<1>3. CASE AddFile
  BY <1>3, FbAdd
<1>4. CASE SendFlushes \/ OnWriteCallback
  BY <1>1, <1>4, FbEnter DEF SendFlushes, OnWriteCallback
<1>5. CASE OnWriteDecides \/ OnReadDecides
  <2>1. UNCHANGED <<pending_files, fd_, buffer_, wire, accepted, bytes_sent, torn, disk,
                    sockRoom, entry>>
    BY <1>5 DEF OnWriteDecides, OnReadDecides, fbObject
  <2>2. \E empty \in FbEmpty : UNCHANGED closedAt \/ (empty /\ Decides)
    BY <1>5, Zenon DEF OnWriteDecides, OnReadDecides
  <2>3. FbClosing' /\ closedAt' \in Int
    BY <2>1, <2>2, FbDecides, Zenon
  <2>4. \E place \in {"no", "enable"} : Goto("loop", place)
    BY <1>5, Zenon DEF OnWriteDecides, OnReadDecides
  <2>5. \E s \in FbThreads, place \in Places \ InFlush : Goto(s, place)
    <3>1. {"no", "enable"} \subseteq Places \ InFlush
      BY DEF Places, InFlush
    <3> QED
      BY <1>1, <2>4, <3>1, Zenon
  <2>6. FbEntry' /\ sockRoom' \in Nat
    BY <2>1 DEF FbInv, FbEntry, FbTypes
  <2> QED
    BY <2>1, <2>3, <2>5, <2>6, FbMove, ZenonT(40)
<1>6. CASE OnHangUp \/ FbPeerReads \/ FbPeerEnds \/ FbPeerResets \/ FileShrinks
  <2>1. /\ UNCHANGED <<pending_files, fd_, buffer_, wire, accepted, bytes_sent, torn, flushing,
                       entry, closedAt>>
        /\ disk' = "same" => disk = "same"
    BY <1>6, SMTT(40) DEF OnHangUp, FbPeerReads, FbPeerEnds, FbPeerResets, FileShrinks, fbObject, fbKernel,
         fbHistory
  <2>2. sockRoom' \in Nat
    BY <1>6 DEF OnHangUp, FbPeerReads, FbPeerEnds, FbPeerResets, FileShrinks, fbKernel, FbInv, FbTypes
  <2>3. FbClosing' /\ FbEntry'
    BY <2>1, Zenon DEF FbInv, FbClosing, FbEntry
  <2>4. closedAt' \in Int
    BY <2>1 DEF FbInv, FbTypes
  <2> QED
    BY <2>1, <2>2, <2>3, <2>4, FbMove, ZenonT(40)
<1> QED
  BY <1>2, <1>3, <1>4, <1>5, <1>6, SMTT(40) DEF SendStep, FbLoopStep, FbPeerStep

LEMMA FbInvInit ==
    ASSUME FileBufferInit, SocketRoom \in Nat
    PROVE  FbInv
<1>1. FbTypes /\ FbEntry /\ FbShape /\ FbAlone /\ FbClosing
  <2>1. /\ <<>> \in Seq(File) /\ <<>> \in Seq(Unit) /\ 0 \in Nat /\ -1 \in Int
        /\ NoFile(<<>>) \in File /\ NoFile(<<>>).body = <<>>
    <3>1. <<>> \in Seq(File) /\ <<>> \in Seq(Unit)
      OBVIOUS
    <3>2. 0 \in Nat /\ -1 \in Int
      BY SMTT(40)
    <3>3. NoFile(<<>>) \in File /\ NoFile(<<>>).body = <<>>
      BY <3>1, ZenonT(40) DEF NoFile, File
    <3> QED
      BY <3>1, <3>2, <3>3, Zenon
  <2>2. flushing \in [FbThreads -> Places] /\ \A t \in FbThreads : flushing[t] = "no"
    BY DEF FileBufferInit, Places
  <2>3. FbTypes /\ FbEntry
    BY <2>1, <2>2, ZenonT(40) DEF FileBufferInit, FbTypes, FbEntry
  <2>4. FbShape
    BY <2>2 DEF FileBufferInit, FbShape
  <2>5. FbAlone
    BY <2>2 DEF FbAlone, InFlush, FbThreads
  <2>6. FbClosing
    BY DEF FileBufferInit, FbClosing
  <2> QED
    BY <2>3, <2>4, <2>5, <2>6
<1>2. Pieces(Todo) = <<>> /\ OpenRest = <<>>
  <2>1. Todo = <<>> /\ OpenRest = <<>>
    BY DEF FileBufferInit, Todo, OpenRest
  <2>2. Pieces(<<>>) = <<>>
    <3>1. <<>> \in Seq(File)
      OBVIOUS
    <3>2. Pieces(<<>>) \in Seq(Seq(Unit)) /\ Len(Pieces(<<>>)) = Len(<<>>)
      BY <3>1, PiecesType, Zenon
    <3> QED
      BY <3>2
  <2> QED
    BY <2>1, <2>2
<1>3. Joins(<<>>, Pieces(Todo)) /\ <<>> \in Seq(Unit)
  <2>1. <<>> \in Seq(Unit)
    OBVIOUS
  <2>2. Joins(<<>>, <<>>)
    BY <2>1, JoinsNone, Zenon
  <2> QED
    BY <1>2, <2>1, <2>2, Zenon
<1>4. accepted = ((wire \o buffer_) \o OpenRest) \o <<>>
  BY <1>2 DEF FileBufferInit
<1>5. FbStream
  BY <1>3, <1>4, Zenon DEF FbStream
<1> QED
  BY <1>1, <1>5 DEF FbInv

LEMMA FbInvImplies ==
    ASSUME FbInv
    PROVE  StreamInOrder /\ ClosedAfterFiles
<1>1. wire \in Seq(Unit) /\ buffer_ \in Seq(Unit) /\ OpenRest \in Seq(Unit)
  BY OpenRestType, SMTT(40) DEF FbInv, FbTypes
<1> DEFINE out == wire \o buffer_
<1>2. out \in Seq(Unit)
  BY <1>1, ConcatProperties
<1> SUFFICES ASSUME ~torn, disk = "same"
             PROVE  /\ wire = SubSeq(accepted, 1, Len(wire))
                    /\ closedAt > 0 => /\ closedAt <= Len(out)
                                       /\ SubSeq(out, 1, closedAt) = SubSeq(accepted, 1, closedAt)
  BY Zenon DEF StreamInOrder, ClosedAfterFiles
<1>3. PICK rest \in Seq(Unit) : accepted = (out \o OpenRest) \o rest
  BY Zenon DEF FbInv, FbStream
<1> DEFINE x == OpenRest \o rest
           y == buffer_ \o x
<1>4. x \in Seq(Unit)
  BY <1>1, ConcatProperties, SMTT(40)
<1>5. y \in Seq(Unit)
  BY <1>1, <1>4, ConcatProperties
<1>6. accepted = out \o x
  <2> HIDE DEF out
  <2>1. (out \o OpenRest) \o rest = out \o (OpenRest \o rest)
    <3> DEFINE o == OpenRest
    <3>1. o \in Seq(Unit)
      BY <1>1
    <3> HIDE DEF o
    <3>2. (out \o o) \o rest = out \o (o \o rest)
      BY <1>2, <3>1, UnitsConcat
    <3> QED
      BY <3>2, Zenon DEF o
  <2> QED
    BY <1>3, <2>1, Zenon
<1> HIDE DEF x
<1>7. accepted = wire \o y
  <2>1. (wire \o buffer_) \o x = wire \o (buffer_ \o x)
    <3>1. wire \in Seq(Unit) /\ buffer_ \in Seq(Unit)
      BY <1>1
    <3> QED
      BY <1>4, <3>1, UnitsConcat, SMTT(40)
  <2> QED
    BY <1>6, <2>1, Zenon
<1> HIDE DEF y
<1>8. SubSeq(wire \o y, 1, Len(wire)) = wire
  BY <1>1, <1>5
<1>9. wire = SubSeq(accepted, 1, Len(wire))
  BY <1>7, <1>8, Zenon
<1>10. ASSUME closedAt > 0
       PROVE  closedAt <= Len(out) /\ SubSeq(out, 1, closedAt) = SubSeq(accepted, 1, closedAt)
  <2>1. closedAt <= Len(out)
    BY <1>10 DEF FbInv, FbClosing
  <2>2. closedAt \in Int
    BY DEF FbInv, FbTypes
  <2> HIDE DEF out
  <2>3. Len(out) \in Nat /\ closedAt \in 0 .. Len(out)
    BY <1>2, <1>10, <2>1, <2>2
  <2>4. SubSeq(out \o x, 1, closedAt) = SubSeq(out, 1, closedAt)
    BY <1>2, <1>4, <2>3
  <2> QED
    BY <1>6, <2>1, <2>4, Zenon
<1> QED
  BY <1>9, <1>10, ZenonT(40)

(* Send, the read of the socket and ShutDownWrite leave the object alone. *)
LEMMA FbSend ==
    ASSUME FbInv, NEW h \in Seq(Unit), NEW f \in BOOLEAN, NEW b \in Seq(Unit),
           ~f => b = <<>>, SendFile(h, f, b)
    PROVE  FbInv'
<1>1. UNCHANGED <<pending_files, fd_, buffer_, wire, accepted, bytes_sent, torn, disk, sockRoom,
                  closedAt>>
  BY DEF SendFile, fbObject, fbKernel, fbHistory
<1>2. FbEntry'
  <2> DEFINE e == [header |-> h, hasFile |-> f, body |-> b]
  <2>1. e \in File /\ (~e.hasFile => e.body = <<>>)
    BY DEF File
  <2>2. entry' = entry \/ entry' = e
    BY Zenon DEF SendFile
  <2> HIDE DEF e
  <2> QED
    BY <2>1, <2>2, SMTT(40) DEF FbInv, FbEntry
<1>3. \/ flushing' = flushing
      \/ \E t \in FbThreads, place \in Places \ InFlush : Goto(t, place)
  <2>1. flushing' = flushing \/ Goto("worker", "add")
    BY Zenon DEF SendFile
  <2>2. "worker" \in FbThreads /\ "add" \in Places \ InFlush
    BY DEF FbThreads, Places, InFlush
  <2> QED
    BY <2>1, <2>2, Zenon
<1>4. FbClosing' /\ sockRoom' \in Nat /\ closedAt' \in Int
  <2>1. sockRoom' \in Nat /\ closedAt' \in Int
    BY <1>1 DEF FbInv, FbTypes
  <2> QED
    BY <1>1, <2>1, ZenonT(40) DEF FbInv, FbClosing
<1> QED
  BY <1>1, <1>2, <1>3, <1>4, FbMove, ZenonT(40)

LEMMA FbReadOrShut ==
    ASSUME FbInv, HttpReads \/ HttpShutDownWrite
    PROVE  FbInv' /\ UNCHANGED <<accepted, entry>>
<1>1. UNCHANGED <<pending_files, fd_, buffer_, wire, accepted, bytes_sent, torn, disk, sockRoom,
                  closedAt, entry>>
  BY DEF HttpReads, OnReadCallback, HttpShutDownWrite, fbObject, fbHistory
<1>2. \/ flushing' = flushing
      \/ \E t \in FbThreads, place \in Places \ InFlush : Goto(t, place)
  <2>1. flushing' = flushing \/ Goto("loop", "fin")
    BY Zenon DEF HttpReads, OnReadCallback, HttpShutDownWrite
  <2>2. "loop" \in FbThreads /\ "fin" \in Places \ InFlush
    BY DEF FbThreads, Places, InFlush
  <2> QED
    BY <2>1, <2>2, Zenon
<1>3. FbClosing' /\ FbEntry'
  BY <1>1, Zenon DEF FbInv, FbClosing, FbEntry
<1>4. sockRoom' \in Nat /\ closedAt' \in Int
  BY <1>1 DEF FbInv, FbTypes
<1> QED
  BY <1>1, <1>2, <1>3, <1>4, FbMove, ZenonT(40)

-------------------------------------------------------------------------------
(* Http: the requests as bytes, and the stream yet to be parsed. *)
HByte == Nat \X Nat
RequestBytes(i, r) == Bytes(i, r.head + IF r.body > 0 THEN r.body ELSE 0)
Sent == [i \in 1 .. Len(requests) |-> RequestBytes(i, requests[i])]
Unparsed == httpBuffer \o inbound

(* Streams of requests are joined in either order. *)
LEMMA HBytesConcat ==
    ASSUME NEW a \in Seq(HByte), NEW b \in Seq(HByte), NEW c \in Seq(HByte)
    PROVE  /\ a \o b \in Seq(HByte) /\ Len(a \o b) = Len(a) + Len(b)
           /\ (a \o b) \o c = a \o (b \o c)
<1>1. a \o b \in Seq(HByte) /\ Len(a \o b) = Len(a) + Len(b)
  BY ConcatProperties, SMTT(40)
<1>2. (a \o b) \o c = a \o (b \o c)
  BY ConcatAssociative, SMTT(20)
<1> QED
  BY <1>1, <1>2

ReplyTo == [request : Nat, sent : BOOLEAN]
HttpTypes ==
    /\ requests \in Seq(Requests) /\ inbound \in Seq(HByte) /\ httpBuffer \in Seq(HByte)
    /\ replies \in Seq(ReplyTo)

(* The first t requests have their replies, and the next one has some only *)
(* if it is rejected and stays.                                            *)
RepliesFor(t) ==
    /\ Len(replies) >= t
    /\ \A j \in 1 .. Len(replies) : replies[j].request = IF j <= t THEN j ELSE t + 1
    /\ Len(replies) > t => t < Len(requests) /\ requests[t + 1].kind = "noColon"

(* A reply is dropped, and with it all that follow, once shut_down_ is set. *)
RepliesDropped ==
    \A j \in 1 .. Len(replies) :
        ~replies[j].sent => fbShut /\ \A k \in j .. Len(replies) : ~replies[k].sent

HttpInv ==
    /\ HttpTypes /\ RepliesDropped
    /\ \E t \in Nat : Pending(Unparsed, Sent, t) /\ RepliesFor(t)

(* What was accepted for sending: units of requests that were received,    *)
(* framed.                                                                 *)
IsHead(u) == u.status \notin {"file", "gzip"}
Framed ==
    /\ \A p \in 1 .. Len(accepted) :
          /\ accepted[p].reply \in 1 .. Len(requests)
          /\ IsHead(accepted[p]) /\ requests[accepted[p].reply].kind = "get"
               => accepted[p].length \in Nat
    /\ RepliesFramed

(* A reply is a head and the units it counts, or nothing. *)
Segment(g, i, counted) ==
    g = <<>> \/ \E n \in Nat :
        /\ Len(g) = n + 1 /\ IsHead(g[1])
        /\ \A k \in 2 .. n + 1 : ~IsHead(g[k])
        /\ \A k \in 1 .. n + 1 : g[k].reply = i
        /\ counted => g[1].length = n

(* So is what the worker is about to add. *)
EntryFramed ==
    LET g == entry.header \o entry.body
    IN  g = <<>> \/ \E i \in 1 .. Len(requests) : Segment(g, i, requests[i].kind = "get")

HttpInvs == FbInv /\ HttpInv /\ Framed /\ EntryFramed

LEMMA BytesShape ==
    ASSUME NEW i \in Nat, NEW r \in Requests
    PROVE  /\ RequestBytes(i, r) \in Seq(HByte) /\ RequestBytes(i, r)[1] = <<i, 1>>
           /\ Len(RequestBytes(i, r)) = r.head + IF r.body > 0 THEN r.body ELSE 0
           /\ Len(RequestBytes(i, r)) >= 1 /\ Len(RequestBytes(i, r)) \in Nat
<1> DEFINE n == r.head + IF r.body > 0 THEN r.body ELSE 0
<1>1. r.body \in Nat \cup {-1} /\ r.head \in Nat \ {0}
  BY HttpAssumption
<1>2. n \in Nat /\ n >= 1 /\ 1 \in 1 .. n
  BY <1>1
<1> HIDE DEF n
<1>3. \A j \in 1 .. n : <<i, j>> \in HByte
  BY <1>2 DEF HByte
<1>4. Bytes(i, n) \in Seq(HByte) /\ Len(Bytes(i, n)) = n /\ Bytes(i, n)[1] = <<i, 1>>
  BY <1>2, <1>3 DEF Bytes
<1>5. RequestBytes(i, r) = Bytes(i, n)
  BY DEF RequestBytes, n
<1> QED
  BY <1>2, <1>4, <1>5 DEF n

LEMMA SentType ==
    ASSUME requests \in Seq(Requests)
    PROVE  /\ Sent \in Seq(Seq(HByte)) /\ Len(Sent) = Len(requests)
           /\ \A i \in 1 .. Len(requests) : Sent[i] = RequestBytes(i, requests[i])
<1>1. \A i \in 1 .. Len(requests) : RequestBytes(i, requests[i]) \in Seq(HByte)
  <2> SUFFICES ASSUME NEW i \in 1 .. Len(requests)
               PROVE  RequestBytes(i, requests[i]) \in Seq(HByte)
    OBVIOUS
  <2>1. requests[i] \in Requests /\ i \in Nat
    OBVIOUS
  <2> QED
    BY <2>1, BytesShape, Zenon
<1>2. Len(requests) \in Nat
  OBVIOUS
<1> QED
  BY <1>1, <1>2 DEF Sent

LEMMA SentAppend ==
    ASSUME requests \in Seq(Requests), NEW r \in Requests, requests' = Append(requests, r)
    PROVE  Sent' = Append(Sent, RequestBytes(Len(requests'), r))
<1> DEFINE f == RequestBytes(Len(requests'), r)
           g == Append(Sent, f)
<1>1. /\ requests' \in Seq(Requests) /\ Len(requests') = Len(requests) + 1
      /\ Len(requests) \in Nat
      /\ \A i \in 1 .. Len(requests) : requests'[i] = requests[i]
      /\ requests'[Len(requests')] = r
  BY SMTT(40)
<1>2. f \in Seq(HByte)
  BY <1>1, BytesShape, SMTT(40)
<1>3. /\ Sent \in Seq(Seq(HByte)) /\ Len(Sent) = Len(requests)
      /\ \A i \in 1 .. Len(requests) : Sent[i] = RequestBytes(i, requests[i])
  BY SentType, SMTT(40)
<1> HIDE DEF f
<1>4. /\ g \in Seq(Seq(HByte)) /\ Len(g) = Len(Sent) + 1
      /\ \A i \in 1 .. Len(Sent) : g[i] = Sent[i]
      /\ g[Len(Sent) + 1] = f
  <2>1. Sent \in Seq(Seq(HByte))
    BY <1>3, SMTT(40)
  <2> QED
    BY <1>2, <2>1, AppendProperties
<1> HIDE DEF g
<1>5. \A i \in 1 .. Len(requests') : g[i] = RequestBytes(i, requests'[i])
  <2> SUFFICES ASSUME NEW i \in 1 .. Len(requests')
               PROVE  g[i] = RequestBytes(i, requests'[i])
    OBVIOUS
  <2>1. CASE i = Len(requests')
    <3>1. g[i] = f
      BY <1>1, <1>3, <1>4, <2>1, SMTT(40)
    <3> QED
      BY <1>1, <2>1, <3>1, SMTT(40) DEF f
  <2>2. CASE i # Len(requests')
    <3>1. i \in 1 .. Len(requests)
      BY <1>1, <2>2, SMTT(40)
    <3>2. g[i] = RequestBytes(i, requests[i])
      BY <1>3, <1>4, <3>1, SMTT(40)
    <3> QED
      BY <1>1, <3>1, <3>2, SMTT(40)
  <2> QED
    BY <2>1, <2>2, SMTT(40)
<1>6. Len(g) = Len(requests')
  BY <1>1, <1>3, <1>4, SMTT(40)
<1>7. g = [i \in 1 .. Len(requests') |-> RequestBytes(i, requests'[i])]
  BY <1>1, <1>4, <1>5, <1>6, SMTT(40)
<1>8. Sent' = [i \in 1 .. Len(requests') |-> RequestBytes(i, requests'[i])]
  BY DEF Sent
<1> QED
  BY <1>7, <1>8, Zenon DEF g, f

(* What is not parsed starts with the next request. *)
LEMMA NextRequest ==
    ASSUME HttpTypes, NEW t \in Nat, Pending(Unparsed, Sent, t)
    PROVE  /\ Unparsed \in Seq(HByte)
           /\ t \in 0 .. Len(requests)
           /\ Unparsed = <<>> => t = Len(requests)
           /\ Unparsed # <<>> => t < Len(requests) /\ Unparsed[1] = <<t + 1, 1>>
<1>1. requests \in Seq(Requests)
  BY DEF HttpTypes
<1>2. /\ Sent \in Seq(Seq(HByte)) /\ Len(Sent) = Len(requests)
      /\ \A i \in 1 .. Len(requests) : Sent[i] = RequestBytes(i, requests[i])
  BY <1>1, SentType
<1>3. t \in 0 .. Len(requests)
  BY <1>2 DEF Pending
<1>4. Unparsed \in Seq(HByte)
  BY ConcatProperties DEF Unparsed, HttpTypes
<1>5. ASSUME t < Len(requests) PROVE Unparsed # <<>> /\ Unparsed[1] = <<t + 1, 1>>
  <2> DEFINE f == Sent[t + 1]
  <2>1. t + 1 \in 1 .. Len(requests) /\ t + 1 \in Nat /\ t < Len(Sent)
    BY <1>2, <1>3, <1>5
  <2>2. requests[t + 1] \in Requests
    BY <1>1, <2>1, SMTT(40)
  <2>3. f = RequestBytes(t + 1, requests[t + 1])
    BY <1>2, <2>1
  <2>4. f \in Seq(HByte) /\ Len(f) \in Nat /\ Len(f) >= 1 /\ f[1] = <<t + 1, 1>>
    BY <2>1, <2>2, <2>3, BytesShape, ZenonT(40)
  <2>5. Len(f) \in 0 .. Len(Unparsed) /\ SubSeq(Unparsed, 1, Len(f)) = f
    <3>1. Sent \in Seq(Seq(HByte)) /\ t < Len(Sent)
      BY <1>2, <2>1, SMTT(40)
    <3> QED
      BY <1>4, <3>1, PendingFirst
  <2> HIDE DEF f
  <2>6. 1 \in 1 .. Len(f)
    BY <2>4, SMTT(40)
  <2>7. SubSeq(Unparsed, 1, Len(f))[1] = Unparsed[1]
    BY <1>4, <2>5, <2>6, FirstPart
  <2> QED
    BY <1>4, <2>4, <2>5, <2>6, <2>7
<1>6. ASSUME t = Len(requests) PROVE Unparsed = <<>>
  <2>1. Sent \in Seq(Seq(HByte)) /\ t = Len(Sent)
    BY <1>2, <1>6, SMTT(40)
  <2> QED
    BY <1>4, <2>1, PendingNone
<1> QED
  BY <1>3, <1>4, <1>5, <1>6
-------------------------------------------------------------------------------
Statuses == {"kOk", "kBadRequest", "kMethodNotAllowed"}

LEMMA ResponseFacts ==
    ASSUME NEW r \in Requests, NEW st \in Statuses, r.kind = "get" => st = "kOk",
           NEW c \in HttpOnMessage(r, st)
    PROVE  /\ c.status \in {"kOk", "error", "none"} /\ c.length \in Int
           /\ c.size \in Nat \cup {-1}
           /\ c.gzip => c.size > 0
           /\ c.size >= 0 => c.length = c.size /\ c.status = "kOk"
           /\ r.kind = "get" /\ c.size < 0 => c.length = 0
<1>1. /\ r.size \in Nat \cup {-1} /\ Threshold \in Nat
      /\ {r.http10, r.accepts, r.compressible} \subseteq BOOLEAN
  BY HttpAssumption
<1>2. PICK registered \in Registered(r) :
        c \in IF registered THEN Responses(r, st) ELSE {Response("error", FALSE, -1, -1)}
  BY Zenon DEF HttpOnMessage
<1>3. r.kind = "get" => registered = TRUE
  BY <1>2, SMTT(40) DEF Registered
<1>4. CASE ~registered
  <2>1. c = [status |-> "error", gzip |-> FALSE, length |-> -1, size |-> -1]
    BY <1>2, <1>4, ZenonT(40) DEF Response
  <2> QED
    BY <1>3, <1>4, <2>1
<1>5. CASE registered
  <2>1. c \in Responses(r, st)
    BY <1>2, <1>5, ZenonT(40)
  <2>2. CASE st # "kOk"
    <3>1. PICK any \in {"kOk", "error", "none"} :
            c = [status |-> any, gzip |-> FALSE, length |-> -1, size |-> -1]
      BY <2>1, <2>2, ZenonT(40) DEF Responses, Response
    <3> QED
      BY <2>2, <3>1
  <2>3. CASE st = "kOk" /\ r.size >= 0
    <3>1. c = [status |-> "kOk", gzip |-> Compresses(r), length |-> r.size, size |-> r.size]
      BY <2>1, <2>3, Zenon DEF Responses, Response
    <3>2. /\ c.status = "kOk" /\ c.length = r.size /\ c.size = r.size
          /\ c.gzip = Compresses(r)
      BY <3>1, Zenon
    <3>3. c.gzip => r.size > Threshold
      BY <3>2, ZenonT(40) DEF Compresses
    <3> QED
      BY <1>1, <2>3, <3>2, <3>3
  <2>4. CASE st = "kOk" /\ ~(r.size >= 0)
    <3>1. c = [status |-> "error", gzip |-> FALSE, length |-> 0, size |-> -1]
      BY <2>1, <2>4, ZenonT(40) DEF Responses, Response
    <3> QED
      BY <3>1
  <2> QED
    BY <2>2, <2>3, <2>4
<1> QED
  BY <1>4, <1>5, SMTT(40)

LEMMA PayloadShape ==
    ASSUME NEW i \in Nat, NEW what \in {"file", "gzip"}, NEW n \in Nat \cup {-1}
    PROVE  LET m == IF n >= 0 THEN n ELSE 0
           IN  /\ Payload(i, what, n) \in Seq(Unit) /\ Len(Payload(i, what, n)) = m
               /\ \A k \in 1 .. m : ~IsHead(Payload(i, what, n)[k])
                                      /\ Payload(i, what, n)[k].reply = i
<1> DEFINE m == IF n >= 0 THEN n ELSE 0
<1>1. m \in Nat /\ 1 .. n = 1 .. m
  OBVIOUS
<1>2. Payload(i, what, n) = [j \in 1 .. m |-> [reply |-> i, status |-> what, length |-> j]]
  BY <1>1, SMTT(40) DEF Payload
<1> HIDE DEF m
<1>3. \A j \in 1 .. m : [reply |-> i, status |-> what, length |-> j] \in Unit
  BY <1>1 DEF Unit
<1>4. Payload(i, what, n) \in Seq(Unit) /\ Len(Payload(i, what, n)) = m
  BY <1>1, <1>2, <1>3
<1>5. \A k \in 1 .. m : ~IsHead(Payload(i, what, n)[k]) /\ Payload(i, what, n)[k].reply = i
  BY <1>2 DEF IsHead
<1> QED
  BY <1>4, <1>5 DEF m

(* A header in front of a payload of that length is a segment. *)
LEMMA HeadAndPayload ==
    ASSUME NEW i \in Nat, NEW status \in {"kOk", "error", "none"}, NEW length \in Int,
           NEW what \in {"file", "gzip"}, NEW n \in Nat \cup {-1}, NEW counted \in BOOLEAN,
           n > 0 => status # "none",
           counted => length = IF n >= 0 THEN n ELSE 0
    PROVE  /\ ComposeHeaders(i, status, length) \in Seq(Unit)
           /\ Segment(ComposeHeaders(i, status, length) \o Payload(i, what, n), i, counted)
<1> DEFINE m == IF n >= 0 THEN n ELSE 0
           b == Payload(i, what, n)
           g == ComposeHeaders(i, status, length) \o b
<1>1. /\ b \in Seq(Unit) /\ Len(b) = m /\ m \in Nat
      /\ \A k \in 1 .. m : ~IsHead(b[k]) /\ b[k].reply = i
  BY PayloadShape, SMTT(40)
<1>2. CASE status = "none"
  <2>1. ComposeHeaders(i, status, length) = <<>>
    BY <1>2 DEF ComposeHeaders, PrepareMessage
  <2>2. m = 0
    BY <1>2
  <2> HIDE DEF b, m
  <2>3. b = <<>>
    BY <1>1, <2>2
  <2>4. g = <<>>
    BY <2>1, <2>3
  <2> QED
    BY <2>1, <2>4, SMTT(40) DEF Segment, b
<1>3. CASE status # "none"
  <2> DEFINE u == [reply |-> i, status |-> status, length |-> length]
  <2>1. ComposeHeaders(i, status, length) = <<u>>
    BY <1>3 DEF ComposeHeaders, PrepareMessage
  <2>2. u \in Unit /\ IsHead(u) /\ u.reply = i /\ u.length = length
    BY <1>3 DEF Unit, IsHead
  <2>3. counted => length = m
    OBVIOUS
  <2> HIDE DEF u, b, m
  <2>4. <<u>> \in Seq(Unit) /\ Len(<<u>>) = 1 /\ <<u>>[1] = u
    BY <2>2, SMTT(40)
  <2>5. /\ Len(<<u>> \o b) = m + 1 /\ (<<u>> \o b)[1] = u
        /\ \A k \in 2 .. m + 1 : (<<u>> \o b)[k] = b[k - 1] /\ k - 1 \in 1 .. m
    BY <1>1, <2>2, SMTT(40)
  <2>6. \A k \in 2 .. m + 1 : ~IsHead((<<u>> \o b)[k]) /\ (<<u>> \o b)[k].reply = i
    BY <1>1, <2>5
  <2>7. \A k \in 1 .. m + 1 : (<<u>> \o b)[k].reply = i
    <3> SUFFICES ASSUME NEW k \in 1 .. m + 1 PROVE (<<u>> \o b)[k].reply = i
      BY ZenonT(40)
    <3>1. CASE k = 1
      BY <2>2, <2>5, <3>1
    <3>2. CASE k # 1
      <4>1. k \in 2 .. m + 1
        BY <1>1, <3>2, SMTT(40)
      <4> QED
        BY <2>6, <4>1, Zenon
    <3> QED
      BY <3>1, <3>2, Zenon
  <2>8. Segment(<<u>> \o b, i, counted)
    BY <1>1, <2>2, <2>3, <2>5, <2>6, <2>7, SMTT(40) DEF Segment
  <2> QED
    BY <2>1, <2>4, <2>8, ZenonT(40) DEF b
<1> QED
  BY <1>2, <1>3, SMTT(40)

(* Reply hands SendFile a header and a file that make a segment. *)
LEMMA ReplySends ==
    ASSUME NEW i \in Nat, NEW r \in Requests, NEW st \in Statuses, r.kind = "get" => st = "kOk",
           NEW c \in HttpOnMessage(r, st), Reply(i, c)
    PROVE  \E h, b \in Seq(Unit), f \in BOOLEAN :
              SendFile(h, f, b) /\ (~f => b = <<>>) /\ Segment(h \o b, i, r.kind = "get")
<1> DEFINE counted == r.kind = "get"
<1>1. /\ c.status \in {"kOk", "error", "none"} /\ c.length \in Int
      /\ c.size \in Nat \cup {-1}
      /\ c.gzip => c.size > 0
      /\ c.size >= 0 => c.length = c.size /\ c.status = "kOk"
      /\ counted /\ c.size < 0 => c.length = 0
  BY ResponseFacts, SMTT(40)
<1>2. counted \in BOOLEAN
  OBVIOUS
<1> HIDE DEF counted
<1>3. CASE c.status = "kOk" /\ c.gzip
  <2> DEFINE d == IF c.size > 0 THEN 1 ELSE 0
             h == ComposeHeaders(i, c.status, d)
             p == Payload(i, "gzip", d)
  <2>1. SendFile(h \o p, FALSE, <<>>)
    BY <1>3, ZenonT(40) DEF Reply
  <2>2. d = 1 /\ d \in Nat
    BY <1>1, <1>3, SMTT(40)
  <2> HIDE DEF d
  <2>3. h \in Seq(Unit) /\ Segment(h \o p, i, counted)
    BY <1>1, <1>2, <1>3, <2>2, HeadAndPayload, SMTT(40)
  <2>4. p \in Seq(Unit)
    BY <2>2, PayloadShape, SMTT(40)
  <2> HIDE DEF h, p
  <2>5. h \o p \in Seq(Unit)
    BY <2>3, <2>4, ConcatProperties
  <2>6. (h \o p) \o <<>> = h \o p
    BY <2>5, ConcatEmptySeq
  <2>7. <<>> \in Seq(Unit) /\ FALSE \in BOOLEAN
    OBVIOUS
  <2>8. Segment((h \o p) \o <<>>, i, counted)
    BY <2>3, <2>6, Zenon
  <2> QED
    BY <2>1, <2>5, <2>7, <2>8, Zenon DEF counted
<1>4. CASE ~(c.status = "kOk" /\ c.gzip)
  <2> DEFINE h == ComposeHeaders(i, c.status, c.length)
             p == Payload(i, "file", c.size)
             f == c.status = "kOk" /\ c.size >= 0
  <2>1. SendFile(h, f, p)
    BY <1>4, ZenonT(40) DEF Reply
  <2>2. /\ c.size > 0 => c.status # "none"
        /\ counted => c.length = IF c.size >= 0 THEN c.size ELSE 0
    BY <1>1
  <2>3. h \in Seq(Unit) /\ Segment(h \o p, i, counted)
    BY <1>1, <1>2, <2>2, HeadAndPayload, ZenonT(40)
  <2>4. p \in Seq(Unit) /\ (~f => p = <<>>)
    <3>1. p \in Seq(Unit) /\ Len(p) = IF c.size >= 0 THEN c.size ELSE 0
      BY <1>1, PayloadShape, SMTT(40)
    <3> HIDE DEF p
    <3>2. ~f => Len(p) = 0
      BY <1>1, <3>1
    <3> QED
      BY <3>1, <3>2, SMTT(40)
  <2>5. f \in BOOLEAN
    OBVIOUS
  <2> HIDE DEF h, p, f
  <2> QED
    BY <2>1, <2>3, <2>4, <2>5, ZenonT(40) DEF counted
<1> QED
  BY <1>3, <1>4, SMTT(40)

LEMMA HttpInvInit ==
    ASSUME HttpInit
    PROVE  HttpInvs
<1>1. FbInv
  BY FbInvInit, HttpAssumption DEF HttpInit
<1>2. HttpTypes
  <2>1. <<>> \in Seq(Requests) /\ <<>> \in Seq(HByte) /\ <<>> \in Seq(ReplyTo)
    OBVIOUS
  <2> QED
    BY <2>1, Zenon DEF HttpInit, HttpTypes
<1>3. Pending(Unparsed, Sent, 0)
  <2>1. Unparsed = <<>>
    BY DEF HttpInit, Unparsed
  <2>2. Sent \in Seq(Seq(HByte)) /\ Len(Sent) = 0
    <3>1. requests \in Seq(Requests) /\ Len(requests) = 0
      BY DEF HttpInit
    <3> QED
      BY <3>1, SentType
  <2>3. Sent = <<>>
    BY <2>2
  <2>4. Drop(Sent, 0) = <<>>
    BY <2>3 DEF Drop
  <2>5. Joins(<<>>, <<>>)
    <3>1. <<>> \in Seq(HByte)
      OBVIOUS
    <3> QED
      BY <3>1, JoinsNone, Zenon
  <2>6. 0 \in 0 .. Len(Sent)
    BY <2>2
  <2> QED
    BY <2>1, <2>4, <2>5, <2>6, ZenonT(40) DEF Pending
<1>4. RepliesFor(0) /\ RepliesDropped
  BY SMTT(40) DEF HttpInit, RepliesFor, RepliesDropped
<1>5. Framed
  BY DEF HttpInit, FileBufferInit, Framed, RepliesFramed, IsHead
<1>6. HttpInv
  BY <1>2, <1>3, <1>4, SMTT(40) DEF HttpInv
<1>7. EntryFramed
  BY DEF HttpInit, FileBufferInit, NoFile, EntryFramed
<1> QED
  BY <1>1, <1>5, <1>6, <1>7, SMTT(40) DEF HttpInvs

LEMMA FbStutters ==
    ASSUME FbInv, UNCHANGED fbVars
    PROVE  FbInv'
<1>1. UNCHANGED <<pending_files, fd_, buffer_, wire, accepted, bytes_sent, torn, disk, sockRoom,
                  closedAt, entry, flushing>>
  BY DEF fbVars, fbObject, fbKernel, fbHistory
<1>2. FbClosing' /\ FbEntry'
  BY <1>1, Zenon DEF FbInv, FbClosing, FbEntry
<1>3. sockRoom' \in Nat /\ closedAt' \in Int
  BY <1>1 DEF FbInv, FbTypes
<1> QED
  BY <1>1, <1>2, <1>3, FbMove, ZenonT(40)

(* What the other parts leave alone keeps the requests and replies. *)
LEMMA HttpSame ==
    ASSUME HttpInv, HttpTypes', Unparsed' = Unparsed, UNCHANGED <<requests, replies>>,
           fbShut => fbShut'
    PROVE  HttpInv'
<1>1. PICK t \in Nat : Pending(Unparsed, Sent, t) /\ RepliesFor(t)
  BY DEF HttpInv
<1>2. Sent' = Sent
  BY DEF Sent
<1>3. Pending(Unparsed', Sent', t)
  BY <1>1, <1>2, ZenonT(40)
<1>4. RepliesFor(t)'
  BY <1>1 DEF RepliesFor
<1>5. RepliesDropped'
  BY SMTT(40) DEF HttpInv, RepliesDropped
<1> QED
  BY <1>1, <1>3, <1>4, <1>5 DEF HttpInv

LEMMA FramedSame ==
    ASSUME Framed, UNCHANGED <<requests, accepted>>
    PROVE  Framed'
BY ZenonT(40) DEF Framed, RepliesFramed, IsHead

LEMMA EntrySame ==
    ASSUME EntryFramed, UNCHANGED <<requests, entry>>
    PROVE  EntryFramed'
BY Zenon DEF EntryFramed

(* A request sent goes behind the others. *)
LEMMA ClientSendsStep ==
    ASSUME HttpInvs, NEW r \in Requests, HttpClientSends(r)
    PROVE  HttpInvs'
<1> DEFINE f == RequestBytes(Len(requests'), r)
<1>1. /\ requests \in Seq(Requests) /\ inbound \in Seq(HByte) /\ httpBuffer \in Seq(HByte)
      /\ Unparsed \in Seq(HByte)
  <2>1. requests \in Seq(Requests) /\ inbound \in Seq(HByte) /\ httpBuffer \in Seq(HByte)
    BY DEF HttpInvs, HttpInv, HttpTypes
  <2> QED
    BY <2>1, ConcatProperties DEF Unparsed
<1>2. /\ requests' = Append(requests, r) /\ inbound' = inbound \o f
      /\ UNCHANGED <<fbVars, httpBuffer, replies>>
  BY DEF HttpClientSends, RequestBytes
<1>3. /\ requests' \in Seq(Requests) /\ Len(requests') = Len(requests) + 1
      /\ Len(requests) \in Nat
      /\ \A i \in 1 .. Len(requests) : requests'[i] = requests[i]
  BY <1>1, <1>2, SMTT(40)
<1>4. f \in Seq(HByte)
  BY <1>3, BytesShape
<1>5. Sent' = Append(Sent, f)
  BY <1>1, <1>2, SentAppend
<1>6. Sent \in Seq(Seq(HByte))
  BY <1>1, SentType, SMTT(40)
<1> HIDE DEF f
<1>7. HttpTypes'
  <2>1. inbound \o f \in Seq(HByte)
    BY <1>1, <1>4, ConcatProperties
  <2> QED
    BY <1>2, <1>3, <2>1, SMTT(40) DEF HttpInvs, HttpInv, HttpTypes
<1>8. Unparsed' = Unparsed \o f
  <2>1. (httpBuffer \o inbound) \o f = httpBuffer \o (inbound \o f)
    <3>1. httpBuffer \in Seq(HByte) /\ inbound \in Seq(HByte)
      BY <1>1
    <3> QED
      BY <1>4, <3>1, HBytesConcat, ZenonT(40)
  <2> QED
    BY <1>2, <2>1, Zenon DEF Unparsed
<1>9. PICK t \in Nat : Pending(Unparsed, Sent, t) /\ RepliesFor(t)
  BY DEF HttpInvs, HttpInv
<1>10. Pending(Unparsed', Sent', t)
  <2>1. Pending(Unparsed \o f, Append(Sent, f), t)
    BY <1>1, <1>4, <1>6, <1>9, PendingSend
  <2> QED
    BY <1>5, <1>8, <2>1, Zenon
<1>11. RepliesFor(t)'
  <2>1. ASSUME Len(replies) > t
        PROVE  t < Len(requests') /\ requests'[t + 1].kind = "noColon"
    <3>1. t < Len(requests) /\ requests[t + 1].kind = "noColon"
      BY <1>9, <2>1 DEF RepliesFor
    <3>2. t + 1 \in 1 .. Len(requests)
      BY <1>3, <3>1
    <3> QED
      BY <1>3, <3>1, <3>2, SMTT(40)
  <2> QED
    BY <1>2, <1>9, <2>1, SMTT(40) DEF RepliesFor
<1>12. FbInv'
  BY <1>2, FbStutters, SMTT(40) DEF HttpInvs
<1>13. Framed'
  <2>1. accepted' = accepted
    BY <1>2, SMTT(40) DEF fbVars, fbHistory
  <2>2. \A p \in 1 .. Len(accepted) : /\ accepted[p].reply \in 1 .. Len(requests)
                                      /\ requests'[accepted[p].reply] = requests[accepted[p].reply]
    BY <1>3 DEF HttpInvs, Framed
  <2>3. \A p \in 1 .. Len(accepted') :
          /\ accepted'[p].reply \in 1 .. Len(requests')
          /\ IsHead(accepted'[p]) /\ requests'[accepted'[p].reply].kind = "get"
               => accepted'[p].length \in Nat
    <3>1. ASSUME NEW p \in 1 .. Len(accepted)
          PROVE  /\ accepted[p].reply \in 1 .. Len(requests')
                 /\ IsHead(accepted[p]) /\ requests'[accepted[p].reply].kind = "get"
                      => accepted[p].length \in Nat
      <4> DEFINE k == accepted[p].reply
      <4>1. accepted[p].reply \in 1 .. Len(requests')
        <5>1. k \in 1 .. Len(requests)
          BY <2>2, Zenon
        <5>2. Len(requests') = Len(requests) + 1 /\ Len(requests) \in Nat
          BY <1>3, Zenon
        <5> HIDE DEF k
        <5>3. k \in 1 .. Len(requests')
          BY <5>1, <5>2
        <5> QED
          BY <5>3, Zenon DEF k
      <4>2. /\ IsHead(accepted[p]) /\ requests[accepted[p].reply].kind = "get"
                 => accepted[p].length \in Nat
            /\ requests'[accepted[p].reply] = requests[accepted[p].reply]
        BY <2>2, ZenonT(40) DEF HttpInvs, Framed
      <4> QED
        BY <4>1, <4>2, ZenonT(40)
    <3> QED
      BY <2>1, <3>1, Zenon
  <2>4. RepliesFramed'
    BY <2>1, <2>2, SMTT(40) DEF HttpInvs, Framed, RepliesFramed
  <2> QED
    BY <2>3, <2>4 DEF Framed, IsHead
<1>14. RepliesDropped'
  <2>1. fbShut' = fbShut /\ replies' = replies
    BY <1>2 DEF fbVars, fbConn
  <2> QED
    BY <2>1, Zenon DEF HttpInvs, HttpInv, RepliesDropped
<1>15. EntryFramed'
  <2> DEFINE g == entry.header \o entry.body
  <2>1. entry' = entry
    BY <1>2 DEF fbVars
  <2>2. CASE g = <<>>
    BY <2>1, <2>2, Zenon DEF EntryFramed
  <2>3. CASE g # <<>>
    <3>1. PICK i \in 1 .. Len(requests) : Segment(g, i, requests[i].kind = "get")
      BY <2>3, ZenonT(40) DEF HttpInvs, EntryFramed
    <3>2. i \in 1 .. Len(requests') /\ requests'[i] = requests[i]
      BY <1>3
    <3>3. Segment(g, i, requests'[i].kind = "get")
      BY <3>1, <3>2, Zenon
    <3> QED
      BY <2>1, <3>2, <3>3, Zenon DEF EntryFramed
  <2> QED
    BY <2>2, <2>3
<1> QED
  BY <1>7, <1>9, <1>10, <1>11, <1>12, <1>13, <1>14, <1>15 DEF HttpInvs, HttpInv

(* A segment appended to a framed stream keeps it framed. *)
LEMMA FramedAppend ==
    ASSUME Framed, accepted \in Seq(Unit), NEW g \in Seq(Unit), NEW i \in 1 .. Len(requests),
           Segment(g, i, requests[i].kind = "get"),
           accepted' = accepted \o g, requests' = requests
    PROVE  Framed'
<1> DEFINE a == accepted
           b == accepted'
           N == Len(accepted)
           Counted(u) == IsHead(u) /\ requests[u.reply].kind = "get"
<1>1. /\ N \in Nat /\ Len(g) \in Nat /\ Len(b) = N + Len(g)
      /\ \A k \in 1 .. N : b[k] = a[k]
      /\ \A k \in 1 .. Len(g) : b[N + k] = g[k]
  BY ConcatIndex, SMTT(40)
<1>2. \A p \in 1 .. N :
        /\ a[p].reply \in 1 .. Len(requests)
        /\ Counted(a[p]) => /\ a[p].length \in Nat /\ p + a[p].length <= N
                            /\ \A q \in p + 1 .. p + a[p].length :
                                  ~IsHead(a[q]) /\ a[q].reply = a[p].reply
                            /\ p + a[p].length < N => IsHead(a[p + a[p].length + 1])
  BY SMTT(40) DEF Framed, RepliesFramed, IsHead
<1>3. g # <<>> => /\ Len(g) >= 1 /\ IsHead(g[1])
                  /\ \A k \in 2 .. Len(g) : ~IsHead(g[k])
                  /\ \A k \in 1 .. Len(g) : g[k].reply = i
                  /\ requests[i].kind = "get" => g[1].length = Len(g) - 1
  BY <1>1, SMTT(40) DEF Segment
<1> HIDE DEF Counted
<1>4. ASSUME NEW p \in 1 .. Len(b)
      PROVE  /\ b[p].reply \in 1 .. Len(requests)
             /\ Counted(b[p]) => /\ b[p].length \in Nat /\ p + b[p].length <= Len(b)
                                 /\ \A q \in p + 1 .. p + b[p].length :
                                       ~IsHead(b[q]) /\ b[q].reply = b[p].reply
                                 /\ p + b[p].length < Len(b) => IsHead(b[p + b[p].length + 1])
  <2>1. CASE p <= N
    <3>1. p \in 1 .. N /\ b[p] = a[p]
      BY <1>1, <2>1, SMTT(40)
    <3>2. a[p].reply \in 1 .. Len(requests)
      BY <1>2, <3>1
    <3>3. ASSUME Counted(a[p])
          PROVE  /\ a[p].length \in Nat /\ p + a[p].length <= Len(b)
                 /\ \A q \in p + 1 .. p + a[p].length : ~IsHead(b[q]) /\ b[q].reply = a[p].reply
                 /\ p + a[p].length < Len(b) => IsHead(b[p + a[p].length + 1])
      <4> DEFINE e == p + a[p].length
      <4>1. /\ a[p].length \in Nat /\ e <= N
            /\ \A q \in p + 1 .. e : ~IsHead(a[q]) /\ a[q].reply = a[p].reply
            /\ e < N => IsHead(a[e + 1])
        BY <1>2, <3>1, <3>3, SMTT(40)
      <4>2. e \in Nat
        <5>1. p \in Nat /\ a[p].length \in Nat
          BY <1>1, <3>1, <4>1, SMTT(40)
        <5> QED
          BY <5>1, SMTT(40)
      <4> HIDE DEF e
      <4>3. \A q \in p + 1 .. e : q \in 1 .. N /\ b[q] = a[q]
        BY <1>1, <4>1, <4>2, SMTT(40)
      <4>4. \A q \in p + 1 .. e : ~IsHead(b[q]) /\ b[q].reply = a[p].reply
        BY <4>1, <4>3, SMTT(40)
      <4>5. ASSUME e < Len(b) PROVE IsHead(b[e + 1])
        <5>1. CASE e < N
          <6>1. e + 1 \in 1 .. N
            BY <1>1, <4>2, <5>1, SMTT(40)
          <6> QED
            BY <1>1, <4>1, <5>1, <6>1, SMTT(40)
        <5>2. CASE e = N
          <6>1. 1 \in 1 .. Len(g) /\ g # <<>>
            BY <1>1, <4>5, <5>2, SMTT(40)
          <6>2. b[N + 1] = g[1]
            BY <1>1, <6>1, SMTT(40)
          <6> QED
            BY <1>3, <5>2, <6>1, <6>2, SMTT(40)
        <5>3. e < N \/ e = N
          BY <1>1, <4>1, <4>2, SMTT(40)
        <5> QED
          BY <5>1, <5>2, <5>3, ZenonT(40)
      <4>6. e <= Len(b)
        BY <1>1, <4>1, <4>2
      <4> QED
        BY <4>1, <4>4, <4>5, <4>6, ZenonT(40) DEF e
    <3> QED
      BY <3>1, <3>2, <3>3, ZenonT(40)
  <2>2. CASE p > N
    <3> DEFINE k == p - N
    <3>1. k \in 1 .. Len(g) /\ p = N + k /\ k \in Nat
      BY <1>1, <2>2, SMTT(40)
    <3> HIDE DEF k
    <3>2. b[p] = g[k] /\ g # <<>>
      BY <1>1, <3>1, SMTT(40)
    <3>3. b[p].reply = i
      BY <1>3, <3>1, <3>2, SMTT(40)
    <3>4. ASSUME Counted(b[p])
          PROVE  /\ b[p].length \in Nat /\ p + b[p].length <= Len(b)
                 /\ \A q \in p + 1 .. p + b[p].length : ~IsHead(b[q]) /\ b[q].reply = b[p].reply
                 /\ p + b[p].length < Len(b) => IsHead(b[p + b[p].length + 1])
      <4>1. IsHead(g[k]) /\ requests[i].kind = "get"
        BY <3>2, <3>3, <3>4, SMTT(40) DEF Counted
      <4>2. k = 1
        <5>1. ~(k \in 2 .. Len(g))
          BY <1>3, <3>2, <4>1, SMTT(40)
        <5> QED
          BY <1>1, <3>1, <5>1, SMTT(40)
      <4>3. b[p].length = Len(g) - 1
        BY <1>3, <3>2, <4>1, <4>2, SMTT(40)
      <4>4. p + b[p].length = Len(b) /\ b[p].length \in Nat
        BY <1>1, <3>1, <4>2, <4>3, SMTT(40)
      <4>5. ASSUME NEW q \in p + 1 .. Len(b) PROVE ~IsHead(b[q]) /\ b[q].reply = i
        <5> DEFINE m == q - N
        <5>1. m \in 2 .. Len(g) /\ m \in 1 .. Len(g) /\ q = N + m
          BY <1>1, <3>1, <4>2, SMTT(40)
        <5> HIDE DEF m
        <5>2. b[q] = g[m]
          BY <1>1, <5>1, SMTT(40)
        <5> QED
          BY <1>3, <3>2, <5>1, <5>2, SMTT(40)
      <4>6. Len(b) <= Len(b) /\ ~(Len(b) < Len(b))
        <5>1. Len(b) \in Int
          BY <1>1
        <5> QED
          BY <5>1
      <4> QED
        BY <3>3, <4>4, <4>5, <4>6, ZenonT(40)
    <3> QED
      BY <3>3, <3>4, ZenonT(40)
  <2>3. p <= N \/ p > N
    BY <1>1
  <2> QED
    BY <2>1, <2>2, <2>3, Zenon
<1>5. \A p \in 1 .. Len(b) : /\ b[p].reply \in 1 .. Len(requests')
                             /\ IsHead(b[p]) /\ requests'[b[p].reply].kind = "get"
                                  => b[p].length \in Nat
  BY <1>4, Zenon DEF Counted
<1>6. RepliesFramed'
  BY <1>4, ZenonT(40) DEF RepliesFramed, Counted, IsHead
<1> QED
  BY <1>5, <1>6, ZenonT(40) DEF Framed, IsHead

(* ParseMessage keeps the bytes of an incomplete request and of one        *)
(* without a colon, and takes all those of another.                        *)
LEMMA ParseFacts ==
    ASSUME NEW r \in Requests, NEW n \in Nat, NEW i \in Nat
    PROVE  LET parsed == ParseMessage(r, n) IN
           \/ parsed.status = "incomplete" /\ parsed.length = 0
           \/ parsed.status = "kBadRequest" /\ parsed.length = 0 /\ r.kind = "noColon"
           \/ /\ parsed.status = HandleMessage(r) /\ r.kind # "noColon"
              /\ parsed.length = Len(RequestBytes(i, r)) /\ parsed.length <= n
<1>1. r.body \in Nat \cup {-1} /\ r.head \in Nat
  BY HttpAssumption, SMTT(40)
<1>2. Len(RequestBytes(i, r)) = r.head + IF r.body > 0 THEN r.body ELSE 0
  BY BytesShape
<1>3. CASE n < r.head
  BY <1>3 DEF ParseMessage
<1>4. CASE n >= r.head /\ r.kind = "noColon"
  BY <1>4 DEF ParseMessage
<1>5. CASE n >= r.head /\ r.kind # "noColon" /\ r.body > n - r.head
  BY <1>5, SMTT(40) DEF ParseMessage
<1>6. CASE n >= r.head /\ r.kind # "noColon" /\ ~(r.body > n - r.head)
  <2>1. ParseMessage(r, n) = [status |-> HandleMessage(r),
                              length |-> r.head + IF r.body > 0 THEN r.body ELSE 0]
    BY <1>1, <1>6, SMTT(20) DEF ParseMessage
  <2>2. r.head + (IF r.body > 0 THEN r.body ELSE 0) <= n
    BY <1>1, <1>6
  <2> QED
    BY <1>2, <1>6, <2>1, <2>2
<1>7. n < r.head \/ n >= r.head
  BY <1>1
<1> QED
  BY <1>3, <1>4, <1>5, <1>6, <1>7, Zenon

(* The read buffer starts with the next request; parsing drops that        *)
(* request or nothing.                                                     *)
LEMMA ReadsNext ==
    ASSUME HttpInv, NEW t \in Nat, Pending(Unparsed, Sent, t), httpBuffer # <<>>
    PROVE  httpBuffer[1][1] = t + 1 /\ t + 1 \in 1 .. Len(requests)
<1>1. /\ HttpTypes /\ requests \in Seq(Requests) /\ inbound \in Seq(HByte)
      /\ httpBuffer \in Seq(HByte)
  BY DEF HttpInv, HttpTypes
<1>2. 1 \in 1 .. Len(httpBuffer)
  BY <1>1, SMTT(40)
<1>3. /\ Len(httpBuffer \o inbound) = Len(httpBuffer) + Len(inbound)
      /\ \A k \in 1 .. Len(httpBuffer) : (httpBuffer \o inbound)[k] = httpBuffer[k]
  BY <1>1, ConcatIndex
<1>4. Unparsed[1] = httpBuffer[1] /\ Len(Unparsed) >= 1
  BY <1>1, <1>2, <1>3 DEF Unparsed
<1>5. /\ Unparsed \in Seq(HByte) /\ t \in 0 .. Len(requests)
      /\ Unparsed # <<>> => t < Len(requests) /\ Unparsed[1] = <<t + 1, 1>>
  BY <1>1, NextRequest
<1>6. Unparsed # <<>>
  BY <1>4, <1>5
<1>7. httpBuffer[1] = <<t + 1, 1>> /\ t < Len(requests)
  BY <1>4, <1>5, <1>6
<1> QED
  BY <1>1, <1>7

(* The loop's read moves bytes from the socket to the read buffer. *)
LEMMA ReadKeepsOrder ==
    ASSUME HttpInv, HttpReads
    PROVE  HttpInv'
<1>1. PICK n \in 0 .. Len(inbound), end \in {"again", "fin", "reset"} : OnReadCallback(n, end)
  BY DEF HttpReads
<1> DEFINE x == SubSeq(inbound, 1, n)
           y == Drop(inbound, n)
<1>2. requests \in Seq(Requests) /\ inbound \in Seq(HByte) /\ httpBuffer \in Seq(HByte)
  BY DEF HttpInv, HttpTypes
<1>3. /\ httpBuffer' = httpBuffer \o x /\ inbound' = y /\ UNCHANGED <<requests, replies>>
      /\ fbShut => fbShut'
  BY <1>1, Zenon DEF OnReadCallback, Drop
<1>4. x \in Seq(HByte)
  BY <1>2, FirstPart, SMTT(40)
<1>5. y \in Seq(HByte)
  BY <1>2, LastPart
<1>6. x \o y = inbound
  BY <1>2, CutAndJoin
<1> HIDE DEF x, y
<1>7. httpBuffer \o x \in Seq(HByte) /\ (httpBuffer \o x) \o y = httpBuffer \o (x \o y)
  <2>1. httpBuffer \in Seq(HByte)
    BY <1>2
  <2> QED
    BY <1>4, <1>5, <2>1, HBytesConcat, Zenon
<1>8. Unparsed' = Unparsed
  BY <1>3, <1>6, <1>7, Zenon DEF Unparsed
<1>9. HttpTypes'
  BY <1>3, <1>5, <1>7, ZenonT(40) DEF HttpInv, HttpTypes
<1> QED
  BY <1>3, <1>8, <1>9, HttpSame, Zenon

(* One more reply, to request t + 1, which goes or stays. *)
LEMMA OneMoreReply ==
    ASSUME replies \in Seq(ReplyTo), NEW t \in Nat, RepliesFor(t), t + 1 \in 1 .. Len(requests),
           RepliesDropped, fbShut' = fbShut, requests' = requests,
           replies' = Append(replies, [request |-> t + 1, sent |-> ~fbShut])
    PROVE  /\ replies' \in Seq(ReplyTo) /\ RepliesDropped'
           /\ requests[t + 1].kind = "noColon" => RepliesFor(t)'
           /\ requests[t + 1].kind # "noColon" => RepliesFor(t + 1)'
<1> DEFINE new == [request |-> t + 1, sent |-> ~fbShut]
<1>0. new \in ReplyTo /\ new.request = t + 1 /\ (new.sent <=> ~fbShut)
  <2>1. t + 1 \in Nat /\ (~fbShut) \in BOOLEAN
    BY SMTT(40)
  <2> QED
    BY <2>1, Zenon DEF ReplyTo
<1> HIDE DEF new
<1>1. /\ replies' \in Seq(ReplyTo) /\ Len(replies') = Len(replies) + 1 /\ Len(replies) \in Nat
      /\ \A j \in 1 .. Len(replies) : replies'[j] = replies[j]
      /\ replies'[Len(replies) + 1] = new
  <2>1. replies' = Append(replies, new)
    BY Zenon DEF new
  <2> QED
    BY <1>0, <2>1, AppendProperties
<1>2. t < Len(requests)
  BY SMTT(40)
<1>3. ASSUME requests[t + 1].kind = "noColon" PROVE RepliesFor(t)'
  <2>1. Len(replies') >= t
    BY <1>1, SMTT(40) DEF RepliesFor
  <2>2. ASSUME NEW j \in 1 .. Len(replies') PROVE replies'[j].request = IF j <= t THEN j ELSE t + 1
    <3>1. CASE j = Len(replies) + 1
      <4>1. ~(j <= t)
        BY <1>1, <3>1, SMTT(40) DEF RepliesFor
      <4> QED
        BY <1>0, <1>1, <3>1, <4>1, SMTT(40)
    <3>2. CASE j # Len(replies) + 1
      <4>1. j \in 1 .. Len(replies)
        BY <1>1, <3>2, SMTT(40)
      <4> QED
        BY <1>1, <4>1, SMTT(40) DEF RepliesFor
    <3> QED
      BY <3>1, <3>2, SMTT(40)
  <2> QED
    BY <1>2, <1>3, <2>1, <2>2, SMTT(40) DEF RepliesFor
<1>4. ASSUME requests[t + 1].kind # "noColon" PROVE RepliesFor(t + 1)'
  <2>1. Len(replies) = t
    BY <1>1, <1>4, SMTT(40) DEF RepliesFor
  <2>2. ASSUME NEW j \in 1 .. Len(replies') PROVE replies'[j].request = j /\ j <= t + 1
    <3>1. CASE j = t + 1
      BY <1>0, <1>1, <2>1, <3>1, SMTT(40)
    <3>2. CASE j # t + 1
      <4>1. j \in 1 .. Len(replies) /\ j <= t
        BY <1>1, <2>1, <3>2, SMTT(40)
      <4> QED
        BY <1>1, <4>1, SMTT(40) DEF RepliesFor
    <3> QED
      BY <3>1, <3>2, SMTT(40)
  <2>3. Len(replies') = t + 1
    BY <1>1, <2>1, SMTT(40)
  <2> QED
    BY <2>2, <2>3, SMTT(40) DEF RepliesFor
<1>5. ASSUME NEW j \in 1 .. Len(replies'), ~replies'[j].sent
      PROVE  fbShut /\ \A k \in j .. Len(replies') : ~replies'[k].sent
  <2>1. fbShut
    <3>1. CASE j = Len(replies) + 1
      BY <1>0, <1>1, <1>5, <3>1, SMTT(40)
    <3>2. CASE j # Len(replies) + 1
      <4>1. j \in 1 .. Len(replies)
        BY <1>1, <3>2
      <4> QED
        BY <1>1, <1>5, <4>1, SMTT(40) DEF RepliesDropped
    <3> QED
      BY <3>1, <3>2, SMTT(40)
  <2>2. ASSUME NEW k \in j .. Len(replies') PROVE ~replies'[k].sent
    <3>1. CASE k = Len(replies) + 1
      BY <1>0, <1>1, <2>1, <3>1, SMTT(40)
    <3>2. CASE k # Len(replies) + 1
      <4>1. j \in 1 .. Len(replies) /\ k \in 1 .. Len(replies) /\ k \in j .. Len(replies)
        BY <1>1, <3>2
      <4> QED
        BY <1>1, <1>5, <4>1, SMTT(40) DEF RepliesDropped
    <3> QED
      BY <3>1, <3>2, SMTT(40)
  <2> QED
    BY <2>1, <2>2, SMTT(40)
<1>6. RepliesDropped'
  BY <1>5, Zenon DEF RepliesDropped
<1> QED
  BY <1>1, <1>3, <1>4, <1>6

LEMMA ClientMessageStep ==
    ASSUME HttpInvs, OnClientMessage
    PROVE  HttpInvs'
<1> DEFINE i == httpBuffer[1][1]
           parsed == IF httpBuffer = <<>> THEN [status |-> "incomplete", length |-> 0]
                     ELSE ParseMessage(requests[i], Len(httpBuffer))
<1>1. PICK t \in Nat : Pending(Unparsed, Sent, t) /\ RepliesFor(t)
  BY DEF HttpInvs, HttpInv
<1>2. /\ httpBuffer' = Drop(httpBuffer, parsed.length)
      /\ IF parsed.status = "incomplete"
         THEN UNCHANGED <<fbVars, replies, owe10>>
         ELSE /\ \E c \in HttpOnMessage(requests[i], parsed.status) : Reply(i, c)
              /\ replies' = Append(replies, [request |-> i, sent |-> ~fbShut])
              /\ owe10' = (parsed.status = "kOk" /\ requests[i].http10)
      /\ UNCHANGED <<requests, inbound>>
  BY Zenon DEF OnClientMessage, Drop
<1>3. /\ requests \in Seq(Requests) /\ replies \in Seq(ReplyTo) /\ inbound \in Seq(HByte)
      /\ httpBuffer \in Seq(HByte) /\ Len(httpBuffer) \in Nat
      /\ Sent \in Seq(Seq(HByte)) /\ Len(Sent) = Len(requests) /\ Sent' = Sent
      /\ \A k \in 1 .. Len(requests) : Sent[k] = RequestBytes(k, requests[k])
  <2>1. /\ requests \in Seq(Requests) /\ replies \in Seq(ReplyTo) /\ inbound \in Seq(HByte)
        /\ httpBuffer \in Seq(HByte)
    BY SMTT(40) DEF HttpInvs, HttpInv, HttpTypes
  <2>2. Sent' = Sent
    BY <1>2, ZenonT(40) DEF Sent
  <2>3. /\ Sent \in Seq(Seq(HByte)) /\ Len(Sent) = Len(requests)
        /\ \A k \in 1 .. Len(requests) : Sent[k] = RequestBytes(k, requests[k])
    BY <2>1, SentType
  <2>4. Len(httpBuffer) \in Nat
    BY <2>1, SMTT(40)
  <2> QED
    BY <2>1, <2>2, <2>3, <2>4, ZenonT(40)
<1>4. httpBuffer = <<>> => parsed.status = "incomplete" /\ parsed.length = 0
  OBVIOUS
<1>5. httpBuffer # <<>> =>
        /\ i = t + 1 /\ i \in Nat /\ i \in 1 .. Len(requests) /\ requests[i] \in Requests
        /\ \/ parsed.status = "incomplete" /\ parsed.length = 0
           \/ /\ parsed.status = "kBadRequest" /\ parsed.length = 0
              /\ requests[i].kind = "noColon"
           \/ /\ parsed.status = HandleMessage(requests[i]) /\ requests[i].kind # "noColon"
              /\ parsed.length = Len(RequestBytes(i, requests[i]))
              /\ parsed.length <= Len(httpBuffer)
  <2> SUFFICES ASSUME httpBuffer # <<>>
               PROVE  /\ i = t + 1 /\ i \in Nat /\ i \in 1 .. Len(requests)
                      /\ requests[i] \in Requests
                      /\ \/ parsed.status = "incomplete" /\ parsed.length = 0
                         \/ /\ parsed.status = "kBadRequest" /\ parsed.length = 0
                            /\ requests[i].kind = "noColon"
                         \/ /\ parsed.status = HandleMessage(requests[i])
                            /\ requests[i].kind # "noColon"
                            /\ parsed.length = Len(RequestBytes(i, requests[i]))
                            /\ parsed.length <= Len(httpBuffer)
    BY ZenonT(40)
  <2>1. i = t + 1 /\ t + 1 \in 1 .. Len(requests)
    BY <1>1, ReadsNext DEF HttpInvs
  <2>2. parsed = ParseMessage(requests[i], Len(httpBuffer))
    BY Zenon
  <2> HIDE DEF i, parsed
  <2>3. i \in Nat /\ i \in 1 .. Len(requests) /\ requests[i] \in Requests
    BY <1>3, <2>1
  <2> QED
    BY <1>3, <2>1, <2>2, <2>3, ParseFacts, ZenonT(40)
<1> HIDE DEF i, parsed
<1>6. CASE parsed.status = "incomplete"
  <2>1. parsed.length = 0
    BY <1>4, <1>5, <1>6, SMTT(40) DEF HandleMessage
  <2>2. httpBuffer' = httpBuffer
    BY <1>2, <1>3, <2>1, DropNone
  <2>3. Unparsed' = Unparsed
    BY <1>2, <2>2, Zenon DEF Unparsed
  <2>4. UNCHANGED <<fbVars, replies>>
    BY <1>2, <1>6, ZenonT(40)
  <2>5. UNCHANGED <<fbShut, accepted, entry>>
    BY <2>4 DEF fbVars, fbConn, fbHistory
  <2>6. HttpTypes'
    BY <1>2, <1>3, <2>2, <2>4, Zenon DEF HttpTypes
  <2>7. HttpInv'
    BY <1>2, <2>3, <2>4, <2>5, <2>6, HttpSame, ZenonT(40) DEF HttpInvs
  <2>8. FbInv'
    BY <2>4, FbStutters, Zenon DEF HttpInvs
  <2>9. Framed' /\ EntryFramed'
    BY <1>2, <2>5, FramedSame, EntrySame, Zenon DEF HttpInvs
  <2> QED
    BY <2>7, <2>8, <2>9 DEF HttpInvs
<1>7. CASE parsed.status # "incomplete"
  <2> DEFINE r == requests[i]
  <2>1. httpBuffer # <<>>
    BY <1>4, <1>7, SMTT(40)
  <2>2. /\ i = t + 1 /\ i \in Nat /\ i \in 1 .. Len(requests) /\ r \in Requests
        /\ \/ parsed.status = "kBadRequest" /\ parsed.length = 0 /\ r.kind = "noColon"
           \/ /\ parsed.status = HandleMessage(r) /\ r.kind # "noColon"
              /\ parsed.length = Len(RequestBytes(i, r)) /\ parsed.length <= Len(httpBuffer)
    BY <1>5, <1>7, <2>1
  <2>3. /\ \E c \in HttpOnMessage(r, parsed.status) : Reply(i, c)
        /\ replies' = Append(replies, [request |-> t + 1, sent |-> ~fbShut])
    BY <1>2, <1>7, <2>2, Zenon
  <2> HIDE DEF r
  <2>4. parsed.status \in Statuses /\ (r.kind = "get" => parsed.status = "kOk")
    BY <1>7, <2>2 DEF HandleMessage, Statuses
  <2>5. PICK h \in Seq(Unit), b \in Seq(Unit), f \in BOOLEAN :
           SendFile(h, f, b) /\ (~f => b = <<>>) /\ Segment(h \o b, i, r.kind = "get")
    BY <2>2, <2>3, <2>4, ReplySends, ZenonT(40)
  <2>6. FbInv'
    BY <2>5, FbSend DEF HttpInvs
  <2>7. /\ UNCHANGED <<accepted, fbShut>>
        /\ entry' = entry \/ entry' = [header |-> h, hasFile |-> f, body |-> b]
    BY <2>5, Zenon DEF SendFile, fbHistory, fbConn
  <2>8. Framed'
    BY <1>2, <2>7, FramedSame, Zenon DEF HttpInvs
  <2>9. EntryFramed'
    <3>1. CASE entry' = entry
      BY <1>2, <3>1, EntrySame, Zenon DEF HttpInvs
    <3>2. CASE entry' = [header |-> h, hasFile |-> f, body |-> b]
      <4>1. entry'.header = h /\ entry'.body = b
        BY <3>2, Zenon
      <4>2. Segment(h \o b, i, requests[i].kind = "get")
        BY <2>5, Zenon DEF r
      <4> QED
        BY <1>2, <2>2, <4>1, <4>2, Zenon DEF EntryFramed
    <3> QED
      BY <2>7, <3>1, <3>2
  <2>10. /\ replies' \in Seq(ReplyTo) /\ RepliesDropped'
         /\ r.kind = "noColon" => RepliesFor(t)'
         /\ r.kind # "noColon" => RepliesFor(t + 1)'
    <3>1. RepliesDropped /\ r = requests[t + 1] /\ t + 1 \in 1 .. Len(requests)
      BY <2>2, Zenon DEF HttpInvs, HttpInv, r
    <3> QED
      BY <1>1, <1>2, <1>3, <2>3, <2>7, <3>1, OneMoreReply, ZenonT(40)
  <2>11. CASE parsed.length = 0 /\ r.kind = "noColon"
    <3>1. httpBuffer' = httpBuffer
      BY <1>2, <1>3, <2>11, DropNone
    <3>2. Unparsed' = Unparsed
      BY <1>2, <3>1, Zenon DEF Unparsed
    <3>3. HttpTypes'
      BY <1>2, <1>3, <2>10, <3>1, Zenon DEF HttpTypes
    <3>4. Pending(Unparsed', Sent', t)
      BY <1>1, <1>3, <3>2, ZenonT(40)
    <3>5. HttpInv'
      BY <2>10, <2>11, <3>3, <3>4, SMTT(40) DEF HttpInv
    <3> QED
      BY <2>6, <2>8, <2>9, <3>5, SMTT(40) DEF HttpInvs
  <2>12. CASE /\ r.kind # "noColon" /\ parsed.length = Len(RequestBytes(i, r))
              /\ parsed.length <= Len(httpBuffer)
    <3> DEFINE k == Len(Sent[t + 1])
    <3>1. k = parsed.length /\ k \in Nat
      <4>1. Sent[t + 1] = RequestBytes(i, r)
        BY <1>3, <2>2, ZenonT(40) DEF r
      <4>2. Len(RequestBytes(i, r)) \in Nat
        BY <2>2, BytesShape
      <4> QED
        BY <2>12, <4>1, <4>2, Zenon
    <3>2. Pending(Drop(Unparsed, k), Sent, t + 1)
      <4>1. t < Len(Sent) /\ Sent \in Seq(Seq(HByte))
        <5>1. t + 1 \in 1 .. Len(Sent)
          BY <1>3, <2>2, ZenonT(40)
        <5> QED
          BY <1>3, <5>1
      <4>2. Unparsed \in Seq(HByte)
        BY <1>1, NextRequest, SMTT(40) DEF HttpInvs, HttpInv
      <4> QED
        BY <1>1, <4>1, <4>2, PendingFirst, SMTT(40)
    <3> HIDE DEF k
    <3>3. k \in 0 .. Len(httpBuffer)
      BY <1>3, <2>12, <3>1, SMTT(40)
    <3>4. Drop(httpBuffer \o inbound, k) = Drop(httpBuffer, k) \o inbound
      <4>1. httpBuffer \in Seq(HByte) /\ inbound \in Seq(HByte)
        BY <1>3
      <4> QED
        BY <3>3, <4>1, DropConcat, SMTT(40)
    <3>5. httpBuffer' = Drop(httpBuffer, k)
      BY <1>2, <3>1, Zenon
    <3>6. Unparsed' = Drop(Unparsed, k)
      BY <1>2, <3>4, <3>5, ZenonT(40) DEF Unparsed
    <3>7. Drop(httpBuffer, k) \in Seq(HByte)
      BY <1>3, <3>3, LastPart
    <3>8. HttpTypes'
      BY <1>2, <1>3, <2>10, <3>5, <3>7, ZenonT(40) DEF HttpTypes
    <3>9. Pending(Unparsed', Sent', t + 1)
      BY <1>3, <3>2, <3>6, Zenon
    <3>10. t + 1 \in Nat
      OBVIOUS
    <3>11. HttpInv'
      BY <2>10, <2>12, <3>8, <3>9, <3>10 DEF HttpInv
    <3> QED
      BY <2>6, <2>8, <2>9, <3>11 DEF HttpInvs
  <2> QED
    BY <2>2, <2>11, <2>12, Zenon
<1> QED
  BY <1>6, <1>7

(* AddFile moves the worker's entry to the stream. *)
LEMMA AddFileFramed ==
    ASSUME FbInv, Framed, EntryFramed, AddFile, UNCHANGED httpVars
    PROVE  Framed' /\ EntryFramed'
<1> DEFINE h == entry.header
           b == entry.body
           g == h \o b
<1>1. /\ accepted' = (accepted \o h) \o b /\ entry' = NoFile(<<>>) /\ requests' = requests
  BY DEF AddFile, httpVars
<1>2. h \in Seq(Unit) /\ b \in Seq(Unit) /\ accepted \in Seq(Unit)
  BY DEF FbInv, FbTypes, FbEntry, File
<1>3. g \in Seq(Unit) /\ accepted' = accepted \o g
  <2> HIDE DEF h, b
  <2>1. g \in Seq(Unit)
    BY <1>2, ConcatProperties
  <2>2. (accepted \o h) \o b = accepted \o (h \o b)
    <3>1. accepted \in Seq(Unit)
      BY <1>2
    <3> QED
      BY <1>2, <3>1, UnitsConcat, SMTT(40)
  <2> QED
    BY <1>1, <2>1, <2>2, Zenon
<1>4. g = <<>> \/ \E i \in 1 .. Len(requests) : Segment(g, i, requests[i].kind = "get")
  BY ZenonT(40) DEF EntryFramed
<1> HIDE DEF g
<1>5. CASE g = <<>>
  <2>1. accepted' = accepted
    BY <1>2, <1>3, <1>5, ConcatEmptySeq
  <2> QED
    BY <1>1, <2>1, FramedSame DEF EntryFramed, NoFile
<1>6. ASSUME NEW i \in 1 .. Len(requests), Segment(g, i, requests[i].kind = "get")
      PROVE  Framed'
  BY <1>1, <1>2, <1>3, <1>6, FramedAppend, Zenon
<1>7. EntryFramed'
  <2>1. NoFile(<<>>).header \o NoFile(<<>>).body = <<>>
    BY DEF NoFile
  <2> QED
    BY <1>1, <2>1, ZenonT(40) DEF EntryFramed
<1> QED
  BY <1>4, <1>5, <1>6, <1>7, ZenonT(40)

LEMMA HttpInductive == HttpSpec => []HttpInvs
<1>1. HttpInit => HttpInvs
  BY HttpInvInit
<1>2. ASSUME HttpInvs, [HttpNext]_<<fbVars, httpVars>> PROVE HttpInvs'
  <2>0. FbInv /\ HttpInv /\ Framed /\ EntryFramed
    BY <1>2 DEF HttpInvs
  <2>1. CASE \E r \in Requests : HttpClientSends(r)
    BY <1>2, <2>1, ClientSendsStep
  <2>2. CASE OnClientMessage
    BY <1>2, <2>2, ClientMessageStep, SMTT(40)
  <2>3. CASE HttpReads
    <3>1. FbInv' /\ UNCHANGED <<accepted, entry>> /\ HttpInv'
      BY <2>0, <2>3, FbReadOrShut, ReadKeepsOrder, SMTT(40)
    <3>2. requests' = requests
      BY <2>3 DEF HttpReads, OnReadCallback
    <3> QED
      BY <2>0, <3>1, <3>2, FramedSame, EntrySame, SMTT(40) DEF HttpInvs
  <2>4. ASSUME UNCHANGED <<requests, inbound, httpBuffer, replies>>, fbShut' = fbShut
        PROVE  HttpInv'
    <3>1. Unparsed' = Unparsed /\ HttpTypes'
      BY <2>0, <2>4, Zenon DEF Unparsed, HttpInv, HttpTypes
    <3> QED
      BY <2>0, <2>4, <3>1, HttpSame, Zenon
  <2>5. CASE HttpShutDownWrite
    <3>1. FbInv' /\ UNCHANGED <<accepted, entry>>
      BY <2>0, <2>5, FbReadOrShut, SMTT(40)
    <3>2. UNCHANGED <<requests, inbound, httpBuffer, replies, fbShut>>
      BY <2>5 DEF HttpShutDownWrite, fbConn
    <3> QED
      BY <2>0, <2>4, <3>1, <3>2, FramedSame, EntrySame DEF HttpInvs
  <2>6. CASE (SendStep \/ FbLoopStep \/ FbPeerReads \/ FbPeerStep) /\ UNCHANGED httpVars
    <3>1. FbInv'
      BY <2>0, <2>6, FbStep, HttpAssumption
    <3>2. UNCHANGED <<requests, inbound, httpBuffer, replies>>
      BY <2>6 DEF httpVars
    <3>3. fbShut' = fbShut
      BY <2>6, ZenonT(40) DEF SendStep, FbLoopStep, FbPeerStep, FlushStep, AddFile, SendFlushes, Enter,
           OnWriteCallback, FlushFirst, FlushOpen, FlushHeader, FlushBuffer, SendFilePart,
           SendFileFails, FlushDone, FlushTorn, EnableWrite, OnWriteDecides, OnReadDecides, OnHangUp,
           FbPeerReads, FbPeerEnds, FbPeerResets, FileShrinks, fbConn
    <3>4. CASE AddFile
      BY <2>0, <2>4, <2>6, <3>1, <3>2, <3>3, <3>4, AddFileFramed, SMTT(40) DEF HttpInvs
    <3>5. CASE ~AddFile
      <4>1. UNCHANGED <<accepted, entry>>
        BY <2>6, <3>5, ZenonT(40) DEF SendStep, FbLoopStep, FbPeerStep, FlushStep, SendFlushes, Enter,
           OnWriteCallback, FlushFirst, FlushOpen, FlushHeader, FlushBuffer, SendFilePart,
           SendFileFails, FlushDone, FlushTorn, EnableWrite, OnWriteDecides, OnReadDecides, OnHangUp,
           FbPeerReads, FbPeerEnds, FbPeerResets, FileShrinks, fbHistory
      <4> QED
        BY <2>0, <2>4, <3>1, <3>2, <3>3, <4>1, FramedSame, EntrySame, SMTT(40) DEF HttpInvs
    <3> QED
      BY <3>4, <3>5
  <2>7. CASE UNCHANGED <<fbVars, httpVars>>
    <3>1. FbInv'
      BY <2>0, <2>7, FbStutters
    <3>2. UNCHANGED <<requests, inbound, httpBuffer, replies, fbShut, accepted, entry>>
      BY <2>7 DEF fbVars, httpVars, fbConn, fbHistory
    <3> QED
      BY <2>0, <2>4, <3>1, <3>2, FramedSame, EntrySame DEF HttpInvs
  <2> QED
    BY <1>2, <2>1, <2>2, <2>3, <2>5, <2>6, <2>7, SMTT(40) DEF HttpNext, HttpWorker, HttpLoop
<1> QED
  BY <1>1, <1>2, PTL DEF HttpSpec

(* Until the worker and the loop's thread are in a FileBuffer at once,     *)
(* what it hands to the kernel, in partial writes and sendfiles of either  *)
(* thread and past refusals, is a prefix of what Send and SendFile were    *)
(* given, whatever the two threads do between their flushes.               *)
THEOREM FileBufferStreamInOrder == HttpSpec => []StreamInOrder
<1>1. HttpInvs => StreamInOrder
  BY FbInvImplies DEF HttpInvs
<1> QED
  BY <1>1, HttpInductive, PTL

(* A connection that decides to close after the peer's FIN has sent every  *)
(* file it was given before it looked at Empty(), up to what is in         *)
(* buffer_; a file added after that look is not covered, and is lost.      *)
THEOREM FileBufferClosedAfterFiles == HttpSpec => []ClosedAfterFiles
<1>1. HttpInvs => ClosedAfterFiles
  BY FbInvImplies DEF HttpInvs
<1> QED
  BY <1>1, HttpInductive, PTL

(* OnClientMessage answers the requests in order and once each, however    *)
(* the stream is cut, except one without a colon in a header line, which   *)
(* ParseMessage does not consume; Send drops a reply only after shut_down_ *)
(* was set, and then every later one.                                      *)
THEOREM HttpOneReplyEach == HttpSpec => []OneReplyEach
<1>1. ASSUME HttpInvs PROVE OneReplyEach
  <2>1. PICK t \in Nat : Pending(Unparsed, Sent, t) /\ RepliesFor(t)
    BY <1>1 DEF HttpInvs, HttpInv
  <2>2. /\ t \in 0 .. Len(requests)
        /\ Unparsed = <<>> => t = Len(requests)
        /\ Unparsed # <<>> => t < Len(requests) /\ Unparsed[1] = <<t + 1, 1>>
    BY <1>1, <2>1, NextRequest DEF HttpInvs, HttpInv
  <2>3. t = IF Unparsed = <<>> THEN Len(requests) ELSE Unparsed[1][1] - 1
    BY <2>2
  <2>4. Unparsed # <<>> => Unparsed[1][2] = 1
    BY <2>2
  <2>5. RepliesDropped
    BY <1>1 DEF HttpInvs, HttpInv
  <2> QED
    BY <2>1, <2>3, <2>4, <2>5, ZenonT(40) DEF OneReplyEach, RepliesFor, RepliesDropped, Unparsed
<1> QED
  BY <1>1, HttpInductive, PTL

(* The Content-Length of the reply to a GET is the number of bytes that    *)
(* SendFile was given after it, compressed or not, and the next reply      *)
(* starts behind them.                                                     *)
THEOREM HttpRepliesFramed == HttpSpec => []RepliesFramed
<1>1. HttpInvs => RepliesFramed
  BY DEF HttpInvs, Framed
<1> QED
  BY <1>1, HttpInductive, PTL
===============================================================================
