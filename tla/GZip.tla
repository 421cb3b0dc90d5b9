--------------------------------- MODULE GZip ---------------------------------
(***************************************************************************)
(* The loops that pass data through a buffer: GZipper's Deflate, Inflate   *)
(* and DeflateFile, and ReadFileAsString of utils.cpp.  The outer loop     *)
(* takes a bufferful of input, the inner one calls zlib until it leaves    *)
(* room in the output buffer.  zlib is external: deflate makes one unit of *)
(* output of each unit of input, between a head and a tail; the tail comes *)
(* with Z_FINISH, and before that it may keep back what it likes.  inflate *)
(* makes several units of one, so that a chunk can take many turns.        *)
(***************************************************************************)
EXTENDS Integers, Sequences

CONSTANTS
    BufferSize,  \* kGZipBufferSize, kGZipFileBufferSize, kFileBufferSize
    Ratio,       \* units that inflate makes of one
    MaxInput     \* bound: units of input

ASSUME GZipAssumption == BufferSize \in Nat \ {0} /\ Ratio \in Nat \ {0} /\ MaxInput \in Nat

VARIABLES
    gzFn,      \* the function that runs, or "none"
    input,     \* the string, or the content of the file
    fault,     \* what will fail: "none", "start" (fopen or zlib's Init), or a "read"
    fed,       \* units taken from input
    finish,    \* flush = Z_FINISH, or feof
    turning,   \* the inner loop runs
    result,    \* the result so far
    gzDone     \* the function has returned

gzVars == <<gzFn, input, fault, fed, finish, turning, result, gzDone>>

GzInit ==
    /\ gzFn = "none" /\ input = <<>> /\ fault = "none" /\ fed = 0 /\ finish = FALSE
    /\ turning = FALSE /\ result = <<>> /\ gzDone = FALSE

GzFunctions == {"Deflate", "Inflate", "DeflateFile", "ReadFileAsString"}

(* Inflate is given what deflate makes, or the start of it. *)
GzCall(fn, n, f) ==
    /\ gzFn = "none" /\ gzFn' = fn
    /\ input' = [j \in 1 .. n |-> j] /\ fault' = f /\ gzDone' = (f = "start")
    /\ UNCHANGED <<fed, finish, turning, result>>

(* What zlib makes of the first n units of input: deflate puts a head (0)  *)
(* in front, and a tail (-1) when told to finish; inflate takes off both   *)
(* and expands the rest.                                                   *)
Made(n, end) ==
    CASE gzFn = "Inflate" -> [j \in 1 .. Ratio * (IF n = MaxInput THEN n - 2 ELSE n - 1) |-> j]
      [] gzFn = "ReadFileAsString" -> SubSeq(input, 1, n)
      [] OTHER -> <<0>> \o SubSeq(input, 1, n) \o IF end THEN <<-1>> ELSE <<>>

Chunk == IF Len(input) - fed < BufferSize THEN Len(input) - fed ELSE BufferSize

(* A turn of the outer loop over a string: the last chunk is finished. *)
StringTurn(fn) ==
    /\ gzFn = fn /\ ~turning /\ ~gzDone
    /\ IF fed < Len(input)
       THEN /\ fed' = fed + Chunk /\ finish' = (fed' >= Len(input))
            /\ turning' = TRUE /\ UNCHANGED gzDone
       ELSE gzDone' = TRUE /\ UNCHANGED <<fed, finish, turning>>
    /\ UNCHANGED <<gzFn, input, fault, result>>

(* A turn of the outer loop over a file: feof holds after a read that came *)
(* short, so that a file of whole bufferfuls ends with an empty one.       *)
ReadsOn == fault = "none" \/ fed + BufferSize < Len(input)
FileTurn(fn) ==
    /\ gzFn = fn /\ ReadsOn /\ ~turning /\ ~gzDone
    /\ IF ~finish
       THEN fed' = fed + Chunk /\ finish' = (Chunk < BufferSize) /\ turning' = TRUE /\ UNCHANGED gzDone
       ELSE gzDone' = TRUE /\ UNCHANGED <<fed, finish, turning>>
    /\ UNCHANGED <<gzFn, input, fault, result>>

(* A turn of the inner loop: zlib fills the buffer, or leaves room in it   *)
(* when it has taken all input, keeping back some of it if it may.         *)
ZlibTurn(keeps) ==
    LET made == Made(fed, finish)
        most == IF Len(made) - Len(result) < BufferSize THEN Len(made) - Len(result) ELSE BufferSize
    IN  /\ turning
        /\ \E n \in (IF keeps /\ ~finish THEN 0 .. most ELSE {most}) :
              /\ result' = result \o SubSeq(made, Len(result) + 1, Len(result) + n)
              /\ turning' = (n = BufferSize)
        /\ UNCHANGED <<gzFn, input, fault, fed, finish, gzDone>>

Mut_DeflateOnce ==
    \/ StringTurn("Deflate")
    \/ gzFn = "Deflate" /\ turning /\ turning' = FALSE
       /\ \E n \in 0 .. BufferSize : result' = SubSeq(Made(fed, finish), 1, Len(result) + n)
       /\ UNCHANGED <<gzFn, input, fault, fed, finish, gzDone>>
Deflate == StringTurn("Deflate") \/ (gzFn = "Deflate" /\ ZlibTurn(TRUE))

Inflate == StringTurn("Inflate") \/ (gzFn = "Inflate" /\ ZlibTurn(FALSE))

(* An error gives an empty result. *)
DeflateFile ==
    \/ FileTurn("DeflateFile") \/ (gzFn = "DeflateFile" /\ ZlibTurn(TRUE))
    \/ /\ gzFn = "DeflateFile" /\ ~turning /\ ~gzDone /\ ~ReadsOn
       /\ gzDone' = TRUE /\ result' = <<>>
       /\ UNCHANGED <<gzFn, input, fault, fed, finish, turning>>

(* There is no zlib, and nothing looks at ferror: after a failed read the  *)
(* loop goes on for ever, as for a directory, which opens but is not read. *)
ReadFileAsString ==
    \/ FileTurn("ReadFileAsString")
    \/ /\ gzFn = "ReadFileAsString" /\ turning /\ turning' = FALSE
       /\ result' = SubSeq(input, 1, fed)
       /\ UNCHANGED <<gzFn, input, fault, fed, finish, gzDone>>

GzStep == Deflate \/ Inflate \/ DeflateFile \/ ReadFileAsString

GzNext ==
    \/ \E fn \in GzFunctions, n \in 0 .. MaxInput, f \in {"none", "start", "read"} : GzCall(fn, n, f)
    \/ GzStep

-------------------------------------------------------------------------------
WholeResult ==
    LET failed == fault = "start" \/ (fault = "read" /\ gzFn = "DeflateFile")
    IN  IF failed \/ (input = <<>> /\ gzFn = "Deflate") THEN <<>> ELSE Made(Len(input), TRUE)

(* Whatever zlib keeps back and wherever the chunks end, each function     *)
(* returns, with all of its data, once, and the head and the tail, or with *)
(* nothing after an error.  An empty string is deflated to an empty one,   *)
(* an empty file to a stream.  Only the loop of ReadFileAsString goes on   *)
(* for ever, when a read fails.                                            *)
GZipReturns ==
    gzFn # "none" ~> \/ gzDone /\ result = WholeResult
                     \/ gzFn = "ReadFileAsString" /\ fault = "read"
===============================================================================
