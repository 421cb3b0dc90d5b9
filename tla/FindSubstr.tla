------------------------------ MODULE FindSubstr ------------------------------
(***************************************************************************)
(* FindSubstr of utils.cpp: all positions of a pattern in a string, by the *)
(* Knuth-Morris-Pratt search with the shortened failure table.  A step is  *)
(* a turn of one of its loops.  Strings are sequences of characters whose  *)
(* positions count from 0, as in the code; the character at a pattern's    *)
(* length, which the code reads, is the terminating 0.                     *)
(***************************************************************************)
EXTENDS Integers, Sequences

CONSTANTS
    Characters,  \* the characters of strings and patterns, 0 not among them
    MaxStr,      \* bound: length of the string
    MaxPat       \* bound: length of the pattern

NUL == 0

ASSUME FindSubstrAssumption == Characters \subseteq Nat \ {NUL} /\ MaxStr \in Nat /\ MaxPat \in Nat

VARIABLES
    str, pat,    \* the arguments
    next,        \* next: what the array holds so far, as a function on 0 .. n
    kmp,         \* the loop that is running: "idle", "table", "back", "search", "done"
    tt, ii, jj,  \* t (tmp in the inner loop), i and j
    suffix,      \* t while the inner loop runs
    positions    \* the result

kmpVars == <<str, pat, next, kmp, tt, ii, jj, suffix, positions>>

PatAt(p, k) == IF k = Len(p) THEN NUL ELSE p[k + 1]
StrAt(s, k) == s[k + 1]

KmpInit ==
    /\ str = <<>> /\ pat = <<>> /\ next = <<>> /\ kmp = "idle"
    /\ tt = 0 /\ ii = 0 /\ jj = 0 /\ suffix = 0 /\ positions = <<>>

KmpCall(s, p) ==
    /\ kmp = "idle" /\ kmp' = "table"
    /\ str' = s /\ pat' = p /\ next' = [k \in {0} |-> -1]
    /\ tt' = -1 /\ ii' = 0
    /\ UNCHANGED <<jj, suffix, positions>>

(* The outer loop that fills the table. *)
TableTurn ==
    /\ kmp = "table"
    /\ IF ii = Len(pat)
       THEN kmp' = "search" /\ ii' = 0 /\ jj' = 0 /\ UNCHANGED <<tt, suffix>>
       ELSE IF tt < 0 \/ PatAt(pat, tt) = PatAt(pat, ii)
            THEN kmp' = "back" /\ ii' = ii + 1 /\ suffix' = tt + 1 /\ tt' = tt + 1 /\ UNCHANGED jj
            ELSE tt' = next[tt] /\ UNCHANGED <<kmp, ii, jj, suffix>>
    /\ UNCHANGED <<str, pat, next, positions>>

(* The inner loop skips the suffixes that the next character rules out.    *)
BackTurn ==
    /\ kmp = "back"
    /\ IF tt >= 0 /\ PatAt(pat, tt) = PatAt(pat, ii)
       THEN tt' = next[tt] /\ UNCHANGED <<kmp, next>>
       ELSE /\ next' = [k \in 0 .. ii |-> IF k = ii THEN tt ELSE next[k]]
            /\ tt' = suffix /\ kmp' = "table"
    /\ UNCHANGED <<str, pat, ii, jj, suffix, positions>>

(* The search loop: ii is where the pattern lies, jj what has matched. *)
Mut_SearchTurn ==
    /\ kmp = "search"
    /\ IF ii + Len(pat) > Len(str)
       THEN kmp' = "done" /\ UNCHANGED <<ii, jj, positions>>
       ELSE /\ UNCHANGED kmp
            /\ IF jj < Len(pat) /\ (jj < 0 \/ StrAt(str, ii + jj) = PatAt(pat, jj))
               THEN jj' = jj + 1 /\ UNCHANGED <<ii, positions>>
               ELSE /\ positions' = IF jj = Len(pat) THEN Append(positions, ii) ELSE positions
                    /\ ii' = ii + jj /\ jj' = next[jj]
    /\ UNCHANGED <<str, pat, next, tt, suffix>>
SearchTurn ==
    /\ kmp = "search"
    /\ IF ii + Len(pat) > Len(str)
       THEN kmp' = "done" /\ UNCHANGED <<ii, jj, positions>>
       ELSE /\ UNCHANGED kmp
            /\ IF jj < Len(pat) /\ (jj < 0 \/ StrAt(str, ii + jj) = PatAt(pat, jj))
               THEN jj' = jj + 1 /\ UNCHANGED <<ii, positions>>
               ELSE /\ positions' = IF jj = Len(pat) THEN Append(positions, ii) ELSE positions
                    /\ ii' = ii + (jj - next[jj]) /\ jj' = next[jj]
    /\ UNCHANGED <<str, pat, next, tt, suffix>>

KmpTurn == TableTurn \/ BackTurn \/ SearchTurn
StringsTo(n) == UNION {[1 .. m -> Characters] : m \in 0 .. n}
KmpNext == KmpTurn \/ \E s \in StringsTo(MaxStr), p \in StringsTo(MaxPat) : KmpCall(s, p)

-------------------------------------------------------------------------------
OccursAt(k) == SubSeq(str, k + 1, k + Len(pat)) = pat

Occurrences == SelectSeq([k \in 1 .. Len(str) + 1 |-> k - 1],
                         LAMBDA k : k + Len(pat) <= Len(str) /\ OccursAt(k))

(* Every call returns all occurrences, overlapping ones and those of the   *)
(* empty pattern included: no jump of the search passes one, and neither   *)
(* loop runs for ever.  The terminating 0 decides the last entry of the    *)
(* table, so nothing is said of a pattern that holds a 0 itself.  (A read  *)
(* outside the table or a string would be an error of the evaluation.)     *)
FindSubstrReturns ==
    kmp # "idle" ~> kmp = "done" /\ positions = Occurrences
===============================================================================
