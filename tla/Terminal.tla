------------------------------ MODULE Terminal -------------------------------
(***************************************************************************)
(* What the modules of the terminal (src/apps/terminal) share: a value for *)
(* null and undefined, and the arithmetic of its layouts and figures.      *)
(***************************************************************************)
EXTENDS Integers, Sequences

CONSTANT None

Lesser(a, b) == IF a <= b THEN a ELSE b
Greater(a, b) == IF a >= b THEN a ELSE b

ClampLow(x, low, high) == Greater(low, Lesser(high, x))

\* list.slice(0, n) and list.slice(-n).
FirstOf(list, n) == SubSeq(list, 1, Lesser(n, Len(list)))
LastOf(list, n) == SubSeq(list, Greater(1, Len(list) - n + 1), Len(list))

\* list.filter((item) => ...), of which the items in gone are dropped.
Without(list, gone) ==
  LET upto[n \in 0..Len(list)] ==
        IF n = 0 THEN <<>>
        ELSE IF list[n] \in gone THEN upto[n - 1] ELSE Append(upto[n - 1], list[n])
  IN upto[Len(list)]
=============================================================================
