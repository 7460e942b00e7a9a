------------------------------- MODULE Filter -------------------------------
(***************************************************************************)
(* What is left of a list when some elements are taken out of it.  It is   *)
(* SelectSeq with a set for the test, written so that it can be reasoned   *)
(* about.                                                                  *)
(***************************************************************************)
EXTENDS Integers, Sequences

\* s without the elements of S; the others keep their order.
Drop(s, S) ==
    LET kept[n \in 0..Len(s)] ==
            IF n = 0 THEN <<>>
            ELSE IF s[n] \in S THEN kept[n - 1] ELSE Append(kept[n - 1], s[n])
    IN  kept[Len(s)]
=============================================================================
