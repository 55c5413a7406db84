------------------------------ MODULE Selection ------------------------------
(* Subsequences.  SelectSeq with the test given as the set of places that   *)
(* pass it, defined by a recursive function one can reason about.           *)
EXTENDS Integers, Sequences

(* The elements of seq at the given places, in order.                       *)
Picked(seq, places) ==
    LET picked[n \in 0..Len(seq)] ==
          IF n = 0 THEN <<>>
          ELSE IF n \in places THEN Append(picked[n - 1], seq[n])
          ELSE picked[n - 1]
    IN  picked[Len(seq)]
=============================================================================
