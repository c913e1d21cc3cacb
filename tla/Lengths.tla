------------------------------- MODULE Lengths --------------------------------
(* Pieces of given lengths, one after another: where each ends.                *)
EXTENDS Naturals, Sequences

\* Ends(lengths)[n]: where the n-th piece ends; the first starts after Ends(lengths)[0].
Ends(lengths) ==
    LET end[n \in 0..Len(lengths)] == IF n = 0 THEN 0 ELSE end[n - 1] + lengths[n]
    IN  end

Total(lengths) == Ends(lengths)[Len(lengths)]
=============================================================================
