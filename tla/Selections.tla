------------------------------ MODULE Selections ------------------------------
(***************************************************************************)
(* The elements of a sequence that are in a set, in their order: a list    *)
(* comprehension with a condition.  It is SelectSeq, as a recursive        *)
(* function that can be reasoned about.                                    *)
(***************************************************************************)
EXTENDS Naturals, Sequences

Only(seq, S) ==
  LET only[n \in 0..Len(seq)] ==
        IF n = 0 THEN <<>>
        ELSE IF seq[n] \in S THEN Append(only[n - 1], seq[n]) ELSE only[n - 1]
  IN  only[Len(seq)]
=============================================================================
