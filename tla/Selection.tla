------------------------------- MODULE Selection -------------------------------
(***************************************************************************)
(* The rows of a list that pass a filter, in their order: the database     *)
(* queries and the comprehensions of the code, as a function of a set, so  *)
(* that lemmas can be stated about it (SelectionProofs).                   *)
(***************************************************************************)
EXTENDS Naturals, Sequences

\* The elements of the sequence s that are in the set S.
Selected(s, S) ==
  LET upTo[n \in 0..Len(s)] ==
        IF n = 0 THEN <<>>
        ELSE IF s[n] \in S THEN Append(upTo[n - 1], s[n])
        ELSE upTo[n - 1]
  IN upTo[Len(s)]
=============================================================================
