---------------------------- MODULE Subsequences ----------------------------
(***************************************************************************)
(* What is left of a list when a filter passes over it: the elements that  *)
(* are in a set, in the order they had.  SelectSeq says the same with an   *)
(* operator as its argument, which no proof can instantiate.               *)
(***************************************************************************)
EXTENDS Naturals, Sequences

Kept(q, S) ==
  LET upTo[i \in 0..Len(q)] ==
        IF i = 0 THEN <<>>
        ELSE IF q[i] \in S THEN Append(upTo[i - 1], q[i])
        ELSE upTo[i - 1]
  IN upTo[Len(q)]

=============================================================================
