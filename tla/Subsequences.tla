---------------------------- MODULE Subsequences ----------------------------
(***************************************************************************)
(* The elements of a sequence that are in a set, in their order.  As       *)
(* SelectSeq, with the set in the place of the operator, so that what it   *)
(* returns can be proved (Subsequences_proofs).                            *)
(***************************************************************************)
EXTENDS Integers, Sequences

Kept(s, S) ==
    LET upto[n \in 0..Len(s)] ==
            IF n = 0 THEN <<>>
            ELSE IF s[n] \in S THEN Append(upto[n - 1], s[n]) ELSE upto[n - 1]
    IN  upto[Len(s)]
=============================================================================
