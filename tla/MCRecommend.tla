---------------------------- MODULE MCRecommend ----------------------------
(* A small catalogue for Recommend. *)
EXTENDS Recommend

CONSTANTS q1, q2

\* The limit leaves out one of the three articles.
MCSeed == 0 :> "basic" @@ 1 :> [category |-> "engineering", score |-> 8]
            @@ 2 :> [category |-> "premium", score |-> 9]
            @@ 3 :> [category |-> "operations", score |-> 8]

RequestSymmetry == Permutations({q1, q2})
=============================================================================
