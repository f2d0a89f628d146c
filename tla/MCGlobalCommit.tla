---------------------------- MODULE MCGlobalCommit ----------------------------
(* GlobalCommit for TLC: transactions of the same kind, structural or not, *)
(* are interchangeable.                                                    *)
EXTENDS GlobalCommit, TLC

Symmetry ==
    {p \in Permutations(Txns) : \A t \in Txns : t \in Structural <=> p[t] \in Structural}
===============================================================================
