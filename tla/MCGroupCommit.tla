---------------------------- MODULE MCGroupCommit ----------------------------
(* GroupCommit for TLC: no definition orders transactions by name, so they *)
(* are interchangeable.                                                    *)
EXTENDS GroupCommit, TLC

TxnSymmetry == Permutations(Txns)
=============================================================================
