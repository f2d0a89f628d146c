------------------------------ MODULE MCHeapMvcc ------------------------------
(* HeapMvcc for TLC: views, and rows that are not loaded, are              *)
(* interchangeable.                                                        *)
EXTENDS HeapMvcc, TLC

Symmetry == Permutations(Rows \ Loaded) \union Permutations(ViewIds)
===============================================================================
