------------------------------ MODULE MCStudio ------------------------------
(* Small instances of Studio for TLC.                                      *)
EXTENDS Studio, TLC

CONSTANTS n1, n2, i1, i2

OneRow   == [n \in Names |-> i1]                        \* every name aliases row i1

Symmetry == Permutations(Docs) \cup Permutations(Users) \cup Permutations(Readers) \cup Permutations(Savers)
=============================================================================
