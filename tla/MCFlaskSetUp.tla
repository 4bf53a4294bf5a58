---------------------------- MODULE MCFlaskSetUp ----------------------------
(* Small instances of FlaskSetUp for TLC.                                  *)
EXTENDS FlaskSetUp, TLC

Symmetry == Permutations(Threads)
=============================================================================
