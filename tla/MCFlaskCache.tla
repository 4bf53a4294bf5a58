---------------------------- MODULE MCFlaskCache ----------------------------
(* Small instances of FlaskCache for TLC.                                  *)
EXTENDS FlaskCache, TLC

Symmetry == Permutations(Threads) \cup Permutations(Docs)
=============================================================================
