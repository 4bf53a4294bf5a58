--------------------------- MODULE MCImageArchive ---------------------------
(* Small instances of ImageArchive for TLC.                                *)
EXTENDS ImageArchive, TLC

CONSTANTS a, b, hx, hy

(* a and b collide, the other images do not.                               *)
Colliding == [im \in Images |-> IF im \in {a, b} THEN hx ELSE hy]

Symmetry == Permutations(Handlers)
=============================================================================
