---------------------------- MODULE MCRenderCache ----------------------------
(* A small instance of RenderCache for TLC.                                *)
EXTENDS RenderCache, TLC

KeySymmetry == Permutations(Keys)
==============================================================================
