---------------------------- MODULE MCLifeCycle -----------------------------
(* A small instance of LifeCycle for TLC.                                  *)
EXTENDS LifeCycle
=============================================================================
