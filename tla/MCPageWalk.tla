----------------------------- MODULE MCPageWalk -----------------------------
(* TLC instance of PageWalk. *)
EXTENDS PageWalk
=============================================================================
