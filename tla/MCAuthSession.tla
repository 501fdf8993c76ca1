---------------------------- MODULE MCAuthSession ----------------------------
(* TLC instances of AuthSession: registrations and sessions are interchangeable. *)
EXTENDS AuthSession, TLC

Symmetry == Permutations(Registration) \cup Permutations(Request)
=============================================================================
