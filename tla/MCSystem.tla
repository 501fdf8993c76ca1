------------------------------ MODULE MCSystem ------------------------------
(* TLC instance of System. *)
EXTENDS System

FirstPage == [page |-> 1, limit |-> 2]
OnlyFirstPage == {FirstPage}
=============================================================================
