-------------------------- MODULE MCTransactionList --------------------------
(* TLC instances of TransactionList. *)
EXTENDS TransactionList, TLC

Symmetry == Permutations(Merchant) \cup Permutations(Tx) \cup Permutations(Reader)

FirstPage == [page |-> 1, limit |-> 2]
FirstPageOnly == {FirstPage}
=============================================================================
