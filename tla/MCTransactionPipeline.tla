------------------------ MODULE MCTransactionPipeline ------------------------
(* TLC instances of TransactionPipeline. *)
EXTENDS TransactionPipeline, TLC

Symmetry == Permutations(Tx) \cup Permutations(Msg) \cup Permutations(Job)
=============================================================================
