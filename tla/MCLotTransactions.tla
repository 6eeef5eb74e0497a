------------------------- MODULE MCLotTransactions --------------------------
(***************************************************************************)
(* Finite instances of LotTransactions for TLC.                            *)
(***************************************************************************)
EXTENDS LotTransactions, TLC

Symmetry == Permutations(Tx) \cup Permutations(Allocations)

=============================================================================
