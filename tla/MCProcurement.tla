--------------------------- MODULE MCProcurement ----------------------------
(***************************************************************************)
(* Finite instances of Procurement for TLC: every bill-of-material line    *)
(* needs one unit.                                                         *)
(***************************************************************************)
EXTENDS Procurement, TLC

OneUnit == [b \in BomLines |-> 1]

Symmetry == Permutations(Tx) \cup Permutations(Requisitions) \cup Permutations(Orders)

=============================================================================
