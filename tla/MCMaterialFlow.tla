--------------------------- MODULE MCMaterialFlow ---------------------------
(***************************************************************************)
(* Finite instance of MaterialStatus for TLC.                              *)
(***************************************************************************)
EXTENDS MaterialStatus, TLC

CONSTANTS i1, i2, r1

FirstLot == <<r1, i1>>

\* The notices are interchangeable, and so are the allocations and the
\* receipts besides the one whose lot is watched.
Symmetry == Permutations(Asns) \cup Permutations(Receipts \ {r1}) \cup Permutations(Allocations)

(***************************************************************************)
(* Two bounds are explored, and nothing beyond them: one line of two units *)
(* with a single notice and either a revision of the order or allocations; *)
(* or two lines of one unit each with two notices, where check definitions *)
(* may also be deactivated.                                                *)
(***************************************************************************)
OneLine ==
  /\ \A v \in Revisions : order.ordered[v][i2] = 0
  /\ Cardinality({a \in Asns : asn[a].status # "NONE"}) <= 1
  /\ \A c \in Checks : definition[i1][c] # "INACTIVE"
  /\ order.revision = 1 \/ \A x \in Allocations : allocation[x].status = "NONE"

TwoLines ==
  /\ order.revision = 1
  /\ \A i \in Items : order.ordered[1][i] <= 1
  /\ \A x \in Allocations : allocation[x].status = "NONE"

Explored ==
  /\ OneLine \/ TwoLines
  /\ definition[i2] = [c \in Checks |-> "ABSENT"]

=============================================================================
