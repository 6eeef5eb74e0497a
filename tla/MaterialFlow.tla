---------------------------- MODULE MaterialFlow ----------------------------
(***************************************************************************)
(* Receiving, inspections and allocations composed over their tables: from *)
(* an acknowledged purchase order to stock committed to the bill of        *)
(* materials.                                                              *)
(***************************************************************************)
EXTENDS Receiving, Inspections, Allocations, DatabaseGuards

CONSTANT WatchedLot   \* the lot whose history is compared with LotStock

ASSUME WatchedLotAssumption == WatchedLot \in Lots

Next == ReceivingNext \/ InspectionsNext \/ AllocationsNext

Spec == Init /\ [][Next]_vars

-----------------------------------------------------------------------------
(***************************************************************************)
(* Safety.                                                                 *)
(***************************************************************************)

\* Notices that are not cancelled never ship more than their revision of the
\* order orders (createAsn sums the notices under the order's row lock).
ShippedWithinOrdered ==
  \A v \in Revisions, i \in Items : Shipped(v, i) <= order.ordered[v][i]

\* Two sums the code keeps in different tables agree: what receipts and
\* corrections posted on a notice line is exactly what its lots hold.
StockMatchesReceipts ==
  \A a \in Asns, i \in Items :
    Posted(a, i) =
      SumFunctionOnSet([r \in Receipts |-> Effective(<<r, i>>)],
                       {r \in Receipts : receipt[r].asn = a})

\* A lot and its inspection are decided together and alike, and a plain
\* acceptance rests on required checks that all conform.
InspectionDecidesLot ==
  \A l \in Lots :
    /\ inspection[l].status = "FINALIZED" <=> lot[l].status \in Dispositions
    /\ inspection[l].status = "FINALIZED" => inspection[l].disposition = lot[l].status
    /\ lot[l].status = "ACCEPTED" =>
         \A c \in RequiredChecks(l) : inspection[l].result[c] = "CONFORMING"

\* The triggers accept every transaction the repositories commit.
DatabaseAgrees == [][DatabaseAccepts]_vars

(***************************************************************************)
(* The history of one lot is a history LotStock allows.                    *)
(***************************************************************************)
Stock == INSTANCE LotStock WITH
  Limit <- MaxOrdered,
  status <- lot[WatchedLot].status,
  effective <- Effective(WatchedLot),
  accepted <- lot[WatchedLot].accepted,
  rejected <- lot[WatchedLot].rejected,
  quarantined <- lot[WatchedLot].quarantined

\* Whatever the commands on notices, receipts, inspections and allocations
\* do, the stock of a lot moves only as LotStock promises.
ImplementsLotStock == Stock!Spec

=============================================================================
