--------------------------- MODULE DatabaseGuards ---------------------------
(***************************************************************************)
(* The guards PostgreSQL itself puts on the tables of the material flow:   *)
(* the row triggers of the migrations, as predicates of one committed      *)
(* transaction.  They were written independently of the repositories, so   *)
(* a command a trigger refuses fails although its own checks passed.       *)
(***************************************************************************)
EXTENDS MaterialTables

Inserted(table, row) == table[row].status = "NONE" /\ table'[row].status # "NONE"
Updated(table, row) == table[row].status # "NONE" /\ table'[row] # table[row]

\* validate_advance_shipment_notice_scope
AsnInsertGuard ==
  \A a \in Asns : Inserted(asn, a) =>
    order.status = "ACKNOWLEDGED" /\ asn'[a].revision = order.revision

\* guard_advance_shipment_notice_update, and the immutable lines
AsnUpdateGuard ==
  \A a \in Asns : Updated(asn, a) =>
    /\ asn'[a] = [asn[a] EXCEPT !.status = asn'[a].status]
    /\ <<asn[a].status, asn'[a].status>> \in
         {<<"DRAFT", "SUBMITTED">>, <<"DRAFT", "CANCELLED">>,
          <<"SUBMITTED", "IN_TRANSIT">>, <<"SUBMITTED", "CANCELLED">>,
          <<"IN_TRANSIT", "ARRIVED">>}

\* validate_goods_receipt_scope and validate_goods_receipt_line_scope
ReceiptInsertGuard ==
  \A r \in Receipts : Inserted(receipt, r) =>
    LET new == receipt'[r]
        original == receipt[new.corrects]
    IN /\ asn[new.asn].status = "ARRIVED"
       /\ new.kind = "RECEIPT" => \A i \in Items : new.delta[i] >= 0
       /\ new.kind = "CORRECTION" =>
            /\ original.kind = "RECEIPT"
            /\ original.status = "POSTED"
            /\ original.asn = new.asn
            /\ \A i \in Items : new.delta[i] # 0 => original.delta[i] # 0

\* guard_goods_receipt_update, and the immutable lines
ReceiptUpdateGuard ==
  \A r \in Receipts : Updated(receipt, r) =>
    receipt[r].status = "DRAFT" /\ receipt'[r] = [receipt[r] EXCEPT !.status = "POSTED"]

\* validate_inventory_lot_scope
LotInsertGuard ==
  \A l \in Lots : Inserted(lot, l) =>
    receipt'[l[1]].status = "POSTED" /\ receipt'[l[1]].kind = "RECEIPT"

\* guard_inventory_lot_inspection_update; adjustments are rows of their own.
LotUpdateGuard ==
  \A l \in Lots :
    LET new == [lot'[l] EXCEPT !.adjusted = lot[l].adjusted] IN
    (lot[l].status # "NONE" /\ new # lot[l]) =>
      /\ new.quantity = lot[l].quantity
      /\ lot[l].status = "AWAITING_INSPECTION"
      /\ new.status # "AWAITING_INSPECTION"
      /\ new.accepted + new.rejected <= Effective(l)
      /\ new.quarantined = Effective(l) - new.accepted - new.rejected
      /\ inspection'[l].status = "FINALIZED"
      /\ inspection'[l].disposition = new.status

\* validate_inventory_lot_adjustment_scope; a correction line adjusts once.
AdjustmentInsertGuard ==
  \A l \in Lots : (lot[l].status # "NONE" /\ lot'[l].adjusted # lot[l].adjusted) =>
    /\ lot[l].status = "AWAITING_INSPECTION"
    /\ \E r \in Receipts :
         /\ receipt[r].status = "DRAFT" /\ receipt'[r].status = "POSTED"
         /\ receipt[r].kind = "CORRECTION"

\* guard_receiving_inspection_update
InspectionUpdateGuard ==
  \A l \in Lots : Updated(inspection, l) =>
    inspection[l].status = "OPEN" /\ inspection'[l].status \in {"OPEN", "FINALIZED"}

\* guard_receiving_inspection_check_update
CheckUpdateGuard ==
  \A l \in Lots : Updated(inspection, l) =>
    /\ inspection'[l].checks = inspection[l].checks
    /\ inspection'[l].result # inspection[l].result => inspection[l].status = "OPEN"

\* validate_material_allocation_insert
AllocationInsertGuard ==
  \A x \in Allocations : Inserted(allocation, x) =>
    LET new == allocation'[x] IN
    /\ lot[new.lot].status \in AllocatableStatuses
    /\ (lot[new.lot].status = "CONDITIONALLY_ACCEPTED") = new.conditionalUse
    /\ Committed(new.lot) + new.quantity <= lot[new.lot].accepted

\* guard_material_allocation_update
AllocationUpdateGuard ==
  \A x \in Allocations : Updated(allocation, x) =>
    /\ allocation[x].status = "ALLOCATED"
    /\ allocation'[x].status \in {"RELEASED", "CONSUMED"}
    /\ allocation'[x] = [allocation[x] EXCEPT !.status = allocation'[x].status]

DatabaseAccepts ==
  /\ AsnInsertGuard
  /\ AsnUpdateGuard
  /\ ReceiptInsertGuard
  /\ ReceiptUpdateGuard
  /\ LotInsertGuard
  /\ LotUpdateGuard
  /\ AdjustmentInsertGuard
  /\ InspectionUpdateGuard
  /\ CheckUpdateGuard
  /\ AllocationInsertGuard
  /\ AllocationUpdateGuard

=============================================================================
