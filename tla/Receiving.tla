----------------------------- MODULE Receiving ------------------------------
(***************************************************************************)
(* apps/api/src/receiving: shipment notices, goods receipts, corrections   *)
(* and posting, with the purchase-order commands that decide what may be   *)
(* shipped.  Each action is one PostgreSQL transaction: all its guards are *)
(* evaluated on rows it has locked (see LotTransactions for the locks of   *)
(* the commands that race), and an error rolls everything back.            *)
(***************************************************************************)
EXTENDS MaterialTables

(***************************************************************************)
(* The purchase order.  Which requisition lines a revision draws on is     *)
(* left out: a revision orders any quantity of any item.                   *)
(***************************************************************************)
TransitionOrder(target) ==
  /\ CanTransitionPurchaseOrder(order.status, target)
  /\ order' = [order EXCEPT !.status = target]
  /\ UNCHANGED <<asn, receipt, lot, definition, inspection, allocation>>

\* A new current revision replaces every line; the order is a draft again.
ReviseOrder(q) ==
  /\ CanRevisePurchaseOrder(order.status)
  /\ order.revision < MaxRevision
  /\ q # NoLines
  /\ order' = [order EXCEPT !.status = "DRAFT",
                            !.revision = @ + 1,
                            !.ordered[order.revision + 1] = q]
  /\ UNCHANGED <<asn, receipt, lot, definition, inspection, allocation>>

(***************************************************************************)
(* Advance shipment notices.                                               *)
(***************************************************************************)
\* Mutant: other notices of the line are not counted.
AvailableToShipAlone(i, quantity) == quantity <= order.ordered[order.revision][i]

AvailableToShip(i, quantity) ==
  Shipped(order.revision, i) + quantity <= order.ordered[order.revision][i]

CreateAsn(a, q) ==
  /\ asn[a].status = "NONE"
  /\ order.status = "ACKNOWLEDGED"
  /\ q # NoLines
  /\ \A i \in Items : q[i] > 0 => AvailableToShip(i, q[i])
  /\ asn' = [asn EXCEPT ![a] = [status |-> "DRAFT", revision |-> order.revision,
                                shipped |-> q]]
  /\ UNCHANGED <<order, receipt, lot, definition, inspection, allocation>>

CanTransitionShipment(source, target) ==
  \/ source = "DRAFT" /\ target \in {"SUBMITTED", "CANCELLED"}
  \/ source = "SUBMITTED" /\ target \in {"IN_TRANSIT", "CANCELLED"}
  \/ source = "IN_TRANSIT" /\ target = "ARRIVED"

TransitionAsn(a, target) ==
  /\ CanTransitionShipment(asn[a].status, target)
  /\ asn' = [asn EXCEPT ![a].status = target]
  /\ UNCHANGED <<order, receipt, lot, definition, inspection, allocation>>

(***************************************************************************)
(* Draft receipts.  Drafts reserve nothing: several may claim the same     *)
(* quantity, and posting decides.                                          *)
(***************************************************************************)
CreateReceipt(r, a, q) ==
  /\ receipt[r].status = "NONE"
  /\ asn[a].status = "ARRIVED"
  /\ q # NoLines
  /\ \A i \in Items : q[i] > 0 =>
       asn[a].shipped[i] > 0 /\ Posted(a, i) + q[i] <= asn[a].shipped[i]
  /\ receipt' = [receipt EXCEPT ![r] = [kind |-> "RECEIPT", status |-> "DRAFT", asn |-> a,
                                        corrects |-> NoReceipt, delta |-> q]]
  /\ UNCHANGED <<order, asn, lot, definition, inspection, allocation>>

\* Received quantity of a notice line that the code accepts.
WithinShipped(a, i, received) == 0 <= received /\ received <= asn[a].shipped[i]

CreateCorrection(r, original, d) ==
  LET a == receipt[original].asn IN
  /\ receipt[r].status = "NONE"
  /\ receipt[original].kind = "RECEIPT"
  /\ receipt[original].status = "POSTED"
  /\ d # NoLines
  /\ \A i \in Items : d[i] # 0 =>
       receipt[original].delta[i] # 0 /\ WithinShipped(a, i, Posted(a, i) + d[i])
  /\ receipt' = [receipt EXCEPT ![r] = [kind |-> "CORRECTION", status |-> "DRAFT", asn |-> a,
                                        corrects |-> original, delta |-> d]]
  /\ UNCHANGED <<order, asn, lot, definition, inspection, allocation>>

(***************************************************************************)
(* Posting.  The received quantity of every line is checked again under    *)
(* the locks of the notice's lines, against what other receipts posted     *)
(* since the draft was written.                                            *)
(***************************************************************************)
LinesOf(r) == {i \in Items : receipt[r].delta[i] # 0}

ReceivedBesides(r, i) == PostedOn(Receipts \ {r}, receipt[r].asn, i)

\* Mutants: quantities are not checked again; a posted receipt is posted again.
PostingChecksOnce(r) == receipt[r].status = "DRAFT"

PostingChecksReplayed(r) ==
  /\ receipt[r].status # "NONE"
  /\ \A i \in LinesOf(r) :
       WithinShipped(receipt[r].asn, i, ReceivedBesides(r, i) + receipt[r].delta[i])

PostingChecks(r) ==
  /\ receipt[r].status = "DRAFT"
  /\ \A i \in LinesOf(r) :
       WithinShipped(receipt[r].asn, i, ReceivedBesides(r, i) + receipt[r].delta[i])

\* An original receipt creates one lot per line, and the lot's inspection
\* when its item has active definitions.
PostOriginal(r) ==
  LET created == {r} \X LinesOf(r) IN
  /\ PostingChecks(r)
  /\ receipt[r].kind = "RECEIPT"
  /\ receipt' = [receipt EXCEPT ![r].status = "POSTED"]
  /\ lot' = [l \in Lots |-> IF l \in created
                            THEN [NewLot EXCEPT !.status = "AWAITING_INSPECTION",
                                                !.quantity = receipt[r].delta[ItemOf(l)]]
                            ELSE lot[l]]
  /\ inspection' = [l \in Lots |-> IF l \in created THEN InspectionForLot(l)
                                   ELSE inspection[l]]
  /\ UNCHANGED <<order, asn, definition, allocation>>

\* Mutant: a dispositioned lot takes a correction.
CorrectionFitsAny(l, delta) == Effective(l) + delta >= 0

CorrectionFits(l, delta) ==
  lot[l].status = "AWAITING_INSPECTION" /\ Effective(l) + delta >= 0

\* A correction appends one adjustment per line to the original's lots; one
\* dispositioned or overdrawn lot refuses the whole posting.
\* Mutant of it: lots that cannot take the correction are left out.
PostCorrectionOfSome(r) ==
  LET fitting == {l \in {receipt[r].corrects} \X LinesOf(r) :
                    CorrectionFits(l, receipt[r].delta[ItemOf(l)])}
  IN
  /\ PostingChecks(r)
  /\ receipt[r].kind = "CORRECTION"
  /\ fitting # {}
  /\ receipt' = [receipt EXCEPT ![r].status = "POSTED"]
  /\ lot' = [l \in Lots |-> IF l \in fitting
                            THEN [lot[l] EXCEPT !.adjusted = @ + receipt[r].delta[ItemOf(l)]]
                            ELSE lot[l]]
  /\ UNCHANGED <<order, asn, definition, inspection, allocation>>

PostCorrection(r) ==
  LET corrected == {receipt[r].corrects} \X LinesOf(r) IN
  /\ PostingChecks(r)
  /\ receipt[r].kind = "CORRECTION"
  /\ \A l \in corrected : CorrectionFits(l, receipt[r].delta[ItemOf(l)])
  /\ receipt' = [receipt EXCEPT ![r].status = "POSTED"]
  /\ lot' = [l \in Lots |-> IF l \in corrected
                            THEN [lot[l] EXCEPT !.adjusted = @ + receipt[r].delta[ItemOf(l)]]
                            ELSE lot[l]]
  /\ UNCHANGED <<order, asn, definition, inspection, allocation>>

PostReceipt(r) == PostOriginal(r) \/ PostCorrection(r)

ReceivingNext ==
  \/ \E target \in OrderStatuses \ {"DRAFT"} : TransitionOrder(target)
  \/ \E q \in [Items -> Quantities] : ReviseOrder(q)
  \/ \E a \in Asns, q \in [Items -> Quantities] : CreateAsn(a, q)
  \/ \E a \in Asns, target \in AsnStatuses : TransitionAsn(a, target)
  \/ \E r \in Receipts, a \in Asns, q \in [Items -> Quantities] : CreateReceipt(r, a, q)
  \/ \E r, original \in Receipts, d \in [Items -> Deltas] : CreateCorrection(r, original, d)
  \/ \E r \in Receipts : PostReceipt(r)

=============================================================================
