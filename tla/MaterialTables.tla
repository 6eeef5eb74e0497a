--------------------------- MODULE MaterialTables ---------------------------
(***************************************************************************)
(* The tables of the material flow (one project, one purchase order): the  *)
(* order as receiving sees it, advance shipment notices, goods receipts,   *)
(* inventory lots, inspection definitions, receiving inspections and       *)
(* material allocations, with the sums the repositories query from them.   *)
(*                                                                         *)
(* A table is a function from its keys to records; the status "NONE" (or   *)
(* "ABSENT") is a row that does not exist.  A line quantity of 0 is a line *)
(* that does not exist, because the code refuses 0 on every line.          *)
(*                                                                         *)
(* Row versions are not kept: every command re-reads its row under a row   *)
(* lock and refuses a request whose expectedVersion is not the row's, so   *)
(* a stale request changes nothing.                                        *)
(***************************************************************************)
EXTENDS MaterialRules, FiniteSets, Functions

CONSTANTS
  Items,        \* materials; a revision of the order has one line per item
  Checks,       \* inspection check codes an item can have a definition for
  Asns, Receipts, Allocations,  \* identities a command can give a new row
  NoAsn, NoReceipt,
  MaxRevision,  \* bound on the revisions of the order
  MaxOrdered    \* bound on the ordered quantity of a line

ASSUME MaterialAssumption ==
  /\ IsFiniteSet(Asns)
  /\ IsFiniteSet(Receipts)
  /\ IsFiniteSet(Allocations)
  /\ NoAsn \notin Asns
  /\ NoReceipt \notin Receipts
  /\ MaxRevision \in Nat \ {0}
  /\ MaxOrdered \in Nat \ {0}

VARIABLES
  order,       \* status, current revision, ordered quantity of every revision
  asn,         \* advance shipment notices and their lines
  receipt,     \* goods receipts and corrections, and their signed lines
  lot,         \* inventory lots, one per line of a posted original receipt
  definition,  \* inspection check definitions of the items
  inspection,  \* receiving inspections, at most one per lot
  allocation   \* material allocations

vars == <<order, asn, receipt, lot, definition, inspection, allocation>>

Revisions == 1..MaxRevision
Lots == Receipts \X Items
ItemOf(l) == l[2]

AsnStatuses == {"NONE", "DRAFT", "SUBMITTED", "IN_TRANSIT", "ARRIVED", "CANCELLED"}
DefinitionStates == {"ABSENT", "INACTIVE", "OPTIONAL", "REQUIRED"}
Results == {"PENDING", "CONFORMING", "NONCONFORMING"}

NoLines == [i \in Items |-> 0]

Quantities == 0..MaxOrdered
Deltas == -MaxOrdered..MaxOrdered

NewAsn == [status |-> "NONE", revision |-> 0, shipped |-> NoLines]

NewReceipt ==
  [kind |-> "NONE", status |-> "NONE", asn |-> NoAsn, corrects |-> NoReceipt,
   delta |-> NoLines]

NewLot ==
  [status |-> "NONE", quantity |-> 0, adjusted |-> 0,
   accepted |-> 0, rejected |-> 0, quarantined |-> 0]

\* checks is the snapshot of the definitions, result what was recorded.
NewInspection ==
  [status |-> "NONE", disposition |-> "NONE", received |-> 0,
   checks |-> [c \in Checks |-> "ABSENT"],
   result |-> [c \in Checks |-> "PENDING"]]

NewAllocation ==
  [status |-> "NONE", lot |-> <<NoReceipt, 0>>, quantity |-> 0, conditionalUse |-> FALSE]

-----------------------------------------------------------------------------
(***************************************************************************)
(* Sums the repositories compute from the rows.                            *)
(***************************************************************************)

\* Quantity of an order line on the notices that are not cancelled.
Shipped(revision, i) ==
  SumFunctionOnSet([a \in Asns |-> asn[a].shipped[i]],
                   {a \in Asns : asn[a].revision = revision /\ asn[a].status # "CANCELLED"})

\* Signed quantity posted on a line of a notice (postedQuantityByAsnLine).
PostedOn(receipts, a, i) ==
  SumFunctionOnSet([r \in Receipts |-> receipt[r].delta[i]],
                   {r \in receipts : receipt[r].asn = a /\ receipt[r].status = "POSTED"})

Posted(a, i) == PostedOn(Receipts, a, i)

\* Original quantity of a lot plus the sum of its append-only adjustments.
Effective(l) == lot[l].quantity + lot[l].adjusted

\* Quantity of a lot that is allocated or already consumed.
Committed(l) ==
  SumFunctionOnSet([x \in Allocations |-> allocation[x].quantity],
                   {x \in Allocations : allocation[x].lot = l
                                        /\ allocation[x].status \in CommittingStatuses})

-----------------------------------------------------------------------------
(***************************************************************************)
(* createInspectionForLot, shared by receipt posting and by the explicit   *)
(* command: the inspection row of a lot afterwards.  An existing one is    *)
(* kept; otherwise the active definitions of the item are snapshotted, and *)
(* without any there is no inspection.                                     *)
(***************************************************************************)
ActiveChecks(i) == {c \in Checks : definition[i][c] \in {"OPTIONAL", "REQUIRED"}}

InspectionForLot(l) ==
  IF inspection[l].status # "NONE" \/ ActiveChecks(ItemOf(l)) = {}
  THEN inspection[l]
  ELSE [NewInspection EXCEPT
          !.status = "OPEN",
          !.checks = [c \in Checks |-> IF c \in ActiveChecks(ItemOf(l))
                                       THEN definition[ItemOf(l)][c] ELSE "ABSENT"]]

\* The order has just been created; its first revision has at least one line.
Init ==
  /\ \E q \in [Items -> Quantities] \ {NoLines} :
       order = [status |-> "DRAFT", revision |-> 1,
                ordered |-> [v \in Revisions |-> IF v = 1 THEN q ELSE NoLines]]
  /\ asn = [a \in Asns |-> NewAsn]
  /\ receipt = [r \in Receipts |-> NewReceipt]
  /\ lot = [l \in Lots |-> NewLot]
  /\ definition = [i \in Items |-> [c \in Checks |-> "ABSENT"]]
  /\ inspection = [l \in Lots |-> NewInspection]
  /\ allocation = [x \in Allocations |-> NewAllocation]

=============================================================================
