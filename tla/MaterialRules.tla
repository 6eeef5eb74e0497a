---------------------------- MODULE MaterialRules -----------------------------
(***************************************************************************)
(* The vocabulary of the material flow: the states of an inventory lot,    *)
(* the finalization decision of an inspection (inspection-quantity.ts),    *)
(* and the lifecycles of allocations, purchase requisitions and purchase   *)
(* orders.  Quantities are exact decimals in the code; here they are       *)
(* integers, counted in the smallest unit the item's unit of measure can   *)
(* express.  "NONE" is a row that does not exist, the lot that no posted   *)
(* receipt has created yet among them.                                     *)
(***************************************************************************)
EXTENDS Integers

Dispositions == {"ACCEPTED", "CONDITIONALLY_ACCEPTED", "QUARANTINED", "REJECTED"}

LotStatuses == {"NONE", "AWAITING_INSPECTION"} \cup Dispositions

AllocatableStatuses == {"ACCEPTED", "CONDITIONALLY_ACCEPTED"}

(***************************************************************************)
(* The decisions finalize may store for a lot of the given effective       *)
(* quantity.  What is neither accepted nor rejected stays in quarantine.   *)
(***************************************************************************)
Quarantined(received, accepted, rejected) == received - accepted - rejected

ValidDecision(received, disposition, accepted, rejected) ==
  /\ received > 0
  /\ accepted >= 0
  /\ rejected >= 0
  /\ accepted + rejected <= received
  /\ disposition = "REJECTED" => accepted = 0 /\ rejected = received
  /\ disposition = "QUARANTINED" => Quarantined(received, accepted, rejected) > 0
  /\ disposition \in AllocatableStatuses
       => accepted > 0 /\ Quarantined(received, accepted, rejected) = 0

\* Allocations that keep lot quantity committed, and the moves they can make.
AllocationStatuses == {"NONE", "ALLOCATED", "RELEASED", "CONSUMED"}

CommittingStatuses == {"ALLOCATED", "CONSUMED"}

CanTransitionAllocation(source, target) ==
  source = "ALLOCATED" /\ target \in {"CONSUMED", "RELEASED"}

-----------------------------------------------------------------------------
RequisitionStatuses ==
  {"NONE", "DRAFT", "SUBMITTED", "APPROVED", "REJECTED", "CANCELLED"}

\* Requisitions whose lines reserve the need of a bill-of-material line.
CoveringStatuses == {"DRAFT", "SUBMITTED", "APPROVED"}

CanTransitionRequisition(source, target) ==
  \/ source = "DRAFT" /\ target \in {"SUBMITTED", "CANCELLED"}
  \/ source = "SUBMITTED" /\ target \in {"APPROVED", "REJECTED", "CANCELLED"}
  \/ source = "APPROVED" /\ target = "CANCELLED"

OrderStatuses == {"DRAFT", "SENT", "ACKNOWLEDGED", "CANCELLED"}

CanTransitionPurchaseOrder(source, target) ==
  \/ source = "DRAFT" /\ target \in {"SENT", "CANCELLED"}
  \/ source = "SENT" /\ target \in {"ACKNOWLEDGED", "DRAFT", "CANCELLED"}
  \/ source = "ACKNOWLEDGED" /\ target \in {"DRAFT", "CANCELLED"}

CanRevisePurchaseOrder(status) == status # "CANCELLED"

=============================================================================
