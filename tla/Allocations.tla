----------------------------- MODULE Allocations ----------------------------
(***************************************************************************)
(* apps/api/src/allocations: committing accepted lot stock to released BOM *)
(* lines, and giving it back or consuming it.  The BOM line belongs to the *)
(* BOM component; here any allocation finds a released line of its item.   *)
(***************************************************************************)
EXTENDS MaterialTables

\* Conditionally accepted stock needs a permitted actor and a use reason, and
\* the authorizer that only a CONDITIONALLY_ACCEPTED finalization records.
ConditionalUseAllowed(l, authorized, reason) ==
  IF lot[l].status = "CONDITIONALLY_ACCEPTED"
  THEN authorized /\ reason /\ inspection[l].disposition = "CONDITIONALLY_ACCEPTED"
  ELSE ~reason

Available(l, quantity) == Committed(l) + quantity <= lot[l].accepted

Allocate(x, l, quantity, authorized, reason) ==
  /\ allocation[x].status = "NONE"
  /\ lot[l].status \in AllocatableStatuses
  /\ ConditionalUseAllowed(l, authorized, reason)
  /\ quantity > 0
  /\ Available(l, quantity)
  /\ allocation' = [allocation EXCEPT ![x] =
       [status |-> "ALLOCATED", lot |-> l, quantity |-> quantity,
        conditionalUse |-> lot[l].status = "CONDITIONALLY_ACCEPTED"]]
  /\ UNCHANGED <<order, asn, receipt, lot, definition, inspection>>

TransitionAllocation(x, target) ==
  /\ CanTransitionAllocation(allocation[x].status, target)
  /\ allocation' = [allocation EXCEPT ![x].status = target]
  /\ UNCHANGED <<order, asn, receipt, lot, definition, inspection>>

AllocationsNext ==
  \/ \E x \in Allocations, l \in Lots, quantity \in Quantities, authorized, reason \in BOOLEAN :
       Allocate(x, l, quantity, authorized, reason)
  \/ \E x \in Allocations, target \in AllocationStatuses : TransitionAllocation(x, target)

=============================================================================
