---------------------------- MODULE Inspections -----------------------------
(***************************************************************************)
(* apps/api/src/inspections: check definitions, the explicit creation of   *)
(* an inspection, recording of results and finalization.  What a check     *)
(* measures is left out; a recorded result is conforming or not.           *)
(***************************************************************************)
EXTENDS MaterialTables

CreateDefinition(i, c, state) ==
  /\ definition[i][c] = "ABSENT"
  /\ state \in {"OPTIONAL", "REQUIRED"}
  /\ definition' = [definition EXCEPT ![i][c] = state]
  /\ UNCHANGED <<order, asn, receipt, lot, inspection, allocation>>

UpdateDefinition(i, c, state) ==
  /\ definition[i][c] # "ABSENT"
  /\ state \in {"INACTIVE", "OPTIONAL", "REQUIRED"}
  /\ definition' = [definition EXCEPT ![i][c] = state]
  /\ UNCHANGED <<order, asn, receipt, lot, inspection, allocation>>

\* receiving_inspections refuses a received quantity that is not positive.
CreateExplicit(l) ==
  /\ lot[l].status = "AWAITING_INSPECTION"
  /\ inspection[l].status = "NONE"
  /\ ActiveChecks(ItemOf(l)) # {}
  /\ Effective(l) > 0
  /\ inspection' = [inspection EXCEPT ![l] = InspectionForLot(l)]
  /\ UNCHANGED <<order, asn, receipt, lot, definition, allocation>>

SnapshotChecks(l) == {c \in Checks : inspection[l].checks[c] # "ABSENT"}
RequiredChecks(l) == {c \in Checks : inspection[l].checks[c] = "REQUIRED"}

Recordable(l) == inspection[l].status = "OPEN"

\* Results may be recorded again until the inspection is finalized.
SaveResults(l, recorded) ==
  /\ Recordable(l)
  /\ DOMAIN recorded \subseteq SnapshotChecks(l)
  /\ inspection' = [inspection EXCEPT ![l].result =
       [c \in Checks |-> IF c \in DOMAIN recorded THEN recorded[c] ELSE @[c]]]
  /\ UNCHANGED <<order, asn, receipt, lot, definition, allocation>>

\* Mutant: completed required checks are enough for every disposition.
ChecksAllowCompleted(l, disposition) ==
  \A c \in RequiredChecks(l) : inspection[l].result[c] # "PENDING"

ChecksAllow(l, disposition) ==
  /\ \A c \in RequiredChecks(l) : inspection[l].result[c] # "PENDING"
  /\ disposition = "ACCEPTED" =>
       \A c \in RequiredChecks(l) : inspection[l].result[c] = "CONFORMING"

DecidedQuantity(l) == Effective(l)

Finalize(l, disposition, accepted, rejected) ==
  /\ inspection[l].status = "OPEN"
  /\ lot[l].status = "AWAITING_INSPECTION"
  /\ ChecksAllow(l, disposition)
  /\ ValidDecision(DecidedQuantity(l), disposition, accepted, rejected)
  /\ inspection' = [inspection EXCEPT ![l].status = "FINALIZED",
                                      ![l].disposition = disposition,
                                      ![l].received = DecidedQuantity(l)]
  /\ lot' = [lot EXCEPT ![l].status = disposition,
                        ![l].accepted = accepted,
                        ![l].rejected = rejected,
                        ![l].quarantined = Quarantined(DecidedQuantity(l), accepted, rejected)]
  /\ UNCHANGED <<order, asn, receipt, definition, allocation>>

Recordings == UNION {[S -> Results \ {"PENDING"}] : S \in (SUBSET Checks) \ {{}}}

InspectionsNext ==
  \/ \E i \in Items, c \in Checks, state \in DefinitionStates :
       CreateDefinition(i, c, state) \/ UpdateDefinition(i, c, state)
  \/ \E l \in Lots : CreateExplicit(l)
  \/ \E l \in Lots, recorded \in Recordings : SaveResults(l, recorded)
  \/ \E l \in Lots, disposition \in Dispositions, accepted, rejected \in Quantities :
       Finalize(l, disposition, accepted, rejected)

=============================================================================
