--------------------------- MODULE Nonconformance ---------------------------
(***************************************************************************)
(* Nonconformance reports: the commands of ncrs.repository.ts, for one     *)
(* project and one supplier.  What a report says, its source and whether   *)
(* the supplier may read its internal notes are left out.                  *)
(***************************************************************************)
EXTENDS QualityTables

\* Slip: an answered report may still be cancelled.
CancelsAnswered(source, target) ==
    \/ source = "DRAFT" /\ target \in {"ISSUED", "CANCELLED"}
    \/ source = "ISSUED" /\ target \in {"SUPPLIER_RESPONDED", "CLOSED", "CANCELLED"}
    \/ source = "SUPPLIER_RESPONDED" /\ target \in {"CLOSED", "CANCELLED"}

\* ncr-lifecycle.ts, transitions.
CanTransitionNcr(source, target) ==
    \/ source = "DRAFT" /\ target \in {"ISSUED", "CANCELLED"}
    \/ source = "ISSUED" /\ target \in {"SUPPLIER_RESPONDED", "CLOSED", "CANCELLED"}
    \/ source = "SUPPLIER_RESPONDED" /\ target = "CLOSED"

Sources == {"PROJECT", "INVENTORY_LOT", "RECEIVING_INSPECTION"}

\* What a request names besides its project; a lot and an inspection have the
\* supplier of their shipment, and one named with them is not used.
SourceShaped(c) ==
    CASE c.source = "PROJECT" -> c.names = "supplier"
      [] c.source = "INVENTORY_LOT" -> c.names = "lot"
      [] OTHER -> c.names \in Inspections

\* Requests of another shape are refused and change nothing.
NcrCommands ==
    {c \in [op : {"createNcr"}, ncr : Ncrs, source : Sources,
            names : {"supplier", "lot"} \cup Inspections] :
        SourceShaped(c)}
    \cup [op : {"issue", "cancel", "close", "respond"}, ncr : Ncrs]

Reported(x) == ncr[x].status # None

Numbers == {ncr[x].number : x \in {y \in Ncrs : Reported(y)}}

NcrTarget(op) ==
    CASE op = "issue" -> "ISSUED" [] op = "close" -> "CLOSED" [] OTHER -> "CANCELLED"

\* supplierWhere: what a supplier sees of a report, and answers.
VisibleToSupplier(x) ==
    /\ supplierScoped
    /\ ncr[x].status \in {"ISSUED", "SUPPLIER_RESPONDED", "CLOSED"}

-----------------------------------------------------------------------------
(* Beginning, locks and checks. *)

NcrBegins(c) == IF c.op = "createNcr" THEN ~Reported(c.ncr) ELSE Reported(c.ncr)

\* Slip: creations of one project do not wait for each other.
NcrPlanUnlocked(c) == <<Check>>

NcrPlan(c) ==
    IF c.op = "createNcr" THEN <<Lock("projects", "project", "UPDATE"), Check>>
    ELSE <<Lock("ncrs", c.ncr, "UPDATE"), Check>>

NcrAllowed(c) ==
    \/ /\ c.op = "createNcr" /\ supplierScoped
       /\ c.source = "RECEIVING_INSPECTION" =>
             /\ inspection[c.names].status = "FINALIZED"
             /\ inspection[c.names].disposition # "ACCEPTED"
    \/ /\ c.op \in {"issue", "cancel", "close"}
       /\ CanTransitionNcr(ncr[c.ncr].status, NcrTarget(c.op))
    \/ /\ c.op = "respond" /\ VisibleToSupplier(c.ncr)
       /\ ncr[c.ncr].status \in {"ISSUED", "SUPPLIER_RESPONDED"}
       /\ ncr[c.ncr].responses < MaxResponses

\* The next number: of a report in the project, of a response to the report.
NcrNoted(c) ==
    CASE c.op = "createNcr" -> Max(Numbers \cup {0}) + 1
      [] c.op = "respond" -> ncr[c.ncr].responses + 1
      [] OTHER -> 0

-----------------------------------------------------------------------------
(* Writes. *)

CreateNcr(c, number) ==
    /\ c.op = "createNcr" /\ ~Reported(c.ncr)
    /\ ncr' = [ncr EXCEPT ![c.ncr] =
           [status |-> "DRAFT", number |-> number, responses |-> 0, version |-> 1]]

TransitionNcr(c) ==
    /\ c.op \in {"issue", "cancel", "close"}
    /\ ncr' = [ncr EXCEPT ![c.ncr].status = NcrTarget(c.op), ![c.ncr].version = @ + 1]

\* Slip: the first response leaves the report issued.
RespondedStatusUnchanged(status) == status

\* The first response to an issued report.
RespondedStatus(status) == IF status = "ISSUED" THEN "SUPPLIER_RESPONDED" ELSE status

SubmitSupplierResponse(c, number) ==
    /\ c.op = "respond"
    /\ ncr' = [ncr EXCEPT ![c.ncr].status = RespondedStatus(@), ![c.ncr].responses = number,
                         ![c.ncr].version = @ + 1]

-----------------------------------------------------------------------------
(* The row trigger on ncrs. *)

NcrGuard(x) ==
    LET old == ncr[x]
        new == ncr'[x]
    IN Reported(x) /\ new # old =>
          /\ new.number = old.number
          /\ new.status # old.status =>
                <<old.status, new.status>> \in
                    {<<"DRAFT", "ISSUED">>, <<"DRAFT", "CANCELLED">>,
                     <<"ISSUED", "SUPPLIER_RESPONDED">>, <<"ISSUED", "CLOSED">>,
                     <<"ISSUED", "CANCELLED">>, <<"SUPPLIER_RESPONDED", "CLOSED">>}
          /\ old.status \notin {"CLOSED", "CANCELLED"}
=============================================================================
