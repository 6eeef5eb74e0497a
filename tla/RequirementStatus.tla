-------------------------- MODULE RequirementStatus --------------------------
(***************************************************************************)
(* packages/readiness/src/material-requirement-status.ts: how far the      *)
(* material of each released BOM line (a "need") has come, computed from   *)
(* the rows of the whole supply chain.  Pure operators; quantities are     *)
(* integers in the smallest unit of the need's unit of measure, needs and  *)
(* dates are naturals so that they can be sorted.                          *)
(*                                                                         *)
(* A supply line is                                                        *)
(*   [allocations, shipments : functions from row ids to records,          *)
(*    lots : sequence in the order of receipt, commitments : set,          *)
(*    current : BOOLEAN, status : status of the order].                    *)
(***************************************************************************)
EXTENDS Integers, Sequences, FiniteSetsExt

LotTyped(lot) ==
  \A field \in {"quantity", "adjusted", "accepted", "certified", "rejected", "quarantined"} :
    lot[field] \in Int

LineTyped(line) ==
  /\ IsFiniteSet(DOMAIN line.allocations)
  /\ \A r \in DOMAIN line.allocations :
       /\ line.allocations[r].need \in Nat /\ line.allocations[r].date \in Nat
       /\ line.allocations[r].quantity \in Int
  /\ IsFiniteSet(line.commitments)
  /\ \A c \in line.commitments : c.revision \in Nat /\ c.date \in Nat
  /\ Len(line.lots) \in Nat /\ DOMAIN line.lots = 1..Len(line.lots)
  /\ \A k \in DOMAIN line.lots : LotTyped(line.lots[k])

SumOver(rows, Quantity(_)) == SumFunctionOnSet([r \in rows |-> Quantity(r)], rows)

(***************************************************************************)
(* The order's plan.  groupedCapacities adds up what each need is entitled *)
(* to of a supply line and puts the earliest required date first;          *)
(* allocateSequential then fills one capacity after the other.  So the     *)
(* needs lie one behind the other on the line's quantity, and an amount is *)
(* a range of it: what a need gets is what the range has in common with    *)
(* the need's own.                                                         *)
(***************************************************************************)
RowsOf(line, need) == {r \in DOMAIN line.allocations : line.allocations[r].need = need}

NeedsOf(line) == {line.allocations[r].need : r \in DOMAIN line.allocations}

Entitled(line, need) == SumOver(RowsOf(line, need), LAMBDA r : line.allocations[r].quantity)

Due(line, need) == Min({line.allocations[r].date : r \in RowsOf(line, need)})

EntitledBefore(line, need) ==
  SumOver({m \in NeedsOf(line) :
             \/ Due(line, m) < Due(line, need)
             \/ Due(line, m) = Due(line, need) /\ m < need},
          LAMBDA m : Entitled(line, m))

\* Units from one position of the line's quantity to another that are the need's.
Share(own, from, to) ==
  LET first == IF from > own.from THEN from ELSE own.from
      last == IF to < own.to THEN to ELSE own.to
  IN IF last > first THEN last - first ELSE 0

(***************************************************************************)
(* What one supply line brings to a need.                                  *)
(***************************************************************************)
CommerciallyOrdered(line) == line.current /\ line.status \in {"ACKNOWLEDGED", "SENT"}

\* The date of the latest revision of the supplier's commitments, 0 for none.
SelectLatestCommitmentDate(commitments) ==
  IF commitments = {} THEN 0
  ELSE (CHOOSE c \in commitments : \A d \in commitments :
          c.revision > d.revision \/ (c.revision = d.revision /\ c.date >= d.date)).date

Confirmed(line) ==
  CommerciallyOrdered(line) /\ line.status = "ACKNOWLEDGED" /\ line.commitments # {}

Dispatched(line) ==
  SumOver({s \in DOMAIN line.shipments :
             line.shipments[s].status \in {"ARRIVED", "IN_TRANSIT"}},
          LAMBDA s : line.shipments[s].quantity)

EffectiveReceipt(lot) == lot.quantity + lot.adjusted

ReceivedBefore(line, k) == SumOver(1..(k - 1), LAMBDA j : EffectiveReceipt(line.lots[j]))

\* A lot continues where the lots before it ended, and its buckets lie one
\* behind the other in its own range: accepted, rejected, quarantined, what
\* waits for inspection.  Certificates cover the first accepted units.
LotRange(line, k) ==
  LET lot == line.lots[k]
      start == ReceivedBefore(line, k)
      inspected == start + lot.accepted + lot.rejected + lot.quarantined
  IN [start |-> start, certified |-> start + lot.certified,
      accepted |-> start + lot.accepted,
      rejected |-> start + lot.accepted + lot.rejected,
      inspected |-> inspected, end |-> start + EffectiveReceipt(lot)]

Contribution(line, need) ==
  LET entitled == Entitled(line, need)
      before == EntitledBefore(line, need)
      own == [from |-> before, to |-> before + entitled]
      ranges == {<<k, LotRange(line, k)>> : k \in DOMAIN line.lots}
      lots(From(_), To(_)) ==
        SumOver(ranges, LAMBDA range : Share(own, From(range[2]), To(range[2])))
  IN [ordered |-> IF CommerciallyOrdered(line) THEN entitled ELSE 0,
      confirmed |-> IF Confirmed(line) THEN entitled ELSE 0,
      shipped |-> Share(own, 0, Dispatched(line)),
      received |-> lots(LAMBDA r : r.start, LAMBDA r : r.end),
      accepted |-> lots(LAMBDA r : r.start, LAMBDA r : r.accepted),
      rejected |-> lots(LAMBDA r : r.accepted, LAMBDA r : r.rejected),
      quarantined |-> lots(LAMBDA r : r.rejected, LAMBDA r : r.inspected),
      unresolved |-> lots(LAMBDA r : r.inspected, LAMBDA r : r.end),
      certificateComplete |-> lots(LAMBDA r : r.start, LAMBDA r : r.certified)]

(***************************************************************************)
(* Rows the calculation refuses: it throws, and with it everything that    *)
(* reads the status of any need of the project.                            *)
(***************************************************************************)
LotRefused(lot) ==
  \/ EffectiveReceipt(lot) <= 0
  \/ lot.accepted < 0 \/ lot.rejected < 0 \/ lot.quarantined < 0 \/ lot.certified < 0
  \/ lot.accepted + lot.rejected + lot.quarantined > EffectiveReceipt(lot)
  \/ lot.certified > lot.accepted

LineRefused(line) ==
  LET planned == SumOver(DOMAIN line.allocations, LAMBDA r : line.allocations[r].quantity) IN
  \/ \E r \in DOMAIN line.allocations : line.allocations[r].quantity <= 0
  \/ Dispatched(line) > planned
  \/ \E k \in 1..Len(line.lots) : LotRefused(line.lots[k])
  \/ ReceivedBefore(line, Len(line.lots) + 1) > planned

(***************************************************************************)
(* The accumulated quantities of a need, and what they are called.         *)
(***************************************************************************)
Accumulated(need, required, requisitions, supply, allocations) ==
  LET requisitioned == {r \in DOMAIN requisitions :
        /\ requisitions[r].need = need
        /\ requisitions[r].status \in {"APPROVED", "DRAFT", "SUBMITTED"}}
      allocated == {a \in DOMAIN allocations :
        allocations[a].need = need /\ allocations[a].status # "RELEASED"}
      lines == {s \in DOMAIN supply : need \in NeedsOf(supply[s])}
      contributions == {<<s, Contribution(supply[s], need)>> : s \in lines}
      total(Field(_)) == SumOver(contributions, LAMBDA c : Field(c[2]))
  IN [required |-> required,
      requisitioned |-> SumOver(requisitioned, LAMBDA r : requisitions[r].quantity),
      ordered |-> total(LAMBDA c : c.ordered),
      confirmed |-> total(LAMBDA c : c.confirmed),
      shipped |-> total(LAMBDA c : c.shipped),
      received |-> total(LAMBDA c : c.received),
      accepted |-> total(LAMBDA c : c.accepted),
      rejected |-> total(LAMBDA c : c.rejected),
      quarantined |-> total(LAMBDA c : c.quarantined),
      unresolved |-> total(LAMBDA c : c.unresolved),
      certificateComplete |-> total(LAMBDA c : c.certificateComplete),
      allocated |-> SumOver(allocated, LAMBDA a : allocations[a].quantity)]

\* The latest date any acknowledged order of the need is committed for.
OperativeCommitmentDate(need, supply) ==
  LET dates == {SelectLatestCommitmentDate(supply[s].commitments) :
                  s \in {t \in DOMAIN supply :
                           Confirmed(supply[t]) /\ need \in NeedsOf(supply[t])}}
  IN IF dates = {} THEN 0 ELSE CHOOSE d \in dates : \A e \in dates : e <= d

Progress == <<"allocated", "certificateComplete", "accepted", "received", "shipped",
              "confirmed", "ordered", "requisitioned">>
ProgressStages == <<"ALLOCATED", "CERTIFICATE_COMPLETE", "ACCEPTED", "RECEIVED", "SHIPPED",
                    "CONFIRMED", "ORDERED", "REQUISITIONED">>

\* The furthest stage any unit of the need has reached.
CurrentStage(acc) ==
  LET reached == {n \in DOMAIN Progress : acc[Progress[n]] > 0} IN
  IF acc.allocated >= acc.required /\ acc.certificateComplete >= acc.required THEN "COMPLETE"
  ELSE IF reached = {} THEN "NOT_STARTED"
  ELSE ProgressStages[CHOOSE n \in reached : \A m \in reached : n <= m]

Shortage(acc) == IF acc.required > acc.allocated THEN acc.required - acc.allocated ELSE 0

Steps == <<"requisitioned", "ordered", "confirmed", "shipped", "received", "accepted",
           "certificateComplete", "allocated">>
StepBlockers == <<"REQUISITION_SHORTFALL", "ORDER_SHORTFALL", "SUPPLIER_CONFIRMATION_MISSING",
                  "SHIPMENT_SHORTFALL", "RECEIPT_SHORTFALL", "ACCEPTANCE_SHORTFALL",
                  "CERTIFICATE_INCOMPLETE", "ALLOCATION_SHORTFALL">>

\* The earliest step whose quantity falls short of what is required.
FirstShortfall(acc) ==
  LET short == {n \in DOMAIN Steps : acc[Steps[n]] < acc.required} IN
  IF short = {} THEN "NONE" ELSE StepBlockers[CHOOSE n \in short : \A m \in short : n <= m]

\* Bad material first, then the earliest step that falls short.
BlockerReason(acc) ==
  IF Shortage(acc) = 0 /\ acc.certificateComplete >= acc.required THEN "NONE"
  ELSE IF Shortage(acc) > 0 /\ acc.rejected > 0 THEN "REJECTED_MATERIAL"
  ELSE IF Shortage(acc) > 0 /\ acc.quarantined > 0 THEN "QUARANTINED_MATERIAL"
  ELSE IF acc.accepted < acc.required /\ acc.unresolved > 0 THEN "INSPECTION_PENDING"
  ELSE FirstShortfall(acc)

=============================================================================
