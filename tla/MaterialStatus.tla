--------------------------- MODULE MaterialStatus ---------------------------
(***************************************************************************)
(* The requirement status on top of the material flow: the rows that       *)
(* apps/worker/src/readiness-input.repository.ts reads from the tables,    *)
(* given to the calculation of RequirementStatus.  The calculation throws  *)
(* on rows it does not expect; whether the commands of the material flow   *)
(* can produce such rows is a question about both.                         *)
(***************************************************************************)
EXTENDS MaterialFlow

Calculation == INSTANCE RequirementStatus

\* Every ordered unit of an item is for a need of its own, the first one due
\* first.
Planned(v, i) ==
  [n \in 1..order.ordered[v][i] |-> [need |-> n, quantity |-> 1, date |-> n]]

LotsOfLine(v, i) ==
  {l \in Lots : /\ ItemOf(l) = i
                /\ lot[l].status # "NONE"
                /\ asn[receipt[l[1]].asn].revision = v}

\* Accepted units count as certified when every required check conforms.
LotRow(l) ==
  [quantity |-> lot[l].quantity, adjusted |-> lot[l].adjusted,
   accepted |-> lot[l].accepted, rejected |-> lot[l].rejected,
   quarantined |-> lot[l].quarantined,
   certified |-> IF \A c \in RequiredChecks(l) : inspection[l].result[c] = "CONFORMING"
                 THEN lot[l].accepted ELSE 0]

\* One order line of one revision, its lots received in the given order; no
\* revision of the supplier's commitments is part of the material flow.
SupplyLine(v, i, received) ==
  [allocations |-> Planned(v, i),
   commitments |-> {},
   current |-> v = order.revision,
   status |-> order.status,
   shipments |-> [a \in {b \in Asns : asn[b].revision = v /\ asn[b].shipped[i] > 0} |->
                    [quantity |-> asn[a].shipped[i], status |-> asn[a].status]],
   lots |-> [k \in DOMAIN received |-> LotRow(received[k])]]

Orders(lots) ==
  {s \in [1..Cardinality(lots) -> lots] : \A j, k \in DOMAIN s : s[j] = s[k] => j = k}

OrderLines == {line \in Revisions \X Items : order.ordered[line[1]][line[2]] > 0}

Refused(v, i) ==
  \E received \in Orders(LotsOfLine(v, i)) : Calculation!LineRefused(SupplyLine(v, i, received))

-----------------------------------------------------------------------------
\* The status of a project can be calculated in every state the commands
\* reach, with one exception: a lot that corrections took to exactly zero.
\* Posting accepts it, and from then on the calculation throws for every
\* need of the project (calculateMaterialRequirementStatus, "Effective
\* receipt must be positive").
OnlyEmptiedLotsStopStatus ==
  \A line \in OrderLines :
    Refused(line[1], line[2])
      <=> \E l \in LotsOfLine(line[1], line[2]) : Effective(l) = 0

=============================================================================
