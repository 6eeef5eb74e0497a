---------------------------- MODULE Procurement -----------------------------
(***************************************************************************)
(* Requisitions and purchase orders of one project: apps/api/src/          *)
(* requisitions and apps/api/src/purchase-orders as concurrent PostgreSQL  *)
(* transactions at READ COMMITTED.  A command takes the row locks of its   *)
(* handler step by step, reads at each step what the handler reads there   *)
(* (rows it has locked and rows it has not), and writes when it commits;   *)
(* what it read without a lock may have changed by then.                   *)
(*                                                                         *)
(* A bill-of-material line needs a quantity; a requisition line covers     *)
(* part of it; an allocation of an order's current revision orders part of *)
(* a requisition line.  How a revision groups its allocations into lines   *)
(* by item and unit is left out.  Supplier commitments only check and      *)
(* version the order and are left out too.                                 *)
(***************************************************************************)
EXTENDS MaterialRules, FiniteSets, Sequences, Functions

CONSTANTS
  Tx,            \* connections; each runs one transaction after the other
  Requisitions, Orders,  \* identities a command can give a new row
  BomLines,      \* released lines of the bill of material
  Required,      \* quantity each of them needs
  Overriding,    \* commands whose actors have the override permission
  MaxQuantity,   \* bound on the quantity of one line
  MaxRevision    \* bound on the revisions of an order

ASSUME ProcurementAssumption ==
  /\ IsFiniteSet(Requisitions)
  /\ IsFiniteSet(Orders)
  /\ Required \in [BomLines -> Nat \ {0}]
  /\ Overriding \subseteq {"requisition", "order", "revise"}
  /\ MaxQuantity \in Nat \ {0}
  /\ MaxRevision \in Nat \ {0}

VARIABLES
  open,          \* the project is neither completed nor cancelled
  requisition,   \* status, line quantities, lines with an override
  order,         \* status, current revision, the revision that was sent,
                 \* its allocations and those with an override
  job,           \* what a connection is running
  pos,           \* how many steps of its plan it has taken
  seen           \* what it read in them

rows == <<open, requisition, order>>
vars == <<open, requisition, order, job, pos, seen>>

Quantities == 0..MaxQuantity

Lines == Requisitions \X BomLines   \* requisition lines
RequisitionOf(l) == l[1]

NoNeed == [b \in BomLines |-> 0]
NoAllocation == [l \in Lines |-> 0]

NewRequisition == [status |-> "NONE", quantity |-> NoNeed, overNeed |-> {}]

NewOrder ==
  [status |-> "NONE", revision |-> 0, sent |-> 0, quantity |-> NoAllocation, overOrder |-> {}]

-----------------------------------------------------------------------------
(***************************************************************************)
(* Requests.  Whether one carries the reason an override needs matters only *)
(* once it takes more than is left; that is when it is chosen here.        *)
(***************************************************************************)
Idle == [kind |-> "none"]

Requisitioning ==
  [kind : {"requisition"}, quantity : [BomLines -> Quantities] \ {NoNeed}]

MovingRequisition ==
  [kind : {"move requisition"}, of : Requisitions, target : RequisitionStatuses \ {"NONE", "DRAFT"}]

Ordering ==
  [kind : {"order"}, quantity : [Lines -> Quantities] \ {NoAllocation}]

Revising ==
  [kind : {"revise"}, of : Orders, quantity : [Lines -> Quantities] \ {NoAllocation}]

MovingOrder == [kind : {"move order"}, of : Orders, target : OrderStatuses \ {"DRAFT"}]

Requests == Requisitioning \cup MovingRequisition \cup Ordering \cup Revising \cup MovingOrder

\* The lines a request names; allocations of other lines are not looked at.
Named(quantity) == {l \in DOMAIN quantity : quantity[l] > 0}

\* A request can only name rows that exist.
Names(request) ==
  /\ request.kind = "move requisition" => requisition[request.of].status # "NONE"
  /\ request.kind \in {"revise", "move order"} => order[request.of].status # "NONE"
  /\ request.kind \in {"order", "revise"} =>
       \A l \in Named(request.quantity) : requisition[RequisitionOf(l)].quantity[l[2]] > 0

-----------------------------------------------------------------------------
(***************************************************************************)
(* Locks.  Every step of a plan is one SELECT ... FOR UPDATE over a set of *)
(* rows in the order of their ids, or no lock at all.                      *)
(***************************************************************************)
Project == {<<"project">>}
BomLineRows(lines) == {<<"bom line", b>> : b \in lines}
LineRows(lines) == {<<"line", l>> : l \in lines}
Headers == {<<"requisition", p>> : p \in {p \in Requisitions : requisition[p].status # "NONE"}}

\* Mutant: only the headers are locked, once the lines have been read.
RequisitionPlanLate(request) == << {}, {}, Headers >>

RequisitionPlan(request) == << Project, BomLineRows(Named(request.quantity)), Headers >>

MoveRequisitionPlan(request) == << {<<"requisition", request.of>>} >>

\* Mutants: requisition lines are not locked; the project is not locked.
OrderPlanUnlocked(request) == << Project, {} >>
OrderPlanAnywhere(request) == << {}, LineRows(Named(request.quantity)) >>

OrderPlan(request) == << Project, LineRows(Named(request.quantity)) >>

RevisePlan(request) == << {<<"order", request.of>>}, LineRows(Named(request.quantity)) >>

\* Mutant: the order is not locked.
MoveOrderPlanUnlocked(request) == << {} >>

MoveOrderPlan(request) == << {<<"order", request.of>>} >>

Plan(request) ==
  CASE request.kind = "requisition" -> RequisitionPlan(request)
    [] request.kind = "move requisition" -> MoveRequisitionPlan(request)
    [] request.kind = "order" -> OrderPlan(request)
    [] request.kind = "revise" -> RevisePlan(request)
    [] request.kind = "move order" -> MoveOrderPlan(request)
    [] OTHER -> << >>

Running(t) == job[t].kind # "none"
Waits(t) == Running(t) /\ pos[t] < Len(Plan(job[t]))
Wanted(t) == Plan(job[t])[pos[t] + 1]
Held(t) == UNION {Plan(job[t])[n] : n \in 1..pos[t]}
Blocks(u, t) == u # t /\ Held(u) \cap Wanted(t) # {}

-----------------------------------------------------------------------------
(***************************************************************************)
(* What the handlers read.                                                 *)
(***************************************************************************)
\* Quantity of a bill-of-material line on requisitions that reserve it.
Covered(b) ==
  SumFunctionOnSet([p \in Requisitions |-> requisition[p].quantity[b]],
                   {p \in Requisitions : requisition[p].status \in CoveringStatuses})

Live(o) == order[o].status \notin {"NONE", "CANCELLED"}

\* Quantity of a requisition line that current revisions of other live
\* orders have ordered.
Ordered(l, besides) ==
  SumFunctionOnSet([o \in Orders |-> order[o].quantity[l]], {o \in Orders \ besides : Live(o)})

\* Live allocations of a requisition's lines.
Allocated(p) ==
  \E o \in Orders, l \in Lines : RequisitionOf(l) = p /\ Live(o) /\ order[o].quantity[l] > 0

NothingSeen ==
  [open |-> TRUE, status |-> "NONE", allocated |-> FALSE, approved |-> TRUE, taken |-> << >>]

Excluded(request) == IF request.kind = "revise" THEN {request.of} ELSE {}

\* Read once the locks of a step are held: the first step of every handler
\* reads its own row and the state of the project, the second one of a
\* creation or a revision reads the lines it draws on.
Read(t) ==
  LET request == job[t] IN
  CASE request.kind = "requisition" /\ pos[t] = 1 ->
         [seen[t] EXCEPT !.taken = [b \in Named(request.quantity) |-> Covered(b)]]
    [] request.kind \in {"order", "revise"} /\ pos[t] = 1 ->
         [seen[t] EXCEPT
            !.approved = \A l \in Named(request.quantity) :
                           requisition[RequisitionOf(l)].status = "APPROVED",
            !.taken = [l \in Named(request.quantity) |-> Ordered(l, Excluded(request))]]
    [] request.kind = "move requisition" ->
         [seen[t] EXCEPT !.open = open,
                         !.status = requisition[request.of].status,
                         !.allocated = Allocated(request.of)]
    [] request.kind \in {"revise", "move order"} /\ pos[t] = 0 ->
         [seen[t] EXCEPT !.open = open, !.status = order[request.of].status]
    [] request.kind \in {"requisition", "order"} /\ pos[t] = 0 ->
         [seen[t] EXCEPT !.open = open]
    [] OTHER -> seen[t]

\* The lines of which a request takes more than is left.
Need(request, l) == IF request.kind = "requisition" THEN Required[l]
                    ELSE requisition[RequisitionOf(l)].quantity[l[2]]

Exceeding(t) ==
  {l \in DOMAIN seen[t].taken : seen[t].taken[l] + job[t].quantity[l] > Need(job[t], l)}

\* An approved requisition with live allocations stays.
Cancellable(t) ==
  (job[t].target = "CANCELLED" /\ seen[t].status = "APPROVED") => ~seen[t].allocated

\* The checks a handler has made on what it has read so far.
Passes(t) ==
  LET s == seen[t]
      request == job[t]
  IN /\ s.open
     /\ request.kind = "move requisition" /\ pos[t] > 0 =>
          CanTransitionRequisition(s.status, request.target) /\ Cancellable(t)
     /\ request.kind = "move order" /\ pos[t] > 0 =>
          CanTransitionPurchaseOrder(s.status, request.target)
     /\ request.kind = "revise" /\ pos[t] > 0 =>
          CanRevisePurchaseOrder(s.status)
     /\ request.kind \in {"order", "revise"} => s.approved

-----------------------------------------------------------------------------
(***************************************************************************)
(* Steps of a transaction.                                                 *)
(***************************************************************************)
Init ==
  /\ open = TRUE
  /\ requisition = [p \in Requisitions |-> NewRequisition]
  /\ order = [o \in Orders |-> NewOrder]
  /\ job = [t \in Tx |-> Idle]
  /\ pos = [t \in Tx |-> 0]
  /\ seen = [t \in Tx |-> NothingSeen]

\* Bound: a creation has an identity left, a revision a number.
RoomFor(request) ==
  LET asked(kind) == Cardinality({t \in Tx : job[t].kind = kind}) IN
  /\ request.kind = "requisition" =>
       asked("requisition") < Cardinality({p \in Requisitions : requisition[p].status = "NONE"})
  /\ request.kind = "order" =>
       asked("order") < Cardinality({o \in Orders : order[o].status = "NONE"})
  /\ request.kind = "revise" =>
       order[request.of].revision + asked("revise") < MaxRevision

Begin(t, request) ==
  /\ ~Running(t)
  /\ Names(request)
  /\ RoomFor(request)
  /\ job' = [job EXCEPT ![t] = request]
  /\ UNCHANGED <<rows, pos, seen>>

Acquire(t) ==
  /\ Waits(t)
  /\ Passes(t)
  /\ \A u \in Tx : ~Blocks(u, t)
  /\ seen' = [seen EXCEPT ![t] = Read(t)]
  /\ pos' = [pos EXCEPT ![t] = @ + 1]
  /\ UNCHANGED <<rows, job>>

\* Commit and rollback release every lock.
End(t) ==
  /\ job' = [job EXCEPT ![t] = Idle]
  /\ pos' = [pos EXCEPT ![t] = 0]
  /\ seen' = [seen EXCEPT ![t] = NothingSeen]

\* Taking more than is left needs the permission, and a reason in the request.
Overridable(t) == Exceeding(t) = {} \/ job[t].kind \in Overriding

\* A handler's check fails.
Refuse(t) ==
  /\ Running(t)
  /\ ~Passes(t) \/ Exceeding(t) # {}
  /\ End(t)
  /\ UNCHANGED rows

Ready(t, kind) == job[t].kind = kind /\ ~Waits(t) /\ Passes(t) /\ Overridable(t)

CommitRequisition(t) ==
  /\ Ready(t, "requisition")
  /\ \E p \in Requisitions :
       /\ requisition[p].status = "NONE"
       /\ requisition' = [requisition EXCEPT ![p] =
            [status |-> "DRAFT", quantity |-> job[t].quantity, overNeed |-> Exceeding(t)]]
  /\ UNCHANGED <<open, order>>
  /\ End(t)

CommitMoveRequisition(t) ==
  /\ Ready(t, "move requisition")
  /\ requisition' = [requisition EXCEPT ![job[t].of].status = job[t].target]
  /\ UNCHANGED <<open, order>>
  /\ End(t)

CommitOrder(t) ==
  /\ Ready(t, "order")
  /\ \E o \in Orders :
       /\ order[o].status = "NONE"
       /\ order' = [order EXCEPT ![o] =
            [status |-> "DRAFT", revision |-> 1, sent |-> 0, quantity |-> job[t].quantity,
             overOrder |-> Exceeding(t)]]
  /\ UNCHANGED <<open, requisition>>
  /\ End(t)

\* A revision replaces every allocation; the order is a draft again.
CommitRevise(t) ==
  LET o == job[t].of IN
  /\ Ready(t, "revise")
  /\ order' = [order EXCEPT ![o].status = "DRAFT",
                            ![o].revision = @ + 1,
                            ![o].quantity = job[t].quantity,
                            ![o].overOrder = Exceeding(t)]
  /\ UNCHANGED <<open, requisition>>
  /\ End(t)

CommitMoveOrder(t) ==
  LET o == job[t].of IN
  /\ Ready(t, "move order")
  /\ order' = [order EXCEPT ![o].status = job[t].target,
                            ![o].sent = IF job[t].target = "SENT" THEN order[o].revision ELSE @]
  /\ UNCHANGED <<open, requisition>>
  /\ End(t)

Commit(t) ==
  \/ CommitRequisition(t) \/ CommitMoveRequisition(t)
  \/ CommitOrder(t) \/ CommitRevise(t) \/ CommitMoveOrder(t)

\* transitionProject updates the project's row, so it waits for whoever has
\* locked it; a terminal project is never opened again.
CloseProject ==
  /\ open
  /\ \A t \in Tx : Held(t) \cap Project = {}
  /\ open' = FALSE
  /\ UNCHANGED <<requisition, order, job, pos, seen>>

Next ==
  \/ \E t \in Tx, request \in Requests : Begin(t, request)
  \/ \E t \in Tx : Acquire(t) \/ Refuse(t) \/ Commit(t)
  \/ CloseProject

Spec == Init /\ [][Next]_vars

-----------------------------------------------------------------------------
(***************************************************************************)
(* Properties.                                                             *)
(***************************************************************************)
\* Live orders never order more of a requisition line than it approved,
\* unless one of them does so with an authorized override.
OrderedWithinApproved ==
  \A l \in Lines :
    \/ Ordered(l, {}) <= requisition[RequisitionOf(l)].quantity[l[2]]
    \/ \E o \in Orders : Live(o) /\ l \in order[o].overOrder

\* Requisitions that reserve a need never cover more of it than there is,
\* unless one of them does so with an authorized override.
CoveredWithinRequired ==
  \A b \in BomLines :
    \/ Covered(b) <= Required[b]
    \/ \E p \in Requisitions :
         requisition[p].status \in CoveringStatuses /\ b \in requisition[p].overNeed

\* A supplier acknowledges the revision it was sent: no revision slips in
\* between sending and acknowledging without taking the order back to draft.
AcknowledgedWasSent ==
  \A o \in Orders :
    order[o].status \in {"SENT", "ACKNOWLEDGED"} => order[o].sent = order[o].revision

\* Nothing is created in a project that is completed or cancelled, although
\* the project may be closed while the creation runs.
NothingCreatedAfterClosing ==
  [][~open =>
       /\ \A p \in Requisitions : requisition[p].status = "NONE" => requisition'[p].status = "NONE"
       /\ \A o \in Orders : order[o].status = "NONE" => order'[o].status = "NONE"]_vars

\* Live orders order only from requisitions that are approved: approval is
\* where a requisition can be ordered from, and an approved requisition
\* with live allocations cannot be cancelled.
OrderedFromApproved ==
  \A o \in Orders, l \in Lines :
    Live(o) /\ order[o].quantity[l] > 0 => requisition[RequisitionOf(l)].status = "APPROVED"

=============================================================================
