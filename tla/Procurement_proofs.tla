------------------------ MODULE Procurement_proofs --------------------------
(***************************************************************************)
(* Requisitions never cover more of a need than there is, and orders never *)
(* order more than was approved, but by override: proved for any number of *)
(* connections, requisitions, orders and lines and for any quantities.     *)
(*                                                                         *)
(* A handler checks a sum it read a step before it writes.  The sum need   *)
(* not be current when it writes; it is enough that it is still an upper   *)
(* bound, because whoever is not kept out by a row lock can only release.  *)
(***************************************************************************)
EXTENDS Procurement, SumTheorems, TLAPS

Creations == {"requisition", "order"}
OrderKinds == {"revise", "move order"}
Drawing == {"order", "revise"}

RequisitionRow ==
  [status : RequisitionStatuses, quantity : [BomLines -> Quantities], overNeed : SUBSET BomLines]

OrderRow ==
  [status : OrderStatuses \cup {"NONE"}, revision : Nat, sent : Nat,
   quantity : [Lines -> Quantities], overOrder : SUBSET Lines]

\* The fields of what a handler has read.
SeenFields == {"open", "status", "allocated", "approved", "taken"}

\* What a handler has read of the lines it draws on: nothing before its
\* second step, and from then on a number for each of them.
TakenOK(t) ==
  IF job[t].kind \in {"requisition", "order", "revise"} /\ pos[t] >= 2
  THEN seen[t].taken \in [Named(job[t].quantity) -> Nat]
  ELSE DOMAIN seen[t].taken = {}

TypeOK ==
  /\ requisition \in [Requisitions -> RequisitionRow]
  /\ order \in [Orders -> OrderRow]
  /\ job \in [Tx -> Requests \cup {Idle}]
  /\ pos \in [Tx -> Nat]
  /\ DOMAIN seen = Tx
  /\ \A t \in Tx : /\ pos[t] <= Len(Plan(job[t]))
                   /\ DOMAIN seen[t] = SeenFields
                   /\ TakenOK(t)

\* No row is locked by two transactions.
LocksExclude == \A t, u \in Tx : t # u => Held(t) \cap Held(u) = {}

\* The rows a running request names exist.
NamedExist ==
  \A t \in Tx :
    /\ job[t].kind = "move requisition" => requisition[job[t].of].status # "NONE"
    /\ job[t].kind \in OrderKinds => order[job[t].of].status # "NONE"

\* What a handler read under the lock of a row is what is committed; the sums
\* it read are bounds of what is committed.
ReadIsGood(t) ==
  /\ job[t].kind \in Creations /\ pos[t] >= 1 => seen[t].open = open
  /\ job[t].kind \in OrderKinds /\ pos[t] >= 1 => seen[t].status = order[job[t].of].status
  /\ job[t].kind = "move requisition" /\ pos[t] >= 1 =>
       seen[t].status = requisition[job[t].of].status
  /\ job[t].kind = "requisition" /\ pos[t] >= 2 =>
       \A b \in Named(job[t].quantity) : Covered(b) <= seen[t].taken[b]
  /\ job[t].kind \in Drawing /\ pos[t] >= 2 =>
       \A l \in Named(job[t].quantity) : Ordered(l, Excluded(job[t])) <= seen[t].taken[l]

ReadsAreGood == \A t \in Tx : ReadIsGood(t)

\* What requisitions cover and orders order, row by row; with a mask for the
\* rows that count.
Reserves(row) == row.status \in CoveringStatuses

Cover(rows1, b) == [p \in Requisitions |-> IF Reserves(rows1[p]) THEN rows1[p].quantity[b] ELSE 0]

IsLive(row) == row.status \notin {"NONE", "CANCELLED"}

Draw(rows1, l, besides) ==
  [o \in Orders |-> IF IsLive(rows1[o]) /\ o \notin besides THEN rows1[o].quantity[l] ELSE 0]

\* The part of it that took no override: overrides come and go, so it is this
\* part that must stay within what there is.
PlainCover(rows1, b) ==
  [p \in Requisitions |->
     IF Reserves(rows1[p]) /\ b \notin rows1[p].overNeed THEN rows1[p].quantity[b] ELSE 0]

PlainDraw(rows1, l) ==
  [o \in Orders |->
     IF IsLive(rows1[o]) /\ l \notin rows1[o].overOrder THEN rows1[o].quantity[l] ELSE 0]

PlainWithinNeed ==
  \A b \in BomLines : SumFunctionOnSet(PlainCover(requisition, b), Requisitions) <= Required[b]

PlainWithinApproved ==
  \A l \in Lines :
    SumFunctionOnSet(PlainDraw(order, l), Orders) <= requisition[RequisitionOf(l)].quantity[l[2]]

\* A requisition that does not exist needs nothing.
UnbornNeedNothing ==
  \A p \in Requisitions : requisition[p].status = "NONE" => requisition[p].quantity = NoNeed

IInv ==
  /\ TypeOK
  /\ LocksExclude
  /\ NamedExist
  /\ ReadsAreGood
  /\ PlainWithinNeed
  /\ PlainWithinApproved
  /\ UnbornNeedNothing
  /\ AcknowledgedWasSent

-----------------------------------------------------------------------------
(***************************************************************************)
(* Requests, plans and the locks they lead to.                             *)
(***************************************************************************)
\* The kind of a request tells what it carries.
LEMMA RequestFacts ==
  ASSUME NEW r \in Requests \cup {Idle}
  PROVE  /\ r.kind \in {"none", "requisition", "move requisition", "order", "revise", "move order"}
         /\ r.kind = "requisition" => r.quantity \in [BomLines -> Quantities]
         /\ r.kind \in Drawing => r.quantity \in [Lines -> Quantities]
         /\ r.kind \in OrderKinds => r.of \in Orders
         /\ r.kind = "move order" => r.target \in OrderStatuses \ {"DRAFT"}
         /\ r.kind = "move requisition" =>
              r.of \in Requisitions /\ r.target \in RequisitionStatuses \ {"NONE", "DRAFT"}
<1> USE DEF Drawing, OrderKinds
<1>1. CASE r = Idle
  BY <1>1 DEF Idle
<1>2. CASE r \in Requisitioning
  BY <1>2 DEF Requisitioning
<1>3. CASE r \in MovingRequisition
  BY <1>3 DEF MovingRequisition
<1>4. CASE r \in Ordering
  BY <1>4 DEF Ordering
<1>5. CASE r \in Revising
  BY <1>5 DEF Revising
<1>6. CASE r \in MovingOrder
  BY <1>6 DEF MovingOrder
<1> QED
  BY <1>1, <1>2, <1>3, <1>4, <1>5, <1>6 DEF Requests

LengthOf(kind) ==
  CASE kind = "requisition" -> 3
    [] kind \in Drawing -> 2
    [] kind \in {"move requisition", "move order"} -> 1
    [] OTHER -> 0

\* A plan has as many steps as its kind says, whatever rows there are.
LEMMA PlanLengths ==
  \A r : Len(Plan(r)) = LengthOf(r.kind) /\ Len(Plan(r))' = LengthOf(r.kind)
BY DEF Plan, LengthOf, Drawing, RequisitionPlan, MoveRequisitionPlan, OrderPlan, RevisePlan,
   MoveOrderPlan

\* The steps of the plans, one by one.
LEMMA PlanSteps ==
  ASSUME NEW r
  PROVE  /\ r.kind = "requisition" =>
              Plan(r)[1] = Project /\ Plan(r)[2] = BomLineRows(Named(r.quantity))
         /\ r.kind = "order" => Plan(r)[1] = Project /\ Plan(r)[2] = LineRows(Named(r.quantity))
         /\ r.kind = "revise" =>
              Plan(r)[1] = {<<"order", r.of>>} /\ Plan(r)[2] = LineRows(Named(r.quantity))
         /\ r.kind = "move order" => Plan(r)[1] = {<<"order", r.of>>}
         /\ r.kind = "move requisition" => Plan(r)[1] = {<<"requisition", r.of>>}
BY DEF Plan, RequisitionPlan, MoveRequisitionPlan, OrderPlan, RevisePlan, MoveOrderPlan

\* Only the last step of a requisition depends on which rows there are.
LEMMA PlanKept ==
  ASSUME NEW r, NEW n \in 1..LengthOf(r.kind), r.kind = "requisition" /\ n = 3 => Headers' = Headers
  PROVE  Plan(r)'[n] = Plan(r)[n]
<1>1. CASE r.kind # "requisition"
  BY <1>1 DEF Plan, MoveRequisitionPlan, OrderPlan, RevisePlan, MoveOrderPlan
<1>2. CASE r.kind = "requisition"
  <2>1. n \in {1, 2, 3}
    BY <1>2 DEF LengthOf
  <2>2. Plan(r) = << Project, BomLineRows(Named(r.quantity)), Headers >>
    BY <1>2 DEF Plan, RequisitionPlan
  <2>3. Plan(r)' = << Project, BomLineRows(Named(r.quantity)), Headers' >>
    BY <1>2 DEF Plan, RequisitionPlan, Project, BomLineRows, Named
  <2> QED
    BY <1>2, <2>1, <2>2, <2>3
<1> QED
  BY <1>1, <1>2

\* What a transaction holds once it is past its first and second step.
LEMMA HeldRows ==
  ASSUME TypeOK, NEW t \in Tx
  PROVE  /\ job[t].kind \in Creations /\ pos[t] >= 1 => <<"project">> \in Held(t)
         /\ job[t].kind \in OrderKinds /\ pos[t] >= 1 => <<"order", job[t].of>> \in Held(t)
         /\ job[t].kind = "move requisition" /\ pos[t] >= 1 =>
              <<"requisition", job[t].of>> \in Held(t)
         /\ job[t].kind \in Drawing /\ pos[t] >= 2 =>
              \A l \in Named(job[t].quantity) : <<"line", l>> \in Held(t)
<1>1. pos[t] \in Nat
  BY DEF TypeOK
<1>2. pos[t] >= 1 => Plan(job[t])[1] \subseteq Held(t)
  BY <1>1 DEF Held
<1>3. pos[t] >= 2 => Plan(job[t])[2] \subseteq Held(t)
  BY <1>1 DEF Held
<1>4. job[t].kind \in Creations /\ pos[t] >= 1 => <<"project">> \in Held(t)
  BY <1>2, PlanSteps DEF Creations, Project
<1>5. job[t].kind \in OrderKinds /\ pos[t] >= 1 => <<"order", job[t].of>> \in Held(t)
  BY <1>2, PlanSteps DEF OrderKinds
<1>6. job[t].kind = "move requisition" /\ pos[t] >= 1 =>
        <<"requisition", job[t].of>> \in Held(t)
  BY <1>2, PlanSteps
<1>7. ASSUME job[t].kind \in Drawing, pos[t] >= 2, NEW l \in Named(job[t].quantity)
      PROVE  <<"line", l>> \in Held(t)
  <2>1. Plan(job[t])[2] = LineRows(Named(job[t].quantity))
    BY <1>7, PlanSteps DEF Drawing
  <2>2. <<"line", l>> \in LineRows(Named(job[t].quantity))
    BY DEF LineRows
  <2> QED
    BY <1>3, <1>7, <2>1, <2>2
<1> QED
  BY <1>4, <1>5, <1>6, <1>7

\* Who keeps its job and its place keeps its locks.
LEMMA HeldKept ==
  ASSUME TypeOK, NEW u \in Tx, job'[u] = job[u], pos'[u] = pos[u],
         job[u].kind = "requisition" /\ pos[u] >= 3 => Headers' = Headers
  PROVE  Held(u)' = Held(u)
<1>1. pos[u] \in Nat /\ pos[u] <= LengthOf(job[u].kind) /\ LengthOf(job[u].kind) \in Nat
  BY PlanLengths DEF TypeOK, LengthOf
<1>2. ASSUME NEW n \in 1..pos[u]
      PROVE  Plan(job[u])'[n] = Plan(job[u])[n]
  <2> DEFINE r == job[u]
  <2>1. n \in 1..LengthOf(r.kind)
    BY <1>1
  <2>2. r.kind = "requisition" /\ n = 3 => Headers' = Headers
    BY <1>1
  <2>3. Plan(job[u])' = Plan(r)' OBVIOUS
  <2> QED
    BY <2>1, <2>2, PlanKept
<1> QED
  BY <1>2 DEF Held

\* A transaction that ends touches no other, and gives its locks back.
LEMMA EndFrame ==
  ASSUME TypeOK, NEW t \in Tx, End(t)
  PROVE  /\ job'[t] = Idle /\ pos'[t] = 0 /\ seen'[t] = NothingSeen /\ Held(t)' = {}
         /\ \A u \in Tx \ {t} : job'[u] = job[u] /\ pos'[u] = pos[u] /\ seen'[u] = seen[u]
         /\ job' \in [Tx -> Requests \cup {Idle}] /\ pos' \in [Tx -> Nat] /\ DOMAIN seen' = Tx
<1>1. /\ job'[t] = Idle /\ pos'[t] = 0 /\ seen'[t] = NothingSeen
      /\ \A u \in Tx \ {t} : job'[u] = job[u] /\ pos'[u] = pos[u] /\ seen'[u] = seen[u]
      /\ job' \in [Tx -> Requests \cup {Idle}] /\ pos' \in [Tx -> Nat] /\ DOMAIN seen' = Tx
  BY DEF TypeOK, End
<1>2. Held(t)' = {}
  BY <1>1 DEF Held
<1> QED
  BY <1>1, <1>2

\* Only a requisition that holds the project, and so no other, is created;
\* no transaction that has locked the headers sees them grow.
LEMMA EndKeepsLocks ==
  ASSUME TypeOK, LocksExclude, NEW t \in Tx, End(t), Headers' = Headers \/ <<"project">> \in Held(t)
  PROVE  /\ LocksExclude'
         /\ \A u \in Tx \ {t} : Held(u)' = Held(u)
<1>1. ASSUME NEW u \in Tx \ {t}
      PROVE  Held(u)' = Held(u)
  <2>1. job'[u] = job[u] /\ pos'[u] = pos[u]
    BY EndFrame
  <2>2. job[u].kind = "requisition" /\ pos[u] >= 3 => <<"project">> \in Held(u)
    <3>1. pos[u] \in Nat
      BY DEF TypeOK
    <3>2. job[u].kind \in Creations /\ pos[u] >= 1 => <<"project">> \in Held(u)
      BY HeldRows
    <3> QED
      BY <3>1, <3>2 DEF Creations
  <2>3. <<"project">> \in Held(u) => Headers' = Headers
    BY DEF LocksExclude
  <2> QED
    BY <2>1, <2>2, <2>3, HeldKept
<1>2. Held(t)' = {}
  BY EndFrame
<1> QED
  BY <1>1, <1>2 DEF LocksExclude

\* Ending keeps the transactions well typed.
LEMMA EndKeepsTypes ==
  ASSUME TypeOK, NEW t \in Tx, End(t),
         requisition' \in [Requisitions -> RequisitionRow], order' \in [Orders -> OrderRow]
  PROVE  TypeOK'
<1>1. ASSUME NEW u \in Tx
      PROVE  /\ (pos[u] <= Len(Plan(job[u])))'
             /\ DOMAIN seen'[u] = SeenFields
             /\ TakenOK(u)'
  <2>1. CASE u = t
    <3>1. job'[u] = Idle /\ pos'[u] = 0 /\ seen'[u] = NothingSeen
      BY <2>1, EndFrame
    <3>2. (pos[u] <= Len(Plan(job[u])))'
      BY <3>1 DEF Plan, Idle
    <3>3. DOMAIN seen'[u] = SeenFields
      BY <3>1 DEF NothingSeen, SeenFields
    <3>4. TakenOK(u)'
      BY <3>1 DEF TakenOK, NothingSeen
    <3> QED
      BY <3>2, <3>3, <3>4
  <2>2. CASE u # t
    <3>1. job'[u] = job[u] /\ pos'[u] = pos[u] /\ seen'[u] = seen[u]
      BY <2>2, EndFrame
    <3>2. (pos[u] <= Len(Plan(job[u])))'
      <4>1. Len(Plan(job[u]))' = LengthOf(job'[u].kind) /\ Len(Plan(job[u])) = LengthOf(job[u].kind)
        <5> DEFINE r == job'[u]
        <5>1. Len(Plan(job[u]))' = LengthOf(job'[u].kind)
          BY <3>1, PlanLengths
        <5> QED
          BY <5>1, PlanLengths
      <4> QED
        BY <3>1, <4>1 DEF TypeOK
    <3> QED
      BY <3>1, <3>2 DEF TypeOK, TakenOK
  <2> QED
    BY <2>1, <2>2
<1> QED
  BY <1>1, EndFrame DEF TypeOK

-----------------------------------------------------------------------------
(***************************************************************************)
(* The sums, as sums over all rows.                                        *)
(***************************************************************************)
\* Quantities are natural numbers.
LEMMA QuantitiesAreNat == Quantities \subseteq Nat
BY ProcurementAssumption DEF Quantities

\* The rows of the functions that are summed up are natural numbers.
LEMMA CoverRows ==
  ASSUME NEW r \in [Requisitions -> RequisitionRow], NEW b \in BomLines, NEW p \in Requisitions
  PROVE  /\ r[p].quantity[b] \in Nat
         /\ Cover(r, b)[p] = IF Reserves(r[p]) THEN r[p].quantity[b] ELSE 0
         /\ Cover(r, b)[p] \in Nat /\ PlainCover(r, b)[p] \in Nat
         /\ PlainCover(r, b)[p] <= Cover(r, b)[p]
<1>1. r[p].quantity[b] \in Nat
  BY QuantitiesAreNat DEF RequisitionRow
<1> QED
  BY <1>1 DEF Cover, PlainCover

\* What orders draw on a line is natural, and what counts besides some of
\* them, at least what counts plainly.
LEMMA DrawRows ==
  ASSUME NEW r \in [Orders -> OrderRow], NEW l \in Lines, NEW besides, NEW o \in Orders
  PROVE  /\ r[o].quantity[l] \in Nat
         /\ Draw(r, l, besides)[o] \in Nat /\ PlainDraw(r, l)[o] \in Nat
         /\ PlainDraw(r, l)[o] <= Draw(r, l, {})[o]
<1>1. r[o].quantity[l] \in Nat
  BY QuantitiesAreNat DEF OrderRow
<1> QED
  BY <1>1 DEF Draw, PlainDraw

\* What is covered of a line is the sum over all requisitions.
LEMMA CoveredIsSum ==
  ASSUME NEW r \in [Requisitions -> RequisitionRow], NEW b \in BomLines
  PROVE  /\ SumFunctionOnSet([p \in Requisitions |-> r[p].quantity[b]],
                             {p \in Requisitions : r[p].status \in CoveringStatuses})
              = SumFunctionOnSet(Cover(r, b), Requisitions)
         /\ SumFunctionOnSet(Cover(r, b), Requisitions) \in Nat
<1> DEFINE f == [p \in Requisitions |-> r[p].quantity[b]]
           g == Cover(r, b)
           S == {p \in Requisitions : r[p].status \in CoveringStatuses}
<1>1. S \subseteq Requisitions /\ IsFiniteSet(Requisitions) /\ IsFiniteSet(S)
  BY ProcurementAssumption, FS_Subset
<1>2. \A p \in Requisitions : g[p] \in Nat
  BY CoverRows
<1>3. \A p \in S : f[p] = g[p]
  BY DEF Cover, Reserves
<1>4. \A p \in Requisitions \ S : g[p] = 0
  BY DEF Cover, Reserves
<1>5. SumFunctionOnSet(f, S) = SumFunctionOnSet(g, S)
  <2> HIDE DEF f, g, S
  <2> QED
    BY <1>1, <1>3, SumSame
<1>6. SumFunctionOnSet(g, S) = SumFunctionOnSet(g, Requisitions)
  <2> HIDE DEF g, S
  <2> QED
    BY <1>1, <1>2, <1>4, SumIgnoring
<1>7. SumFunctionOnSet(g, Requisitions) \in Nat
  <2> HIDE DEF g
  <2> QED
    BY <1>1, <1>2, SumOfNat
<1> QED
  BY <1>5, <1>6, <1>7

\* What is ordered of a line is the sum over all orders.
LEMMA OrderedIsSum ==
  ASSUME NEW r \in [Orders -> OrderRow], NEW l \in Lines, NEW besides
  PROVE  /\ SumFunctionOnSet([o \in Orders |-> r[o].quantity[l]],
                             {o \in Orders \ besides : r[o].status \notin {"NONE", "CANCELLED"}})
              = SumFunctionOnSet(Draw(r, l, besides), Orders)
         /\ SumFunctionOnSet(Draw(r, l, besides), Orders) \in Nat
<1> DEFINE f == [o \in Orders |-> r[o].quantity[l]]
           g == Draw(r, l, besides)
           S == {o \in Orders \ besides : r[o].status \notin {"NONE", "CANCELLED"}}
<1>1. S \subseteq Orders /\ IsFiniteSet(Orders) /\ IsFiniteSet(S)
  BY ProcurementAssumption, FS_Subset
<1>2. \A o \in Orders : g[o] \in Nat
  BY DrawRows
<1>3. \A o \in S : f[o] = g[o]
  BY DEF Draw, IsLive
<1>4. \A o \in Orders \ S : g[o] = 0
  BY DEF Draw, IsLive
<1>5. SumFunctionOnSet(f, S) = SumFunctionOnSet(g, S)
  <2> HIDE DEF f, g, S
  <2> QED
    BY <1>1, <1>3, SumSame
<1>6. SumFunctionOnSet(g, S) = SumFunctionOnSet(g, Orders)
  <2> HIDE DEF g, S
  <2> QED
    BY <1>1, <1>2, <1>4, SumIgnoring
<1>7. SumFunctionOnSet(g, Orders) \in Nat
  <2> HIDE DEF g
  <2> QED
    BY <1>1, <1>2, SumOfNat
<1> QED
  BY <1>5, <1>6, <1>7

\* The sums the handlers read, before and after a step.
LEMMA SumsRead ==
  ASSUME TypeOK
  PROVE  /\ \A b \in BomLines :
              Covered(b) = SumFunctionOnSet(Cover(requisition, b), Requisitions) /\ Covered(b) \in Nat
         /\ \A l \in Lines : \A besides :
              /\ Ordered(l, besides) = SumFunctionOnSet(Draw(order, l, besides), Orders)
              /\ Ordered(l, besides) \in Nat
<1>1. requisition \in [Requisitions -> RequisitionRow] /\ order \in [Orders -> OrderRow]
  BY DEF TypeOK
<1> QED
  BY <1>1, CoveredIsSum, OrderedIsSum DEF Covered, Ordered, Live

\* The sums of the next state are sums over the next rows.
LEMMA SumsReadNext ==
  ASSUME TypeOK'
  PROVE  /\ \A b \in BomLines :
              /\ Covered(b)' = SumFunctionOnSet(Cover(requisition', b), Requisitions)
              /\ Covered(b)' \in Nat
         /\ \A l \in Lines : \A besides :
              /\ Ordered(l, besides)' = SumFunctionOnSet(Draw(order', l, besides), Orders)
              /\ Ordered(l, besides)' \in Nat
<1>1. requisition' \in [Requisitions -> RequisitionRow] /\ order' \in [Orders -> OrderRow]
  BY DEF TypeOK
<1> QED
  BY <1>1, CoveredIsSum, OrderedIsSum DEF Covered, Ordered, Live

\* Rows that only release lower the sums, row by row.
LEMMA CoverLowered ==
  ASSUME NEW r \in [Requisitions -> RequisitionRow], NEW s \in [Requisitions -> RequisitionRow],
         NEW b \in BomLines,
         \A p \in Requisitions : Cover(s, b)[p] <= Cover(r, b)[p]
  PROVE  SumFunctionOnSet(Cover(s, b), Requisitions) <= SumFunctionOnSet(Cover(r, b), Requisitions)
<1> DEFINE f == Cover(s, b)  g == Cover(r, b)
<1>1. IsFiniteSet(Requisitions)
  BY ProcurementAssumption
<1>2. \A p \in Requisitions : f[p] \in Int /\ g[p] \in Int /\ f[p] <= g[p]
  BY CoverRows
<1> HIDE DEF f, g
<1>3. SumFunctionOnSet(f, Requisitions) <= SumFunctionOnSet(g, Requisitions)
  BY <1>1, <1>2, SumAtMost
<1> QED
  BY <1>3 DEF f, g

\* Orders that draw no more than before draw no more in all.
LEMMA DrawLowered ==
  ASSUME NEW r \in [Orders -> OrderRow], NEW s \in [Orders -> OrderRow],
         NEW l \in Lines, NEW besides,
         \A o \in Orders : Draw(s, l, besides)[o] <= Draw(r, l, besides)[o]
  PROVE  SumFunctionOnSet(Draw(s, l, besides), Orders) <= SumFunctionOnSet(Draw(r, l, besides), Orders)
<1> DEFINE f == Draw(s, l, besides)  g == Draw(r, l, besides)
<1>1. IsFiniteSet(Orders)
  BY ProcurementAssumption
<1>2. \A o \in Orders : f[o] \in Int /\ g[o] \in Int /\ f[o] <= g[o]
  BY DrawRows
<1> HIDE DEF f, g
<1>3. SumFunctionOnSet(f, Orders) <= SumFunctionOnSet(g, Orders)
  BY <1>1, <1>2, SumAtMost
<1> QED
  BY <1>3 DEF f, g

-----------------------------------------------------------------------------
(***************************************************************************)
(* Taking a step: locks, and what is read under them.                      *)
(***************************************************************************)
\* A read changes only the fields it names.
LEMMA FieldsRead ==
  ASSUME NEW s, DOMAIN s = SeenFields, NEW a, NEW b, NEW c
  PROVE  /\ LET r == [s EXCEPT !.taken = a] IN
              DOMAIN r = SeenFields /\ r.open = s.open /\ r.status = s.status /\ r.taken = a
         /\ LET r == [s EXCEPT !.approved = b, !.taken = a] IN
              DOMAIN r = SeenFields /\ r.open = s.open /\ r.status = s.status /\ r.taken = a
         /\ LET r == [s EXCEPT !.open = a, !.status = b, !.allocated = c] IN
              DOMAIN r = SeenFields /\ r.open = a /\ r.status = b /\ r.taken = s.taken
         /\ LET r == [s EXCEPT !.open = a, !.status = b] IN
              DOMAIN r = SeenFields /\ r.open = a /\ r.status = b /\ r.taken = s.taken
         /\ LET r == [s EXCEPT !.open = a] IN
              DOMAIN r = SeenFields /\ r.open = a /\ r.status = s.status /\ r.taken = s.taken
BY DEF SeenFields

\* What a handler knows after a step, by kind and place.
LEMMA ReadFacts ==
  ASSUME NEW t \in Tx, DOMAIN seen[t] = SeenFields
  PROVE  /\ DOMAIN Read(t) = SeenFields
         /\ job[t].kind \in Creations =>
              Read(t).open = IF pos[t] = 0 THEN open ELSE seen[t].open
         /\ job[t].kind \in OrderKinds =>
              Read(t).status = IF pos[t] = 0 THEN order[job[t].of].status ELSE seen[t].status
         /\ job[t].kind = "move requisition" => Read(t).status = requisition[job[t].of].status
         /\ job[t].kind = "requisition" /\ pos[t] = 1 =>
              Read(t).taken = [b \in Named(job[t].quantity) |-> Covered(b)]
         /\ job[t].kind \in Drawing /\ pos[t] = 1 =>
              Read(t).taken = [l \in Named(job[t].quantity) |-> Ordered(l, Excluded(job[t]))]
         /\ job[t].kind \in {"move requisition", "move order"} \/ pos[t] # 1 =>
              Read(t).taken = seen[t].taken
<1> USE DEF Creations, OrderKinds, Drawing
<1> DEFINE k == job[t].kind
           n == pos[t]
           covered == [b \in Named(job[t].quantity) |-> Covered(b)]
           approved == \A l \in Named(job[t].quantity) : requisition[RequisitionOf(l)].status = "APPROVED"
           ordered == [l \in Named(job[t].quantity) |-> Ordered(l, Excluded(job[t]))]
           allocated == Allocated(job[t].of)
           own == order[job[t].of].status
           ownRequisition == requisition[job[t].of].status
           r1 == [seen[t] EXCEPT !.taken = covered]
           r2 == [seen[t] EXCEPT !.approved = approved, !.taken = ordered]
           r3 == [seen[t] EXCEPT !.open = open, !.status = ownRequisition, !.allocated = allocated]
           r4 == [seen[t] EXCEPT !.open = open, !.status = own]
           r5 == [seen[t] EXCEPT !.open = open]
<1>1. Read(t) = CASE k = "requisition" /\ n = 1 -> r1
                  [] k \in {"order", "revise"} /\ n = 1 -> r2
                  [] k = "move requisition" -> r3
                  [] k \in {"revise", "move order"} /\ n = 0 -> r4
                  [] k \in {"requisition", "order"} /\ n = 0 -> r5
                  [] OTHER -> seen[t]
  BY Zenon DEF Read
<1> HIDE DEF covered, approved, ordered, allocated, own, ownRequisition
<1>2. /\ DOMAIN r1 = SeenFields /\ r1.open = seen[t].open /\ r1.status = seen[t].status
      /\ r1.taken = covered
  BY FieldsRead
<1>3. /\ DOMAIN r2 = SeenFields /\ r2.open = seen[t].open /\ r2.status = seen[t].status
      /\ r2.taken = ordered
  BY FieldsRead
<1>4. /\ DOMAIN r3 = SeenFields /\ r3.open = open /\ r3.status = ownRequisition
      /\ r3.taken = seen[t].taken
  BY FieldsRead
<1>5. /\ DOMAIN r4 = SeenFields /\ r4.open = open /\ r4.status = own /\ r4.taken = seen[t].taken
  BY FieldsRead
<1>6. /\ DOMAIN r5 = SeenFields /\ r5.open = open /\ r5.status = seen[t].status
      /\ r5.taken = seen[t].taken
  BY FieldsRead
<1> HIDE DEF r1, r2, r3, r4, r5
<1>7. /\ k = "requisition" => Read(t) = IF n = 1 THEN r1 ELSE IF n = 0 THEN r5 ELSE seen[t]
      /\ k = "order" => Read(t) = IF n = 1 THEN r2 ELSE IF n = 0 THEN r5 ELSE seen[t]
      /\ k = "revise" => Read(t) = IF n = 1 THEN r2 ELSE IF n = 0 THEN r4 ELSE seen[t]
      /\ k = "move order" => Read(t) = IF n = 0 THEN r4 ELSE seen[t]
      /\ k = "move requisition" => Read(t) = r3
      /\ k \notin {"requisition", "order", "revise", "move order", "move requisition"} =>
           Read(t) = seen[t]
  <2>1. ASSUME k = "requisition"
        PROVE  Read(t) = IF n = 1 THEN r1 ELSE IF n = 0 THEN r5 ELSE seen[t]
    BY <1>1, <2>1
  <2>2. ASSUME k = "order"
        PROVE  Read(t) = IF n = 1 THEN r2 ELSE IF n = 0 THEN r5 ELSE seen[t]
    BY <1>1, <2>2
  <2>3. ASSUME k = "revise"
        PROVE  Read(t) = IF n = 1 THEN r2 ELSE IF n = 0 THEN r4 ELSE seen[t]
    BY <1>1, <2>3
  <2>4. ASSUME k = "move order"
        PROVE  Read(t) = IF n = 0 THEN r4 ELSE seen[t]
    BY <1>1, <2>4
  <2>5. ASSUME k = "move requisition"
        PROVE  Read(t) = r3
    BY <1>1, <2>5
  <2>6. ASSUME k \notin {"requisition", "order", "revise", "move order", "move requisition"}
        PROVE  Read(t) = seen[t]
    BY <1>1, <2>6
  <2> QED
    BY <2>1, <2>2, <2>3, <2>4, <2>5, <2>6
<1>8. ASSUME k = "requisition"
      PROVE  /\ DOMAIN Read(t) = SeenFields /\ Read(t).open = IF n = 0 THEN open ELSE seen[t].open
             /\ Read(t).taken = IF n = 1 THEN covered ELSE seen[t].taken
  BY <1>2, <1>6, <1>7, <1>8
<1>9. ASSUME k = "order"
      PROVE  /\ DOMAIN Read(t) = SeenFields /\ Read(t).open = IF n = 0 THEN open ELSE seen[t].open
             /\ Read(t).taken = IF n = 1 THEN ordered ELSE seen[t].taken
  BY <1>3, <1>6, <1>7, <1>9
<1>10. ASSUME k = "revise"
       PROVE  /\ DOMAIN Read(t) = SeenFields /\ Read(t).status = IF n = 0 THEN own ELSE seen[t].status
              /\ Read(t).taken = IF n = 1 THEN ordered ELSE seen[t].taken
  BY <1>3, <1>5, <1>7, <1>10
<1>11. ASSUME k = "move order"
       PROVE  /\ DOMAIN Read(t) = SeenFields /\ Read(t).status = IF n = 0 THEN own ELSE seen[t].status
              /\ Read(t).taken = seen[t].taken
  BY <1>5, <1>7, <1>11
<1>12. ASSUME k = "move requisition"
       PROVE  /\ DOMAIN Read(t) = SeenFields /\ Read(t).status = ownRequisition
              /\ Read(t).taken = seen[t].taken
  BY <1>4, <1>7, <1>12
<1>13. ASSUME k \notin {"requisition", "order", "revise", "move order", "move requisition"}
       PROVE  Read(t) = seen[t]
  BY <1>7, <1>13
<1> QED
  BY <1>8, <1>9, <1>10, <1>11, <1>12, <1>13 DEF covered, ordered, own, ownRequisition

\* A step of a plan leaves the rows and the sums as they are.
LEMMA AcquireFrame ==
  ASSUME TypeOK, NEW t \in Tx, Acquire(t)
  PROVE  /\ pos[t] \in Nat /\ pos[t] < LengthOf(job[t].kind) /\ LengthOf(job[t].kind) \in Nat
         /\ job[t].kind \in {"requisition", "order", "revise", "move order", "move requisition"}
         /\ pos'[t] = pos[t] + 1 /\ seen'[t] = Read(t)
         /\ \A u \in Tx \ {t} : pos'[u] = pos[u] /\ seen'[u] = seen[u]
         /\ pos' \in [Tx -> Nat] /\ DOMAIN seen' = Tx
         /\ UNCHANGED <<open, requisition, order, job>>
         /\ Headers' = Headers /\ (\A r : Plan(r)' = Plan(r)) /\ (\A b : Covered(b)' = Covered(b))
         /\ \A l, e : Ordered(l, e)' = Ordered(l, e)
<1>1. job[t].kind \in {"none", "requisition", "move requisition", "order", "revise", "move order"}
  BY RequestFacts DEF TypeOK
<1>2. /\ pos[t] < Len(Plan(job[t])) /\ job[t].kind # "none" /\ pos[t] \in Nat
      /\ pos' = [pos EXCEPT ![t] = pos[t] + 1]
      /\ seen' = [seen EXCEPT ![t] = Read(t)]
      /\ UNCHANGED <<open, requisition, order, job>>
  BY DEF TypeOK, Acquire, Waits, Running, rows
<1>3. Len(Plan(job[t])) = LengthOf(job[t].kind) /\ LengthOf(job[t].kind) \in Nat
  BY PlanLengths DEF LengthOf
<1>4. pos[t] + 1 \in Nat
  BY <1>2
<1>5. /\ Headers' = Headers /\ (\A r : Plan(r)' = Plan(r)) /\ (\A b : Covered(b)' = Covered(b))
      /\ \A l, e : Ordered(l, e)' = Ordered(l, e)
  BY <1>2 DEF Headers, Plan, RequisitionPlan, MoveRequisitionPlan, OrderPlan, RevisePlan,
     MoveOrderPlan, Covered, Ordered, Live
<1>6. /\ pos'[t] = pos[t] + 1 /\ seen'[t] = Read(t)
      /\ \A u \in Tx \ {t} : pos'[u] = pos[u] /\ seen'[u] = seen[u]
      /\ pos' \in [Tx -> Nat] /\ DOMAIN seen' = Tx
  BY <1>2, <1>4 DEF TypeOK
<1> QED
  BY <1>1, <1>2, <1>3, <1>5, <1>6

\* A step of a plan keeps the connections well typed.
LEMMA AcquireKeepsTypes ==
  ASSUME TypeOK, NEW t \in Tx, Acquire(t)
  PROVE  TypeOK'
<1>1. /\ DOMAIN seen[t] = SeenFields /\ TakenOK(t) /\ job[t] \in Requests \cup {Idle}
      /\ pos[t] \in Nat /\ pos[t] + 1 \in Nat
  BY DEF TypeOK
<1>2. /\ pos[t] < LengthOf(job[t].kind) /\ LengthOf(job[t].kind) \in Nat
      /\ job[t].kind \in {"requisition", "order", "revise", "move order", "move requisition"}
      /\ pos'[t] = pos[t] + 1 /\ seen'[t] = Read(t)
      /\ \A u \in Tx \ {t} : pos'[u] = pos[u] /\ seen'[u] = seen[u]
      /\ pos' \in [Tx -> Nat] /\ DOMAIN seen' = Tx
      /\ UNCHANGED <<open, requisition, order, job>> /\ (\A r : Plan(r)' = Plan(r))
  BY AcquireFrame
<1>3. /\ DOMAIN Read(t) = SeenFields
      /\ job[t].kind = "requisition" /\ pos[t] = 1 =>
           Read(t).taken = [b \in Named(job[t].quantity) |-> Covered(b)]
      /\ job[t].kind \in Drawing /\ pos[t] = 1 =>
           Read(t).taken = [l \in Named(job[t].quantity) |-> Ordered(l, Excluded(job[t]))]
      /\ job[t].kind \in {"move requisition", "move order"} \/ pos[t] # 1 =>
           Read(t).taken = seen[t].taken
  BY <1>1, ReadFacts
<1>4. ASSUME NEW u \in Tx \ {t}
      PROVE  (pos[u] <= Len(Plan(job[u])))' /\ DOMAIN seen'[u] = SeenFields /\ TakenOK(u)'
  <2>1. pos[u] <= Len(Plan(job[u])) /\ DOMAIN seen[u] = SeenFields /\ TakenOK(u)
    BY DEF TypeOK
  <2>2. pos'[u] = pos[u] /\ seen'[u] = seen[u] /\ job' = job /\ Plan(job[u])' = Plan(job[u])
    BY <1>2
  <2>3. TakenOK(u)'
    BY <2>1, <2>2 DEF TakenOK
  <2> QED
    BY <2>1, <2>2, <2>3
<1>5. (pos[t] <= Len(Plan(job[t])))'
  <2>1. Len(Plan(job[t]))' = Len(Plan(job[t])) /\ Len(Plan(job[t])) = LengthOf(job[t].kind)
    BY <1>2, PlanLengths
  <2>2. pos[t] \in Nat /\ LengthOf(job[t].kind) \in Nat /\ pos[t] < LengthOf(job[t].kind)
    BY <1>1, <1>2
  <2>3. pos[t] + 1 <= LengthOf(job[t].kind)
    BY <2>2
  <2> QED
    BY <1>2, <2>1, <2>3
<1>6. TakenOK(t)'
  <2>1. ASSUME job[t].kind = "requisition", pos[t] = 1
        PROVE  TakenOK(t)'
    <3>1. \A b \in Named(job[t].quantity) : b \in BomLines
      BY <2>1, <1>1, RequestFacts DEF Named
    <3>2. Read(t).taken \in [Named(job[t].quantity) -> Nat]
      BY <1>3, <2>1, <3>1, SumsRead
    <3>3. pos'[t] >= 2
      BY <1>2, <2>1
    <3> QED
      BY <1>2, <2>1, <3>2, <3>3 DEF TakenOK
  <2>2. ASSUME job[t].kind \in Drawing, pos[t] = 1
        PROVE  TakenOK(t)'
    <3>1. \A l \in Named(job[t].quantity) : l \in Lines
      BY <2>2, <1>1, RequestFacts DEF Named
    <3>2. Read(t).taken \in [Named(job[t].quantity) -> Nat]
      <4>1. Read(t).taken = [l \in Named(job[t].quantity) |-> Ordered(l, Excluded(job[t]))]
        BY <1>3, <2>2
      <4>2. \A l \in Named(job[t].quantity) : Ordered(l, Excluded(job[t])) \in Nat
        BY <3>1, SumsRead
      <4> QED
        BY <4>1, <4>2
    <3>3. pos'[t] = pos[t] + 1 /\ job'[t] = job[t] /\ seen'[t] = Read(t)
      BY <1>2
    <3>4. pos'[t] >= 2
      BY <2>2, <3>3
    <3> QED
      BY <2>2, <3>2, <3>3, <3>4 DEF TakenOK, Drawing
  <2>3. ASSUME job[t].kind \in {"move requisition", "move order"}
        PROVE  TakenOK(t)'
    <3>1. Read(t).taken = seen[t].taken /\ job[t].kind \notin {"requisition", "order", "revise"}
      BY <1>3, <2>3
    <3> QED
      BY <1>1, <1>2, <3>1 DEF TakenOK
  <2>4. ASSUME job[t].kind \in {"requisition", "order", "revise"}, pos[t] # 1
        PROVE  TakenOK(t)'
    <3>1. Read(t).taken = seen[t].taken
      BY <1>3, <2>4
    <3>2. pos[t] \in Nat /\ pos'[t] = pos[t] + 1 /\ job'[t] = job[t] /\ seen'[t] = Read(t)
      BY <1>1, <1>2
    <3>3. pos[t] >= 2 <=> pos'[t] >= 2
      BY <2>4, <3>2
    <3> QED
      BY <1>1, <2>4, <3>1, <3>2, <3>3 DEF TakenOK
  <2> QED
    BY <1>2, <2>1, <2>2, <2>3, <2>4 DEF Drawing
<1> QED
  BY <1>2, <1>3, <1>4, <1>5, <1>6 DEF TypeOK

\* Nor does it break what handlers know: what one reads is what there is.
LEMMA AcquireKeepsReads ==
  ASSUME TypeOK, ReadsAreGood, NEW t \in Tx, Acquire(t)
  PROVE  ReadsAreGood'
<1>1. DOMAIN seen[t] = SeenFields /\ job[t] \in Requests \cup {Idle} /\ pos[t] \in Nat
  BY DEF TypeOK
<1>2. /\ pos'[t] = pos[t] + 1 /\ seen'[t] = Read(t)
      /\ \A u \in Tx \ {t} : pos'[u] = pos[u] /\ seen'[u] = seen[u]
      /\ UNCHANGED <<open, requisition, order, job>>
      /\ \A b : Covered(b)' = Covered(b)
      /\ \A l, e : Ordered(l, e)' = Ordered(l, e)
  BY AcquireFrame
<1>3. ASSUME NEW u \in Tx \ {t}
      PROVE  ReadIsGood(u)'
  BY <1>2 DEF ReadsAreGood, ReadIsGood, Excluded
<1>4. ReadIsGood(t)'
  <2>1. /\ job[t].kind \in Creations => Read(t).open = IF pos[t] = 0 THEN open ELSE seen[t].open
        /\ job[t].kind \in OrderKinds =>
             Read(t).status = IF pos[t] = 0 THEN order[job[t].of].status ELSE seen[t].status
        /\ job[t].kind = "move requisition" => Read(t).status = requisition[job[t].of].status
    BY <1>1, ReadFacts
  <2>2. /\ job[t].kind = "requisition" /\ pos[t] = 1 =>
             Read(t).taken = [b \in Named(job[t].quantity) |-> Covered(b)]
        /\ job[t].kind \in Drawing /\ pos[t] = 1 =>
             Read(t).taken = [l \in Named(job[t].quantity) |-> Ordered(l, Excluded(job[t]))]
        /\ pos[t] # 1 => Read(t).taken = seen[t].taken
    BY <1>1, ReadFacts
  <2>3. ReadIsGood(t)
    BY DEF ReadsAreGood
  <2>4. pos[t] = 0 \/ pos[t] >= 1
    BY <1>1
  <2>5. job[t].kind \in Creations => Read(t).open = open
    BY <2>1, <2>3, <2>4, Zenon DEF ReadIsGood
  <2>6. job[t].kind \in OrderKinds => Read(t).status = order[job[t].of].status
    BY <2>1, <2>3, <2>4, Zenon DEF ReadIsGood
  <2>7. ASSUME job[t].kind = "requisition", pos[t] + 1 >= 2, NEW b \in Named(job[t].quantity)
        PROVE  Covered(b) <= Read(t).taken[b]
    <3>1. b \in BomLines
      BY <2>7, <1>1, RequestFacts DEF Named
    <3>2. CASE pos[t] = 1
      BY <2>2, <2>7, <3>1, <3>2, SumsRead
    <3>3. CASE pos[t] # 1
      <4>1. Read(t).taken = seen[t].taken /\ pos[t] >= 2
        BY <1>1, <2>2, <2>7, <3>3
      <4> QED
        BY <2>3, <2>7, <4>1 DEF ReadIsGood
    <3> QED
      BY <3>2, <3>3
  <2>8. ASSUME job[t].kind \in Drawing, pos[t] + 1 >= 2, NEW l \in Named(job[t].quantity)
        PROVE  Ordered(l, Excluded(job[t])) <= Read(t).taken[l]
    <3>1. l \in Lines
      BY <2>8, <1>1, RequestFacts DEF Named, Drawing
    <3>2. CASE pos[t] = 1
      <4>1. Read(t).taken[l] = Ordered(l, Excluded(job[t]))
        BY <2>2, <2>8, <3>2
      <4>2. Ordered(l, Excluded(job[t])) \in Nat
        BY <3>1, SumsRead
      <4> QED
        BY <4>1, <4>2
    <3>3. CASE pos[t] # 1
      <4>1. Read(t).taken = seen[t].taken /\ pos[t] >= 2
        BY <1>1, <2>2, <2>8, <3>3
      <4> QED
        BY <2>3, <2>8, <4>1 DEF ReadIsGood
    <3> QED
      BY <3>2, <3>3
  <2>9. \A e : Excluded(e)' = Excluded(e)
    BY DEF Excluded
  <2> QED
    BY <1>2, <2>1, <2>5, <2>6, <2>7, <2>8, <2>9 DEF ReadIsGood
<1> QED
  BY <1>3, <1>4 DEF ReadsAreGood

\* A step of a plan keeps the invariant: it locks only what nobody holds.
LEMMA AcquireStep ==
  ASSUME IInv, NEW t \in Tx, Acquire(t)
  PROVE  IInv'
<1> USE DEF IInv
<1>1. TypeOK' /\ ReadsAreGood'
  BY AcquireKeepsTypes, AcquireKeepsReads
<1>2. /\ pos[t] \in Nat /\ pos'[t] = pos[t] + 1
      /\ \A u \in Tx \ {t} : pos'[u] = pos[u]
      /\ UNCHANGED <<open, requisition, order, job>>
      /\ Headers' = Headers /\ \A r : Plan(r)' = Plan(r)
  BY AcquireFrame
<1>3. LocksExclude'
  <2>1. \A u \in Tx \ {t} : Held(u)' = Held(u)
    BY <1>2, HeldKept
  <2>2. Held(t)' = Held(t) \cup Wanted(t)
    <3>1. \A m : m \in 1..(pos[t] + 1) <=> m \in 1..pos[t] \/ m = pos[t] + 1
      BY <1>2
    <3>2. Held(t)' = UNION {Plan(job[t])[m] : m \in 1..(pos[t] + 1)}
      BY <1>2 DEF Held
    <3> QED
      BY <3>1, <3>2 DEF Held, Wanted
  <2>3. \A u \in Tx \ {t} : Held(u) \cap Wanted(t) = {}
    BY DEF Acquire, Blocks
  <2> QED
    BY <2>1, <2>2, <2>3 DEF LocksExclude
<1>4. /\ NamedExist' /\ PlainWithinNeed' /\ PlainWithinApproved' /\ UnbornNeedNothing'
      /\ AcknowledgedWasSent'
  BY <1>2 DEF NamedExist, PlainWithinNeed, PlainWithinApproved, UnbornNeedNothing,
     AcknowledgedWasSent
<1> QED
  BY <1>1, <1>3, <1>4

-----------------------------------------------------------------------------
(***************************************************************************)
(* Ending: what a commit writes, and what the others may still rely on.    *)
(***************************************************************************)
\* A commit that raises a sum holds the row that whoever read the sum also
\* needs; so what the others read remains good.
LEMMA EndKeepsReads ==
  ASSUME TypeOK, LocksExclude, NamedExist, ReadsAreGood, TypeOK', NEW t \in Tx, End(t), open' = open,
         \A p \in Requisitions : \/ requisition'[p].status = requisition[p].status
                                 \/ requisition[p].status = "NONE"
                                 \/ <<"requisition", p>> \in Held(t),
         \A o \in Orders : \/ order'[o].status = order[o].status
                           \/ order[o].status = "NONE"
                           \/ <<"order", o>> \in Held(t),
         \A b \in BomLines : Covered(b)' <= Covered(b) \/ <<"project">> \in Held(t),
         \A l \in Lines : \A besides :
           Ordered(l, besides)' <= Ordered(l, besides) \/ <<"line", l>> \in Held(t)
  PROVE  ReadsAreGood'
<1>1. ASSUME NEW u \in Tx, u # t
      PROVE  ReadIsGood(u)'
  <2>1. job'[u] = job[u] /\ pos'[u] = pos[u] /\ seen'[u] = seen[u]
    BY <1>1, EndFrame
  <2>2. Held(u) \cap Held(t) = {} /\ ReadIsGood(u) /\ job[u] \in Requests \cup {Idle} /\ pos[u] \in Nat
    BY <1>1 DEF LocksExclude, ReadsAreGood, TypeOK
  <2>3. job[u].kind \in OrderKinds /\ pos[u] >= 1 => seen[u].status = order'[job[u].of].status
    <3> SUFFICES ASSUME job[u].kind \in OrderKinds, pos[u] >= 1
                 PROVE  seen[u].status = order'[job[u].of].status
      OBVIOUS
    <3>1. job[u].of \in Orders /\ order[job[u].of].status # "NONE"
      BY <2>2, RequestFacts DEF NamedExist
    <3>2. <<"order", job[u].of>> \notin Held(t)
      BY <2>2, HeldRows
    <3>3. order'[job[u].of].status = order[job[u].of].status
      BY <3>1, <3>2
    <3> QED
      BY <2>2, <3>3 DEF ReadIsGood
  <2>4. job[u].kind = "move requisition" /\ pos[u] >= 1 =>
          seen[u].status = requisition'[job[u].of].status
    <3> SUFFICES ASSUME job[u].kind = "move requisition", pos[u] >= 1
                 PROVE  seen[u].status = requisition'[job[u].of].status
      OBVIOUS
    <3>1. job[u].of \in Requisitions /\ requisition[job[u].of].status # "NONE"
      BY <2>2, RequestFacts DEF NamedExist
    <3>2. <<"requisition", job[u].of>> \notin Held(t)
      BY <2>2, HeldRows
    <3>3. requisition'[job[u].of].status = requisition[job[u].of].status
      BY <3>1, <3>2
    <3> QED
      BY <2>2, <3>3 DEF ReadIsGood
  <2>5. ASSUME job[u].kind = "requisition", pos[u] >= 2, NEW b \in Named(job[u].quantity)
        PROVE  Covered(b)' <= seen[u].taken[b]
    <3>1. b \in BomLines
      BY <2>2, <2>5, RequestFacts DEF Named
    <3>2. <<"project">> \notin Held(t)
      <4>1. pos[u] >= 1 /\ job[u].kind \in Creations
        BY <2>2, <2>5 DEF Creations
      <4>2. <<"project">> \in Held(u)
        BY <4>1, HeldRows
      <4> QED
        BY <2>2, <4>2
    <3>3. Covered(b)' <= Covered(b) /\ Covered(b) <= seen[u].taken[b]
      BY <2>2, <2>5, <3>1, <3>2 DEF ReadIsGood
    <3>4. seen[u].taken[b] \in Nat
      BY <2>5 DEF TypeOK, TakenOK
    <3>5. Covered(b)' \in Nat /\ Covered(b) \in Nat
      BY <3>1, SumsRead, SumsReadNext
    <3> QED
      BY <3>3, <3>4, <3>5
  <2>6. ASSUME job[u].kind \in Drawing, pos[u] >= 2, NEW l \in Named(job[u].quantity)
        PROVE  Ordered(l, Excluded(job[u]))' <= seen[u].taken[l]
    <3>0. PICK e : e = Excluded(job[u])
      OBVIOUS
    <3>1. l \in Lines
      BY <2>2, <2>6, RequestFacts DEF Named, Drawing
    <3>2. <<"line", l>> \notin Held(t)
      <4>1. <<"line", l>> \in Held(u)
        BY <2>6, HeldRows
      <4> QED
        BY <2>2, <4>1
    <3>3. Ordered(l, e)' <= Ordered(l, e) /\ Ordered(l, e) <= seen[u].taken[l]
      <4>1. Ordered(l, e) <= seen[u].taken[l]
        BY <2>2, <2>6, <3>0 DEF ReadIsGood
      <4>2. \A besides : Ordered(l, besides)' <= Ordered(l, besides)
        BY <3>1, <3>2
      <4> QED
        BY <4>1, <4>2
    <3>4. seen[u].taken[l] \in Nat
      BY <2>6 DEF TypeOK, TakenOK, Drawing
    <3>5. Ordered(l, e)' \in Nat /\ Ordered(l, e) \in Nat
      BY <3>1, SumsRead, SumsReadNext
    <3>6. Ordered(l, e)' <= seen[u].taken[l]
      BY <3>3, <3>4, <3>5
    <3> QED
      BY <3>0, <3>6, <2>1 DEF Ordered, Excluded
  <2>7. job[u].kind \in Creations /\ pos[u] >= 1 => seen[u].open = open'
    BY <2>2 DEF ReadIsGood
  <2>8. (\A e : Excluded(e)' = Excluded(e)) /\ \A q : Named(q)' = Named(q)
    BY DEF Excluded, Named
  <2> QED
    BY <2>1, <2>3, <2>4, <2>5, <2>6, <2>7, <2>8 DEF ReadIsGood
<1>2. ReadIsGood(t)'
  <2>1. job'[t] = Idle
    BY EndFrame
  <2> QED
    BY <2>1 DEF ReadIsGood, Idle, Creations, OrderKinds, Drawing
<1> QED
  BY <1>1, <1>2 DEF ReadsAreGood

\* Ending keeps the invariant as far as it is about connections.
LEMMA EndStep ==
  ASSUME IInv, NEW t \in Tx, End(t), open' = open,
         requisition' \in [Requisitions -> RequisitionRow], order' \in [Orders -> OrderRow],
         \A p \in Requisitions : \/ requisition'[p].status = requisition[p].status
                                 \/ requisition[p].status = "NONE" /\ <<"project">> \in Held(t)
                                 \/ <<"requisition", p>> \in Held(t)
                                    /\ requisition[p].status # "NONE" /\ requisition'[p].status # "NONE",
         \A o \in Orders : \/ order'[o].status = order[o].status
                           \/ order[o].status = "NONE"
                           \/ <<"order", o>> \in Held(t) /\ order'[o].status # "NONE",
         \A b \in BomLines : Covered(b)' <= Covered(b) \/ <<"project">> \in Held(t),
         \A l \in Lines : \A besides :
           Ordered(l, besides)' <= Ordered(l, besides) \/ <<"line", l>> \in Held(t)
  PROVE  TypeOK' /\ LocksExclude' /\ NamedExist' /\ ReadsAreGood'
<1> USE DEF IInv
<1>1. TypeOK'
  BY EndKeepsTypes
<1>2. LocksExclude'
  <2>1. CASE <<"project">> \in Held(t)
    BY <2>1, EndKeepsLocks
  <2>2. CASE <<"project">> \notin Held(t)
    <3>1. \A p \in Requisitions : requisition'[p].status = "NONE" <=> requisition[p].status = "NONE"
      BY <2>2
    <3>2. Headers' = Headers
      BY <3>1 DEF Headers
    <3> QED
      BY <3>2, EndKeepsLocks
  <2> QED
    BY <2>1, <2>2
<1>3. NamedExist'
  <2>1. ASSUME NEW u \in Tx, u # t
        PROVE  /\ job'[u].kind = "move requisition" => requisition'[job'[u].of].status # "NONE"
               /\ job'[u].kind \in OrderKinds => order'[job'[u].of].status # "NONE"
    <3>1. job'[u] = job[u] /\ job[u] \in Requests \cup {Idle}
      BY <2>1, EndFrame DEF TypeOK
    <3>2. /\ job[u].kind = "move requisition" =>
               job[u].of \in Requisitions /\ requisition[job[u].of].status # "NONE"
          /\ job[u].kind \in OrderKinds => job[u].of \in Orders /\ order[job[u].of].status # "NONE"
      BY <3>1, RequestFacts DEF NamedExist
    <3> QED
      BY <3>1, <3>2
  <2>2. job'[t].kind = "none"
    BY EndFrame DEF Idle
  <2>3. ASSUME NEW u \in Tx
        PROVE  /\ job'[u].kind = "move requisition" => requisition'[job'[u].of].status # "NONE"
               /\ job'[u].kind \in OrderKinds => order'[job'[u].of].status # "NONE"
    BY <2>1, <2>2 DEF OrderKinds
  <2> HIDE DEF IInv
  <2> QED
    BY <2>3 DEF NamedExist
<1>4. ReadsAreGood'
  BY <1>1, EndKeepsReads
<1> QED
  BY <1>1, <1>2, <1>3, <1>4

\* A row that did not count adds no more than itself.
LEMMA CoverOneMore ==
  ASSUME NEW r \in [Requisitions -> RequisitionRow], NEW s \in [Requisitions -> RequisitionRow],
         NEW b \in BomLines, NEW p \in Requisitions, ~Reserves(r[p]),
         \A x \in Requisitions \ {p} : s[x] = r[x]
  PROVE  SumFunctionOnSet(PlainCover(s, b), Requisitions)
           <= SumFunctionOnSet(Cover(r, b), Requisitions) + PlainCover(s, b)[p]
<1> DEFINE f == PlainCover(s, b)  g == Cover(r, b)
<1>1. IsFiniteSet(Requisitions)
  BY ProcurementAssumption
<1>2. \A x \in Requisitions : f[x] \in Int /\ g[x] \in Int
  BY CoverRows
<1>3. \A x \in Requisitions \ {p} : f[x] <= g[x]
  <2>1. ASSUME NEW x \in Requisitions \ {p}
        PROVE  f[x] <= g[x]
    <3>1. PlainCover(r, b)[x] <= Cover(r, b)[x]
      BY CoverRows
    <3>2. PlainCover(s, b)[x] = PlainCover(r, b)[x]
      BY DEF PlainCover
    <3> QED
      BY <3>1, <3>2
  <2> QED
    BY <2>1
<1>4. g[p] = 0
  BY DEF Cover
<1> HIDE DEF f, g
<1>5. SumFunctionOnSet(f, Requisitions) <= SumFunctionOnSet(g, Requisitions) + f[p]
  BY <1>1, <1>2, <1>3, <1>4, SumOneMore
<1> QED
  BY <1>5 DEF f, g

\* One order that changes adds at most what it draws itself.
LEMMA DrawOneMore ==
  ASSUME NEW r \in [Orders -> OrderRow], NEW s \in [Orders -> OrderRow],
         NEW l \in Lines, NEW o \in Orders, \A x \in Orders \ {o} : s[x] = r[x]
  PROVE  SumFunctionOnSet(PlainDraw(s, l), Orders)
           <= SumFunctionOnSet(Draw(r, l, {o}), Orders) + PlainDraw(s, l)[o]
<1> DEFINE f == PlainDraw(s, l)  g == Draw(r, l, {o})
<1>1. IsFiniteSet(Orders)
  BY ProcurementAssumption
<1>2. \A x \in Orders : f[x] \in Int /\ g[x] \in Int
  BY DrawRows
<1>3. \A x \in Orders \ {o} : f[x] <= g[x]
  <2>1. ASSUME NEW x \in Orders \ {o}
        PROVE  f[x] <= g[x]
    <3>1. r[x].quantity[l] \in Nat
      BY DrawRows
    <3> QED
      BY <3>1 DEF PlainDraw, Draw
  <2> QED
    BY <2>1
<1>4. g[o] = 0
  BY DEF Draw
<1> HIDE DEF f, g
<1>5. SumFunctionOnSet(f, Orders) <= SumFunctionOnSet(g, Orders) + f[o]
  BY <1>1, <1>2, <1>3, <1>4, SumOneMore
<1> QED
  BY <1>5 DEF f, g

\* Leaving out an order that does not count makes no difference.
LEMMA DrawBesides ==
  ASSUME NEW r, NEW l, NEW o \in Orders, ~IsLive(r[o])
  PROVE  Draw(r, l, {o}) = Draw(r, l, {})
BY DEF Draw

\* Rows that only release keep the sums without override within their bounds.
LEMMA PlainCoverLowered ==
  ASSUME NEW r \in [Requisitions -> RequisitionRow], NEW s \in [Requisitions -> RequisitionRow],
         NEW b \in BomLines,
         \A p \in Requisitions : PlainCover(s, b)[p] <= PlainCover(r, b)[p]
  PROVE  /\ SumFunctionOnSet(PlainCover(s, b), Requisitions)
              <= SumFunctionOnSet(PlainCover(r, b), Requisitions)
         /\ SumFunctionOnSet(PlainCover(s, b), Requisitions) \in Nat
         /\ SumFunctionOnSet(PlainCover(r, b), Requisitions) \in Nat
<1> DEFINE f == PlainCover(s, b)  g == PlainCover(r, b)
<1>1. IsFiniteSet(Requisitions)
  BY ProcurementAssumption
<1>2. \A p \in Requisitions : f[p] \in Nat /\ g[p] \in Nat /\ f[p] <= g[p]
  BY CoverRows
<1> HIDE DEF f, g
<1>3. \A p \in Requisitions : f[p] \in Int /\ g[p] \in Int
  BY <1>2
<1>4. SumFunctionOnSet(f, Requisitions) <= SumFunctionOnSet(g, Requisitions)
  BY <1>1, <1>2, <1>3, SumAtMost
<1>5. SumFunctionOnSet(f, Requisitions) \in Nat /\ SumFunctionOnSet(g, Requisitions) \in Nat
  BY <1>1, <1>2, SumOfNat
<1> QED
  BY <1>4, <1>5 DEF f, g

\* The same for what counts plainly.
LEMMA PlainDrawLowered ==
  ASSUME NEW r \in [Orders -> OrderRow], NEW s \in [Orders -> OrderRow], NEW l \in Lines,
         \A o \in Orders : PlainDraw(s, l)[o] <= PlainDraw(r, l)[o]
  PROVE  /\ SumFunctionOnSet(PlainDraw(s, l), Orders) <= SumFunctionOnSet(PlainDraw(r, l), Orders)
         /\ SumFunctionOnSet(PlainDraw(s, l), Orders) \in Nat
         /\ SumFunctionOnSet(PlainDraw(r, l), Orders) \in Nat
<1> DEFINE f == PlainDraw(s, l)  g == PlainDraw(r, l)
<1>1. IsFiniteSet(Orders)
  BY ProcurementAssumption
<1>2. \A o \in Orders : f[o] \in Nat /\ g[o] \in Nat /\ f[o] <= g[o]
  BY DrawRows
<1> HIDE DEF f, g
<1>3. \A o \in Orders : f[o] \in Int /\ g[o] \in Int
  BY <1>2
<1>4. SumFunctionOnSet(f, Orders) <= SumFunctionOnSet(g, Orders)
  BY <1>1, <1>2, <1>3, SumAtMost
<1>5. SumFunctionOnSet(f, Orders) \in Nat /\ SumFunctionOnSet(g, Orders) \in Nat
  BY <1>1, <1>2, SumOfNat
<1> QED
  BY <1>4, <1>5 DEF f, g

\* What is approved of a line never shrinks, so orders stay within it.
LEMMA ApprovedKept ==
  ASSUME TypeOK, PlainWithinApproved, UnbornNeedNothing,
         requisition' \in [Requisitions -> RequisitionRow], order' = order,
         \A p \in Requisitions : \/ requisition'[p].quantity = requisition[p].quantity
                                 \/ requisition[p].status = "NONE"
  PROVE  PlainWithinApproved'
<1> SUFFICES ASSUME NEW l \in Lines
             PROVE  SumFunctionOnSet(PlainDraw(order', l), Orders)
                      <= requisition'[RequisitionOf(l)].quantity[l[2]]
  BY DEF PlainWithinApproved, PlainDraw
<1> DEFINE p == RequisitionOf(l)  total == SumFunctionOnSet(PlainDraw(order, l), Orders)
<1>1. p \in Requisitions /\ l[2] \in BomLines
  BY DEF Lines, RequisitionOf
<1>2. order \in [Orders -> OrderRow] /\ requisition \in [Requisitions -> RequisitionRow]
  BY DEF TypeOK
<1>3. total \in Nat
  <2>1. \A o \in Orders : PlainDraw(order, l)[o] <= PlainDraw(order, l)[o]
    BY <1>2, DrawRows
  <2> QED
    BY <1>2, <2>1, PlainDrawLowered
<1>4. total <= requisition[p].quantity[l[2]]
  BY DEF PlainWithinApproved
<1>5. requisition[p].quantity[l[2]] \in Nat /\ requisition'[p].quantity[l[2]] \in Nat
  BY <1>1, <1>2, CoverRows
<1>6. requisition[p].quantity[l[2]] <= requisition'[p].quantity[l[2]]
  <2>1. requisition[p].status = "NONE" => requisition[p].quantity[l[2]] = 0
    BY <1>1 DEF UnbornNeedNothing, NoNeed
  <2> QED
    BY <1>1, <1>5, <2>1
<1>7. total <= requisition'[p].quantity[l[2]]
  <2> HIDE DEF total, p
  <2> QED
    BY <1>3, <1>4, <1>5, <1>6
<1> QED
  BY <1>7

\* A transaction that is ready has taken all its steps.
LEMMA ReadyFacts ==
  ASSUME TypeOK, NEW t \in Tx, NEW kind, Ready(t, kind), kind # "none"
  PROVE  /\ job[t].kind = kind /\ job[t] \in Requests \cup {Idle} /\ Passes(t)
         /\ pos[t] = LengthOf(kind) /\ TakenOK(t)
<1>1. job[t].kind = kind /\ Passes(t) /\ ~(pos[t] < Len(Plan(job[t])))
  BY DEF Ready, Waits, Running
<1>2. /\ job[t] \in Requests \cup {Idle} /\ TakenOK(t)
      /\ pos[t] \in Nat /\ pos[t] <= Len(Plan(job[t]))
  BY DEF TypeOK
<1>3. Len(Plan(job[t])) = LengthOf(kind) /\ LengthOf(kind) \in Nat
  BY <1>1, PlanLengths DEF LengthOf
<1>4. pos[t] = LengthOf(kind)
  BY <1>1, <1>2, <1>3
<1> QED
  BY <1>1, <1>2, <1>4

-----------------------------------------------------------------------------
(***************************************************************************)
(* The commits.                                                            *)
(***************************************************************************)
\* A new requisition covers what it has checked, beyond it only by override.
LEMMA CommitRequisitionStep ==
  ASSUME IInv, NEW t \in Tx, CommitRequisition(t)
  PROVE  IInv'
<1> DEFINE q == job[t].quantity  over == Exceeding(t)
<1>1. PICK p \in Requisitions :
        /\ requisition[p].status = "NONE"
        /\ requisition' = [requisition EXCEPT ![p] =
             [status |-> "DRAFT", quantity |-> q, overNeed |-> over]]
  BY DEF CommitRequisition
<1>2. End(t) /\ open' = open /\ order' = order /\ TypeOK /\ LocksExclude /\ ReadsAreGood
  BY DEF CommitRequisition, IInv
<1>3. /\ job[t].kind = "requisition" /\ job[t] \in Requests \cup {Idle} /\ pos[t] = 3 /\ TakenOK(t)
  <2>1. Ready(t, "requisition")
    BY DEF CommitRequisition
  <2>2. LengthOf("requisition") = 3 /\ "requisition" # "none"
    BY DEF LengthOf, Drawing
  <2> QED
    BY <1>2, <2>1, <2>2, ReadyFacts
<1>4. q \in [BomLines -> Quantities] /\ seen[t].taken \in [Named(q) -> Nat]
  <2>1. q \in [BomLines -> Quantities]
    BY <1>3, RequestFacts
  <2>2. pos[t] >= 2
    BY <1>3
  <2> QED
    BY <1>3, <2>1, <2>2 DEF TakenOK
<1>5. over \subseteq BomLines /\ over \subseteq Named(q)
  BY <1>4 DEF Exceeding, Named
<1>6. <<"project">> \in Held(t)
  <2>1. pos[t] >= 1 /\ job[t].kind \in Creations
    BY <1>3 DEF Creations
  <2> QED
    BY <1>2, <2>1, HeldRows
<1>7. requisition \in [Requisitions -> RequisitionRow] /\ order \in [Orders -> OrderRow]
  BY <1>2 DEF TypeOK
<1>8. requisition' \in [Requisitions -> RequisitionRow] /\ order' \in [Orders -> OrderRow]
  <2> HIDE DEF q, over
  <2>1. [status |-> "DRAFT", quantity |-> q, overNeed |-> over] \in RequisitionRow
    BY <1>4, <1>5 DEF RequisitionRow, RequisitionStatuses
  <2> QED
    BY <1>1, <1>2, <1>7, <2>1
<1>9. /\ requisition'[p].status = "DRAFT" /\ requisition'[p].quantity = q
      /\ requisition'[p].overNeed = over
      /\ \A x \in Requisitions \ {p} : requisition'[x] = requisition[x]
  <2> HIDE DEF q, over
  <2> QED
    BY <1>1, <1>7
<1>10. TypeOK' /\ LocksExclude' /\ NamedExist' /\ ReadsAreGood'
  <2>1. \A x \in Requisitions : \/ requisition'[x].status = requisition[x].status
                                \/ requisition[x].status = "NONE" /\ <<"project">> \in Held(t)
    BY <1>1, <1>6, <1>9
  <2>2. \A l \in Lines : \A besides : Ordered(l, besides)' <= Ordered(l, besides)
    <3>1. \A l \in Lines : \A besides : Ordered(l, besides) \in Nat
      BY <1>2, SumsRead
    <3>2. \A l, besides : Ordered(l, besides)' = Ordered(l, besides)
      BY <1>2 DEF Ordered, Live
    <3> QED
      BY <3>1, <3>2
  <2> QED
    BY <1>2, <1>6, <1>8, <2>1, <2>2, EndStep
<1>11. PlainWithinNeed'
  <2> SUFFICES ASSUME NEW b \in BomLines
               PROVE  SumFunctionOnSet(PlainCover(requisition', b), Requisitions) <= Required[b]
    BY DEF PlainWithinNeed, PlainCover
  <2> DEFINE was == SumFunctionOnSet(PlainCover(requisition, b), Requisitions)
             all == SumFunctionOnSet(Cover(requisition, b), Requisitions)
             is == SumFunctionOnSet(PlainCover(requisition', b), Requisitions)
             new == PlainCover(requisition', b)[p]
  <2>1. ~Reserves(requisition[p])
    BY <1>1 DEF Reserves, CoveringStatuses
  <2>2. is <= all + new
    BY <1>7, <1>8, <1>9, <2>1, CoverOneMore
  <2>3. new = IF b \in over THEN 0 ELSE q[b]
    BY <1>9 DEF PlainCover, Reserves, CoveringStatuses
  <2>4. \A x \in Requisitions : PlainCover(requisition', b)[x] <= PlainCover(requisition', b)[x]
    BY <1>8, CoverRows
  <2>5. \A x \in Requisitions : PlainCover(requisition, b)[x] <= PlainCover(requisition, b)[x]
    BY <1>7, CoverRows
  <2>6. is \in Nat
    BY <1>8, <2>4, PlainCoverLowered
  <2>7. all \in Nat /\ all = Covered(b)
    BY <1>2, SumsRead
  <2>8. Required[b] \in Nat /\ q[b] \in Nat
    BY <1>4, ProcurementAssumption, QuantitiesAreNat
  <2>9. ASSUME b \in Named(q), b \notin over
        PROVE  is <= Required[b]
    <3>1. all <= seen[t].taken[b] /\ seen[t].taken[b] \in Nat
      <4>1. ReadIsGood(t) /\ pos[t] >= 2
        BY <1>2, <1>3 DEF ReadsAreGood
      <4>2. Covered(b) <= seen[t].taken[b]
        BY <1>3, <2>9, <4>1 DEF ReadIsGood
      <4> QED
        BY <1>4, <2>7, <2>9, <4>2
    <3>2. seen[t].taken[b] + q[b] <= Required[b]
      <4>1. ~(seen[t].taken[b] + q[b] > Need(job[t], b))
        BY <1>4, <2>9 DEF Exceeding
      <4>2. Need(job[t], b) = Required[b]
        BY <1>3 DEF Need
      <4> QED
        BY <2>8, <3>1, <4>1, <4>2
    <3>3. new = q[b]
      BY <2>3, <2>9
    <3> HIDE DEF all, is, new, q
    <3> QED
      BY <2>2, <2>6, <2>7, <2>8, <3>1, <3>2, <3>3
  <2>10. ASSUME b \notin Named(q) \/ b \in over
         PROVE  is <= Required[b]
    <3>1. new = 0
      <4>1. b \notin Named(q) => q[b] = 0
        BY <1>4, <2>8 DEF Named
      <4> QED
        BY <2>3, <2>10, <4>1
    <3>2. is <= was
      <4>1. \A x \in Requisitions : PlainCover(requisition', b)[x] <= PlainCover(requisition, b)[x]
        <5>1. \A x \in Requisitions \ {p} : PlainCover(requisition', b)[x] = PlainCover(requisition, b)[x]
          BY <1>9 DEF PlainCover
        <5>2. PlainCover(requisition, b)[p] \in Nat
          BY <1>7, CoverRows
        <5> QED
          BY <2>5, <3>1, <5>1, <5>2
      <4> QED
        BY <1>7, <1>8, <4>1, PlainCoverLowered
    <3>3. was \in Nat
      BY <1>7, <2>5, PlainCoverLowered
    <3>4. was <= Required[b]
      BY DEF IInv, PlainWithinNeed
    <3> HIDE DEF is, was
    <3> QED
      BY <2>6, <2>8, <3>2, <3>3, <3>4
  <2> QED
    BY <2>9, <2>10
<1>12. PlainWithinApproved'
  BY <1>1, <1>2, <1>8, <1>9, ApprovedKept DEF IInv
<1>13. UnbornNeedNothing'
  BY <1>9 DEF IInv, UnbornNeedNothing
<1>14. AcknowledgedWasSent'
  BY <1>2 DEF IInv, AcknowledgedWasSent
<1> QED
  BY <1>10, <1>11, <1>12, <1>13, <1>14 DEF IInv

\* A requisition that moves on never reserves what it did not reserve before.
LEMMA CommitMoveRequisitionStep ==
  ASSUME IInv, NEW t \in Tx, CommitMoveRequisition(t)
  PROVE  IInv'
<1> DEFINE p == job[t].of  target == job[t].target
<1>1. /\ End(t) /\ open' = open /\ order' = order /\ TypeOK /\ LocksExclude /\ ReadsAreGood
      /\ requisition' = [requisition EXCEPT ![p].status = target]
  BY DEF CommitMoveRequisition, IInv
<1>2. /\ job[t].kind = "move requisition" /\ job[t] \in Requests \cup {Idle} /\ Passes(t)
      /\ pos[t] = 1
  <2>1. Ready(t, "move requisition")
    BY DEF CommitMoveRequisition
  <2>2. LengthOf("move requisition") = 1 /\ "move requisition" # "none"
    BY DEF LengthOf, Drawing
  <2> QED
    BY <1>1, <2>1, <2>2, ReadyFacts
<1>3. p \in Requisitions /\ target \in RequisitionStatuses \ {"NONE", "DRAFT"}
  BY <1>2, RequestFacts
<1>4. <<"requisition", p>> \in Held(t) /\ seen[t].status = requisition[p].status
  <2>0. pos[t] = 1 /\ ReadIsGood(t)
    BY <1>1, <1>2 DEF ReadsAreGood
  <2>1. pos[t] >= 1 /\ ReadIsGood(t)
    BY <2>0
  <2>2. <<"requisition", p>> \in Held(t)
    BY <1>1, <1>2, <2>1, HeldRows
  <2>3. seen[t].status = requisition[p].status
    BY <1>2, <2>1 DEF ReadIsGood
  <2> QED
    BY <2>2, <2>3
<1>5. CanTransitionRequisition(requisition[p].status, target)
  <2>0. pos[t] = 1
    BY <1>2
  <2>1. pos[t] > 0
    BY <2>0
  <2> QED
    BY <1>2, <1>4, <2>1, Zenon DEF Passes
<1>6. requisition \in [Requisitions -> RequisitionRow] /\ order \in [Orders -> OrderRow]
  BY <1>1 DEF TypeOK
<1>7. requisition' \in [Requisitions -> RequisitionRow] /\ order' \in [Orders -> OrderRow]
  <2> HIDE DEF p, target
  <2>1. [requisition[p] EXCEPT !.status = target] \in RequisitionRow
    BY <1>3, <1>6 DEF RequisitionRow
  <2> QED
    BY <1>1, <1>3, <1>6, <2>1
<1>8. /\ requisition'[p].status = target /\ requisition'[p].quantity = requisition[p].quantity
      /\ requisition'[p].overNeed = requisition[p].overNeed
      /\ \A x \in Requisitions \ {p} : requisition'[x] = requisition[x]
  <2> HIDE DEF p, target
  <2> QED
    BY <1>1, <1>3, <1>6 DEF RequisitionRow
<1>9. /\ requisition[p].status \in CoveringStatuses /\ requisition[p].status # "NONE"
      /\ requisition'[p].status # "NONE"
  BY <1>3, <1>5, <1>8 DEF CanTransitionRequisition, CoveringStatuses
<1>10. ASSUME NEW b \in BomLines, NEW x \in Requisitions
       PROVE  /\ Cover(requisition', b)[x] <= Cover(requisition, b)[x]
              /\ PlainCover(requisition', b)[x] <= PlainCover(requisition, b)[x]
  <2>1. requisition[x].quantity[b] \in Nat
    BY <1>6, CoverRows
  <2>2. /\ requisition'[x].quantity = requisition[x].quantity
        /\ requisition'[x].overNeed = requisition[x].overNeed
        /\ Reserves(requisition'[x]) => Reserves(requisition[x])
    BY <1>8, <1>9 DEF Reserves
  <2> QED
    BY <2>1, <2>2 DEF Cover, PlainCover
<1>11. \A b \in BomLines : Covered(b)' <= Covered(b)
  <2>1. ASSUME NEW b \in BomLines
        PROVE  Covered(b)' <= Covered(b)
    <3>1. SumFunctionOnSet(Cover(requisition', b), Requisitions)
            <= SumFunctionOnSet(Cover(requisition, b), Requisitions)
      BY <1>6, <1>7, <1>10, CoverLowered
    <3>2. Covered(b)' = SumFunctionOnSet(Cover(requisition', b), Requisitions)
      BY <1>7, CoveredIsSum DEF Covered
    <3>3. Covered(b) = SumFunctionOnSet(Cover(requisition, b), Requisitions)
      BY <1>1, SumsRead
    <3> QED
      BY <3>1, <3>2, <3>3
  <2> QED
    BY <2>1
<1>12. TypeOK' /\ LocksExclude' /\ NamedExist' /\ ReadsAreGood'
  <2>1. \A x \in Requisitions : \/ requisition'[x].status = requisition[x].status
                                \/ <<"requisition", x>> \in Held(t)
                                   /\ requisition[x].status # "NONE" /\ requisition'[x].status # "NONE"
    BY <1>4, <1>8, <1>9
  <2>2. \A l \in Lines : \A besides : Ordered(l, besides)' <= Ordered(l, besides)
    <3>1. \A l \in Lines : \A besides : Ordered(l, besides) \in Nat
      BY <1>1, SumsRead
    <3>2. \A l, besides : Ordered(l, besides)' = Ordered(l, besides)
      BY <1>1 DEF Ordered, Live
    <3> QED
      BY <3>1, <3>2
  <2>3. \A o \in Orders : order'[o].status = order[o].status
    BY <1>1
  <2> QED
    BY <1>1, <1>7, <1>11, <2>1, <2>2, <2>3, EndStep
<1>13. PlainWithinNeed'
  <2> SUFFICES ASSUME NEW b \in BomLines
               PROVE  SumFunctionOnSet(PlainCover(requisition', b), Requisitions) <= Required[b]
    BY DEF PlainWithinNeed, PlainCover
  <2> DEFINE was == SumFunctionOnSet(PlainCover(requisition, b), Requisitions)
             is == SumFunctionOnSet(PlainCover(requisition', b), Requisitions)
  <2>1. is <= was /\ is \in Nat /\ was \in Nat
    <3>1. \A x \in Requisitions : PlainCover(requisition', b)[x] <= PlainCover(requisition, b)[x]
      BY <1>10
    <3> QED
      BY <1>6, <1>7, <3>1, PlainCoverLowered
  <2>2. was <= Required[b]
    BY DEF IInv, PlainWithinNeed
  <2>3. Required[b] \in Nat
    BY ProcurementAssumption
  <2>4. is <= Required[b]
    <3> HIDE DEF was, is
    <3> QED
      BY <2>1, <2>2, <2>3
  <2> QED
    BY <2>4
<1>14. PlainWithinApproved'
  <2>1. \A x \in Requisitions : requisition'[x].quantity = requisition[x].quantity
    BY <1>8
  <2> QED
    BY <1>1, <1>7, <2>1, ApprovedKept DEF IInv
<1>15. UnbornNeedNothing'
  BY <1>8, <1>9 DEF IInv, UnbornNeedNothing
<1>16. AcknowledgedWasSent'
  BY <1>1 DEF IInv, AcknowledgedWasSent
<1> QED
  BY <1>12, <1>13, <1>14, <1>15, <1>16 DEF IInv

\* A new order and a revision order what they have checked, beyond it only by
\* override; a revision gives back what its order had ordered before.
LEMMA DrawingStep ==
  ASSUME IInv, NEW t \in Tx, End(t), open' = open, requisition' = requisition,
         job[t].kind \in Drawing, pos[t] = 2, NEW o \in Orders,
         order' \in [Orders -> OrderRow], \A x \in Orders \ {o} : order'[x] = order[x],
         order'[o].status = "DRAFT", order'[o].quantity = job[t].quantity,
         order'[o].overOrder = Exceeding(t),
         order[o].status = "NONE" \/ <<"order", o>> \in Held(t),
         Excluded(job[t]) = {o} \/ (Excluded(job[t]) = {} /\ order[o].status = "NONE")
  PROVE  IInv'
<1> DEFINE q == job[t].quantity  over == Exceeding(t)
<1>1. TypeOK /\ LocksExclude /\ ReadsAreGood /\ TakenOK(t) /\ job[t] \in Requests \cup {Idle}
  BY DEF IInv, TypeOK
<1>2. q \in [Lines -> Quantities] /\ seen[t].taken \in [Named(q) -> Nat]
  <2>1. q \in [Lines -> Quantities]
    BY <1>1, RequestFacts
  <2>2. pos[t] >= 2 OBVIOUS
  <2> QED
    BY <1>1, <2>1, <2>2 DEF TakenOK, Drawing
<1>3. requisition \in [Requisitions -> RequisitionRow] /\ order \in [Orders -> OrderRow]
  BY <1>1 DEF TypeOK
<1>4. \A l \in Lines : q[l] \in Nat /\ (l \notin Named(q) => q[l] = 0)
  <2>1. \A l \in Lines : q[l] \in Nat
    BY <1>2, QuantitiesAreNat
  <2>2. \A l \in Lines : l \notin Named(q) => ~(q[l] > 0)
    BY <1>2 DEF Named
  <2> HIDE DEF q
  <2> QED
    BY <2>1, <2>2
<1>5. \A l \in Named(q) : <<"line", l>> \in Held(t)
  <2>1. pos[t] >= 2 OBVIOUS
  <2> QED
    BY <1>1, <2>1, HeldRows
<1>6. ASSUME NEW l \in Lines, l \notin Named(q), NEW besides
      PROVE  Ordered(l, besides)' <= Ordered(l, besides)
  <2>1. ASSUME NEW x \in Orders
        PROVE  Draw(order', l, besides)[x] <= Draw(order, l, besides)[x]
    <3>1. Draw(order, l, besides)[x] \in Nat
      BY <1>3, DrawRows
    <3>2. CASE x = o
      <4>1. Draw(order', l, besides)[x] = 0
        BY <1>4, <1>6, <3>2 DEF Draw
      <4> QED
        BY <3>1, <4>1
    <3>3. CASE x # o
      <4>1. Draw(order', l, besides)[x] = Draw(order, l, besides)[x]
        BY <3>3 DEF Draw
      <4> QED
        BY <3>1, <4>1
    <3> QED
      BY <3>2, <3>3
  <2>2. SumFunctionOnSet(Draw(order', l, besides), Orders)
          <= SumFunctionOnSet(Draw(order, l, besides), Orders)
    BY <1>3, <2>1, DrawLowered
  <2>3. Ordered(l, besides)' = SumFunctionOnSet(Draw(order', l, besides), Orders)
    BY OrderedIsSum DEF Ordered, Live
  <2>4. Ordered(l, besides) = SumFunctionOnSet(Draw(order, l, besides), Orders)
    BY <1>1, SumsRead
  <2> QED
    BY <2>2, <2>3, <2>4
<1>7. TypeOK' /\ LocksExclude' /\ NamedExist' /\ ReadsAreGood'
  <2>1. \A x \in Orders : \/ order'[x].status = order[x].status
                          \/ order[x].status = "NONE"
                          \/ <<"order", x>> \in Held(t) /\ order'[x].status # "NONE"
    <3>1. "DRAFT" # "NONE" OBVIOUS
    <3> QED
      BY <3>1
  <2>2. \A b \in BomLines : Covered(b)' <= Covered(b)
    <3>1. \A b \in BomLines : Covered(b) \in Nat /\ Covered(b)' = Covered(b)
      BY <1>1, SumsRead DEF Covered
    <3> QED
      BY <3>1
  <2>3. \A l \in Lines : \A besides :
          Ordered(l, besides)' <= Ordered(l, besides) \/ <<"line", l>> \in Held(t)
    BY <1>5, <1>6
  <2>4. requisition' \in [Requisitions -> RequisitionRow]
    BY <1>3
  <2> QED
    BY <2>1, <2>2, <2>3, <2>4, EndStep
<1>8. PlainWithinApproved'
  <2> SUFFICES ASSUME NEW l \in Lines
               PROVE  SumFunctionOnSet(PlainDraw(order', l), Orders)
                        <= requisition[RequisitionOf(l)].quantity[l[2]]
    BY DEF PlainWithinApproved, PlainDraw
  <2> DEFINE was == SumFunctionOnSet(PlainDraw(order, l), Orders)
             others == SumFunctionOnSet(Draw(order, l, {o}), Orders)
             is == SumFunctionOnSet(PlainDraw(order', l), Orders)
             new == PlainDraw(order', l)[o]
             approved == requisition[RequisitionOf(l)].quantity[l[2]]
  <2>1. is <= others + new
    BY <1>3, DrawOneMore
  <2>2. new = IF l \in over THEN 0 ELSE q[l]
    BY DEF PlainDraw, IsLive
  <2>3. is \in Nat /\ was \in Nat
    <3>1. /\ \A x \in Orders : PlainDraw(order', l)[x] <= PlainDraw(order', l)[x]
          /\ \A x \in Orders : PlainDraw(order, l)[x] <= PlainDraw(order, l)[x]
      <4>1. \A x \in Orders : PlainDraw(order', l)[x] \in Nat
        BY DrawRows
      <4>2. \A x \in Orders : PlainDraw(order, l)[x] \in Nat
        BY <1>3, DrawRows
      <4> QED
        BY <4>1, <4>2
    <3> QED
      BY <1>3, <3>1, PlainDrawLowered
  <2>4. others \in Nat /\ others = Ordered(l, Excluded(job[t]))
    <3>1. order[o].status = "NONE" => Draw(order, l, {o}) = Draw(order, l, {})
      BY DrawBesides DEF IsLive
    <3>2. Draw(order, l, {o}) = Draw(order, l, Excluded(job[t]))
      BY <3>1
    <3> QED
      BY <1>1, <3>2, SumsRead
  <2>5. approved \in Nat /\ q[l] \in Nat
    <3>1. RequisitionOf(l) \in Requisitions /\ l[2] \in BomLines
      BY DEF Lines, RequisitionOf
    <3> QED
      BY <1>3, <1>4, <3>1, CoverRows
  <2>6. ASSUME l \in Named(q), l \notin over
        PROVE  is <= approved
    <3>1. others <= seen[t].taken[l] /\ seen[t].taken[l] \in Nat
      <4>1. ReadIsGood(t) /\ pos[t] >= 2
        BY <1>1 DEF ReadsAreGood
      <4>2. Ordered(l, Excluded(job[t])) <= seen[t].taken[l]
        BY <2>6, <4>1 DEF ReadIsGood
      <4> QED
        BY <1>2, <2>4, <2>6, <4>2
    <3>2. seen[t].taken[l] + q[l] <= approved
      <4>1. ~(seen[t].taken[l] + q[l] > Need(job[t], l))
        BY <1>2, <2>6 DEF Exceeding
      <4>2. Need(job[t], l) = approved
        BY DEF Need, Drawing
      <4> QED
        BY <2>5, <3>1, <4>1, <4>2
    <3>3. new = q[l]
      BY <2>2, <2>6
    <3> HIDE DEF others, is, new, q, approved
    <3> QED
      BY <2>1, <2>3, <2>4, <2>5, <3>1, <3>2, <3>3
  <2>7. ASSUME l \notin Named(q) \/ l \in over
        PROVE  is <= approved
    <3>1. new = 0
      BY <1>4, <2>2, <2>7
    <3>2. is <= was
      <4>1. ASSUME NEW x \in Orders
            PROVE  PlainDraw(order', l)[x] <= PlainDraw(order, l)[x]
        <5>1. PlainDraw(order, l)[x] \in Nat
          BY <1>3, DrawRows
        <5>2. x # o => PlainDraw(order', l)[x] = PlainDraw(order, l)[x]
          BY DEF PlainDraw
        <5> QED
          BY <3>1, <5>1, <5>2
      <4> QED
        BY <1>3, <4>1, PlainDrawLowered
    <3>3. was <= approved
      BY DEF IInv, PlainWithinApproved
    <3> HIDE DEF is, was, approved
    <3> QED
      BY <2>3, <2>5, <3>2, <3>3
  <2>8. is <= approved
    BY <2>6, <2>7
  <2> QED
    BY <2>8
<1>9. PlainWithinNeed' /\ UnbornNeedNothing'
  BY DEF IInv, PlainWithinNeed, PlainCover, Reserves, UnbornNeedNothing
<1>10. AcknowledgedWasSent'
  BY DEF IInv, AcknowledgedWasSent
<1> QED
  BY <1>7, <1>8, <1>9, <1>10 DEF IInv

\* What a creation checked is what it orders.
LEMMA CommitOrderStep ==
  ASSUME IInv, NEW t \in Tx, CommitOrder(t)
  PROVE  IInv'
<1> DEFINE q == job[t].quantity  over == Exceeding(t)
<1>1. PICK o \in Orders :
        /\ order[o].status = "NONE"
        /\ order' = [order EXCEPT ![o] =
             [status |-> "DRAFT", revision |-> 1, sent |-> 0, quantity |-> q, overOrder |-> over]]
  BY DEF CommitOrder
<1>2. End(t) /\ open' = open /\ requisition' = requisition /\ TypeOK
  BY DEF CommitOrder, IInv
<1>3. job[t].kind = "order" /\ job[t] \in Requests \cup {Idle} /\ pos[t] = 2 /\ TakenOK(t)
  <2>1. Ready(t, "order")
    BY DEF CommitOrder
  <2>2. LengthOf("order") = 2 /\ "order" # "none"
    BY DEF LengthOf, Drawing
  <2> QED
    BY <1>2, <2>1, <2>2, ReadyFacts
<1>4. job[t].kind \in Drawing /\ Excluded(job[t]) = {}
  BY <1>3 DEF Drawing, Excluded
<1>5. q \in [Lines -> Quantities] /\ over \subseteq Lines
  <2>1. q \in [Lines -> Quantities]
    BY <1>3, <1>4, RequestFacts
  <2>2. pos[t] >= 2
    BY <1>3
  <2>3. seen[t].taken \in [Named(q) -> Nat]
    BY <1>3, <2>2 DEF TakenOK
  <2> QED
    BY <2>1, <2>3 DEF Exceeding, Named
<1>6. order \in [Orders -> OrderRow]
  BY <1>2 DEF TypeOK
<1>7. /\ order' \in [Orders -> OrderRow] /\ \A x \in Orders \ {o} : order'[x] = order[x]
      /\ order'[o].status = "DRAFT" /\ order'[o].quantity = q /\ order'[o].overOrder = over
  <2> HIDE DEF q, over
  <2>1. [status |-> "DRAFT", revision |-> 1, sent |-> 0, quantity |-> q, overOrder |-> over]
          \in OrderRow
    BY <1>5 DEF OrderRow, OrderStatuses
  <2> QED
    BY <1>1, <1>6, <2>1
<1> QED
  BY <1>1, <1>2, <1>3, <1>4, <1>7, DrawingStep

\* So it is for a revision, which leaves its own order out of what is taken.
LEMMA CommitReviseStep ==
  ASSUME IInv, NEW t \in Tx, CommitRevise(t)
  PROVE  IInv'
<1> DEFINE o == job[t].of  q == job[t].quantity  over == Exceeding(t)
           row == [order[o] EXCEPT !.status = "DRAFT", !.revision = @ + 1, !.quantity = q,
                                   !.overOrder = over]
<1>1. /\ order' = [order EXCEPT ![o].status = "DRAFT", ![o].revision = @ + 1,
                                ![o].quantity = q, ![o].overOrder = over]
      /\ End(t) /\ open' = open /\ requisition' = requisition /\ TypeOK
  BY DEF CommitRevise, IInv
<1>2. job[t].kind = "revise" /\ job[t] \in Requests \cup {Idle} /\ pos[t] = 2 /\ TakenOK(t)
  <2>1. Ready(t, "revise")
    BY DEF CommitRevise
  <2>2. LengthOf("revise") = 2 /\ "revise" # "none"
    BY DEF LengthOf, Drawing
  <2> QED
    BY <1>1, <2>1, <2>2, ReadyFacts
<1>3. /\ job[t].kind \in Drawing /\ job[t].kind \in OrderKinds /\ Excluded(job[t]) = {o}
      /\ o \in Orders
  <2>1. job[t].kind \in Drawing /\ job[t].kind \in OrderKinds /\ Excluded(job[t]) = {o}
    BY <1>2 DEF Drawing, OrderKinds, Excluded
  <2> QED
    BY <1>2, <2>1, RequestFacts
<1>4. q \in [Lines -> Quantities] /\ over \subseteq Lines
  <2>1. q \in [Lines -> Quantities]
    BY <1>2, <1>3, RequestFacts
  <2>2. pos[t] >= 2
    BY <1>2
  <2>3. seen[t].taken \in [Named(q) -> Nat]
    BY <1>2, <2>2 DEF TakenOK
  <2> QED
    BY <2>1, <2>3 DEF Exceeding, Named
<1>5. order \in [Orders -> OrderRow] /\ order[o] \in OrderRow
  BY <1>1, <1>3 DEF TypeOK
<1>6. <<"order", o>> \in Held(t)
  <2>1. pos[t] >= 1
    BY <1>2
  <2> QED
    BY <1>1, <1>3, <2>1, HeldRows
<1>7. /\ row \in OrderRow /\ row.status = "DRAFT" /\ row.quantity = q /\ row.overOrder = over
  <2> DEFINE n == order[o].revision + 1
  <2>1. n \in Nat
    BY <1>5 DEF OrderRow
  <2>2. row = [order[o] EXCEPT !.status = "DRAFT", !.revision = n, !.quantity = q, !.overOrder = over]
    OBVIOUS
  <2>3. order[o] \in OrderRow /\ over \in SUBSET Lines /\ q \in [Lines -> Quantities]
    BY <1>4, <1>5
  <2> HIDE DEF q, over, o, n, row
  <2> QED
    BY <2>1, <2>2, <2>3 DEF OrderRow, OrderStatuses
<1>8. order' = [order EXCEPT ![o] = row]
  <2> HIDE DEF q, over, o
  <2> QED
    BY <1>1, <1>3, <1>5
<1>9. /\ order' \in [Orders -> OrderRow] /\ \A x \in Orders \ {o} : order'[x] = order[x]
      /\ order'[o] = row
  <2> HIDE DEF row, o
  <2> QED
    BY <1>3, <1>5, <1>7, <1>8
<1>10. order'[o].status = "DRAFT" /\ order'[o].quantity = q /\ order'[o].overOrder = over
  <2> HIDE DEF row, o, q, over
  <2> QED
    BY <1>7, <1>9
<1> QED
  BY <1>1, <1>2, <1>3, <1>6, <1>9, <1>10, DrawingStep

\* An order that moves on never orders what it did not order before, and is
\* acknowledged at the revision that was sent.
LEMMA CommitMoveOrderStep ==
  ASSUME IInv, NEW t \in Tx, CommitMoveOrder(t)
  PROVE  IInv'
<1> DEFINE o == job[t].of  target == job[t].target
           sent == IF target = "SENT" THEN order[o].revision ELSE order[o].sent
           row == [order[o] EXCEPT !.status = target, !.sent = sent]
<1>1. /\ order' = [order EXCEPT ![o].status = target,
                                ![o].sent = IF target = "SENT" THEN order[o].revision ELSE @]
      /\ End(t) /\ open' = open /\ requisition' = requisition /\ TypeOK /\ ReadsAreGood
  BY DEF CommitMoveOrder, IInv
<1>2. /\ job[t].kind = "move order" /\ job[t] \in Requests \cup {Idle} /\ pos[t] = 1 /\ Passes(t)
      /\ job[t].kind \in OrderKinds
  <2>1. Ready(t, "move order")
    BY DEF CommitMoveOrder
  <2>2. LengthOf("move order") = 1 /\ "move order" # "none" /\ "move order" \in OrderKinds
    BY DEF LengthOf, Drawing, OrderKinds
  <2> QED
    BY <1>1, <2>1, <2>2, ReadyFacts
<1>3. o \in Orders /\ target \in OrderStatuses \ {"DRAFT"}
  BY <1>2, RequestFacts
<1>4. <<"order", o>> \in Held(t) /\ seen[t].status = order[o].status
  <2>0. pos[t] = 1 /\ ReadIsGood(t)
    BY <1>1, <1>2 DEF ReadsAreGood
  <2>1. pos[t] >= 1
    BY <2>0
  <2>2. <<"order", o>> \in Held(t)
    BY <1>1, <1>2, <2>1, HeldRows
  <2>3. seen[t].status = order[o].status
    BY <1>2, <2>0, <2>1 DEF ReadIsGood
  <2> QED
    BY <2>2, <2>3
<1>5. CanTransitionPurchaseOrder(order[o].status, target)
  <2>0. pos[t] = 1
    BY <1>2
  <2>1. pos[t] > 0
    BY <2>0
  <2> QED
    BY <1>2, <1>4, <2>1, Zenon DEF Passes
<1>6. order \in [Orders -> OrderRow] /\ order[o] \in OrderRow
  BY <1>1, <1>3 DEF TypeOK
<1>7. /\ row \in OrderRow /\ row.status = target /\ row.quantity = order[o].quantity
      /\ row.overOrder = order[o].overOrder /\ row.revision = order[o].revision /\ row.sent = sent
  <2>1. sent \in Nat
    BY <1>6 DEF OrderRow
  <2> HIDE DEF o, target, sent
  <2> QED
    BY <1>3, <1>6, <2>1 DEF OrderRow
<1>8. order' = [order EXCEPT ![o] = row]
  <2> HIDE DEF o, target
  <2> QED
    BY <1>1, <1>3, <1>6
<1>9. /\ order' \in [Orders -> OrderRow] /\ \A x \in Orders \ {o} : order'[x] = order[x]
      /\ order'[o] = row
  <2> HIDE DEF row, o
  <2> QED
    BY <1>3, <1>6, <1>7, <1>8
<1>10. /\ order'[o].status = target /\ order'[o].quantity = order[o].quantity
       /\ order'[o].overOrder = order[o].overOrder /\ order'[o].revision = order[o].revision
       /\ order'[o].sent = sent
  <2> HIDE DEF row, o, target, sent
  <2> QED
    BY <1>7, <1>9
<1>11. IsLive(order[o]) /\ target # "NONE"
  BY <1>3, <1>5 DEF CanTransitionPurchaseOrder, IsLive, OrderStatuses
<1>12. ASSUME NEW l \in Lines, NEW x \in Orders
       PROVE  /\ \A besides : Draw(order', l, besides)[x] <= Draw(order, l, besides)[x]
              /\ PlainDraw(order', l)[x] <= PlainDraw(order, l)[x]
  <2>1. order[x].quantity[l] \in Nat
    BY <1>6, DrawRows
  <2>2. /\ order'[x].quantity = order[x].quantity /\ order'[x].overOrder = order[x].overOrder
        /\ IsLive(order'[x]) => IsLive(order[x])
    <3> HIDE DEF row, o, target, sent
    <3> QED
      BY <1>9, <1>10, <1>11
  <2> QED
    BY <2>1, <2>2 DEF Draw, PlainDraw
<1>13. ASSUME NEW l \in Lines, NEW besides
       PROVE  Ordered(l, besides)' <= Ordered(l, besides)
  <2>1. \A x \in Orders : Draw(order', l, besides)[x] <= Draw(order, l, besides)[x]
    BY <1>12
  <2>2. SumFunctionOnSet(Draw(order', l, besides), Orders)
          <= SumFunctionOnSet(Draw(order, l, besides), Orders)
    BY <1>6, <1>9, <2>1, DrawLowered
  <2>3. Ordered(l, besides)' = SumFunctionOnSet(Draw(order', l, besides), Orders)
    BY <1>9, OrderedIsSum DEF Ordered, Live
  <2>4. Ordered(l, besides) = SumFunctionOnSet(Draw(order, l, besides), Orders)
    BY <1>1, SumsRead
  <2> QED
    BY <2>2, <2>3, <2>4
<1>14. TypeOK' /\ LocksExclude' /\ NamedExist' /\ ReadsAreGood'
  <2>1. \A x \in Orders : \/ order'[x].status = order[x].status
                          \/ <<"order", x>> \in Held(t) /\ order'[x].status # "NONE"
    <3> HIDE DEF row, o, target, sent
    <3> QED
      BY <1>4, <1>9, <1>10, <1>11
  <2>2. \A b \in BomLines : Covered(b)' <= Covered(b)
    <3>1. \A b \in BomLines : Covered(b) \in Nat /\ Covered(b)' = Covered(b)
      BY <1>1, SumsRead DEF Covered
    <3> QED
      BY <3>1
  <2>3. requisition' \in [Requisitions -> RequisitionRow]
    BY <1>1 DEF TypeOK
  <2>4. \A x \in Requisitions : requisition'[x].status = requisition[x].status
    BY <1>1
  <2> QED
    BY <1>1, <1>9, <1>13, <2>1, <2>2, <2>3, <2>4, EndStep
<1>15. PlainWithinApproved'
  <2> SUFFICES ASSUME NEW l \in Lines
               PROVE  SumFunctionOnSet(PlainDraw(order', l), Orders)
                        <= requisition[RequisitionOf(l)].quantity[l[2]]
    BY <1>1 DEF PlainWithinApproved, PlainDraw
  <2> DEFINE was == SumFunctionOnSet(PlainDraw(order, l), Orders)
             is == SumFunctionOnSet(PlainDraw(order', l), Orders)
             approved == requisition[RequisitionOf(l)].quantity[l[2]]
  <2>1. is <= was /\ is \in Nat /\ was \in Nat
    <3>1. \A x \in Orders : PlainDraw(order', l)[x] <= PlainDraw(order, l)[x]
      BY <1>12
    <3> QED
      BY <1>6, <1>9, <3>1, PlainDrawLowered
  <2>2. was <= approved
    BY DEF IInv, PlainWithinApproved
  <2>3. approved \in Nat
    <3>1. RequisitionOf(l) \in Requisitions /\ l[2] \in BomLines
      BY DEF Lines, RequisitionOf
    <3> QED
      BY <1>1, <3>1, CoverRows DEF TypeOK
  <2>4. is <= approved
    <3> HIDE DEF was, is, approved
    <3> QED
      BY <2>1, <2>2, <2>3
  <2> QED
    BY <2>4
<1>16. PlainWithinNeed' /\ UnbornNeedNothing'
  BY <1>1 DEF IInv, PlainWithinNeed, PlainCover, Reserves, UnbornNeedNothing
<1>17. AcknowledgedWasSent'
  <2>1. target \in {"SENT", "ACKNOWLEDGED"} => sent = order[o].revision
    <3>1. target = "ACKNOWLEDGED" => order[o].status = "SENT"
      BY <1>5 DEF CanTransitionPurchaseOrder
    <3>2. order[o].status = "SENT" => order[o].sent = order[o].revision
      BY <1>3 DEF IInv, AcknowledgedWasSent
    <3> QED
      BY <3>1, <3>2
  <2>2. ASSUME NEW x \in Orders, order'[x].status \in {"SENT", "ACKNOWLEDGED"}
        PROVE  order'[x].sent = order'[x].revision
    <3>1. CASE x = o
      <4> HIDE DEF row, o, target, sent
      <4> QED
        BY <1>10, <2>1, <2>2, <3>1
    <3>2. CASE x # o
      BY <1>9, <2>2, <3>2 DEF IInv, AcknowledgedWasSent
    <3> QED
      BY <3>1, <3>2
  <2> QED
    BY <2>2 DEF AcknowledgedWasSent
<1> QED
  BY <1>14, <1>15, <1>16, <1>17 DEF IInv

-----------------------------------------------------------------------------
(***************************************************************************)
(* The other steps, and the theorems.                                      *)
(***************************************************************************)
\* A request that begins has locked and read nothing.
LEMMA BeginStep ==
  ASSUME IInv, NEW t \in Tx, NEW request \in Requests, Begin(t, request)
  PROVE  IInv'
<1> USE DEF IInv
<1>1. /\ job' = [job EXCEPT ![t] = request] /\ job[t].kind = "none" /\ Names(request)
      /\ UNCHANGED <<open, requisition, order, pos, seen>>
  BY DEF Begin, Running, rows
<1>2. pos[t] = 0 /\ DOMAIN seen[t].taken = {} /\ DOMAIN seen[t] = SeenFields
  <2>1. Len(Plan(job[t])) = 0
    BY <1>1, PlanLengths DEF LengthOf, Drawing
  <2>2. pos[t] \in Nat /\ pos[t] <= Len(Plan(job[t])) /\ TakenOK(t) /\ DOMAIN seen[t] = SeenFields
    BY DEF TypeOK
  <2>3. DOMAIN seen[t].taken = {}
    BY <1>1, <2>2 DEF TakenOK
  <2> QED
    BY <2>1, <2>2, <2>3
<1>3. /\ job'[t] = request /\ \A u \in Tx \ {t} : job'[u] = job[u]
      /\ job' \in [Tx -> Requests \cup {Idle}]
  BY <1>1 DEF TypeOK
<1>4. Headers' = Headers /\ \A r : Plan(r)' = Plan(r)
  BY <1>1 DEF Headers, Plan, RequisitionPlan, MoveRequisitionPlan, OrderPlan, RevisePlan,
     MoveOrderPlan
<1>5. TypeOK'
  <2>1. ASSUME NEW u \in Tx, u # t
        PROVE  (pos[u] <= Len(Plan(job[u])))' /\ DOMAIN seen'[u] = SeenFields /\ TakenOK(u)'
    <3>1. pos[u] <= Len(Plan(job[u])) /\ DOMAIN seen[u] = SeenFields /\ TakenOK(u)
      BY DEF TypeOK
    <3>2. pos'[u] = pos[u] /\ seen'[u] = seen[u] /\ job'[u] = job[u] /\ Plan(job[u])' = Plan(job[u])
      BY <1>1, <1>3, <1>4, <2>1
    <3>3. TakenOK(u)'
      BY <3>1, <3>2 DEF TakenOK
    <3> QED
      BY <3>1, <3>2, <3>3
  <2>2. (pos[t] <= Len(Plan(job[t])))'
    <3>1. Len(Plan(job[t]))' = LengthOf(request.kind) /\ LengthOf(request.kind) \in Nat
      BY <1>3, PlanLengths DEF LengthOf
    <3>2. pos'[t] = 0
      BY <1>1, <1>2
    <3> QED
      BY <3>1, <3>2
  <2>3. DOMAIN seen'[t] = SeenFields /\ TakenOK(t)'
    <3>1. pos'[t] = 0 /\ seen'[t] = seen[t]
      BY <1>1, <1>2
    <3> QED
      BY <1>2, <3>1 DEF TakenOK
  <2> QED
    BY <1>1, <1>3, <2>1, <2>2, <2>3 DEF TypeOK
<1>6. LocksExclude'
  <2>1. \A u \in Tx \ {t} : Held(u)' = Held(u)
    BY <1>1, <1>3, <1>4, HeldKept
  <2>2. Held(t)' = {}
    <3>1. pos'[t] = 0
      BY <1>1, <1>2
    <3> QED
      BY <3>1 DEF Held
  <2> QED
    BY <2>1, <2>2 DEF LocksExclude
<1>7. NamedExist'
  <2>1. /\ request.kind = "move requisition" => requisition[request.of].status # "NONE"
        /\ request.kind \in OrderKinds => order[request.of].status # "NONE"
    BY <1>1 DEF Names, OrderKinds
  <2>2. ASSUME NEW u \in Tx
        PROVE  /\ job'[u].kind = "move requisition" => requisition'[job'[u].of].status # "NONE"
               /\ job'[u].kind \in OrderKinds => order'[job'[u].of].status # "NONE"
    BY <1>1, <1>3, <2>1 DEF NamedExist
  <2> HIDE DEF IInv
  <2> QED
    BY <2>2 DEF NamedExist
<1>8. ReadsAreGood'
  <2>1. ASSUME NEW u \in Tx, u # t
        PROVE  ReadIsGood(u)'
    <3>1. ReadIsGood(u) /\ job'[u] = job[u] /\ pos'[u] = pos[u] /\ seen'[u] = seen[u]
      BY <1>1, <1>3, <2>1 DEF ReadsAreGood
    <3>2. /\ \A b : Covered(b)' = Covered(b)
          /\ \A l, e : Ordered(l, e)' = Ordered(l, e)
      BY <1>1 DEF Covered, Ordered, Live
    <3> QED
      BY <1>1, <3>1, <3>2 DEF ReadIsGood, Excluded
  <2>2. ReadIsGood(t)'
    <3>1. pos'[t] = 0
      BY <1>1, <1>2
    <3>2. ~(pos'[t] >= 1) /\ ~(pos'[t] >= 2)
      BY <3>1
    <3> QED
      BY <3>2 DEF ReadIsGood
  <2> QED
    BY <2>1, <2>2 DEF ReadsAreGood
<1>9. /\ PlainWithinNeed' /\ PlainWithinApproved' /\ UnbornNeedNothing' /\ AcknowledgedWasSent'
  BY <1>1 DEF PlainWithinNeed, PlainWithinApproved, UnbornNeedNothing, AcknowledgedWasSent
<1> QED
  BY <1>5, <1>6, <1>7, <1>8, <1>9

\* A refusal only gives locks back.
LEMMA RefuseStep ==
  ASSUME IInv, NEW t \in Tx, Refuse(t)
  PROVE  IInv'
<1> USE DEF IInv
<1>1. End(t) /\ UNCHANGED <<open, requisition, order>>
  BY DEF Refuse, rows
<1>2. /\ requisition' \in [Requisitions -> RequisitionRow] /\ order' \in [Orders -> OrderRow]
      /\ \A p \in Requisitions : requisition'[p].status = requisition[p].status
      /\ \A o \in Orders : order'[o].status = order[o].status
  BY <1>1 DEF TypeOK
<1>3. \A b \in BomLines : Covered(b)' <= Covered(b)
  <2>1. \A b \in BomLines : Covered(b) \in Nat /\ Covered(b)' = Covered(b)
    BY <1>1, SumsRead DEF Covered
  <2> QED
    BY <2>1
<1>4. \A l \in Lines : \A besides : Ordered(l, besides)' <= Ordered(l, besides)
  <2>1. \A l \in Lines : \A besides : Ordered(l, besides) \in Nat
    BY SumsRead
  <2>2. \A l, besides : Ordered(l, besides)' = Ordered(l, besides)
    BY <1>1 DEF Ordered, Live
  <2> QED
    BY <2>1, <2>2
<1>5. TypeOK' /\ LocksExclude' /\ NamedExist' /\ ReadsAreGood'
  BY <1>1, <1>2, <1>3, <1>4, EndStep
<1>6. /\ PlainWithinNeed' /\ PlainWithinApproved' /\ UnbornNeedNothing' /\ AcknowledgedWasSent'
  BY <1>1 DEF PlainWithinNeed, PlainWithinApproved, UnbornNeedNothing, AcknowledgedWasSent
<1> QED
  BY <1>5, <1>6

\* The project is closed only while no creation has read that it is open.
LEMMA CloseStep ==
  ASSUME IInv, CloseProject
  PROVE  IInv'
<1> USE DEF IInv
<1>1. /\ UNCHANGED <<requisition, order, job, pos, seen>>
      /\ \A t \in Tx : Held(t) \cap Project = {}
  BY DEF CloseProject
<1>2. \A t \in Tx : job[t].kind \in Creations => ~(pos[t] >= 1)
  BY <1>1, HeldRows DEF Project
<1>3. ASSUME NEW t \in Tx
      PROVE  ReadIsGood(t)'
  <2>1. ReadIsGood(t)
    BY DEF ReadsAreGood
  <2>2. (\A b : Covered(b)' = Covered(b)) /\ \A l, e : Ordered(l, e)' = Ordered(l, e)
    BY <1>1 DEF Covered, Ordered, Live
  <2> QED
    BY <1>1, <1>2, <2>1, <2>2 DEF ReadIsGood, Excluded
<1>4. TypeOK'
  <2>1. \A r : Plan(r)' = Plan(r)
    BY <1>1 DEF Headers, Plan, RequisitionPlan, MoveRequisitionPlan, OrderPlan, RevisePlan,
       MoveOrderPlan
  <2> QED
    BY <1>1, <2>1 DEF TypeOK, TakenOK
<1>5. LocksExclude'
  <2>1. Headers' = Headers
    BY <1>1 DEF Headers
  <2>2. \A t \in Tx : Held(t)' = Held(t)
    BY <1>1, <2>1, HeldKept
  <2> QED
    BY <2>2 DEF LocksExclude
<1>6. /\ NamedExist' /\ PlainWithinNeed' /\ PlainWithinApproved' /\ UnbornNeedNothing'
      /\ AcknowledgedWasSent'
  BY <1>1 DEF NamedExist, PlainWithinNeed, PlainWithinApproved, UnbornNeedNothing,
     AcknowledgedWasSent
<1> QED
  BY <1>3, <1>4, <1>5, <1>6 DEF ReadsAreGood

\* Nothing is required or ordered yet.
LEMMA InitHolds == Init => IInv
<1> SUFFICES ASSUME Init PROVE IInv
  OBVIOUS
<1>1. /\ requisition = [p \in Requisitions |-> NewRequisition]
      /\ order = [o \in Orders |-> NewOrder]
      /\ job = [t \in Tx |-> Idle] /\ pos = [t \in Tx |-> 0] /\ seen = [t \in Tx |-> NothingSeen]
  BY DEF Init
<1>2. 0 \in Quantities
  BY ProcurementAssumption DEF Quantities
<1>3. TypeOK
  <2>1. NewRequisition \in RequisitionRow
    BY <1>2 DEF NewRequisition, RequisitionRow, NoNeed, RequisitionStatuses
  <2>2. NewOrder \in OrderRow
    BY <1>2 DEF NewOrder, OrderRow, NoAllocation
  <2>3. ASSUME NEW t \in Tx
        PROVE  pos[t] <= Len(Plan(job[t])) /\ DOMAIN seen[t] = SeenFields /\ TakenOK(t)
    <3>1. job[t] = Idle /\ pos[t] = 0 /\ seen[t] = NothingSeen
      BY <1>1
    <3>2. Len(Plan(job[t])) = 0
      <4>1. job[t].kind = "none"
        BY <3>1 DEF Idle
      <4>2. LengthOf("none") = 0
        BY DEF LengthOf, Drawing
      <4> QED
        BY <4>1, <4>2, PlanLengths
    <3>3. DOMAIN NothingSeen = SeenFields /\ DOMAIN NothingSeen.taken = {}
      BY DEF NothingSeen, SeenFields
    <3>4. job[t].kind = "none"
      BY <3>1 DEF Idle
    <3> QED
      BY <3>1, <3>2, <3>3, <3>4 DEF TakenOK
  <2>4. job \in [Tx -> Requests \cup {Idle}] /\ pos \in [Tx -> Nat] /\ DOMAIN seen = Tx
    BY <1>1
  <2> QED
    BY <1>1, <2>1, <2>2, <2>3, <2>4 DEF TypeOK
<1>4. \A t \in Tx : Held(t) = {}
  BY <1>1 DEF Held
<1>5. \A t \in Tx : job[t].kind = "none"
  BY <1>1 DEF Idle
<1>6. LocksExclude /\ NamedExist /\ ReadsAreGood
  BY <1>4, <1>5 DEF LocksExclude, NamedExist, ReadsAreGood, ReadIsGood, Creations, OrderKinds, Drawing
<1>7. PlainWithinNeed
  <2>1. ASSUME NEW b \in BomLines
        PROVE  SumFunctionOnSet(PlainCover(requisition, b), Requisitions) <= Required[b]
    <3> DEFINE f == PlainCover(requisition, b)
    <3>1. \A p \in Requisitions : f[p] = 0
      BY <1>1 DEF PlainCover, NewRequisition, Reserves, CoveringStatuses
    <3>2. IsFiniteSet(Requisitions) /\ Required[b] \in Nat
      BY ProcurementAssumption
    <3> HIDE DEF f
    <3>3. SumFunctionOnSet(f, Requisitions) = SumFunctionOnSet(f, {})
      BY <3>1, <3>2, SumIgnoring
    <3>4. SumFunctionOnSet(f, {}) = 0
      BY SumOfNone
    <3> QED
      BY <3>2, <3>3, <3>4 DEF f
  <2> QED
    BY <2>1 DEF PlainWithinNeed
<1>8. PlainWithinApproved
  <2>1. ASSUME NEW l \in Lines
        PROVE  SumFunctionOnSet(PlainDraw(order, l), Orders) <= requisition[RequisitionOf(l)].quantity[l[2]]
    <3> DEFINE f == PlainDraw(order, l)
    <3>1. \A o \in Orders : f[o] = 0
      BY <1>1 DEF PlainDraw, NewOrder, IsLive
    <3>2. IsFiniteSet(Orders)
      BY ProcurementAssumption
    <3>3. requisition[RequisitionOf(l)].quantity[l[2]] = 0
      <4>1. RequisitionOf(l) \in Requisitions /\ l[2] \in BomLines
        BY DEF Lines, RequisitionOf
      <4> QED
        BY <1>1, <4>1 DEF NewRequisition, NoNeed
    <3> HIDE DEF f
    <3>4. SumFunctionOnSet(f, Orders) = SumFunctionOnSet(f, {})
      BY <3>1, <3>2, SumIgnoring
    <3>5. SumFunctionOnSet(f, {}) = 0
      BY SumOfNone
    <3> QED
      BY <3>3, <3>4, <3>5 DEF f
  <2> QED
    BY <2>1 DEF PlainWithinApproved
<1>9. UnbornNeedNothing /\ AcknowledgedWasSent
  BY <1>1 DEF UnbornNeedNothing, AcknowledgedWasSent, NewRequisition, NewOrder
<1> QED
  BY <1>3, <1>6, <1>7, <1>8, <1>9 DEF IInv

\* A step that changes nothing.
LEMMA StutterStep ==
  ASSUME IInv, UNCHANGED vars
  PROVE  IInv'
<1>1. UNCHANGED <<open, requisition, order, job, pos, seen>>
  BY DEF vars
<1>2. /\ \A r : Plan(r)' = Plan(r)
      /\ (\A b : Covered(b)' = Covered(b)) /\ \A l, e : Ordered(l, e)' = Ordered(l, e)
  BY <1>1 DEF Headers, Plan, RequisitionPlan, MoveRequisitionPlan, OrderPlan, RevisePlan,
     MoveOrderPlan, Covered, Ordered, Live
<1>3. TypeOK'
  BY <1>1, <1>2 DEF IInv, TypeOK, TakenOK
<1>4. \A t \in Tx : Held(t)' = Held(t)
  BY <1>1, <1>2 DEF Held
<1>5. LocksExclude'
  BY <1>4 DEF IInv, LocksExclude
<1>6. ReadsAreGood'
  BY <1>1, <1>2 DEF IInv, ReadsAreGood, ReadIsGood, Excluded
<1>7. /\ NamedExist' /\ PlainWithinNeed' /\ PlainWithinApproved' /\ UnbornNeedNothing'
      /\ AcknowledgedWasSent'
  BY <1>1 DEF IInv, NamedExist, PlainWithinNeed, PlainWithinApproved, UnbornNeedNothing,
     AcknowledgedWasSent
<1> QED
  BY <1>3, <1>5, <1>6, <1>7 DEF IInv

\* The invariant is inductive.
THEOREM Invariance == Spec => []IInv
<1>1. IInv /\ [Next]_vars => IInv'
  <2> SUFFICES ASSUME IInv, [Next]_vars PROVE IInv'
    OBVIOUS
  <2>1. CASE \E t \in Tx, request \in Requests : Begin(t, request)
    BY <2>1, BeginStep
  <2>2. ASSUME NEW t \in Tx, Acquire(t) \/ Refuse(t) \/ Commit(t)
        PROVE  IInv'
    BY <2>2, AcquireStep, RefuseStep, CommitRequisitionStep, CommitMoveRequisitionStep,
       CommitOrderStep, CommitReviseStep, CommitMoveOrderStep DEF Commit
  <2>3. CASE CloseProject
    BY <2>3, CloseStep
  <2>4. CASE UNCHANGED vars
    BY <2>4, StutterStep
  <2> QED
    BY <2>1, <2>2, <2>3, <2>4 DEF Next
<1> QED
  BY <1>1, InitHolds, PTL DEF Spec

\* Every row keeps its form, every transaction the place in its plan and
\* what it has read.
THEOREM TypeCorrect == Spec => []TypeOK
<1>1. IInv => TypeOK
  BY DEF IInv
<1> QED
  BY <1>1, Invariance, PTL

\* Two transactions never hold the lock of one row.
THEOREM LocksAreExclusive == Spec => []LocksExclude
<1>1. IInv => LocksExclude
  BY DEF IInv
<1> QED
  BY <1>1, Invariance, PTL

\* What a handler has read stays good until it commits: the status of a row
\* it has locked is current, and a sum it has read is an upper bound.
THEOREM ReadsStayGood == Spec => []ReadsAreGood
<1>1. IInv => ReadsAreGood
  BY DEF IInv
<1> QED
  BY <1>1, Invariance, PTL

\* Requisitions that reserve a need never cover more of it than there is,
\* unless one of them does so with an authorized override.
THEOREM CoveredWithin == Spec => []CoveredWithinRequired
<1>1. IInv => CoveredWithinRequired
  <2> SUFFICES ASSUME IInv, NEW b \in BomLines,
                      \A p \in Requisitions :
                        ~(requisition[p].status \in CoveringStatuses /\ b \in requisition[p].overNeed)
               PROVE  Covered(b) <= Required[b]
    BY DEF CoveredWithinRequired
  <2>1. PlainCover(requisition, b) = Cover(requisition, b)
    BY DEF PlainCover, Cover, Reserves
  <2>2. Covered(b) = SumFunctionOnSet(Cover(requisition, b), Requisitions)
    BY SumsRead DEF IInv
  <2> QED
    BY <2>1, <2>2 DEF IInv, PlainWithinNeed
<1> QED
  BY <1>1, Invariance, PTL

\* Live orders never order more of a requisition line than it approved,
\* unless one of them does so with an authorized override.
THEOREM OrderedWithin == Spec => []OrderedWithinApproved
<1>1. IInv => OrderedWithinApproved
  <2> SUFFICES ASSUME IInv, NEW l \in Lines,
                      \A o \in Orders : ~(Live(o) /\ l \in order[o].overOrder)
               PROVE  Ordered(l, {}) <= requisition[RequisitionOf(l)].quantity[l[2]]
    BY DEF OrderedWithinApproved
  <2>1. PlainDraw(order, l) = Draw(order, l, {})
    BY DEF PlainDraw, Draw, IsLive, Live
  <2>2. Ordered(l, {}) = SumFunctionOnSet(Draw(order, l, {}), Orders)
    BY SumsRead DEF IInv
  <2> QED
    BY <2>1, <2>2 DEF IInv, PlainWithinApproved
<1> QED
  BY <1>1, Invariance, PTL

\* A supplier acknowledges the revision it was sent.
THEOREM AcknowledgedSent == Spec => []AcknowledgedWasSent
<1>1. IInv => AcknowledgedWasSent
  BY DEF IInv
<1> QED
  BY <1>1, Invariance, PTL

\* Nothing is created in a project that is completed or cancelled: whoever
\* creates has read under the project's lock that it is open, and closing it
\* waits for that lock.
THEOREM NothingAfterClosing == Spec => NothingCreatedAfterClosing
<1> DEFINE Kept == ~open =>
      /\ \A p \in Requisitions : requisition[p].status = "NONE" => requisition'[p].status = "NONE"
      /\ \A o \in Orders : order[o].status = "NONE" => order'[o].status = "NONE"
<1>1. ASSUME IInv, NEW t \in Tx, NEW kind \in Creations, Ready(t, kind)
      PROVE  open
  <2>1. kind # "none" /\ LengthOf(kind) >= 1
    <3>1. LengthOf("requisition") = 3 /\ LengthOf("order") = 2
      BY DEF LengthOf, Drawing
    <3>2. kind = "requisition" \/ kind = "order"
      BY DEF Creations
    <3> QED
      BY <3>1, <3>2
  <2>2. TypeOK /\ ReadIsGood(t)
    BY <1>1 DEF IInv, ReadsAreGood
  <2>3. job[t].kind = kind /\ pos[t] = LengthOf(kind) /\ Passes(t)
    BY <1>1, <2>1, <2>2, ReadyFacts
  <2>4. seen[t].open = open
    BY <2>1, <2>2, <2>3 DEF ReadIsGood
  <2>5. seen[t].open
    BY <2>3, Zenon DEF Passes
  <2> QED
    BY <2>4, <2>5
<1>2. ASSUME IInv, [Next]_vars
      PROVE  Kept
  <2>1. ASSUME NEW t \in Tx, CommitRequisition(t) \/ CommitOrder(t)
        PROVE  Kept
    <3>1. \E kind \in Creations : Ready(t, kind)
      BY <2>1 DEF CommitRequisition, CommitOrder, Creations
    <3> QED
      BY <1>1, <1>2, <3>1
  <2>2. ASSUME NEW t \in Tx, CommitMoveRequisition(t)
        PROVE  Kept
    <3> DEFINE p == job[t].of
    <3>1. order' = order /\ requisition' = [requisition EXCEPT ![p].status = job[t].target]
      BY <2>2 DEF CommitMoveRequisition
    <3>2. job[t].kind = "move requisition"
      BY <2>2 DEF CommitMoveRequisition, Ready
    <3>3. requisition[p].status # "NONE"
      BY <1>2, <3>2 DEF IInv, NamedExist
    <3>4. \A x \in Requisitions : x # p => requisition'[x] = requisition[x]
      <4>1. requisition \in [Requisitions -> RequisitionRow]
        BY <1>2 DEF IInv, TypeOK
      <4> QED
        BY <3>1, <4>1
    <3> QED
      BY <3>1, <3>3, <3>4
  <2>3. ASSUME NEW t \in Tx, CommitRevise(t) \/ CommitMoveOrder(t)
        PROVE  Kept
    <3> DEFINE o == job[t].of
    <3>1. order \in [Orders -> OrderRow]
      BY <1>2 DEF IInv, TypeOK
    <3>2. job[t].kind \in OrderKinds
      BY <2>3 DEF CommitRevise, CommitMoveOrder, Ready, OrderKinds
    <3>3. order[o].status # "NONE"
      BY <1>2, <3>2 DEF IInv, NamedExist
    <3>4. requisition' = requisition
      BY <2>3 DEF CommitRevise, CommitMoveOrder
    <3>5. \A x \in Orders : x # o => order'[x] = order[x]
      <4>1. CASE CommitRevise(t)
        <5>1. order' = [order EXCEPT ![o].status = "DRAFT", ![o].revision = @ + 1,
                                     ![o].quantity = job[t].quantity, ![o].overOrder = Exceeding(t)]
          BY <4>1 DEF CommitRevise
        <5> HIDE DEF o
        <5> QED
          BY <3>1, <5>1
      <4>2. CASE CommitMoveOrder(t)
        <5>1. order' = [order EXCEPT ![o].status = job[t].target,
                                     ![o].sent = IF job[t].target = "SENT" THEN order[o].revision ELSE @]
          BY <4>2 DEF CommitMoveOrder
        <5> HIDE DEF o
        <5> QED
          BY <3>1, <5>1
      <4> QED
        BY <2>3, <4>1, <4>2
    <3> QED
      BY <3>3, <3>4, <3>5
  <2>4. CASE UNCHANGED <<requisition, order>>
    BY <2>4
  <2> QED
    BY <1>2, <2>1, <2>2, <2>3, <2>4 DEF Next, Begin, Acquire, Refuse, Commit, CloseProject, vars, rows
<1>3. IInv /\ [Next]_vars => [Kept]_vars
  BY <1>2
<1> QED
  BY <1>3, Invariance, PTL DEF Spec, NothingCreatedAfterClosing

=============================================================================
