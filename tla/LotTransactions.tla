-------------------------- MODULE LotTransactions ---------------------------
(***************************************************************************)
(* The commands on one inventory lot as concurrent PostgreSQL transactions *)
(* at READ COMMITTED: each takes the row locks of its handler one by one   *)
(* (SELECT ... FOR UPDATE, or the FOR KEY SHARE lock a foreign key takes   *)
(* on the project when a row is inserted), reads a row once it holds its   *)
(* lock, decides on what it read, and writes when it commits.  Locks are   *)
(* held, and writes invisible to the others, until then.                   *)
(*                                                                         *)
(* The lot is the one of a single-line original receipt; other receipts of *)
(* the same notice line only compete for its shipped quantity.  The lot's  *)
(* inspection has one required check.                                      *)
(***************************************************************************)
EXTENDS MaterialRules, FiniteSets, Sequences, Functions

CONSTANTS
  Tx,           \* connections; each runs one transaction after the other
  Kinds,        \* the kinds of commands they are asked for
  Allocations,  \* identities of allocation rows
  Shipped,      \* shipped quantity of the notice line
  Draft         \* quantity of the original draft receipt

LotKinds == {"correct", "inspect", "allocate"}
InspectionKinds == {"save", "finalize"}
CommandKinds == {"post", "rival", "settle"} \cup LotKinds \cup InspectionKinds

ASSUME TransactionAssumption ==
  /\ Kinds \subseteq CommandKinds
  /\ IsFiniteSet(Allocations)
  /\ Shipped \in Nat
  /\ Draft \in 1..Shipped

VARIABLES
  \* committed rows
  receipt,     \* status of the original receipt
  received,    \* sum of the quantities posted on the notice line
  others,      \* the part of it that other receipts posted
  lot, inspection, allocation,
  \* transactions
  kind, input, \* what a connection is running; "none" when it is idle
  pos,         \* how many locks of its plan it holds
  seen         \* what it read under them

rows == <<receipt, received, others, lot, inspection, allocation>>
vars == <<receipt, received, others, lot, inspection, allocation, kind, input, pos, seen>>

(***************************************************************************)
(* The locks each handler takes, in its order.  The lock of a receipt that *)
(* only one request can name is left out.                                  *)
(***************************************************************************)
Lock(row, mode) == [row |-> row, mode |-> mode]

\* Mutant: the notice lines are locked after the project.
PostPlanProjectFirst ==
  << Lock("receipt", "update"), Lock("project", "update"), Lock("line", "update") >>

PostPlan == << Lock("receipt", "update"), Lock("line", "update"), Lock("project", "update") >>

RivalPlan == << Lock("line", "update"), Lock("project", "update") >>

\* Mutant: the notice lines are locked FOR SHARE.
CorrectPlanSharingLine ==
  << Lock("line", "share"), Lock("project", "update"), Lock("lot", "update") >>

CorrectPlan == << Lock("line", "update"), Lock("project", "update"), Lock("lot", "update") >>

InspectPlan == << Lock("lot", "update"), Lock("project", "share") >>

SavePlan == << Lock("inspection", "update") >>

FinalizePlan == << Lock("inspection", "update"), Lock("lot", "update") >>

\* Mutant: the lot is locked FOR SHARE.
AllocatePlanSharingLot == << Lock("lot", "share"), Lock("project", "share") >>

AllocatePlan == << Lock("lot", "update"), Lock("project", "share") >>

SettlePlan == << Lock("lot", "update"), Lock("allocation", "update") >>

Plan == [
  post |-> PostPlan, rival |-> RivalPlan, correct |-> CorrectPlan, inspect |-> InspectPlan,
  save |-> SavePlan, finalize |-> FinalizePlan, allocate |-> AllocatePlan, settle |-> SettlePlan ]

LotEffective(l) == l.quantity + l.adjusted

CommittedOf(allocations) ==
  SumFunctionOnSet([x \in Allocations |-> allocations[x].quantity],
                   {x \in Allocations : allocations[x].status \in CommittingStatuses})

NoInput ==
  [quantity |-> 0, disposition |-> "NONE", accepted |-> 0, rejected |-> 0,
   result |-> "PENDING", target |-> "NONE", of |-> {}]

\* The requests clients send; "of" holds the allocation a settlement names.
\* A decision no received quantity makes valid is always refused.
Requests == [
  post     |-> {NoInput},
  rival    |-> {[NoInput EXCEPT !.quantity = q] : q \in 1..Shipped},
  correct  |-> {[NoInput EXCEPT !.quantity = d] : d \in (-Shipped..Shipped) \ {0}},
  inspect  |-> {NoInput},
  save     |-> {[NoInput EXCEPT !.result = r] : r \in {"CONFORMING", "NONCONFORMING"}},
  finalize |-> {in \in [quantity : {0}, disposition : Dispositions, accepted : 0..Shipped,
                        rejected : 0..Shipped, result : {"PENDING"}, target : {"NONE"}, of : {{}}] :
                  \E q \in 1..Shipped : ValidDecision(q, in.disposition, in.accepted, in.rejected)},
  allocate |-> {[NoInput EXCEPT !.quantity = q] : q \in 1..Shipped},
  settle   |-> [quantity : {0}, disposition : {"NONE"}, accepted : {0}, rejected : {0},
                result : {"PENDING"}, target : {"RELEASED", "CONSUMED"},
                of : {{x} : x \in Allocations}] ]

NothingSeen ==
  [received |-> 0, receipt |-> "DRAFT", committed |-> 0, allocation |-> "NONE",
   lot |-> [status |-> "NONE", quantity |-> 0, adjusted |-> 0,
            accepted |-> 0, rejected |-> 0, quarantined |-> 0],
   inspection |-> [status |-> "NONE", result |-> "PENDING"]]

Init ==
  /\ receipt = NothingSeen.receipt
  /\ received = 0
  /\ others = 0
  /\ lot = NothingSeen.lot
  /\ inspection = NothingSeen.inspection
  /\ allocation = [x \in Allocations |-> [status |-> "NONE", quantity |-> 0]]
  /\ kind = [t \in Tx |-> "none"]
  /\ input = [t \in Tx |-> NoInput]
  /\ pos = [t \in Tx |-> 0]
  /\ seen = [t \in Tx |-> NothingSeen]

-----------------------------------------------------------------------------
(***************************************************************************)
(* Locking.                                                                *)
(***************************************************************************)
Running(t) == kind[t] # "none"

LocksOf(t) == {Plan[kind[t]][n] : n \in 1..pos[t]}

Holds(t, row) == \E held \in LocksOf(t) : held.row = row

Conflict(held, wanted) ==
  held.row = wanted.row /\ ("update" \in {held.mode, wanted.mode})

Waits(t) == Running(t) /\ pos[t] < Len(Plan[kind[t]])

NextLock(t) == Plan[kind[t]][pos[t] + 1]

Blocks(u, t) == u # t /\ Waits(t) /\ \E held \in LocksOf(u) : Conflict(held, NextLock(t))

(***************************************************************************)
(* The checks a handler has made on the rows it has locked so far.         *)
(***************************************************************************)
\* Mutant: a dispositioned lot may be corrected.
CorrectableAlways(l, delta) == LotEffective(l) + delta >= 0

Correctable(l, delta) ==
  l.status = "AWAITING_INSPECTION" /\ LotEffective(l) + delta >= 0

Passes(t) ==
  LET s == seen[t]
      in == input[t]
  IN CASE kind[t] = "post" ->
            /\ Holds(t, "receipt") => s.receipt = "DRAFT"
            /\ Holds(t, "line") => s.received + Draft \in 0..Shipped
       [] kind[t] = "rival" ->
            Holds(t, "line") => s.received + in.quantity \in 0..Shipped
       [] kind[t] = "correct" ->
            /\ Holds(t, "line") => s.received + in.quantity \in 0..Shipped
            /\ Holds(t, "lot") => Correctable(s.lot, in.quantity)
       [] kind[t] = "inspect" ->
            Holds(t, "lot") => /\ s.lot.status = "AWAITING_INSPECTION"
                               /\ s.inspection.status = "NONE"
                               /\ LotEffective(s.lot) > 0
       [] kind[t] = "save" ->
            Holds(t, "inspection") => s.inspection.status = "OPEN"
       [] kind[t] = "finalize" ->
            /\ Holds(t, "inspection") => s.inspection.status = "OPEN"
            /\ Holds(t, "lot") =>
                 /\ s.lot.status = "AWAITING_INSPECTION"
                 /\ s.inspection.result # "PENDING"
                 /\ in.disposition = "ACCEPTED" => s.inspection.result = "CONFORMING"
                 /\ ValidDecision(LotEffective(s.lot), in.disposition, in.accepted, in.rejected)
       [] kind[t] = "allocate" ->
            Holds(t, "lot") => /\ s.lot.status \in AllocatableStatuses
                               /\ s.committed + in.quantity <= s.lot.accepted
       [] kind[t] = "settle" ->
            Holds(t, "allocation") => CanTransitionAllocation(s.allocation, in.target)
       [] OTHER -> TRUE

Settled(t) == CHOOSE x \in input[t].of : TRUE

\* A handler that has locked a row reads the tables the row protects.
SeenWith(t, row) ==
  LET s == seen[t] IN
  CASE row = "receipt" -> [s EXCEPT !.receipt = receipt]
    [] row = "line" -> [s EXCEPT !.received = received]
    [] row = "lot" /\ kind[t] = "inspect" -> [s EXCEPT !.lot = lot, !.inspection = inspection]
    [] row = "lot" /\ kind[t] = "allocate" ->
         [s EXCEPT !.lot = lot, !.committed = CommittedOf(allocation)]
    [] row = "lot" /\ kind[t] \in {"correct", "finalize"} -> [s EXCEPT !.lot = lot]
    [] row = "inspection" -> [s EXCEPT !.inspection = inspection]
    [] row = "allocation" ->
         [s EXCEPT !.allocation = allocation[Settled(t)].status]
    [] OTHER -> s

\* A request can only name rows that exist, and a correction only a posted
\* original; every connection is idle before it begins.
Names(k, in) ==
  /\ k \in LotKinds => lot.status # "NONE"
  /\ k \in InspectionKinds => inspection.status # "NONE"
  /\ \A x \in in.of : allocation[x].status # "NONE"

\* Bound: no more allocations are asked for than Allocations has identities.
RoomFor(k) ==
  k = "allocate" =>
    Cardinality({t \in Tx : kind[t] = "allocate"})
      < Cardinality({x \in Allocations : allocation[x].status = "NONE"})

Begin(t, k, in) ==
  /\ ~Running(t)
  /\ Names(k, in)
  /\ RoomFor(k)
  /\ kind' = [kind EXCEPT ![t] = k]
  /\ input' = [input EXCEPT ![t] = in]
  /\ UNCHANGED <<rows, pos, seen>>

Acquire(t) ==
  /\ Waits(t)
  /\ Passes(t)
  /\ \A u \in Tx : ~Blocks(u, t)
  /\ pos' = [pos EXCEPT ![t] = @ + 1]
  /\ seen' = [seen EXCEPT ![t] = SeenWith(t, NextLock(t).row)]
  /\ UNCHANGED <<rows, kind, input>>

\* Commit and rollback release every lock.
End(t) ==
  /\ kind' = [kind EXCEPT ![t] = "none"]
  /\ input' = [input EXCEPT ![t] = NoInput]
  /\ pos' = [pos EXCEPT ![t] = 0]
  /\ seen' = [seen EXCEPT ![t] = NothingSeen]

\* A conditional UPDATE (updateMany ... where status) is evaluated on the row
\* that is committed when it runs, not on what the handler read.
Matches(t) ==
  /\ kind[t] = "post" => receipt = "DRAFT"
  /\ kind[t] = "finalize" => inspection.status = "OPEN" /\ lot.status = "AWAITING_INSPECTION"

\* A handler that ends without writing: a check failed, an update matched no
\* row, or the receipt is posted or the inspection created already and is
\* returned as it is.
Refuse(t) ==
  /\ Running(t)
  /\ Passes(t) => ~Waits(t) /\ ~Matches(t)
  /\ End(t)
  /\ UNCHANGED rows

\* Mutant: cycles of waits are not detected.
DeadlockAbortNever(t) == FALSE /\ UNCHANGED vars

\* PostgreSQL aborts one transaction of a cycle of waits.
DeadlockAbort(t) ==
  /\ \E u \in Tx : Blocks(u, t) /\ Blocks(t, u)
  /\ End(t)
  /\ UNCHANGED rows

-----------------------------------------------------------------------------
(***************************************************************************)
(* What each command writes.  Posted quantities and adjustments are rows   *)
(* appended to a table, never a sum read and written back.                 *)
(***************************************************************************)
Ready(t, k) == kind[t] = k /\ pos[t] = Len(Plan[k]) /\ Passes(t) /\ Matches(t)

\* The lot's inspection is created with it when its item has active checks.
CommitPost(t) ==
  /\ Ready(t, "post")
  /\ receipt' = "POSTED"
  /\ received' = received + Draft
  /\ lot' = [lot EXCEPT !.status = "AWAITING_INSPECTION", !.quantity = Draft]
  /\ inspection' \in {inspection, [inspection EXCEPT !.status = "OPEN"]}
  /\ UNCHANGED <<others, allocation>>
  /\ End(t)

CommitRival(t) ==
  /\ Ready(t, "rival")
  /\ received' = received + input[t].quantity
  /\ others' = others + input[t].quantity
  /\ UNCHANGED <<receipt, lot, inspection, allocation>>
  /\ End(t)

CommitCorrect(t) ==
  /\ Ready(t, "correct")
  /\ received' = received + input[t].quantity
  /\ lot' = [lot EXCEPT !.adjusted = @ + input[t].quantity]
  /\ UNCHANGED <<receipt, others, inspection, allocation>>
  /\ End(t)

CommitInspect(t) ==
  /\ Ready(t, "inspect")
  /\ inspection' = [status |-> "OPEN", result |-> "PENDING"]
  /\ UNCHANGED <<receipt, received, others, lot, allocation>>
  /\ End(t)

CommitSave(t) ==
  /\ Ready(t, "save")
  /\ inspection' = [inspection EXCEPT !.result = input[t].result]
  /\ UNCHANGED <<receipt, received, others, lot, allocation>>
  /\ End(t)

\* Mutant: the inspection is left open.
CommitFinalizeLotOnly(t) ==
  LET in == input[t] IN
  /\ Ready(t, "finalize")
  /\ lot' = [lot EXCEPT !.status = in.disposition,
                        !.accepted = in.accepted,
                        !.rejected = in.rejected,
                        !.quarantined = Quarantined(LotEffective(seen[t].lot),
                                                    in.accepted, in.rejected)]
  /\ UNCHANGED <<receipt, received, others, inspection, allocation>>
  /\ End(t)

CommitFinalize(t) ==
  LET in == input[t] IN
  /\ Ready(t, "finalize")
  /\ inspection' = [inspection EXCEPT !.status = "FINALIZED"]
  /\ lot' = [lot EXCEPT !.status = in.disposition,
                        !.accepted = in.accepted,
                        !.rejected = in.rejected,
                        !.quarantined = Quarantined(LotEffective(seen[t].lot),
                                                    in.accepted, in.rejected)]
  /\ UNCHANGED <<receipt, received, others, allocation>>
  /\ End(t)

CommitAllocate(t) ==
  /\ Ready(t, "allocate")
  /\ \E x \in Allocations :
       /\ allocation[x].status = "NONE"
       /\ allocation' = [allocation EXCEPT ![x] = [status |-> "ALLOCATED",
                                                   quantity |-> input[t].quantity]]
  /\ UNCHANGED <<receipt, received, others, lot, inspection>>
  /\ End(t)

CommitSettle(t) ==
  /\ Ready(t, "settle")
  /\ \E x \in input[t].of :
       allocation' = [allocation EXCEPT ![x].status = input[t].target]
  /\ UNCHANGED <<receipt, received, others, lot, inspection>>
  /\ End(t)

Commit(t) ==
  \/ CommitPost(t) \/ CommitRival(t) \/ CommitCorrect(t) \/ CommitInspect(t)
  \/ CommitSave(t) \/ CommitFinalize(t) \/ CommitAllocate(t) \/ CommitSettle(t)

Finish(t) == Refuse(t) \/ DeadlockAbort(t) \/ Commit(t)

Next ==
  \/ \E t \in Tx, k \in Kinds : \E in \in Requests[k] : Begin(t, k, in)
  \/ \E t \in Tx : Acquire(t) \/ Finish(t)

Spec == Init /\ [][Next]_vars

\* The database keeps running every transaction that has begun, breaks
\* cycles of waits, and serves the waiters of a row in order, so a lock that
\* is free again and again is granted; clients need not send anything.
FairSpec == Spec /\ \A t \in Tx : WF_vars(Finish(t)) /\ SF_vars(Acquire(t))

-----------------------------------------------------------------------------
(***************************************************************************)
(* Properties.                                                             *)
(***************************************************************************)
LotRow == [status : LotStatuses, quantity : 0..Shipped, adjusted : Int,
           accepted : 0..Shipped, rejected : 0..Shipped, quarantined : 0..Shipped]

TypeOK ==
  /\ receipt \in {"DRAFT", "POSTED"}
  /\ received \in Int
  /\ others \in Nat
  /\ lot \in LotRow
  /\ inspection \in [status : {"NONE", "OPEN", "FINALIZED"},
                     result : {"PENDING", "CONFORMING", "NONCONFORMING"}]
  /\ allocation \in [Allocations -> [status : AllocationStatuses, quantity : 0..Shipped]]
  /\ kind \in [Tx -> CommandKinds \cup {"none"}]
  /\ DOMAIN input = Tx
  /\ pos \in [Tx -> Nat]
  /\ DOMAIN seen = Tx
  /\ \A t \in Tx :
       /\ Running(t) => input[t] \in Requests[kind[t]]
       /\ pos[t] > 0 => Running(t) /\ pos[t] <= Len(Plan[kind[t]])
       /\ DOMAIN seen[t] = DOMAIN NothingSeen

\* Row locks exclude each other: no two transactions hold locks that
\* conflict, although their plans visit the rows in different orders.
LocksExclude ==
  \A t, u \in Tx : t # u =>
    \A a \in LocksOf(t), b \in LocksOf(u) : ~Conflict(a, b)

\* What a handler read once it held a row's lock is still what is committed,
\* for as long as the handler runs: no check is made on a stale row.  The
\* allocations of a lot count as protected by the lot's lock.
ReadIsCurrent(t) ==
  /\ Holds(t, "receipt") => seen[t].receipt = receipt
  /\ Holds(t, "line") => seen[t].received = received
  /\ Holds(t, "lot") /\ kind[t] # "settle" => seen[t].lot = lot
  /\ Holds(t, "inspection") => seen[t].inspection = inspection
  /\ Holds(t, "lot") /\ kind[t] = "inspect" =>
       (seen[t].inspection.status = "NONE" <=> inspection.status = "NONE")
  /\ Holds(t, "lot") /\ kind[t] = "allocate" => seen[t].committed = CommittedOf(allocation)
  /\ Holds(t, "allocation") =>
       \A x \in input[t].of : seen[t].allocation = allocation[x].status

LockedReadsAreCurrent == \A t \in Tx : ReadIsCurrent(t)

\* The states of the receipt, its lot and the lot's inspection, written by
\* different commands, never disagree: a posted receipt has its lot, an
\* inspection has a lot, and both are decided together.  Requests in flight
\* keep naming rows that exist.
StatesAgree ==
  /\ receipt = "DRAFT" <=> lot.status = "NONE"
  /\ lot.status = "NONE" => inspection.status = "NONE" /\ lot.quantity = 0 /\ lot.adjusted = 0
  /\ inspection.status = "FINALIZED" <=> lot.status \in Dispositions
  /\ \A t \in Tx : Running(t) =>
       /\ kind[t] \in LotKinds => lot.status # "NONE"
       /\ kind[t] \in InspectionKinds => inspection.status # "NONE"

\* The receipts, rivals and corrections of a notice line, racing for it,
\* never post less than nothing or more than was shipped, and what they
\* posted is exactly what the lot and the other receipts hold.
LineConserved ==
  /\ received \in 0..Shipped
  /\ received = LotEffective(lot) + others
  /\ LotEffective(lot) >= 0

\* However allocations, consumptions and releases race for the lot, the
\* stock they keep committed never exceeds what was accepted.
CommittedWithinAccepted == CommittedOf(allocation) <= lot.accepted

\* A plain acceptance rests on a required check that conforms, although
\* results may be recorded again while the finalization is running.
AcceptedConforms ==
  lot.status = "ACCEPTED" => inspection.result = "CONFORMING"

\* The row locks order every pair of commands but one: a cycle of waits is
\* always between a correction, which locks the project before the lot, and
\* a command that inserts a row of the lot, which locks them the other way.
WaitCyclesAreKnown ==
  \A t, u \in Tx : Blocks(u, t) /\ Blocks(t, u) =>
    \E c \in {t, u}, i \in {t, u} :
      kind[c] = "correct" /\ kind[i] \in {"inspect", "allocate"}

\* Every transaction that begins ends: it commits, is refused, or is aborted
\* as the victim of a deadlock; a correction and an allocation, which lock
\* the project and the lot in opposite orders, do not wait for each other
\* for ever.
TransactionsEnd == \A t \in Tx : Running(t) ~> ~Running(t)

(***************************************************************************)
(* The lot these transactions leave behind moves as LotStock promises.     *)
(***************************************************************************)
Stock == INSTANCE LotStock WITH
  Limit <- Shipped,
  status <- lot.status,
  effective <- LotEffective(lot),
  accepted <- lot.accepted,
  rejected <- lot.rejected,
  quarantined <- lot.quarantined

\* Interleaved at the granularity of row locks, the commands still change
\* the lot only as LotStock promises.
ImplementsLotStock == Stock!Spec

=============================================================================
