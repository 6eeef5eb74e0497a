----------------------- MODULE LotTransactions_proofs -----------------------
(***************************************************************************)
(* Row locks make the commands on a lot safe: proved for any number of     *)
(* connections and any quantities.                                         *)
(***************************************************************************)
EXTENDS LotTransactions, SumTheorems, TLAPS

\* Every plan has at most three locks, each on a row of its own.
LEMMA PlanLengths ==
  /\ Len(Plan["post"]) = 3 /\ Len(Plan["rival"]) = 2 /\ Len(Plan["correct"]) = 3
  /\ Len(Plan["inspect"]) = 2 /\ Len(Plan["save"]) = 1 /\ Len(Plan["finalize"]) = 2
  /\ Len(Plan["allocate"]) = 2 /\ Len(Plan["settle"]) = 2
BY DEF Plan, PostPlan, RivalPlan, CorrectPlan, InspectPlan, SavePlan, FinalizePlan,
   AllocatePlan, SettlePlan

\* The entries of the plans, one by one.
LEMMA PlanEntries ==
  /\ Plan["post"][1] = Lock("receipt", "update") /\ Plan["post"][2] = Lock("line", "update")
  /\ Plan["post"][3] = Lock("project", "update")
  /\ Plan["rival"][1] = Lock("line", "update") /\ Plan["rival"][2] = Lock("project", "update")
  /\ Plan["correct"][1] = Lock("line", "update") /\ Plan["correct"][2] = Lock("project", "update")
  /\ Plan["correct"][3] = Lock("lot", "update")
  /\ Plan["inspect"][1] = Lock("lot", "update") /\ Plan["inspect"][2] = Lock("project", "share")
  /\ Plan["save"][1] = Lock("inspection", "update")
  /\ Plan["finalize"][1] = Lock("inspection", "update")
  /\ Plan["finalize"][2] = Lock("lot", "update")
  /\ Plan["allocate"][1] = Lock("lot", "update") /\ Plan["allocate"][2] = Lock("project", "share")
  /\ Plan["settle"][1] = Lock("lot", "update")
  /\ Plan["settle"][2] = Lock("allocation", "update")
BY DEF Plan, PostPlan, RivalPlan, CorrectPlan, InspectPlan, SavePlan, FinalizePlan,
   AllocatePlan, SettlePlan

\* The rows a handler that has taken every lock of its plan holds exclusively.
LEMMA FullPlans ==
  ASSUME NEW t \in Tx, pos[t] = Len(Plan[kind[t]])
  PROVE  /\ kind[t] = "post" => {Lock("receipt", "update"), Lock("line", "update")} \subseteq LocksOf(t)
         /\ kind[t] = "rival" => Lock("line", "update") \in LocksOf(t)
         /\ kind[t] = "correct" => {Lock("line", "update"), Lock("lot", "update")} \subseteq LocksOf(t)
         /\ kind[t] = "inspect" => Lock("lot", "update") \in LocksOf(t)
         /\ kind[t] = "save" => Lock("inspection", "update") \in LocksOf(t)
         /\ kind[t] = "finalize" =>
              {Lock("inspection", "update"), Lock("lot", "update")} \subseteq LocksOf(t)
         /\ kind[t] = "allocate" => Lock("lot", "update") \in LocksOf(t)
         /\ kind[t] = "settle" =>
              {Lock("lot", "update"), Lock("allocation", "update")} \subseteq LocksOf(t)
<1>1. \A n \in 1..pos[t] : Plan[kind[t]][n] \in LocksOf(t)
  BY DEF LocksOf
<1> QED
  BY <1>1, PlanLengths, PlanEntries

\* A row locked for update by one transaction is held by no other.
LEMMA Exclusive ==
  ASSUME LocksExclude, NEW t \in Tx, NEW u \in Tx, u # t, NEW row,
         Lock(row, "update") \in LocksOf(t)
  PROVE  ~Holds(u, row)
BY DEF LocksExclude, Conflict, Holds, Lock

\* A transaction that ends holds nothing, and the others are left alone.
LEMMA EndFrame ==
  ASSUME TypeOK, NEW t \in Tx, End(t)
  PROVE  /\ ~Running(t)' /\ LocksOf(t)' = {}
         /\ \A u \in Tx \ {t} : /\ kind'[u] = kind[u] /\ input'[u] = input[u]
                                /\ pos'[u] = pos[u] /\ seen'[u] = seen[u]
                                /\ Running(u)' = Running(u)
                                /\ LocksOf(u)' = LocksOf(u)
                                /\ \A row : Holds(u, row)' = Holds(u, row)
BY DEF TypeOK, End, Running, LocksOf, Holds

\* Ending a transaction keeps the locks of the others exclusive.
LEMMA EndKeepsLocksExclusive ==
  ASSUME TypeOK, LocksExclude, NEW t \in Tx, End(t)
  PROVE  LocksExclude'
BY EndFrame DEF LocksExclude

\* Taking a lock adds that lock to those a transaction holds.
LEMMA AcquireAdds ==
  ASSUME TypeOK, NEW t \in Tx, Acquire(t)
  PROVE  LocksOf(t)' = LocksOf(t) \cup {NextLock(t)}
<1>1. kind' = kind /\ pos'[t] = pos[t] + 1 /\ pos[t] \in Nat
  BY DEF TypeOK, Acquire
<1>2. \A n : n \in 1..(pos[t] + 1) <=> n \in 1..pos[t] \/ n = pos[t] + 1
  BY <1>1
<1> QED
  BY <1>1, <1>2 DEF LocksOf, NextLock

\* Taking a lock that nobody blocks keeps all locks exclusive.
LEMMA AcquireKeepsLocksExclusive ==
  ASSUME TypeOK, LocksExclude, NEW t \in Tx, Acquire(t)
  PROVE  LocksExclude'
<1>1. LocksOf(t)' = LocksOf(t) \cup {NextLock(t)}
  BY AcquireAdds
<1>2. \A u \in Tx \ {t} : LocksOf(u)' = LocksOf(u)
  BY DEF TypeOK, Acquire, LocksOf
<1>3. \A u \in Tx \ {t} : \A held \in LocksOf(u) : ~Conflict(held, NextLock(t))
  BY DEF Acquire, Blocks
<1>4. \A a, b : Conflict(a, b) <=> Conflict(b, a)
  BY DEF Conflict
<1> QED
  BY <1>1, <1>2, <1>3, <1>4 DEF LocksExclude

-----------------------------------------------------------------------------
(***************************************************************************)
(* The inductive invariant.  Mutual exclusion alone says nothing about the *)
(* lot; what makes a commit safe is that the rows it decided on are still  *)
(* the committed ones, which in turn needs every writer to hold the lock   *)
(* of what it writes or to create it.                                      *)
(***************************************************************************)
IInv ==
  /\ TypeOK
  /\ LocksExclude
  /\ LockedReadsAreCurrent
  /\ StatesAgree
  /\ LineConserved
  /\ AcceptedConforms

\* Which plans lock which row, and where.
LEMMA PlanRows ==
  ASSUME NEW k \in CommandKinds, NEW n \in 1..Len(Plan[k])
  PROVE  LET row == Plan[k][n].row IN
         /\ row = "receipt" => k = "post"
         /\ row = "line" => k \in {"post", "rival", "correct"}
         /\ row = "lot" => k \in LotKinds \cup {"finalize", "settle"}
         /\ row = "inspection" => k \in InspectionKinds
         /\ row = "allocation" => k = "settle" /\ n = 2
<1>2. CASE k = "post"
  <2>1. n = 1 \/ n = 2 \/ n = 3
    BY <1>2, PlanLengths
  <2> QED
    BY <1>2, <2>1, PlanEntries DEF Lock
<1>3. CASE k = "rival"
  <2>1. n = 1 \/ n = 2
    BY <1>3, PlanLengths
  <2> QED
    BY <1>3, <2>1, PlanEntries DEF Lock
<1>4. CASE k = "correct"
  <2>1. n = 1 \/ n = 2 \/ n = 3
    BY <1>4, PlanLengths
  <2> QED
    BY <1>4, <2>1, PlanEntries DEF Lock, LotKinds
<1>5. CASE k \in {"inspect", "allocate", "finalize", "settle"}
  <2>1. Len(Plan[k]) = 2
    BY <1>5, PlanLengths
  <2>2. n = 1 \/ n = 2
    BY <2>1
  <2> QED
    BY <1>5, <2>2, PlanEntries DEF Lock, LotKinds, InspectionKinds
<1>6. CASE k = "save"
  <2>1. n = 1
    BY <1>6, PlanLengths
  <2> QED
    BY <1>6, <2>1, PlanEntries DEF Lock, InspectionKinds
<1> QED
  BY <1>2, <1>3, <1>4, <1>5, <1>6 DEF CommandKinds, LotKinds, InspectionKinds

\* Who can hold which row.
LEMMA Holders ==
  ASSUME TypeOK, NEW t \in Tx
  PROVE  /\ Holds(t, "receipt") => kind[t] = "post"
         /\ Holds(t, "line") => kind[t] \in {"post", "rival", "correct"}
         /\ Holds(t, "lot") => kind[t] \in LotKinds \cup {"finalize", "settle"}
         /\ Holds(t, "inspection") => kind[t] \in InspectionKinds
         /\ Holds(t, "allocation") => kind[t] = "settle" /\ Lock("lot", "update") \in LocksOf(t)
<1>1. \A n \in 1..pos[t] : kind[t] \in CommandKinds /\ n \in 1..Len(Plan[kind[t]])
  BY DEF TypeOK, Running
<1>2. 2 \in 1..pos[t] /\ kind[t] = "settle" => Lock("lot", "update") \in LocksOf(t)
  BY PlanEntries DEF TypeOK, LocksOf
<1> QED
  BY <1>1, <1>2, PlanRows DEF Holds, LocksOf

\* A transaction that ends keeps the reads of the others current, if it held
\* the lock of every row it wrote or the row is one it created.
LEMMA EndKeepsReadsCurrent ==
  ASSUME IInv, NEW t \in Tx, End(t),
         receipt' = receipt \/ Lock("receipt", "update") \in LocksOf(t),
         received' = received \/ Lock("line", "update") \in LocksOf(t),
         lot' = lot \/ Lock("lot", "update") \in LocksOf(t) \/ lot.status = "NONE",
         inspection' = inspection \/ Lock("inspection", "update") \in LocksOf(t)
           \/ inspection.status = "NONE",
         inspection.status = "NONE" /\ inspection'.status # "NONE"
           => Lock("lot", "update") \in LocksOf(t) \/ lot.status = "NONE",
         inspection.status # "NONE" => inspection'.status # "NONE",
         allocation' = allocation \/ Lock("lot", "update") \in LocksOf(t)
  PROVE  LockedReadsAreCurrent'
<1> SUFFICES ASSUME NEW u \in Tx PROVE ReadIsCurrent(u)'
  BY DEF LockedReadsAreCurrent
<1>1. CASE u = t
  <2>1. \A row : ~Holds(t, row)'
    BY EndFrame DEF IInv, Holds
  <2> QED
    BY <1>1, <2>1 DEF ReadIsCurrent
<1>2. CASE u # t
  <2>1. /\ kind'[u] = kind[u] /\ input'[u] = input[u] /\ seen'[u] = seen[u]
        /\ \A row : Holds(u, row)' = Holds(u, row)
    BY <1>2, EndFrame DEF IInv
  <2>2. ReadIsCurrent(u)
    BY DEF IInv, LockedReadsAreCurrent
  <2>3. Holds(u, "receipt") => receipt' = receipt
    BY <1>2, Exclusive DEF IInv
  <2>4. Holds(u, "line") => received' = received
    BY <1>2, Exclusive DEF IInv
  <2>5. lot.status = "NONE" => ~Holds(u, "inspection") /\ (Holds(u, "lot") => kind[u] = "settle")
    BY Holders DEF IInv, StatesAgree, Running, LotKinds, InspectionKinds
  <2>6. Holds(u, "lot") /\ kind[u] # "settle" => lot' = lot
    BY <1>2, <2>5, Exclusive DEF IInv
  <2>7. inspection.status = "NONE" => ~Holds(u, "inspection")
    BY Holders DEF IInv, StatesAgree, Running, InspectionKinds
  <2>8. Holds(u, "inspection") => inspection' = inspection
    BY <1>2, <2>7, Exclusive DEF IInv
  <2>9. Holds(u, "lot") /\ kind[u] = "inspect"
          => (inspection.status = "NONE" <=> inspection'.status = "NONE")
    BY <1>2, <2>5, Exclusive DEF IInv
  <2>10. Holds(u, "lot") => allocation' = allocation
    BY <1>2, Exclusive DEF IInv
  <2>11. Holds(u, "allocation") => Holds(u, "lot")
    BY Holders DEF IInv, Holds, Lock
  <2>12. allocation' = allocation => CommittedOf(allocation)' = CommittedOf(allocation)
    OBVIOUS
  <2> QED
    BY <2>1, <2>2, <2>3, <2>4, <2>6, <2>8, <2>9, <2>10, <2>11, <2>12 DEF ReadIsCurrent
<1> QED
  BY <1>1, <1>2

-----------------------------------------------------------------------------
(***************************************************************************)
(* One lemma per action.                                                   *)
(***************************************************************************)
LEMMA InitEstablishes == Init => IInv
<1> SUFFICES ASSUME Init PROVE IInv
  OBVIOUS
<1>1. TypeOK
  BY TransactionAssumption
  DEF Init, TypeOK, NothingSeen, LotRow, LotStatuses, AllocationStatuses, Running
<1>2. \A t \in Tx : LocksOf(t) = {} /\ ~Running(t)
  BY DEF Init, LocksOf, Running
<1>3. LocksExclude /\ LockedReadsAreCurrent
  BY <1>2 DEF LocksExclude, LockedReadsAreCurrent, ReadIsCurrent, Holds
<1>4. StatesAgree /\ LineConserved /\ AcceptedConforms
  BY <1>2, TransactionAssumption
  DEF Init, StatesAgree, LineConserved, AcceptedConforms, NothingSeen, Dispositions, LotEffective
<1> QED
  BY <1>1, <1>3, <1>4 DEF IInv

\* A request that begins holds no lock yet.
LEMMA BeginStep ==
  ASSUME IInv, NEW t \in Tx, NEW k \in Kinds, NEW in \in Requests[k], Begin(t, k, in)
  PROVE  IInv'
<1> USE DEF IInv, Begin, rows
<1>1. /\ pos[t] = 0 /\ k \in CommandKinds /\ k # "none"
      /\ kind'[t] = k /\ input'[t] = in
      /\ \A u \in Tx \ {t} : kind'[u] = kind[u] /\ input'[u] = input[u]
  BY TransactionAssumption DEF TypeOK, Running, CommandKinds, LotKinds, InspectionKinds
<1>2. TypeOK'
  BY <1>1 DEF TypeOK, Running
<1>3. LocksOf(t) = {} /\ LocksOf(t)' = {} /\ \A u \in Tx : LocksOf(u)' = LocksOf(u)
  BY <1>1 DEF LocksOf
<1>4. LocksExclude'
  BY <1>3 DEF LocksExclude
<1>5. \A row : ~Holds(t, row)' /\ \A u \in Tx : Holds(u, row)' = Holds(u, row)
  BY <1>3 DEF Holds
<1>6. LockedReadsAreCurrent'
  <2> SUFFICES ASSUME NEW u \in Tx PROVE ReadIsCurrent(u)'
    BY DEF LockedReadsAreCurrent
  <2>1. CASE u = t
    BY <1>5, <2>1 DEF ReadIsCurrent
  <2>2. CASE u # t
    BY <1>1, <1>5, <2>2 DEF ReadIsCurrent, LockedReadsAreCurrent
  <2> QED
    BY <2>1, <2>2
<1>7. StatesAgree'
  BY <1>1 DEF StatesAgree, Names, Running
<1>8. LineConserved' /\ AcceptedConforms'
  BY DEF LineConserved, AcceptedConforms
<1> QED
  BY <1>2, <1>4, <1>6, <1>7, <1>8

\* A settlement names exactly one allocation.
LEMMA SettleNamesOne ==
  ASSUME NEW in \in Requests["settle"]
  PROVE  \E x \in Allocations : in.of = {x} /\ in.target \in {"RELEASED", "CONSUMED"}
<1>1. in.of \in {{x} : x \in Allocations} /\ in.target \in {"RELEASED", "CONSUMED"}
  BY DEF Requests
<1> QED
  BY <1>1

\* What a handler knows after it locked a row: that row, and what it knew.
LEMMA SeenAfter ==
  ASSUME NEW t \in Tx, DOMAIN seen[t] = DOMAIN NothingSeen, NEW row
  PROVE
    /\ SeenWith(t, row).receipt = IF row = "receipt" THEN receipt ELSE seen[t].receipt
    /\ SeenWith(t, row).received = IF row = "line" THEN received ELSE seen[t].received
    /\ SeenWith(t, row).lot = IF row = "lot" /\ kind[t] \in {"inspect", "allocate", "correct", "finalize"}
               THEN lot ELSE seen[t].lot
    /\ SeenWith(t, row).inspection = IF row = "inspection" \/ (row = "lot" /\ kind[t] = "inspect")
                      THEN inspection ELSE seen[t].inspection
    /\ SeenWith(t, row).committed = IF row = "lot" /\ kind[t] = "allocate"
                     THEN CommittedOf(allocation) ELSE seen[t].committed
    /\ SeenWith(t, row).allocation = IF row = "allocation"
                      THEN allocation[Settled(t)].status
                      ELSE seen[t].allocation
<1>1. DOMAIN seen[t] = {"received", "receipt", "committed", "allocation", "lot", "inspection"}
  BY DEF NothingSeen
<1>2. CASE row = "receipt"
  BY <1>1, <1>2 DEF SeenWith
<1>3. CASE row = "line"
  BY <1>1, <1>3 DEF SeenWith
<1>4. CASE row = "lot"
  BY <1>1, <1>4 DEF SeenWith
<1>5. CASE row = "inspection"
  BY <1>1, <1>5 DEF SeenWith
<1>6. CASE row = "allocation"
  BY <1>1, <1>6 DEF SeenWith
<1>7. CASE row \notin {"receipt", "line", "lot", "inspection", "allocation"}
  BY <1>7 DEF SeenWith
<1> QED
  BY <1>2, <1>3, <1>4, <1>5, <1>6, <1>7

\* Taking a lock reads the row it protects and changes no row.
LEMMA AcquireStep ==
  ASSUME IInv, NEW t \in Tx, Acquire(t)
  PROVE  IInv'
<1> USE DEF IInv
<1> DEFINE row == NextLock(t).row
<1>1. /\ pos' = [pos EXCEPT ![t] = pos[t] + 1]
      /\ kind[t] \in CommandKinds
      /\ pos[t] + 1 \in 1..Len(Plan[kind[t]])
      /\ UNCHANGED <<rows, kind, input>>
  <2>1. kind[t] \in CommandKinds
    BY DEF Acquire, Waits, Running, TypeOK
  <2>2. Len(Plan[kind[t]]) \in Nat
    BY <2>1, PlanLengths DEF CommandKinds, LotKinds, InspectionKinds
  <2>3. pos[t] \in Nat /\ pos[t] < Len(Plan[kind[t]])
    BY DEF Acquire, Waits, TypeOK
  <2> QED
    BY <2>1, <2>2, <2>3 DEF Acquire
<1>2. seen' = [seen EXCEPT ![t] = SeenWith(t, row)]
  BY DEF Acquire
<1>3. DOMAIN SeenWith(t, row) = DOMAIN seen[t]
  BY DEF SeenWith
<1>4. TypeOK'
  <2>1. pos' \in [Tx -> Nat]
    BY <1>1 DEF TypeOK
  <2>2. DOMAIN seen' = Tx /\ \A u \in Tx : DOMAIN seen'[u] = DOMAIN NothingSeen
    BY <1>2, <1>3 DEF TypeOK
  <2>3. \A u \in Tx : pos'[u] > 0 => Running(u) /\ pos'[u] <= Len(Plan[kind[u]])
    BY <1>1 DEF TypeOK, Acquire, Waits
  <2> QED
    BY <1>1, <2>1, <2>2, <2>3 DEF TypeOK, Running, rows
<1>5. LocksExclude'
  BY AcquireKeepsLocksExclusive
<1>6. LockedReadsAreCurrent'
  <2> SUFFICES ASSUME NEW u \in Tx PROVE ReadIsCurrent(u)'
    BY DEF LockedReadsAreCurrent
  <2>1. ReadIsCurrent(u)
    BY DEF LockedReadsAreCurrent
  <2>2. CASE u # t
    <3>1. seen'[u] = seen[u] /\ LocksOf(u)' = LocksOf(u)
      BY <1>1, <1>2, <2>2 DEF TypeOK, LocksOf
    <3> QED
      BY <1>1, <2>1, <3>1 DEF ReadIsCurrent, Holds, rows
  <2>3. CASE u = t
    <3>1. \A r : Holds(t, r)' => Holds(t, r) \/ r = row
      BY AcquireAdds DEF Holds
    <3>2. seen'[t] = SeenWith(t, row)
      BY <1>2 DEF TypeOK
    <3>3. DOMAIN seen[t] = DOMAIN NothingSeen
      BY DEF TypeOK
    <3>4. row = "lot" => kind[t] \in LotKinds \cup {"finalize", "settle"}
      BY <1>1, PlanRows DEF TypeOK, NextLock
    <3>5. UNCHANGED <<receipt, received, lot, inspection, allocation, kind, input>>
      BY <1>1 DEF rows
    <3>0. ReadIsCurrent(t)
      BY <2>1, <2>3
    <3>20. /\ seen'[t].receipt = IF row = "receipt" THEN receipt ELSE seen[t].receipt
           /\ seen'[t].received = IF row = "line" THEN received ELSE seen[t].received
           /\ seen'[t].lot =
                IF row = "lot" /\ kind[t] \in {"inspect", "allocate", "correct", "finalize"}
                THEN lot ELSE seen[t].lot
           /\ seen'[t].inspection = IF row = "inspection" \/ (row = "lot" /\ kind[t] = "inspect")
                                    THEN inspection ELSE seen[t].inspection
           /\ seen'[t].committed = IF row = "lot" /\ kind[t] = "allocate"
                                   THEN CommittedOf(allocation) ELSE seen[t].committed
           /\ seen'[t].allocation = IF row = "allocation"
                                    THEN allocation[Settled(t)].status
                                    ELSE seen[t].allocation
      <4>1. DOMAIN seen[t] = DOMAIN NothingSeen
        BY <3>3
      <4> QED
        BY <3>2, <4>1, SeenAfter
    <3>6. /\ Holds(t, "receipt")' => seen'[t].receipt = receipt
          /\ Holds(t, "line")' => seen'[t].received = received
          /\ Holds(t, "inspection")' => seen'[t].inspection = inspection
      BY <3>0, <3>1, <3>20 DEF ReadIsCurrent
    <3>7. Holds(t, "lot")' /\ kind[t] # "settle" => seen'[t].lot = lot
      BY <3>0, <3>1, <3>4, <3>20 DEF ReadIsCurrent, LotKinds
    <3>8. Holds(t, "lot")' /\ kind[t] = "inspect" =>
            (seen'[t].inspection.status = "NONE" <=> inspection.status = "NONE")
      BY <3>0, <3>1, <3>20 DEF ReadIsCurrent
    <3>9. Holds(t, "lot")' /\ kind[t] = "allocate" => seen'[t].committed = CommittedOf(allocation)
      BY <3>0, <3>1, <3>20 DEF ReadIsCurrent
    <3>10. Holds(t, "allocation")' =>
             \A x \in input[t].of : seen'[t].allocation = allocation[x].status
      <4>1. row = "allocation" => kind[t] = "settle"
        BY <1>1, PlanRows DEF TypeOK, NextLock
      <4>2. kind[t] = "settle" => \A x \in input[t].of : x = Settled(t)
        <5>1. kind[t] = "settle" => \E y : input[t].of = {y}
          BY SettleNamesOne DEF TypeOK, Running
        <5> QED
          BY <5>1 DEF Settled
      <4> QED
        BY <3>0, <3>1, <4>1, <4>2, <3>20 DEF ReadIsCurrent
    <3> QED
      BY <2>3, <3>5, <3>6, <3>7, <3>8, <3>9, <3>10 DEF ReadIsCurrent
  <2> QED
    BY <2>2, <2>3
<1>7. StatesAgree' /\ LineConserved' /\ AcceptedConforms'
  BY <1>1 DEF StatesAgree, LineConserved, AcceptedConforms, rows, Running
<1> QED
  BY <1>4, <1>5, <1>6, <1>7

\* Ending a transaction keeps everything but the rows well typed.
LEMMA EndKeepsTypes ==
  ASSUME TypeOK, NEW t \in Tx, End(t),
         receipt' \in {"DRAFT", "POSTED"},
         received' \in Int,
         others' \in Nat,
         lot' \in LotRow,
         inspection' \in [status : {"NONE", "OPEN", "FINALIZED"},
                         result : {"PENDING", "CONFORMING", "NONCONFORMING"}],
         allocation' \in [Allocations -> [status : AllocationStatuses, quantity : 0..Shipped]]
  PROVE  TypeOK'
<1>1. /\ kind' \in [Tx -> CommandKinds \cup {"none"}] /\ DOMAIN input' = Tx
      /\ pos' \in [Tx -> Nat] /\ DOMAIN seen' = Tx
  BY DEF TypeOK, End
<1>2. \A u \in Tx : /\ Running(u)' => input'[u] \in Requests[kind'[u]]
                    /\ pos'[u] > 0 => Running(u)' /\ pos'[u] <= Len(Plan[kind'[u]])
                    /\ DOMAIN seen'[u] = DOMAIN NothingSeen
  <2> SUFFICES ASSUME NEW u \in Tx
               PROVE  /\ Running(u)' => input'[u] \in Requests[kind'[u]]
                      /\ pos'[u] > 0 => Running(u)' /\ pos'[u] <= Len(Plan[kind'[u]])
                      /\ DOMAIN seen'[u] = DOMAIN NothingSeen
    OBVIOUS
  <2>1. CASE u = t
    BY <2>1 DEF TypeOK, End, Running
  <2>2. CASE u # t
    BY <2>2, EndFrame DEF TypeOK
  <2> QED
    BY <2>1, <2>2
<1> QED
  BY <1>1, <1>2 DEF TypeOK

\* A transaction that ends without writing keeps the invariant.
LEMMA QuietStep ==
  ASSUME IInv, NEW t \in Tx, End(t), UNCHANGED rows
  PROVE  IInv'
<1> USE DEF IInv, rows
<1>1. TypeOK'
  BY EndKeepsTypes DEF TypeOK
<1>2. LocksExclude' /\ LockedReadsAreCurrent'
  BY EndKeepsLocksExclusive, EndKeepsReadsCurrent
<1>3. StatesAgree'
  BY EndFrame DEF StatesAgree
<1>4. LineConserved' /\ AcceptedConforms'
  BY DEF LineConserved, AcceptedConforms
<1> QED
  BY <1>1, <1>2, <1>3, <1>4

\* What holds of a handler that is about to commit: it has the locks of its
\* whole plan, and what it read under them is still the committed state.
LEMMA ReadyFacts ==
  ASSUME IInv, NEW t \in Tx, NEW k \in CommandKinds, Ready(t, k)
  PROVE  /\ kind[t] = k /\ Running(t) /\ input[t] \in Requests[k]
         /\ pos[t] = Len(Plan[kind[t]]) /\ Passes(t) /\ ReadIsCurrent(t)
         /\ \A row : Lock(row, "update") \in LocksOf(t) => Holds(t, row)
<1>1. kind[t] = k /\ pos[t] = Len(Plan[kind[t]]) /\ Passes(t)
  BY DEF Ready
<1>2. Running(t)
  BY <1>1 DEF Running, CommandKinds, LotKinds, InspectionKinds
<1> QED
  BY <1>1, <1>2 DEF IInv, TypeOK, LockedReadsAreCurrent, Holds, Lock

\* Posting the original receipt creates a lot nobody can have locked.
LEMMA PostStep ==
  ASSUME IInv, NEW t \in Tx, CommitPost(t)
  PROVE  IInv'
<1>1. /\ {Lock("receipt", "update"), Lock("line", "update")} \subseteq LocksOf(t)
      /\ kind[t] = "post" /\ Running(t) /\ Passes(t) /\ End(t)
      /\ Holds(t, "receipt") /\ Holds(t, "line")
      /\ seen[t].receipt = receipt /\ seen[t].received = received
  BY ReadyFacts, FullPlans DEF CommitPost, CommandKinds, ReadIsCurrent
<1>2. receipt = "DRAFT" /\ received + Draft \in 0..Shipped
  BY <1>1 DEF Passes
<1>3. /\ lot.status = "NONE" /\ lot.quantity = 0 /\ lot.adjusted = 0
      /\ inspection.status = "NONE"
  BY <1>2 DEF IInv, StatesAgree
<1>4. /\ lot \in LotRow
      /\ lot' = [lot EXCEPT !.status = "AWAITING_INSPECTION", !.quantity = Draft]
      /\ Draft \in 0..Shipped /\ received \in Int
      /\ receipt' = "POSTED" /\ received' = received + Draft
      /\ UNCHANGED <<others, allocation>>
      /\ inspection' \in {inspection, [inspection EXCEPT !.status = "OPEN"]}
  BY TransactionAssumption DEF CommitPost, IInv, TypeOK
<1>5. /\ lot' \in LotRow /\ lot'.status = "AWAITING_INSPECTION"
      /\ lot'.quantity = Draft /\ lot'.adjusted = 0
  BY <1>3, <1>4 DEF LotRow, LotStatuses
<1>6. /\ inspection' \in [status : {"NONE", "OPEN", "FINALIZED"},
                         result : {"PENDING", "CONFORMING", "NONCONFORMING"}]
      /\ inspection'.status # "FINALIZED"
  BY <1>3, <1>4 DEF IInv, TypeOK
<1>7. TypeOK'
  BY <1>1, <1>4, <1>5, <1>6, EndKeepsTypes DEF IInv, TypeOK
<1>8. LocksExclude' /\ LockedReadsAreCurrent'
  BY <1>1, <1>3, <1>4, EndKeepsLocksExclusive, EndKeepsReadsCurrent DEF IInv
<1>9. StatesAgree'
  <2>1. \A u \in Tx \ {t} : Running(u) => kind[u] \notin LotKinds \cup InspectionKinds
    BY <1>3 DEF IInv, StatesAgree
  <2> QED
    BY <1>1, <1>4, <1>5, <1>6, <2>1, EndFrame DEF StatesAgree, IInv, Dispositions
<1>10. LineConserved' /\ AcceptedConforms'
  BY <1>2, <1>3, <1>4, <1>5 DEF IInv, TypeOK, LineConserved, LotEffective, AcceptedConforms
<1> QED
  BY <1>7, <1>8, <1>9, <1>10 DEF IInv

\* Another receipt of the notice line takes its share of it.
LEMMA RivalStep ==
  ASSUME IInv, NEW t \in Tx, CommitRival(t)
  PROVE  IInv'
<1>1. /\ Lock("line", "update") \in LocksOf(t)
      /\ kind[t] = "rival" /\ input[t] \in Requests["rival"] /\ Passes(t) /\ End(t)
      /\ Holds(t, "line") /\ seen[t].received = received
  BY ReadyFacts, FullPlans DEF CommitRival, CommandKinds, ReadIsCurrent
<1>2. input[t].quantity \in 1..Shipped
  BY <1>1 DEF Requests, NoInput
<1>3. received + input[t].quantity \in 0..Shipped
  BY <1>1 DEF Passes
<1>4. /\ received' = received + input[t].quantity /\ others' = others + input[t].quantity
      /\ UNCHANGED <<receipt, lot, inspection, allocation>>
  BY DEF CommitRival
<1>5. TypeOK'
  <2>1. received \in Int /\ others \in Nat
    BY DEF IInv, TypeOK
  <2>2. received' \in Int /\ others' \in Nat
    BY <1>2, <1>4, <2>1, TransactionAssumption
  <2> QED
    BY <1>1, <1>4, <2>2, EndKeepsTypes DEF IInv, TypeOK
<1>6. LocksExclude' /\ LockedReadsAreCurrent'
  BY <1>1, <1>4, EndKeepsLocksExclusive, EndKeepsReadsCurrent DEF IInv
<1>7. StatesAgree'
  BY <1>1, <1>4, EndFrame DEF StatesAgree, IInv
<1>8. LineConserved' /\ AcceptedConforms'
  BY <1>2, <1>3, <1>4 DEF IInv, TypeOK, LotRow, LineConserved, LotEffective, AcceptedConforms
<1> QED
  BY <1>5, <1>6, <1>7, <1>8 DEF IInv

\* A correction moves the lot and the line by the same amount.
LEMMA CorrectStep ==
  ASSUME IInv, NEW t \in Tx, CommitCorrect(t)
  PROVE  IInv'
<1>1. /\ {Lock("line", "update"), Lock("lot", "update")} \subseteq LocksOf(t)
      /\ kind[t] = "correct" /\ input[t] \in Requests["correct"] /\ Passes(t) /\ End(t)
      /\ Holds(t, "line") /\ Holds(t, "lot")
      /\ seen[t].received = received /\ seen[t].lot = lot
  BY ReadyFacts, FullPlans DEF CommitCorrect, CommandKinds, LotKinds, ReadIsCurrent
<1>2. input[t].quantity \in Int
  BY <1>1, TransactionAssumption DEF Requests, NoInput
<1>20. lot.adjusted \in Int /\ lot.quantity \in Int /\ received \in Int /\ others \in Int
  BY TransactionAssumption DEF IInv, TypeOK, LotRow
<1>21. lot.adjusted + input[t].quantity \in Int
  BY <1>2, <1>20
<1>3. /\ received + input[t].quantity \in 0..Shipped
      /\ lot.status = "AWAITING_INSPECTION" /\ LotEffective(lot) + input[t].quantity >= 0
  BY <1>1 DEF Passes, Correctable
<1>4. /\ received' = received + input[t].quantity
      /\ lot' = [lot EXCEPT !.adjusted = lot.adjusted + input[t].quantity]
      /\ UNCHANGED <<receipt, others, inspection, allocation>>
  BY DEF CommitCorrect
<1>5. /\ lot' \in LotRow /\ lot'.status = lot.status
      /\ lot'.quantity = lot.quantity /\ lot'.adjusted = lot.adjusted + input[t].quantity
  BY <1>4, <1>21 DEF IInv, TypeOK, LotRow
<1>6. TypeOK'
  <2>1. received' \in Int
    BY <1>2, <1>4, <1>20
  <2> QED
    BY <1>1, <1>4, <1>5, <2>1, EndKeepsTypes DEF IInv, TypeOK
<1>7. LocksExclude' /\ LockedReadsAreCurrent'
  BY <1>1, <1>4, EndKeepsLocksExclusive, EndKeepsReadsCurrent DEF IInv
<1>8. StatesAgree'
  BY <1>1, <1>3, <1>4, <1>5, EndFrame DEF StatesAgree, IInv
<1>9. LineConserved' /\ AcceptedConforms'
  <2>1. received = lot.quantity + lot.adjusted + others
    BY DEF IInv, LineConserved, LotEffective
  <2>2. LotEffective(lot)' = lot.quantity + lot.adjusted + input[t].quantity
    BY <1>2, <1>5, <1>20 DEF LotEffective
  <2>3. LineConserved'
    BY <1>2, <1>3, <1>4, <1>20, <2>1, <2>2 DEF LineConserved, LotEffective
  <2>4. AcceptedConforms'
    BY <1>3, <1>5 DEF AcceptedConforms
  <2> QED
    BY <2>3, <2>4
<1> QED
  BY <1>6, <1>7, <1>8, <1>9 DEF IInv

\* An inspection is created under the lock of its lot.
LEMMA InspectStep ==
  ASSUME IInv, NEW t \in Tx, CommitInspect(t)
  PROVE  IInv'
<1>1. /\ Lock("lot", "update") \in LocksOf(t)
      /\ kind[t] = "inspect" /\ Passes(t) /\ End(t)
      /\ Holds(t, "lot") /\ seen[t].lot = lot
      /\ seen[t].inspection.status = "NONE" => inspection.status = "NONE"
  BY ReadyFacts, FullPlans DEF CommitInspect, CommandKinds, LotKinds, ReadIsCurrent
<1>2. lot.status = "AWAITING_INSPECTION" /\ inspection.status = "NONE"
  BY <1>1 DEF Passes
<1>3. /\ inspection' = [status |-> "OPEN", result |-> "PENDING"]
      /\ UNCHANGED <<receipt, received, others, lot, allocation>>
  BY DEF CommitInspect
<1>4. TypeOK'
  BY <1>1, <1>3, EndKeepsTypes DEF IInv, TypeOK
<1>5. LocksExclude' /\ LockedReadsAreCurrent'
  BY <1>1, <1>2, <1>3, EndKeepsLocksExclusive, EndKeepsReadsCurrent DEF IInv
<1>6. StatesAgree'
  BY <1>1, <1>2, <1>3, EndFrame DEF StatesAgree, IInv, Dispositions
<1>7. LineConserved' /\ AcceptedConforms'
  BY <1>2, <1>3 DEF IInv, LineConserved, AcceptedConforms
<1> QED
  BY <1>4, <1>5, <1>6, <1>7 DEF IInv

\* Results are recorded only in an open inspection.
LEMMA SaveStep ==
  ASSUME IInv, NEW t \in Tx, CommitSave(t)
  PROVE  IInv'
<1>1. /\ Lock("inspection", "update") \in LocksOf(t)
      /\ kind[t] = "save" /\ input[t] \in Requests["save"] /\ Passes(t) /\ End(t)
      /\ Holds(t, "inspection") /\ seen[t].inspection = inspection
  BY ReadyFacts, FullPlans DEF CommitSave, CommandKinds, InspectionKinds, ReadIsCurrent
<1>2. inspection.status = "OPEN"
  BY <1>1 DEF Passes
<1>3. input[t].result \in {"CONFORMING", "NONCONFORMING"}
  BY <1>1 DEF Requests, NoInput
<1>4. /\ inspection' = [inspection EXCEPT !.result = input[t].result]
      /\ UNCHANGED <<receipt, received, others, lot, allocation>>
  BY DEF CommitSave
<1>5. /\ inspection' \in [status : {"NONE", "OPEN", "FINALIZED"},
                         result : {"PENDING", "CONFORMING", "NONCONFORMING"}]
      /\ inspection'.status = "OPEN"
  BY <1>2, <1>3, <1>4 DEF IInv, TypeOK
<1>6. TypeOK'
  BY <1>1, <1>4, <1>5, EndKeepsTypes DEF IInv, TypeOK
<1>7. LocksExclude' /\ LockedReadsAreCurrent'
  BY <1>1, <1>2, <1>4, <1>5, EndKeepsLocksExclusive, EndKeepsReadsCurrent DEF IInv
<1>8. StatesAgree'
  BY <1>1, <1>2, <1>4, <1>5, EndFrame DEF StatesAgree, IInv
<1>9. LineConserved' /\ AcceptedConforms'
  BY <1>2, <1>4 DEF IInv, LineConserved, AcceptedConforms, StatesAgree, Dispositions
<1> QED
  BY <1>6, <1>7, <1>8, <1>9 DEF IInv

\* A lot never holds more than its notice line shipped.
LEMMA EffectiveWithinShipped == IInv => LotEffective(lot) \in 0..Shipped
<1> SUFFICES ASSUME IInv PROVE LotEffective(lot) \in 0..Shipped
  OBVIOUS
<1>1. LotEffective(lot) \in Int
  BY TransactionAssumption DEF IInv, TypeOK, LotRow, LotEffective
<1>2. /\ received \in 0..Shipped /\ others \in Nat /\ LotEffective(lot) >= 0
      /\ received = LotEffective(lot) + others
  BY DEF IInv, TypeOK, LineConserved
<1> QED
  BY <1>1, <1>2, TransactionAssumption

\* A finalization decides the lot and its inspection together, on the
\* quantity that is committed.
LEMMA FinalizeStep ==
  ASSUME IInv, NEW t \in Tx, CommitFinalize(t)
  PROVE  IInv'
<1>1. /\ {Lock("inspection", "update"), Lock("lot", "update")} \subseteq LocksOf(t)
      /\ kind[t] = "finalize" /\ input[t] \in Requests["finalize"] /\ Passes(t) /\ End(t)
      /\ Holds(t, "inspection") /\ Holds(t, "lot")
      /\ seen[t].inspection = inspection /\ seen[t].lot = lot
  BY ReadyFacts, FullPlans DEF CommitFinalize, CommandKinds, InspectionKinds, ReadIsCurrent
<1>2. /\ inspection.status = "OPEN" /\ lot.status = "AWAITING_INSPECTION"
      /\ input[t].disposition = "ACCEPTED" => inspection.result = "CONFORMING"
      /\ ValidDecision(LotEffective(lot), input[t].disposition, input[t].accepted, input[t].rejected)
  BY <1>1 DEF Passes
<1>3. /\ input[t].disposition \in Dispositions
      /\ input[t].accepted \in 0..Shipped /\ input[t].rejected \in 0..Shipped
  BY <1>1 DEF Requests
<1>4. LotEffective(lot) \in 0..Shipped
  BY EffectiveWithinShipped
<1>5. Quarantined(LotEffective(lot), input[t].accepted, input[t].rejected) \in 0..Shipped
  BY <1>2, <1>3, <1>4, TransactionAssumption DEF ValidDecision, Quarantined
<1>6. /\ inspection' = [inspection EXCEPT !.status = "FINALIZED"]
      /\ lot' = [lot EXCEPT
           !.status = input[t].disposition,
           !.accepted = input[t].accepted,
           !.rejected = input[t].rejected,
           !.quarantined = Quarantined(LotEffective(lot), input[t].accepted, input[t].rejected)]
      /\ UNCHANGED <<receipt, received, others, allocation>>
  BY <1>1 DEF CommitFinalize
<1>7. /\ lot' \in LotRow /\ lot'.status = input[t].disposition
      /\ lot'.quantity = lot.quantity /\ lot'.adjusted = lot.adjusted
  BY <1>3, <1>5, <1>6 DEF IInv, TypeOK, LotRow, LotStatuses
<1>8. /\ inspection' \in [status : {"NONE", "OPEN", "FINALIZED"},
                         result : {"PENDING", "CONFORMING", "NONCONFORMING"}]
      /\ inspection'.status = "FINALIZED" /\ inspection'.result = inspection.result
  BY <1>6 DEF IInv, TypeOK
<1>9. TypeOK'
  BY <1>1, <1>6, <1>7, <1>8, EndKeepsTypes DEF IInv, TypeOK
<1>10. LocksExclude' /\ LockedReadsAreCurrent'
  BY <1>1, <1>2, <1>6, <1>8, EndKeepsLocksExclusive, EndKeepsReadsCurrent DEF IInv
<1>11. StatesAgree'
  BY <1>1, <1>2, <1>3, <1>6, <1>7, <1>8, EndFrame DEF StatesAgree, IInv, Dispositions
<1>12. LineConserved' /\ AcceptedConforms'
  BY <1>2, <1>6, <1>7, <1>8 DEF IInv, LineConserved, LotEffective, AcceptedConforms
<1> QED
  BY <1>9, <1>10, <1>11, <1>12 DEF IInv

\* An allocation is inserted under the lock of its lot.
LEMMA AllocateStep ==
  ASSUME IInv, NEW t \in Tx, CommitAllocate(t)
  PROVE  IInv'
<1>1. /\ Lock("lot", "update") \in LocksOf(t)
      /\ kind[t] = "allocate" /\ input[t] \in Requests["allocate"] /\ End(t)
      /\ UNCHANGED <<receipt, received, others, lot, inspection>>
  BY ReadyFacts, FullPlans DEF CommitAllocate, CommandKinds, LotKinds
<1>2. input[t].quantity \in 0..Shipped
  BY <1>1 DEF Requests, NoInput
<1>3. allocation' \in [Allocations -> [status : AllocationStatuses, quantity : 0..Shipped]]
  BY <1>2 DEF CommitAllocate, IInv, TypeOK, AllocationStatuses
<1>4. TypeOK'
  BY <1>1, <1>3, EndKeepsTypes DEF IInv, TypeOK
<1>5. LocksExclude' /\ LockedReadsAreCurrent'
  BY <1>1, EndKeepsLocksExclusive, EndKeepsReadsCurrent DEF IInv
<1>6. StatesAgree' /\ LineConserved' /\ AcceptedConforms'
  BY <1>1, EndFrame DEF StatesAgree, IInv, LineConserved, AcceptedConforms
<1> QED
  BY <1>4, <1>5, <1>6 DEF IInv

\* A settlement changes an allocation under the locks of the lot and the row.
LEMMA SettleStep ==
  ASSUME IInv, NEW t \in Tx, CommitSettle(t)
  PROVE  IInv'
<1>1. /\ Lock("lot", "update") \in LocksOf(t)
      /\ kind[t] = "settle" /\ input[t] \in Requests["settle"] /\ End(t)
      /\ UNCHANGED <<receipt, received, others, lot, inspection>>
  BY ReadyFacts, FullPlans DEF CommitSettle, CommandKinds
<1>2. PICK x \in Allocations : input[t].of = {x} /\ input[t].target \in {"RELEASED", "CONSUMED"}
  BY <1>1, SettleNamesOne
<1>3. allocation' \in [Allocations -> [status : AllocationStatuses, quantity : 0..Shipped]]
  <2>1. allocation' = [allocation EXCEPT ![x].status = input[t].target]
    BY <1>2 DEF CommitSettle
  <2>2. allocation \in [Allocations -> [status : AllocationStatuses, quantity : 0..Shipped]]
    BY DEF IInv, TypeOK
  <2>3. input[t].target \in AllocationStatuses
    BY <1>2 DEF AllocationStatuses
  <2> QED
    BY <2>1, <2>2, <2>3
<1>4. TypeOK'
  BY <1>1, <1>3, EndKeepsTypes DEF IInv, TypeOK
<1>5. LocksExclude' /\ LockedReadsAreCurrent'
  BY <1>1, EndKeepsLocksExclusive, EndKeepsReadsCurrent DEF IInv
<1>6. StatesAgree' /\ LineConserved' /\ AcceptedConforms'
  BY <1>1, EndFrame DEF StatesAgree, IInv, LineConserved, AcceptedConforms
<1> QED
  BY <1>4, <1>5, <1>6 DEF IInv

-----------------------------------------------------------------------------
\* Every step of every interleaving keeps the invariant.
LEMMA StepKeepsInvariant == IInv /\ [Next]_vars => IInv'
<1> SUFFICES ASSUME IInv, [Next]_vars PROVE IInv'
  OBVIOUS
<1>1. CASE \E t \in Tx, k \in Kinds : \E in \in Requests[k] : Begin(t, k, in)
  BY <1>1, BeginStep
<1>2. ASSUME NEW t \in Tx, Acquire(t) PROVE IInv'
  BY <1>2, AcquireStep
<1>3. ASSUME NEW t \in Tx, Refuse(t) \/ DeadlockAbort(t) PROVE IInv'
  BY <1>3, QuietStep DEF Refuse, DeadlockAbort
<1>4. ASSUME NEW t \in Tx, Commit(t) PROVE IInv'
  BY <1>4, PostStep, RivalStep, CorrectStep, InspectStep, SaveStep, FinalizeStep,
     AllocateStep, SettleStep DEF Commit
<1>5. CASE UNCHANGED vars
  <2> USE <1>5 DEF IInv, vars
  <2>1. TypeOK' /\ StatesAgree'
    BY DEF TypeOK, StatesAgree, Running
  <2>2. LocksExclude'
    BY DEF LocksExclude, LocksOf
  <2>3. LockedReadsAreCurrent'
    BY DEF LockedReadsAreCurrent, ReadIsCurrent, Holds, LocksOf
  <2>4. LineConserved' /\ AcceptedConforms'
    BY DEF LineConserved, AcceptedConforms
  <2> QED
    BY <2>1, <2>2, <2>3, <2>4
<1> QED
  BY <1>1, <1>2, <1>3, <1>4, <1>5 DEF Next, Finish

\* The inductive invariant holds of every behaviour.
THEOREM Invariance == Spec => []IInv
BY InitEstablishes, StepKeepsInvariant, PTL DEF Spec

\* The rows and the transactions stay well typed; in particular no bucket of
\* a lot is negative and none exceeds what was shipped.
THEOREM TypeCorrect == Spec => []TypeOK
BY Invariance, PTL DEF IInv

\* For any number of connections, the locks the handlers take exclude each
\* other although their plans visit the rows in different orders.
THEOREM LocksAreExclusive == Spec => []LocksExclude
BY Invariance, PTL DEF IInv

\* No handler ever decides on a row that another one has changed since.
THEOREM NoStaleRead == Spec => []LockedReadsAreCurrent
BY Invariance, PTL DEF IInv

\* Receipt, lot and inspection never disagree about how far the lot is.
THEOREM StatesAlwaysAgree == Spec => []StatesAgree
BY Invariance, PTL DEF IInv

\* Racing receipts and corrections neither over-receive a notice line nor
\* lose or invent stock.
THEOREM LineIsConserved == Spec => []LineConserved
BY Invariance, PTL DEF IInv

\* No race of recordings and finalizations accepts stock whose required check
\* did not conform.
THEOREM AcceptanceConforms == Spec => []AcceptedConforms
BY Invariance, PTL DEF IInv

-----------------------------------------------------------------------------
(***************************************************************************)
(* What is committed of the lot.  Only a finalization gives the lot stock, *)
(* and an allocation adds to a sum that it read under the lot's lock and   *)
(* that is therefore still the committed one.                              *)
(***************************************************************************)
AllocationInv ==
  /\ lot.status \notin Dispositions => lot.accepted = 0
  /\ CommittedWithinAccepted

QuantityOf(allocations) == [x \in Allocations |-> allocations[x].quantity]

Committing(allocations) == {x \in Allocations : allocations[x].status \in CommittingStatuses}

\* What a set of allocations commits, written as the sum it is.
LEMMA CommittedIsSum ==
  \A a : CommittedOf(a) = SumFunctionOnSet(QuantityOf(a), Committing(a))
BY DEF CommittedOf, QuantityOf, Committing

\* The committing allocations are finitely many, and so is what they commit.
LEMMA CommittedIsNat ==
  ASSUME TypeOK
  PROVE  /\ IsFiniteSet(Committing(allocation))
         /\ \A x \in Allocations : QuantityOf(allocation)[x] \in Nat
         /\ CommittedOf(allocation) \in Nat
<1>1. \A x \in Allocations : QuantityOf(allocation)[x] \in Nat
  BY TransactionAssumption DEF TypeOK, QuantityOf
<1>2. Committing(allocation) \subseteq Allocations
  BY DEF Committing
<1>3. IsFiniteSet(Committing(allocation))
  BY <1>2, TransactionAssumption, FS_Subset
<1>4. CommittedOf(allocation) \in Nat
  BY <1>1, <1>2, <1>3, CommittedIsSum, SumOfNat
<1> QED
  BY <1>1, <1>3, <1>4

\* A new allocation adds its quantity to what is committed.
LEMMA AllocatingAdds ==
  ASSUME TypeOK, NEW x \in Allocations, NEW q \in Nat, allocation[x].status = "NONE",
         allocation' = [allocation EXCEPT ![x] = [status |-> "ALLOCATED", quantity |-> q]]
  PROVE  CommittedOf(allocation') = CommittedOf(allocation) + q
<1> DEFINE S == Committing(allocation)
           f == QuantityOf(allocation)
           g == QuantityOf(allocation')
<1>1. x \notin S /\ Committing(allocation') = S \cup {x}
  BY DEF Committing, TypeOK, CommittingStatuses
<1>2. IsFiniteSet(S) /\ S \subseteq Allocations /\ \A y \in S : f[y] \in Int
  <2>1. S \subseteq Allocations
    BY DEF Committing
  <2> QED
    BY <2>1, CommittedIsNat
<1>3. g[x] = q /\ (\A y \in S : g[y] = f[y])
  BY <1>1, <1>2 DEF QuantityOf, TypeOK
<1>4. SumFunctionOnSet(g, S \cup {x}) = SumFunctionOnSet(g, S) + q
  <2> HIDE DEF S, f, g
  <2>1. \A y \in S : g[y] \in Int
    BY <1>2, <1>3
  <2>2. SumFunctionOnSet(g, S \cup {x}) = SumFunctionOnSet(g, S) + g[x]
    BY <1>1, <1>2, <1>3, <2>1, SumWith
  <2> QED
    BY <1>3, <2>2
<1>5. SumFunctionOnSet(f, S) = SumFunctionOnSet(g, S)
  <2> HIDE DEF S, f, g
  <2> QED
    BY <1>2, <1>3, SumSame
<1> QED
  BY <1>1, <1>4, <1>5, CommittedIsSum

\* Settling an allocation commits nothing new.
LEMMA SettlingAddsNothing ==
  ASSUME TypeOK, NEW x \in Allocations, NEW s \in {"RELEASED", "CONSUMED"},
         allocation[x].status = "ALLOCATED",
         allocation' = [allocation EXCEPT ![x].status = s]
  PROVE  /\ CommittedOf(allocation') \in Nat
         /\ CommittedOf(allocation') <= CommittedOf(allocation)
<1> DEFINE S == Committing(allocation)
           R == Committing(allocation')
           f == QuantityOf(allocation)
           g == QuantityOf(allocation')
<1>1. R \subseteq S
  BY DEF Committing, TypeOK, CommittingStatuses
<1>2. IsFiniteSet(S) /\ \A y \in S : f[y] \in Nat
  <2>1. S \subseteq Allocations
    BY DEF Committing
  <2> QED
    BY <2>1, CommittedIsNat
<1>3. f = g
  BY DEF QuantityOf, TypeOK
<1>4. SumFunctionOnSet(f, R) \in Nat /\ SumFunctionOnSet(f, R) <= SumFunctionOnSet(f, S)
  <2> HIDE DEF S, R, f
  <2>1. IsFiniteSet(R) /\ \A y \in R : f[y] \in Nat
    BY <1>1, <1>2, FS_Subset
  <2> QED
    BY <1>1, <1>2, <2>1, SumOfNat, SumOfPart
<1> QED
  BY <1>3, <1>4, CommittedIsSum

\* Every step keeps what is committed within what was accepted.
LEMMA StepKeepsAllocations == IInv /\ AllocationInv /\ [Next]_vars => AllocationInv'
<1> SUFFICES ASSUME IInv, AllocationInv, [Next]_vars PROVE AllocationInv'
  OBVIOUS
<1>0. /\ TypeOK /\ CommittedOf(allocation) \in Nat /\ lot \in LotRow
      /\ allocation' = allocation => CommittedOf(allocation)' = CommittedOf(allocation)
  BY CommittedIsNat DEF IInv, TypeOK
<1>1. ASSUME UNCHANGED <<lot, allocation>> PROVE AllocationInv'
  BY <1>0, <1>1 DEF AllocationInv, CommittedWithinAccepted
<1>2. ASSUME NEW t \in Tx, CommitPost(t) PROVE AllocationInv'
  <2>1. receipt = "DRAFT"
    BY <1>2, ReadyFacts, FullPlans DEF CommitPost, CommandKinds, ReadIsCurrent, Passes
  <2>2. lot.status = "NONE" /\ lot' = [lot EXCEPT !.status = "AWAITING_INSPECTION", !.quantity = Draft]
    BY <1>2, <2>1 DEF CommitPost, IInv, StatesAgree
  <2>3. lot'.accepted = lot.accepted /\ lot.status \notin Dispositions
    BY <1>0, <2>2 DEF LotRow, Dispositions
  <2> QED
    BY <1>0, <1>2, <2>3 DEF AllocationInv, CommittedWithinAccepted, CommitPost
<1>3. ASSUME NEW t \in Tx, CommitCorrect(t) PROVE AllocationInv'
  <2>1. lot'.accepted = lot.accepted /\ lot'.status = lot.status /\ allocation' = allocation
    BY <1>0, <1>3 DEF CommitCorrect, LotRow
  <2> QED
    BY <1>0, <2>1 DEF AllocationInv, CommittedWithinAccepted
<1>4. ASSUME NEW t \in Tx, CommitFinalize(t) PROVE AllocationInv'
  <2>1. /\ lot.status = "AWAITING_INSPECTION" /\ input[t].accepted \in 0..Shipped
        /\ input[t].disposition \in Dispositions
    <3>1. kind[t] = "finalize" /\ input[t] \in Requests["finalize"] /\ Passes(t)
          /\ Holds(t, "lot") /\ seen[t].lot = lot
      BY <1>4, ReadyFacts, FullPlans DEF CommitFinalize, CommandKinds, InspectionKinds, ReadIsCurrent
    <3> QED
      BY <3>1 DEF Passes, Requests
  <2>2. CommittedOf(allocation) <= 0
    BY <2>1 DEF AllocationInv, CommittedWithinAccepted, Dispositions
  <2>3. lot'.accepted = input[t].accepted /\ lot'.status = input[t].disposition
        /\ allocation' = allocation
    BY <1>0, <1>4 DEF CommitFinalize, LotRow
  <2> QED
    BY <1>0, <2>1, <2>2, <2>3, TransactionAssumption DEF AllocationInv, CommittedWithinAccepted
<1>5. ASSUME NEW t \in Tx, CommitAllocate(t) PROVE AllocationInv'
  <2>1. /\ kind[t] = "allocate" /\ input[t] \in Requests["allocate"] /\ Passes(t)
        /\ Holds(t, "lot") /\ seen[t].lot = lot /\ seen[t].committed = CommittedOf(allocation)
    BY <1>5, ReadyFacts, FullPlans DEF CommitAllocate, CommandKinds, LotKinds, ReadIsCurrent
  <2>2. CommittedOf(allocation) + input[t].quantity <= lot.accepted
    BY <2>1 DEF Passes
  <2>3. input[t].quantity \in Nat
    BY <2>1, TransactionAssumption DEF Requests, NoInput
  <2>4. CommittedOf(allocation') = CommittedOf(allocation) + input[t].quantity
    BY <1>0, <1>5, <2>3, AllocatingAdds DEF CommitAllocate
  <2>5. lot' = lot
    BY <1>5 DEF CommitAllocate
  <2> QED
    BY <2>2, <2>4, <2>5 DEF AllocationInv, CommittedWithinAccepted
<1>6. ASSUME NEW t \in Tx, CommitSettle(t) PROVE AllocationInv'
  <2>1. /\ kind[t] = "settle" /\ input[t] \in Requests["settle"] /\ Passes(t)
        /\ Holds(t, "allocation")
        /\ \A x \in input[t].of : seen[t].allocation = allocation[x].status
    BY <1>6, ReadyFacts, FullPlans DEF CommitSettle, CommandKinds, ReadIsCurrent
  <2>2. PICK x \in Allocations : input[t].of = {x} /\ input[t].target \in {"RELEASED", "CONSUMED"}
    BY <2>1, SettleNamesOne
  <2>3. allocation[x].status = "ALLOCATED"
    BY <2>1, <2>2 DEF Passes, CanTransitionAllocation
  <2>4. allocation' = [allocation EXCEPT ![x].status = input[t].target] /\ lot' = lot
    BY <1>6, <2>2 DEF CommitSettle
  <2>5. /\ CommittedOf(allocation') \in Nat
        /\ CommittedOf(allocation') <= CommittedOf(allocation)
    BY <1>0, <2>2, <2>3, <2>4, SettlingAddsNothing
  <2>6. lot.accepted \in Nat
    BY <1>0, TransactionAssumption DEF LotRow
  <2> QED
    BY <1>0, <2>4, <2>5, <2>6 DEF AllocationInv, CommittedWithinAccepted
<1>7. ASSUME NEW t \in Tx, Commit(t) PROVE AllocationInv'
  <2>1. CASE CommitRival(t) \/ CommitInspect(t) \/ CommitSave(t)
    BY <1>1, <2>1 DEF CommitRival, CommitInspect, CommitSave
  <2> QED
    BY <1>2, <1>3, <1>4, <1>5, <1>6, <1>7, <2>1 DEF Commit
<1>8. CASE \E t \in Tx, k \in Kinds : \E in \in Requests[k] : Begin(t, k, in)
  BY <1>1, <1>8 DEF Begin, rows
<1>9. ASSUME NEW t \in Tx, Acquire(t) \/ Refuse(t) \/ DeadlockAbort(t) PROVE AllocationInv'
  BY <1>1, <1>9 DEF Acquire, Refuse, DeadlockAbort, rows
<1>10. CASE UNCHANGED vars
  BY <1>1, <1>10 DEF vars
<1> QED
  BY <1>7, <1>8, <1>9, <1>10 DEF Next, Finish

\* However many allocations race for the lot, they never commit more of it
\* than the inspection accepted.
THEOREM NeverOvercommitted == Spec => []CommittedWithinAccepted
<1>1. Init => AllocationInv
  <2> SUFFICES ASSUME Init PROVE AllocationInv
    OBVIOUS
  <2>1. Committing(allocation) = {}
    BY DEF Init, Committing, CommittingStatuses
  <2>2. CommittedOf(allocation) = 0
    BY <2>1, CommittedIsSum, SumOfNone
  <2> QED
    BY <2>2 DEF AllocationInv, CommittedWithinAccepted, Init, NothingSeen
<1>2. AllocationInv => CommittedWithinAccepted
  BY DEF AllocationInv
<1> QED
  BY <1>1, <1>2, Invariance, StepKeepsAllocations, PTL DEF Spec

-----------------------------------------------------------------------------
(***************************************************************************)
(* Cycles of waits.  Two rankings of the rows: every plan but the          *)
(* correction's climbs the first, every plan but those that insert a row   *)
(* of the lot climbs the second.  Two transactions that climb the same     *)
(* ranking cannot wait for each other.                                     *)
(***************************************************************************)
LotFirst == [receipt |-> 0, line |-> 1, inspection |-> 2, lot |-> 3, project |-> 4, allocation |-> 5]

ProjectFirst == [receipt |-> 0, line |-> 1, project |-> 2, inspection |-> 3, lot |-> 4, allocation |-> 5]

Climbs(rank, k) ==
  \A m, n \in 1..Len(Plan[k]) : m < n => rank[Plan[k][m].row] < rank[Plan[k][n].row]

\* All commands but the correction take their locks in one order of the
\* rows, and all but inspecting and allocating in another.
LEMMA WhoClimbs ==
  /\ \A k \in CommandKinds \ {"correct"} : Climbs(LotFirst, k)
  /\ \A k \in CommandKinds \ {"inspect", "allocate"} : Climbs(ProjectFirst, k)
<1>1. \A rank : Climbs(rank, "save")
  BY PlanLengths DEF Climbs
<1>2. ASSUME NEW rank, NEW k \in {"rival", "inspect", "finalize", "allocate", "settle"},
             rank[Plan[k][1].row] < rank[Plan[k][2].row]
      PROVE  Climbs(rank, k)
  <2>1. Len(Plan[k]) = 2
    BY PlanLengths
  <2> QED
    BY <1>2, <2>1 DEF Climbs
<1>3. ASSUME NEW rank, NEW k \in {"post", "correct"},
             rank[Plan[k][1].row] < rank[Plan[k][2].row],
             rank[Plan[k][2].row] < rank[Plan[k][3].row],
             rank[Plan[k][1].row] < rank[Plan[k][3].row]
      PROVE  Climbs(rank, k)
  <2>1. Len(Plan[k]) = 3
    BY PlanLengths
  <2> QED
    BY <1>3, <2>1 DEF Climbs
<1>4. \A k \in {"rival", "inspect", "finalize", "allocate", "settle"} : Climbs(LotFirst, k)
  BY <1>2, PlanEntries DEF LotFirst, Lock
<1>5. \A k \in {"rival", "finalize", "settle"} : Climbs(ProjectFirst, k)
  BY <1>2, PlanEntries DEF ProjectFirst, Lock
<1>6. Climbs(LotFirst, "post") /\ Climbs(ProjectFirst, "post") /\ Climbs(ProjectFirst, "correct")
  BY <1>3, PlanEntries DEF LotFirst, ProjectFirst, Lock
<1> QED
  BY <1>1, <1>4, <1>5, <1>6 DEF CommandKinds, LotKinds, InspectionKinds

\* Transactions whose plans climb the same ranking do not wait for each other.
LEMMA ClimbersDoNotDeadlock ==
  ASSUME TypeOK, NEW t \in Tx, NEW u \in Tx, Blocks(u, t), Blocks(t, u),
         NEW rank, \A k \in CommandKinds : \A n \in 1..Len(Plan[k]) : rank[Plan[k][n].row] \in Int,
         Climbs(rank, kind[t]), Climbs(rank, kind[u])
  PROVE  FALSE
<1>1. ASSUME NEW v \in Tx, Waits(v), Climbs(rank, kind[v]), NEW held \in LocksOf(v)
      PROVE  rank[held.row] < rank[NextLock(v).row]
  <2>1. kind[v] \in CommandKinds
    BY <1>1 DEF Waits, Running, TypeOK
  <2>2. Len(Plan[kind[v]]) \in Nat /\ pos[v] \in Nat /\ pos[v] < Len(Plan[kind[v]])
    BY <1>1, <2>1, PlanLengths DEF Waits, TypeOK, CommandKinds, LotKinds, InspectionKinds
  <2>3. PICK n \in 1..pos[v] : held = Plan[kind[v]][n]
    BY <1>1 DEF LocksOf
  <2>4. n \in 1..Len(Plan[kind[v]]) /\ pos[v] + 1 \in 1..Len(Plan[kind[v]]) /\ n < pos[v] + 1
    BY <2>2
  <2> QED
    BY <1>1, <2>3, <2>4 DEF Climbs, NextLock
<1>2. PICK a \in LocksOf(u) : a.row = NextLock(t).row
  BY DEF Blocks, Conflict
<1>3. PICK b \in LocksOf(t) : b.row = NextLock(u).row
  BY DEF Blocks, Conflict
<1>4. Waits(t) /\ Waits(u)
  BY DEF Blocks
<1>5. rank[a.row] < rank[b.row] /\ rank[b.row] < rank[a.row]
  BY <1>1, <1>2, <1>3, <1>4
<1>6. \A v \in Tx : \A held \in LocksOf(v) : rank[held.row] \in Int
  <2> SUFFICES ASSUME NEW v \in Tx, NEW held \in LocksOf(v) PROVE rank[held.row] \in Int
    OBVIOUS
  <2>1. PICK n \in 1..pos[v] : held = Plan[kind[v]][n]
    BY DEF LocksOf
  <2>2. kind[v] \in CommandKinds /\ n \in 1..Len(Plan[kind[v]])
    BY DEF TypeOK, Running
  <2> QED
    BY <2>1, <2>2
<1>7. rank[a.row] \in Int /\ rank[b.row] \in Int
  BY <1>6
<1> QED
  BY <1>5, <1>7

\* Whatever runs concurrently, a cycle of two waits is one of a correction
\* with a command that inserts a row of the lot.
THEOREM CyclesAreKnown == Spec => []WaitCyclesAreKnown
<1>1. TypeOK => WaitCyclesAreKnown
  <2> SUFFICES ASSUME TypeOK, NEW t \in Tx, NEW u \in Tx, Blocks(u, t), Blocks(t, u)
               PROVE  \E c \in {t, u}, i \in {t, u} :
                        kind[c] = "correct" /\ kind[i] \in {"inspect", "allocate"}
    BY DEF WaitCyclesAreKnown
  <2>1. kind[t] \in CommandKinds /\ kind[u] \in CommandKinds
    BY DEF Blocks, Waits, Running, TypeOK
  <2>2. \A k \in CommandKinds : \A n \in 1..Len(Plan[k]) :
          LotFirst[Plan[k][n].row] \in Int /\ ProjectFirst[Plan[k][n].row] \in Int
    <3>1. \A k \in CommandKinds : \A n \in 1..Len(Plan[k]) : Plan[k][n].row \in
            {"receipt", "line", "inspection", "lot", "project", "allocation"}
      <4>1. ASSUME NEW k \in {"post", "correct"}, NEW n \in 1..Len(Plan[k])
            PROVE  n = 1 \/ n = 2 \/ n = 3
        <5>1. Len(Plan[k]) = 3
          BY PlanLengths
        <5> QED
          BY <5>1
      <4>2. ASSUME NEW k \in {"rival", "inspect", "finalize", "allocate", "settle"},
                   NEW n \in 1..Len(Plan[k])
            PROVE  n = 1 \/ n = 2
        <5>1. Len(Plan[k]) = 2
          BY PlanLengths
        <5> QED
          BY <5>1
      <4>3. \A n \in 1..Len(Plan["save"]) : n = 1
        BY PlanLengths
      <4>4. \A row, mode : Lock(row, mode).row = row
        BY DEF Lock
      <4>5. /\ \A k \in {"post", "correct"} : \A n \in 1..3 : Plan[k][n].row \in
                   {"receipt", "line", "lot", "project"}
            /\ \A k \in {"rival", "inspect", "finalize", "allocate", "settle"} :
                 \A n \in 1..2 : Plan[k][n].row \in
                   {"line", "inspection", "lot", "project", "allocation"}
            /\ Plan["save"][1].row = "inspection"
        <5>1. \A k \in {"post", "correct"} :
                /\ Plan[k][1].row \in {"receipt", "line", "lot", "project"}
                /\ Plan[k][2].row \in {"receipt", "line", "lot", "project"}
                /\ Plan[k][3].row \in {"receipt", "line", "lot", "project"}
          BY <4>4, PlanEntries
        <5>2. \A k \in {"rival", "inspect", "finalize", "allocate", "settle"} :
                /\ Plan[k][1].row \in {"line", "inspection", "lot", "project", "allocation"}
                /\ Plan[k][2].row \in {"line", "inspection", "lot", "project", "allocation"}
          BY <4>4, PlanEntries
        <5>3. Plan["save"][1].row = "inspection"
          BY <4>4, PlanEntries
        <5>4. \A n \in 1..3 : n = 1 \/ n = 2 \/ n = 3
          OBVIOUS
        <5>5. \A n \in 1..2 : n = 1 \/ n = 2
          OBVIOUS
        <5> QED
          BY <5>1, <5>2, <5>3, <5>4, <5>5
      <4>6. ASSUME NEW k \in CommandKinds, NEW n \in 1..Len(Plan[k])
            PROVE  Plan[k][n].row \in
                     {"receipt", "line", "inspection", "lot", "project", "allocation"}
        <5>1. CASE k \in {"post", "correct"}
          <6>1. n \in 1..3
            BY <4>1, <5>1
          <6> QED  BY <4>5, <5>1, <6>1
        <5>2. CASE k \in {"rival", "inspect", "finalize", "allocate", "settle"}
          <6>1. n \in 1..2
            BY <4>2, <5>2
          <6> QED  BY <4>5, <5>2, <6>1
        <5>3. CASE k = "save"
          <6>1. n = 1
            BY <4>3, <5>3
          <6> QED  BY <4>5, <5>3, <6>1
        <5> QED
          BY <5>1, <5>2, <5>3 DEF CommandKinds, LotKinds, InspectionKinds
      <4> QED  BY <4>6
    <3> QED
      BY <3>1 DEF LotFirst, ProjectFirst
  <2>3. kind[t] = "correct" \/ kind[u] = "correct"
    BY <2>1, <2>2, WhoClimbs, ClimbersDoNotDeadlock
  <2>4. kind[t] \in {"inspect", "allocate"} \/ kind[u] \in {"inspect", "allocate"}
    BY <2>1, <2>2, WhoClimbs, ClimbersDoNotDeadlock
  <2> QED
    BY <2>3, <2>4
<1> QED
  BY <1>1, TypeCorrect, PTL

-----------------------------------------------------------------------------
(***************************************************************************)
(* Refinement: a commit of a posting, a correction or a finalization is a  *)
(* Receive, Correct or Dispose of LotStock; every other step stutters.     *)
(***************************************************************************)
LEMMA InitRefines == Init => Stock!Init
BY DEF Init, Stock!Init, NothingSeen, LotEffective

\* A step that leaves the lot alone is a stutter of LotStock.
LEMMA StutterRefines == UNCHANGED lot => UNCHANGED Stock!vars
BY DEF Stock!vars, LotEffective

\* Posting is the receipt of LotStock.
LEMMA PostRefines ==
  ASSUME IInv, IInv', NEW t \in Tx, CommitPost(t)
  PROVE  Stock!Receive
<1>1. Holds(t, "receipt") /\ kind[t] = "post" /\ Passes(t) /\ seen[t].receipt = receipt
  BY ReadyFacts, FullPlans DEF CommitPost, CommandKinds, ReadIsCurrent
<1>2. lot.status = "NONE" /\ lot.adjusted = 0
  BY <1>1 DEF Passes, IInv, StatesAgree
<1>3. lot' = [lot EXCEPT !.status = "AWAITING_INSPECTION", !.quantity = Draft] /\ lot \in LotRow
  BY DEF CommitPost, IInv, TypeOK
<1>4. /\ lot'.status = "AWAITING_INSPECTION" /\ LotEffective(lot)' = Draft
      /\ UNCHANGED <<lot.accepted, lot.rejected, lot.quarantined>>
  BY <1>2, <1>3, TransactionAssumption DEF LotRow, LotEffective
<1> QED
  BY <1>2, <1>4, TransactionAssumption DEF Stock!Receive

\* Posting a correction is its correction.
LEMMA CorrectRefines ==
  ASSUME IInv, IInv', NEW t \in Tx, CommitCorrect(t)
  PROVE  Stock!Correct
<1>1. Holds(t, "lot") /\ kind[t] = "correct" /\ Passes(t) /\ seen[t].lot = lot
  BY ReadyFacts, FullPlans DEF CommitCorrect, CommandKinds, LotKinds, ReadIsCurrent
<1>2. lot.status = "AWAITING_INSPECTION"
  BY <1>1 DEF Passes, Correctable
<1>3. UNCHANGED <<lot.status, lot.accepted, lot.rejected, lot.quarantined>>
  BY DEF CommitCorrect, IInv, TypeOK, LotRow
<1>4. LotEffective(lot)' \in 0..Shipped
  <2>1. lot'.quantity \in Int /\ lot'.adjusted \in Int
    BY TransactionAssumption DEF IInv, TypeOK, LotRow
  <2>2. LotEffective(lot)' \in Int
    BY <2>1 DEF LotEffective
  <2>3. /\ received' \in 0..Shipped /\ others' \in Nat /\ LotEffective(lot)' >= 0
        /\ received' = LotEffective(lot)' + others'
    BY DEF IInv, TypeOK, LineConserved
  <2> QED
    BY <2>2, <2>3, TransactionAssumption
<1> QED
  BY <1>2, <1>3, <1>4 DEF Stock!Correct

\* Finalizing is its disposition.
LEMMA FinalizeRefines ==
  ASSUME IInv, IInv', NEW t \in Tx, CommitFinalize(t)
  PROVE  Stock!Dispose
<1>1. /\ Holds(t, "lot") /\ kind[t] = "finalize" /\ Passes(t) /\ seen[t].lot = lot
      /\ input[t] \in Requests["finalize"]
  BY ReadyFacts, FullPlans DEF CommitFinalize, CommandKinds, InspectionKinds, ReadIsCurrent
<1>2. /\ lot.status = "AWAITING_INSPECTION"
      /\ ValidDecision(LotEffective(lot), input[t].disposition, input[t].accepted, input[t].rejected)
  BY <1>1 DEF Passes
<1>3. /\ input[t].disposition \in Dispositions
      /\ input[t].accepted \in 0..Shipped /\ input[t].rejected \in 0..Shipped
  BY <1>1 DEF Requests
<1>4. LotEffective(lot) \in Nat
  BY EffectiveWithinShipped, TransactionAssumption
<1>5. /\ input[t].accepted \in 0..LotEffective(lot)
      /\ input[t].rejected \in 0..LotEffective(lot)
  BY <1>2, <1>3, <1>4, TransactionAssumption DEF ValidDecision
<1>6. /\ lot'.status = input[t].disposition
      /\ lot'.accepted = input[t].accepted /\ lot'.rejected = input[t].rejected
      /\ lot'.quarantined = Quarantined(LotEffective(lot), input[t].accepted, input[t].rejected)
      /\ lot'.quantity = lot.quantity /\ lot'.adjusted = lot.adjusted
  BY <1>1 DEF CommitFinalize, IInv, TypeOK, LotRow
<1>7. LotEffective(lot)' = LotEffective(lot)
  BY <1>6 DEF LotEffective
<1> QED
  BY <1>2, <1>3, <1>5, <1>6, <1>7
  DEF Stock!Dispose, Stock!Dispositions, Dispositions, Stock!AllocatableStatuses,
      AllocatableStatuses, Stock!ValidDecision, ValidDecision, Stock!Quarantined, Quarantined

\* Every step of a transaction is a step of LotStock or none at all.
LEMMA StepRefines == IInv /\ IInv' /\ [Next]_vars => [Stock!Next]_(Stock!vars)
<1> SUFFICES ASSUME IInv, IInv', [Next]_vars PROVE [Stock!Next]_(Stock!vars)
  OBVIOUS
<1>1. ASSUME NEW t \in Tx, CommitPost(t) PROVE Stock!Next
  BY <1>1, PostRefines DEF Stock!Next
<1>2. ASSUME NEW t \in Tx, CommitCorrect(t) PROVE Stock!Next
  BY <1>2, CorrectRefines DEF Stock!Next
<1>3. ASSUME NEW t \in Tx, CommitFinalize(t) PROVE Stock!Next
  BY <1>3, FinalizeRefines DEF Stock!Next
<1>4. ASSUME NEW t \in Tx, NEW k \in Kinds, NEW in \in Requests[k], Begin(t, k, in)
      PROVE  UNCHANGED lot
  BY <1>4 DEF Begin, rows
<1>5. ASSUME NEW t \in Tx, Acquire(t) \/ Refuse(t) \/ DeadlockAbort(t)
      PROVE  UNCHANGED lot
  BY <1>5 DEF Acquire, Refuse, DeadlockAbort, rows
<1>6. ASSUME NEW t \in Tx,
             CommitRival(t) \/ CommitInspect(t) \/ CommitSave(t)
               \/ CommitAllocate(t) \/ CommitSettle(t)
      PROVE  UNCHANGED lot
  BY <1>6 DEF CommitRival, CommitInspect, CommitSave, CommitAllocate, CommitSettle
<1>7. UNCHANGED vars => UNCHANGED lot
  BY DEF vars
<1> QED
  BY <1>1, <1>2, <1>3, <1>4, <1>5, <1>6, <1>7, StutterRefines DEF Next, Finish, Commit

\* Whatever the interleaving of the commands, the committed lot is a lot of
\* LotStock: received once, corrected only while it awaits inspection,
\* dispositioned on exactly its corrected quantity, and then frozen.
THEOREM Refinement == Spec => ImplementsLotStock
BY Invariance, InitRefines, StepRefines, PTL DEF Spec, ImplementsLotStock, Stock!Spec

-----------------------------------------------------------------------------
(***************************************************************************)
(* What LotStock promises of whatever implements it, and so of this lot.   *)
(***************************************************************************)
\* The statuses are told apart by name; stated once for the cases below.
LEMMA StatusCases ==
  /\ "NONE" \notin Stock!Dispositions
  /\ "AWAITING_INSPECTION" \notin Stock!Dispositions
  /\ Stock!LotStatuses = {"NONE", "AWAITING_INSPECTION"} \cup Stock!Dispositions
  /\ Stock!AllocatableStatuses \subseteq Stock!Dispositions
  /\ Stock!Dispositions \subseteq Stock!AllocatableStatuses \cup {"QUARANTINED", "REJECTED"}
BY DEF Stock!Dispositions, Stock!LotStatuses, Stock!AllocatableStatuses

\* A valid decision puts every unit of the lot in exactly one bucket, none of
\* them negative, and accepts nothing of a rejected lot.
LEMMA DecisionPartitions ==
  ASSUME NEW n \in Nat, NEW disposition \in Stock!Dispositions,
         NEW accepted1 \in 0..n, NEW rejected1 \in 0..n,
         Stock!ValidDecision(n, disposition, accepted1, rejected1)
  PROVE  /\ Stock!Quarantined(n, accepted1, rejected1) \in Nat
         /\ accepted1 + rejected1 + Stock!Quarantined(n, accepted1, rejected1) = n
         /\ accepted1 > 0 => disposition # "REJECTED"
BY DEF Stock!ValidDecision, Stock!Quarantined

\* The type invariant of LotStock: quantities stay natural and within the
\* limit.
THEOREM StockTypeCorrect == Stock!Spec => []Stock!TypeOK
<1>0. Shipped \in Nat
  BY TransactionAssumption
<1>1. Stock!Init => Stock!TypeOK
  BY <1>0 DEF Stock!Init, Stock!TypeOK, Stock!LotStatuses
<1>2. Stock!TypeOK /\ [Stock!Next]_(Stock!vars) => Stock!TypeOK'
  <2> SUFFICES ASSUME Stock!TypeOK, [Stock!Next]_(Stock!vars) PROVE Stock!TypeOK'
    OBVIOUS
  <2> USE <1>0 DEF Stock!TypeOK
  <2>1. CASE Stock!Receive
    BY <2>1, StatusCases DEF Stock!Receive
  <2>2. CASE Stock!Correct
    BY <2>2 DEF Stock!Correct
  <2>3. CASE Stock!Dispose
    BY <2>3, StatusCases, DecisionPartitions DEF Stock!Dispose
  <2>4. CASE UNCHANGED Stock!vars
    BY <2>4 DEF Stock!vars
  <2> QED
    BY <2>1, <2>2, <2>3, <2>4 DEF Stock!Next
<1> QED
  BY <1>1, <1>2, PTL DEF Stock!Spec

\* However receipts, corrections and decisions follow each other, LotStock
\* keeps the buckets of a dispositioned lot a partition of what was received
\* and corrected.
THEOREM StockBucketsPartition == Stock!Spec => []Stock!BucketsPartitionStock
<1>0. Shipped \in Nat
  BY TransactionAssumption
<1>1. Stock!Init => Stock!BucketsPartitionStock
  BY StatusCases DEF Stock!Init, Stock!BucketsPartitionStock
<1>2. Stock!TypeOK /\ Stock!BucketsPartitionStock /\ [Stock!Next]_(Stock!vars)
        => Stock!BucketsPartitionStock'
  <2> SUFFICES ASSUME Stock!TypeOK, Stock!BucketsPartitionStock, [Stock!Next]_(Stock!vars)
               PROVE  Stock!BucketsPartitionStock'
    OBVIOUS
  <2> USE <1>0 DEF Stock!TypeOK, Stock!BucketsPartitionStock
  <2>1. CASE Stock!Receive
    BY <2>1, StatusCases DEF Stock!Receive
  <2>2. CASE Stock!Correct
    BY <2>2, StatusCases DEF Stock!Correct
  <2>3. CASE Stock!Dispose
    BY <2>3, StatusCases, DecisionPartitions DEF Stock!Dispose
  <2>4. CASE UNCHANGED Stock!vars
    BY <2>4 DEF Stock!vars
  <2> QED
    BY <2>1, <2>2, <2>3, <2>4 DEF Stock!Next
<1> QED
  BY <1>1, <1>2, StockTypeCorrect, PTL DEF Stock!Spec

\* No step LotStock allows moves a lot that has been dispositioned.
THEOREM StockDecisionsAreFinal == Stock!Spec => Stock!DispositionIsFinal
<1>1. [Stock!Next]_(Stock!vars) => [lot.status \notin Stock!Dispositions]_(Stock!vars)
  BY StatusCases DEF Stock!Next, Stock!Receive, Stock!Correct, Stock!Dispose
<1> QED
  BY <1>1, PTL DEF Stock!Spec, Stock!DispositionIsFinal

\* In every interleaving the accepted, rejected and quarantined quantities of
\* the committed lot partition its corrected quantity once it is decided.
THEOREM BucketsPartitionLot == Spec => []Stock!BucketsPartitionStock
BY StockBucketsPartition, Refinement, PTL DEF ImplementsLotStock

\* In every interleaving the committed lot is frozen once it is decided.
THEOREM DecisionsAreFinal == Spec => Stock!DispositionIsFinal
BY StockDecisionsAreFinal, Refinement, PTL DEF ImplementsLotStock

=============================================================================
