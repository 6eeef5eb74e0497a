------------------------ MODULE MaterialFlow_proofs -------------------------
(***************************************************************************)
(* Proofs about the material flow for any number of notices, receipts,     *)
(* items, checks and allocations: its inductive invariant, the safety      *)
(* invariants that follow from it, that the triggers accept every step,    *)
(* that the history of any lot is one LotStock allows, and that the        *)
(* requirement status is in error only where a lot was emptied.            *)
(*                                                                         *)
(* The last part is about those who calculate from these tables: for any   *)
(* number of projects, events and loops of the readiness worker, a project *)
(* whose events are all processed has a batch that tells of its rows, and  *)
(* what a batch promises is true of the rows.  The two systems share no    *)
(* variable, only the calculation of the requirement status.               *)
(***************************************************************************)
EXTENDS MaterialStatus, ReadinessWorker, Sequences, SumTheorems, FiniteSetTheorems,
        SequenceTheorems, TLAPS

-----------------------------------------------------------------------------
(***************************************************************************)
(* The type invariant.                                                     *)
(***************************************************************************)
OrderRow == [status : OrderStatuses, revision : Revisions,
             ordered : [Revisions -> [Items -> Quantities]]]

AsnRow == [status : AsnStatuses, revision : 0..MaxRevision, shipped : [Items -> Quantities]]

ReceiptRow == [kind : {"NONE", "RECEIPT", "CORRECTION"}, status : {"NONE", "DRAFT", "POSTED"},
               asn : Asns \cup {NoAsn}, corrects : Receipts \cup {NoReceipt},
               delta : [Items -> Deltas]]

StockRow == [status : LotStatuses, quantity : Int, adjusted : Int,
             accepted : Int, rejected : Int, quarantined : Int]

InspectionRow == [status : {"NONE", "OPEN", "FINALIZED"},
                  disposition : {"NONE"} \cup Dispositions, received : Int,
                  checks : [Checks -> DefinitionStates], result : [Checks -> Results]]

AllocationRow == [status : AllocationStatuses, lot : Lots \cup {<<NoReceipt, 0>>},
                  quantity : Quantities, conditionalUse : BOOLEAN]

TypeOK ==
  /\ order \in OrderRow
  /\ asn \in [Asns -> AsnRow]
  /\ receipt \in [Receipts -> ReceiptRow]
  /\ lot \in [Lots -> StockRow]
  /\ definition \in [Items -> [Checks -> DefinitionStates]]
  /\ inspection \in [Lots -> InspectionRow]
  /\ allocation \in [Allocations -> AllocationRow]

(***************************************************************************)
(* What the rows of one table say about the rows of another.               *)
(***************************************************************************)
\* A notice ships a revision the order already has.
NoticeIsOfRevision ==
  \A a \in Asns :
    /\ asn[a].revision <= order.revision
    /\ asn[a].status = "NONE" => asn[a] = NewAsn

\* A receipt is of a notice that arrived; a correction is of a posted receipt
\* of that notice, and of lines that receipt has.
ReceiptIsOfNotice(r) ==
  /\ receipt[r].status = "NONE" => receipt[r] = NewReceipt
  /\ receipt[r].status # "NONE" =>
       /\ receipt[r].asn \in Asns
       /\ asn[receipt[r].asn].status = "ARRIVED"
  /\ receipt[r].kind = "RECEIPT" => \A i \in Items : receipt[r].delta[i] >= 0
  /\ receipt[r].kind = "CORRECTION" =>
       LET original == receipt[r].corrects IN
       /\ original \in Receipts
       /\ receipt[original].kind = "RECEIPT"
       /\ receipt[original].status = "POSTED"
       /\ receipt[original].asn = receipt[r].asn
       /\ \A i \in Items : receipt[r].delta[i] # 0 => receipt[original].delta[i] # 0

ReceiptsAreOfNotices == \A r \in Receipts : ReceiptIsOfNotice(r)

\* A lot exists from the posting of an original receipt line on.
LotIsOfReceipt ==
  \A r \in Receipts, i \in Items :
    /\ lot[<<r, i>>].status # "NONE" <=>
         receipt[r].kind = "RECEIPT" /\ receipt[r].status = "POSTED" /\ receipt[r].delta[i] # 0
    /\ lot[<<r, i>>].status = "NONE" => lot[<<r, i>>] = NewLot
    /\ Effective(<<r, i>>) >= 0

\* What is posted on a notice line is never negative and never more than it
\* ships.
PostedWithinShipped ==
  \A a \in Asns, i \in Items : 0 <= Posted(a, i) /\ Posted(a, i) <= asn[a].shipped[i]

IInv ==
  /\ TypeOK
  /\ NoticeIsOfRevision
  /\ ShippedWithinOrdered
  /\ ReceiptsAreOfNotices
  /\ LotIsOfReceipt
  /\ PostedWithinShipped
  /\ StockMatchesReceipts
  /\ InspectionDecidesLot

-----------------------------------------------------------------------------
(***************************************************************************)
(* Facts about the tables.                                                 *)
(***************************************************************************)
\* The bounds are positive, and the line of nothing is a line.
LEMMA Bounds ==
  /\ MaxRevision \in Nat /\ MaxRevision > 0
  /\ MaxOrdered \in Nat /\ MaxOrdered > 0
  /\ NoLines \in [Items -> Quantities]
  /\ NoLines \in [Items -> Deltas]
  /\ \A i \in Items : NoLines[i] = 0
<1>1. MaxRevision \in Nat \ {0} /\ MaxOrdered \in Nat \ {0}
  BY MaterialAssumption
<1>2. 0 \in Quantities /\ 0 \in Deltas
  BY <1>1 DEF Quantities, Deltas
<1> QED  BY <1>1, <1>2 DEF NoLines

\* A lot is a receipt and an item.
LEMMA LotsArePairs ==
  /\ \A r \in Receipts, i \in Items : <<r, i>> \in Lots /\ ItemOf(<<r, i>>) = i
  /\ \A l \in Lots : l[1] \in Receipts /\ ItemOf(l) \in Items /\ l = <<l[1], ItemOf(l)>>
BY DEF Lots, ItemOf

\* A conjunct of the invariant holds on where its tables stay as they are.
LEMMA Untouched ==
  ASSUME IInv
  PROVE  /\ UNCHANGED <<order, asn>> => NoticeIsOfRevision' /\ ShippedWithinOrdered'
         /\ UNCHANGED <<asn, receipt>> => ReceiptsAreOfNotices' /\ PostedWithinShipped'
         /\ UNCHANGED <<receipt, lot>> => LotIsOfReceipt' /\ StockMatchesReceipts'
         /\ UNCHANGED <<lot, inspection>> => InspectionDecidesLot'
<1>1. ASSUME UNCHANGED <<order, asn>> PROVE NoticeIsOfRevision' /\ ShippedWithinOrdered'
  BY <1>1 DEF IInv, NoticeIsOfRevision, ShippedWithinOrdered, Shipped
<1>2. ASSUME UNCHANGED <<asn, receipt>> PROVE ReceiptsAreOfNotices' /\ PostedWithinShipped'
  BY <1>2 DEF IInv, ReceiptsAreOfNotices, ReceiptIsOfNotice, PostedWithinShipped, Posted, PostedOn
<1>3. ASSUME UNCHANGED <<receipt, lot>> PROVE LotIsOfReceipt' /\ StockMatchesReceipts'
  BY <1>3 DEF IInv, LotIsOfReceipt, StockMatchesReceipts, Posted, PostedOn, Effective
<1>4. ASSUME UNCHANGED <<lot, inspection>> PROVE InspectionDecidesLot'
  BY <1>4 DEF IInv, InspectionDecidesLot, RequiredChecks
<1> QED  BY <1>1, <1>2, <1>3, <1>4

-----------------------------------------------------------------------------
(***************************************************************************)
(* The purchase order and its notices.                                     *)
(***************************************************************************)
LEMMA TransitionOrderKeeps ==
  ASSUME IInv, NEW target \in OrderStatuses, TransitionOrder(target)
  PROVE  IInv'
<1>1. order \in OrderRow /\ order' = [order EXCEPT !.status = target]
  BY DEF IInv, TypeOK, TransitionOrder
<1>2. order' \in OrderRow /\ order'.revision = order.revision /\ order'.ordered = order.ordered
  BY <1>1 DEF OrderRow
<1>3. UNCHANGED <<asn, receipt, lot, definition, inspection, allocation>>
  BY DEF TransitionOrder
<1>4. TypeOK'
  BY <1>2, <1>3 DEF IInv, TypeOK
<1>5. NoticeIsOfRevision' /\ ShippedWithinOrdered'
  BY <1>2, <1>3 DEF IInv, NoticeIsOfRevision, ShippedWithinOrdered, Shipped
<1> QED  BY <1>3, <1>4, <1>5, Untouched DEF IInv

\* A revision nothing was shipped of yet is shipped within any order.
LEMMA ReviseOrderKeeps ==
  ASSUME IInv, NEW q \in [Items -> Quantities], ReviseOrder(q)
  PROVE  IInv'
<1> DEFINE next == order.revision + 1
<1>1. /\ order \in OrderRow /\ order.revision < MaxRevision /\ order.revision \in Revisions
      /\ order' = [order EXCEPT !.status = "DRAFT", !.revision = next, !.ordered[next] = q]
  BY DEF IInv, TypeOK, OrderRow, ReviseOrder
<1>2. next \in Revisions /\ next \in Nat /\ order.revision \in Nat /\ order.revision < next
  BY <1>1, Bounds DEF Revisions
<1>3. UNCHANGED <<asn, receipt, lot, definition, inspection, allocation>>
  BY DEF ReviseOrder
<1>4. /\ order' \in OrderRow
      /\ order'.revision = next
      /\ order'.ordered = [order.ordered EXCEPT ![next] = q]
  <2> HIDE DEF next
  <2>1. "DRAFT" \in OrderStatuses
    BY DEF OrderStatuses
  <2> QED  BY <1>1, <1>2, <2>1 DEF OrderRow
<1>5. TypeOK'
  BY <1>3, <1>4 DEF IInv, TypeOK
<1>6. ASSUME NEW a \in Asns
      PROVE  asn[a].revision \in Nat /\ asn[a].revision <= order.revision
  BY <1>6, Bounds DEF IInv, TypeOK, AsnRow, NoticeIsOfRevision
<1>7. NoticeIsOfRevision'
  <2>1. SUFFICES ASSUME NEW a \in Asns
                 PROVE  asn[a].revision <= next /\ (asn[a].status = "NONE" => asn[a] = NewAsn)
    BY <1>3, <1>4 DEF NoticeIsOfRevision
  <2>2. asn[a].status = "NONE" => asn[a] = NewAsn
    BY DEF IInv, NoticeIsOfRevision
  <2>3. asn[a].revision <= next
    <3> HIDE DEF next
    <3> QED  BY <1>2, <1>6
  <2> QED  BY <2>2, <2>3
<1>8. ShippedWithinOrdered'
  <2>1. SUFFICES ASSUME NEW v \in Revisions, NEW i \in Items
                 PROVE  Shipped(v, i) <= order'.ordered[v][i]
    BY <1>3 DEF ShippedWithinOrdered, Shipped
  <2> HIDE DEF next
  <2>2. CASE v = next
    <3>1. {a \in Asns : asn[a].revision = v /\ asn[a].status # "CANCELLED"} = {}
      <4>1. ASSUME NEW a \in Asns PROVE asn[a].revision # v
        BY <1>2, <1>6, <2>2
      <4> QED  BY <4>1
    <3>2. Shipped(v, i) = 0
      BY <3>1, SumOfNone DEF Shipped
    <3>3. order'.ordered[v][i] = q[i]
      BY <1>1, <1>2, <1>4, <2>2 DEF OrderRow
    <3>4. q[i] \in Quantities
      OBVIOUS
    <3> QED  BY <3>2, <3>3, <3>4, Bounds DEF Quantities
  <2>3. CASE v # next
    <3>1. order'.ordered[v] = order.ordered[v]
      BY <1>1, <1>4, <2>3 DEF OrderRow
    <3> QED  BY <3>1 DEF IInv, ShippedWithinOrdered
  <2> QED  BY <2>2, <2>3
<1> QED  BY <1>3, <1>5, <1>7, <1>8, Untouched DEF IInv

\* What is posted on a notice line is an integer, whichever receipts count.
LEMMA PostedOnType ==
  ASSUME TypeOK, NEW a \in Asns, NEW i \in Items, NEW R \in SUBSET Receipts
  PROVE  PostedOn(R, a, i) \in Int
<1> DEFINE f == [r \in Receipts |-> receipt[r].delta[i]]
           S == {r \in R : receipt[r].asn = a /\ receipt[r].status = "POSTED"}
<1>1. IsFiniteSet(S)
  BY MaterialAssumption, FS_Subset
<1>2. \A r \in S : f[r] \in Int
  BY Bounds DEF TypeOK, ReceiptRow, Deltas
<1>3. SumFunctionOnSet(f, S) \in Int
  <2> HIDE DEF f, S
  <2> QED  BY <1>1, <1>2, SumType
<1> QED  BY <1>3 DEF PostedOn

\* What was posted on a notice line is an integer.
LEMMA PostedType ==
  ASSUME TypeOK, NEW a \in Asns, NEW i \in Items
  PROVE  Posted(a, i) \in Int
BY PostedOnType DEF Posted

\* What the notices ship of an order line is an integer.
LEMMA ShippedType ==
  ASSUME TypeOK, NEW v \in Revisions, NEW i \in Items
  PROVE  Shipped(v, i) \in Int
<1> DEFINE f == [a \in Asns |-> asn[a].shipped[i]]
           S == {a \in Asns : asn[a].revision = v /\ asn[a].status # "CANCELLED"}
<1>1. IsFiniteSet(S)
  BY MaterialAssumption, FS_Subset
<1>2. \A a \in S : f[a] \in Int
  BY Bounds DEF TypeOK, AsnRow, Quantities
<1>3. SumFunctionOnSet(f, S) \in Int
  <2> HIDE DEF f, S
  <2> QED  BY <1>1, <1>2, SumType
<1> QED  BY <1>3 DEF Shipped

\* A new notice adds to the line of its revision what was available to ship.
LEMMA CreateAsnKeeps ==
  ASSUME IInv, NEW a \in Asns, NEW q \in [Items -> Quantities], CreateAsn(a, q)
  PROVE  IInv'
<1> DEFINE row == [status |-> "DRAFT", revision |-> order.revision, shipped |-> q]
<1>1. /\ asn \in [Asns -> AsnRow] /\ asn[a].status = "NONE" /\ asn[a] = NewAsn
      /\ asn' = [asn EXCEPT ![a] = row]
      /\ order.revision \in Revisions
  BY DEF IInv, TypeOK, OrderRow, NoticeIsOfRevision, CreateAsn
<1>2. UNCHANGED <<order, receipt, lot, definition, inspection, allocation>>
  BY DEF CreateAsn
<1>3. row \in AsnRow /\ row.status = "DRAFT" /\ row.revision = order.revision
      /\ row.shipped = q
  BY <1>1, Bounds DEF AsnRow, AsnStatuses, Revisions
<1> HIDE DEF row
<1>4. /\ asn' \in [Asns -> AsnRow]
      /\ asn'[a] = row
      /\ \A b \in Asns \ {a} : asn'[b] = asn[b]
  BY <1>1, <1>3
<1>5. TypeOK'
  BY <1>2, <1>4 DEF IInv, TypeOK
<1>6. NoticeIsOfRevision'
  <2>1. SUFFICES ASSUME NEW b \in Asns
                 PROVE  /\ asn'[b].revision <= order.revision
                        /\ asn'[b].status = "NONE" => asn'[b] = NewAsn
    BY <1>2 DEF NoticeIsOfRevision
  <2>2. CASE b = a
    BY <1>1, <1>3, <1>4, <2>2, Bounds DEF Revisions
  <2>3. CASE b # a
    BY <1>4, <2>3 DEF IInv, NoticeIsOfRevision
  <2> QED  BY <2>2, <2>3
<1>7. ShippedWithinOrdered'
  <2>1. SUFFICES ASSUME NEW v \in Revisions, NEW i \in Items
                 PROVE  Shipped(v, i)' <= order.ordered[v][i]
    BY <1>2 DEF ShippedWithinOrdered
  <2> DEFINE f == [b \in Asns |-> asn[b].shipped[i]]
             g == [b \in Asns |-> asn'[b].shipped[i]]
             S == {b \in Asns : asn[b].revision = v /\ asn[b].status # "CANCELLED"}
             T == {b \in Asns : asn'[b].revision = v /\ asn'[b].status # "CANCELLED"}
  <2>2. Shipped(v, i) = SumFunctionOnSet(f, S) /\ Shipped(v, i)' = SumFunctionOnSet(g, T)
    BY DEF Shipped
  <2>3. a \notin S
    BY <1>1, Bounds DEF NewAsn, Revisions
  <2>4. IsFiniteSet(S) /\ (\A b \in S : f[b] = g[b]) /\ (\A b \in S : g[b] \in Int)
    <3>1. IsFiniteSet(S)
      BY MaterialAssumption, FS_Subset
    <3>2. \A b \in Asns : g[b] \in Int
      BY <1>4, Bounds DEF AsnRow, Quantities
    <3>3. \A b \in S : f[b] = g[b]
      BY <1>4, <2>3
    <3> QED  BY <3>1, <3>2, <3>3
  <2>5. g[a] = q[i] /\ q[i] \in Int /\ q[i] >= 0
    BY <1>3, <1>4, Bounds DEF Quantities
  <2>6. SumFunctionOnSet(g, S) = SumFunctionOnSet(f, S)
    <3> HIDE DEF f, g, S, T
    <3> QED  BY <2>4, SumSame
  <2>7. Shipped(v, i) \in Int /\ Shipped(v, i) <= order.ordered[v][i]
    BY ShippedType DEF IInv, ShippedWithinOrdered
  <2>8. CASE v = order.revision
    <3>1. T = S \cup {a}
      BY <1>3, <1>4, <2>8
    <3>2. SumFunctionOnSet(g, S \cup {a}) = SumFunctionOnSet(g, S) + g[a]
      <4> HIDE DEF f, g, S, T
      <4> QED  BY <2>3, <2>4, <2>5, SumWith
    <3>3. Shipped(v, i)' = Shipped(v, i) + q[i]
      BY <2>2, <2>5, <2>6, <3>1, <3>2
    <3>4. q[i] > 0 => Shipped(v, i) + q[i] <= order.ordered[v][i]
      BY <2>8 DEF CreateAsn, AvailableToShip
    <3> DEFINE was == Shipped(v, i)
               is == Shipped(v, i)'
               bound == order.ordered[v][i]
    <3>5. is = was + q[i] /\ (q[i] > 0 => was + q[i] <= bound)
      BY <3>3, <3>4
    <3>6. is <= bound
      <4> HIDE DEF was, is, bound
      <4>1. was \in Int /\ was <= bound
        BY <2>7 DEF was, bound
      <4>2. CASE q[i] > 0
        BY <3>5, <4>2
      <4>3. CASE q[i] = 0
        BY <3>5, <4>1, <4>3
      <4> QED  BY <2>5, <4>2, <4>3
    <3> QED  BY <3>6
  <2>9. CASE v # order.revision
    <3>1. T = S
      BY <1>3, <1>4, <2>3, <2>9
    <3> QED  BY <2>2, <2>6, <2>7, <3>1
  <2> QED  BY <2>8, <2>9
<1>8. ReceiptsAreOfNotices'
  <2>1. \A r \in Receipts : receipt[r].status # "NONE" => receipt[r].asn # a
    BY <1>1 DEF IInv, ReceiptsAreOfNotices, ReceiptIsOfNotice
  <2>2. \A r \in Receipts : ReceiptIsOfNotice(r)
    BY DEF IInv, ReceiptsAreOfNotices
  <2>3. SUFFICES ASSUME NEW r \in Receipts PROVE ReceiptIsOfNotice(r)'
    BY DEF ReceiptsAreOfNotices
  <2> QED  BY <1>2, <1>4, <2>1, <2>2 DEF ReceiptIsOfNotice
<1>9. PostedWithinShipped'
  <2>1. SUFFICES ASSUME NEW b \in Asns, NEW i \in Items
                 PROVE  0 <= Posted(b, i) /\ Posted(b, i) <= asn'[b].shipped[i]
    BY <1>2 DEF PostedWithinShipped, Posted, PostedOn
  <2>2. 0 <= Posted(b, i) /\ Posted(b, i) <= asn[b].shipped[i]
    BY DEF IInv, PostedWithinShipped
  <2>3. CASE b # a
    BY <1>4, <2>2, <2>3
  <2>4. CASE b = a
    <3>1. asn[b].shipped[i] = 0
      BY <1>1, <2>4, Bounds DEF NewAsn
    <3>2. asn'[b].shipped[i] = q[i] /\ q[i] \in Nat
      BY <1>3, <1>4, <2>4, Bounds DEF Quantities
    <3>3. Posted(b, i) \in Int
      BY PostedType DEF IInv
    <3> QED  BY <2>2, <3>1, <3>2, <3>3
  <2> QED  BY <2>3, <2>4
<1> QED  BY <1>2, <1>5, <1>6, <1>7, <1>8, <1>9, Untouched DEF IInv

\* Of a notice only the status moves; a cancelled one ships nothing, and one
\* that arrived stays so.
LEMMA TransitionAsnKeeps ==
  ASSUME IInv, NEW a \in Asns, NEW target \in AsnStatuses, TransitionAsn(a, target)
  PROVE  IInv'
<1> DEFINE row == [asn[a] EXCEPT !.status = target]
<1>1. /\ asn \in [Asns -> AsnRow] /\ asn[a] \in AsnRow
      /\ asn[a].status \in {"DRAFT", "SUBMITTED", "IN_TRANSIT"}
      /\ target # "NONE"
      /\ asn' = [asn EXCEPT ![a] = row]
  BY DEF IInv, TypeOK, TransitionAsn, CanTransitionShipment
<1>2. UNCHANGED <<order, receipt, lot, definition, inspection, allocation>>
  BY DEF TransitionAsn
<1>3. row \in AsnRow /\ row.status = target /\ row.revision = asn[a].revision
      /\ row.shipped = asn[a].shipped
  BY <1>1 DEF AsnRow
<1> HIDE DEF row
<1>4. /\ asn' \in [Asns -> AsnRow]
      /\ asn'[a] = row
      /\ \A b \in Asns \ {a} : asn'[b] = asn[b]
      /\ \A b \in Asns : asn'[b].revision = asn[b].revision /\ asn'[b].shipped = asn[b].shipped
  BY <1>1, <1>3
<1>5. TypeOK'
  BY <1>2, <1>4 DEF IInv, TypeOK
<1>6. NoticeIsOfRevision'
  BY <1>1, <1>2, <1>3, <1>4 DEF IInv, NoticeIsOfRevision
<1>7. ShippedWithinOrdered'
  <2>1. SUFFICES ASSUME NEW v \in Revisions, NEW i \in Items
                 PROVE  Shipped(v, i)' <= order.ordered[v][i]
    BY <1>2 DEF ShippedWithinOrdered
  <2> DEFINE f == [b \in Asns |-> asn[b].shipped[i]]
             g == [b \in Asns |-> asn'[b].shipped[i]]
             S == {b \in Asns : asn[b].revision = v /\ asn[b].status # "CANCELLED"}
             T == {b \in Asns : asn'[b].revision = v /\ asn'[b].status # "CANCELLED"}
  <2>2. Shipped(v, i) = SumFunctionOnSet(f, S) /\ Shipped(v, i)' = SumFunctionOnSet(g, T)
    BY DEF Shipped
  <2>3. f = g
    BY <1>4
  <2>4. T \in SUBSET S
    BY <1>1, <1>3, <1>4
  <2>5. IsFiniteSet(S) /\ (\A b \in S : f[b] \in Nat)
    BY MaterialAssumption, FS_Subset, Bounds DEF IInv, TypeOK, AsnRow, Quantities
  <2>6. SumFunctionOnSet(f, T) <= SumFunctionOnSet(f, S)
        /\ SumFunctionOnSet(f, T) \in Nat /\ SumFunctionOnSet(f, S) \in Nat
    <3> HIDE DEF f, g, S, T
    <3>1. IsFiniteSet(T) /\ (\A b \in T : f[b] \in Nat)
      BY <2>4, <2>5, FS_Subset
    <3> QED  BY <2>4, <2>5, <3>1, SumOfPart, SumOfNat
  <2>7. Shipped(v, i) <= order.ordered[v][i] /\ order.ordered[v][i] \in Nat
    BY Bounds DEF IInv, ShippedWithinOrdered, TypeOK, OrderRow, Quantities
  <2> DEFINE was == Shipped(v, i)
             is == Shipped(v, i)'
             bound == order.ordered[v][i]
  <2>8. is <= was /\ is \in Nat /\ was \in Nat
    BY <2>2, <2>3, <2>6
  <2>9. is <= bound
    <3>1. was <= bound /\ bound \in Nat
      BY <2>7
    <3> HIDE DEF was, is, bound
    <3> QED  BY <2>8, <3>1
  <2> QED  BY <2>9
<1>8. ReceiptsAreOfNotices'
  <2>1. \A r \in Receipts : receipt[r].status # "NONE" => receipt[r].asn # a
    BY <1>1 DEF IInv, ReceiptsAreOfNotices, ReceiptIsOfNotice
  <2>2. \A r \in Receipts : ReceiptIsOfNotice(r)
    BY DEF IInv, ReceiptsAreOfNotices
  <2>3. SUFFICES ASSUME NEW r \in Receipts PROVE ReceiptIsOfNotice(r)'
    BY DEF ReceiptsAreOfNotices
  <2> QED  BY <1>2, <1>4, <2>1, <2>2 DEF ReceiptIsOfNotice
<1>9. PostedWithinShipped'
  BY <1>2, <1>4 DEF IInv, PostedWithinShipped, Posted, PostedOn
<1> QED  BY <1>2, <1>5, <1>6, <1>7, <1>8, <1>9, Untouched DEF IInv

-----------------------------------------------------------------------------
(***************************************************************************)
(* Draft receipts.                                                         *)
(***************************************************************************)
\* The sum of what the lots of a notice line hold.
Stocked(a, i) ==
  SumFunctionOnSet([r \in Receipts |-> Effective(<<r, i>>)],
                   {r \in Receipts : receipt[r].asn = a})

\* What a lot holds is an integer, and a receipt that is not posted has none.
LEMMA EffectiveType ==
  ASSUME IInv, NEW r \in Receipts, NEW i \in Items
  PROVE  /\ lot[<<r, i>>] \in StockRow
         /\ Effective(<<r, i>>) \in Int
         /\ lot[<<r, i>>].status = "NONE" => lot[<<r, i>>] = NewLot /\ Effective(<<r, i>>) = 0
         /\ receipt[r].status # "POSTED" => lot[<<r, i>>].status = "NONE"
<1> DEFINE row == lot[<<r, i>>]
<1>1. row \in StockRow
  BY LotsArePairs DEF IInv, TypeOK
<1>2. /\ row.status = "NONE" => row = NewLot
      /\ receipt[r].status # "POSTED" => row.status = "NONE"
  BY DEF IInv, LotIsOfReceipt
<1>3. row.quantity \in Int /\ row.adjusted \in Int
  BY <1>1 DEF StockRow
<1>4. Effective(<<r, i>>) = row.quantity + row.adjusted
  BY DEF Effective
<1>5. NewLot.quantity = 0 /\ NewLot.adjusted = 0
  BY DEF NewLot
<1> HIDE DEF row
<1>6. Effective(<<r, i>>) \in Int
  BY <1>3, <1>4
<1>7. row.status = "NONE" => row = NewLot /\ Effective(<<r, i>>) = 0
  BY <1>2, <1>4, <1>5
<1> QED  BY <1>1, <1>2, <1>6, <1>7 DEF row

\* A draft posts nothing and has no lots.
LEMMA DraftKeeps ==
  ASSUME IInv, NEW r \in Receipts, NEW row \in ReceiptRow, receipt[r].status = "NONE",
         row.status = "DRAFT", row.asn \in Asns, asn[row.asn].status = "ARRIVED",
         row.kind = "RECEIPT" => \A i \in Items : row.delta[i] >= 0,
         row.kind = "CORRECTION" =>
           /\ row.corrects \in Receipts
           /\ receipt[row.corrects].kind = "RECEIPT"
           /\ receipt[row.corrects].status = "POSTED"
           /\ receipt[row.corrects].asn = row.asn
           /\ \A i \in Items : row.delta[i] # 0 => receipt[row.corrects].delta[i] # 0,
         receipt' = [receipt EXCEPT ![r] = row],
         UNCHANGED <<order, asn, lot, definition, inspection, allocation>>
  PROVE  IInv'
<1>1. /\ receipt \in [Receipts -> ReceiptRow]
      /\ receipt' \in [Receipts -> ReceiptRow]
      /\ receipt'[r] = row
      /\ \A s \in Receipts \ {r} : receipt'[s] = receipt[s]
      /\ receipt[r] = NewReceipt
      /\ receipt[r].asn = NoAsn
  BY DEF IInv, TypeOK, ReceiptsAreOfNotices, ReceiptIsOfNotice, NewReceipt
<1>2. TypeOK'
  BY <1>1 DEF IInv, TypeOK
<1>3. ReceiptsAreOfNotices'
  <2>1. SUFFICES ASSUME NEW s \in Receipts PROVE ReceiptIsOfNotice(s)'
    BY DEF ReceiptsAreOfNotices
  <2>2. ReceiptIsOfNotice(s)
    BY DEF IInv, ReceiptsAreOfNotices
  <2>3. CASE s # r
    <3>1. receipt'[s] = receipt[s]
      BY <1>1, <2>3
    <3>2. receipt[s].kind = "CORRECTION" => receipt'[receipt[s].corrects] = receipt[receipt[s].corrects]
      BY <1>1, <2>2 DEF ReceiptIsOfNotice
    <3> QED  BY <2>2, <3>1, <3>2 DEF ReceiptIsOfNotice
  <2>4. CASE s = r
    <3>1. receipt'[s] = row
      BY <1>1, <2>4
    <3>2. row.kind = "CORRECTION" => receipt'[row.corrects] = receipt[row.corrects]
      BY <1>1
    <3> QED  BY <3>1, <3>2 DEF ReceiptIsOfNotice
  <2> QED  BY <2>3, <2>4
<1>4. LotIsOfReceipt'
  <2> SUFFICES ASSUME NEW s \in Receipts, NEW i \in Items
               PROVE  /\ lot'[<<s, i>>].status # "NONE" <=>
                           /\ receipt'[s].kind = "RECEIPT" /\ receipt'[s].status = "POSTED"
                           /\ receipt'[s].delta[i] # 0
                      /\ lot'[<<s, i>>].status = "NONE" => lot'[<<s, i>>] = NewLot
                      /\ Effective(<<s, i>>)' >= 0
    BY DEF LotIsOfReceipt
  <2>1. lot'[<<s, i>>] = lot[<<s, i>>] /\ Effective(<<s, i>>)' = Effective(<<s, i>>)
    BY <1>1 DEF Effective
  <2>2. /\ lot[<<s, i>>].status # "NONE" <=>
             receipt[s].kind = "RECEIPT" /\ receipt[s].status = "POSTED" /\ receipt[s].delta[i] # 0
        /\ lot[<<s, i>>].status = "NONE" => lot[<<s, i>>] = NewLot
        /\ Effective(<<s, i>>) >= 0
    BY DEF IInv, LotIsOfReceipt
  <2>3. CASE s # r
    <3>1. receipt'[s] = receipt[s]
      BY <1>1, <2>3
    <3> QED  BY <2>1, <2>2, <3>1
  <2>4. CASE s = r
    <3>1. receipt'[s].status # "POSTED" /\ receipt[s].status # "POSTED"
      BY <1>1, <2>4 DEF NewReceipt
    <3> QED  BY <2>1, <2>2, <3>1
  <2> QED  BY <2>3, <2>4
<1>5. ASSUME NEW a \in Asns, NEW i \in Items
      PROVE  Posted(a, i)' = Posted(a, i)
  <2> DEFINE f == [s \in Receipts |-> receipt[s].delta[i]]
             g == [s \in Receipts |-> receipt'[s].delta[i]]
             S == {s \in Receipts : receipt[s].asn = a /\ receipt[s].status = "POSTED"}
             T == {s \in Receipts : receipt'[s].asn = a /\ receipt'[s].status = "POSTED"}
  <2>1. S = T /\ r \notin S
    BY <1>1
  <2>2. IsFiniteSet(S) /\ (\A s \in S : f[s] = g[s])
    <3>1. IsFiniteSet(S)
      BY MaterialAssumption, FS_Subset
    <3>2. \A s \in S : f[s] = g[s]
      BY <1>1, <2>1
    <3> QED  BY <3>1, <3>2
  <2>3. SumFunctionOnSet(f, S) = SumFunctionOnSet(g, S)
    <3> HIDE DEF f, g, S, T
    <3> QED  BY <2>2, SumSame
  <2> QED  BY <2>1, <2>3 DEF Posted, PostedOn
<1>6. PostedWithinShipped'
  <2>1. SUFFICES ASSUME NEW a \in Asns, NEW i \in Items
                 PROVE  0 <= Posted(a, i)' /\ Posted(a, i)' <= asn[a].shipped[i]
    BY DEF PostedWithinShipped
  <2> QED  BY <1>5 DEF IInv, PostedWithinShipped
<1>7. StockMatchesReceipts'
  <2>1. SUFFICES ASSUME NEW a \in Asns, NEW i \in Items
                 PROVE  Posted(a, i)' = Stocked(a, i)'
    BY DEF StockMatchesReceipts, Stocked
  <2> DEFINE f == [s \in Receipts |-> Effective(<<s, i>>)]
             S == {s \in Receipts : receipt[s].asn = a}
             T == {s \in Receipts : receipt'[s].asn = a}
  <2>2. Stocked(a, i) = SumFunctionOnSet(f, S) /\ Stocked(a, i)' = SumFunctionOnSet(f, T)
    BY DEF Stocked, Effective
  <2>3. IsFiniteSet(S) /\ (\A s \in S : f[s] \in Int)
    <3>1. IsFiniteSet(S)
      BY MaterialAssumption, FS_Subset
    <3>2. \A s \in S : f[s] \in Int
      BY EffectiveType
    <3> QED  BY <3>1, <3>2
  <2>4. r \notin S /\ f[r] = 0
    BY <1>1, MaterialAssumption, EffectiveType
  <2>5. T = S \/ T = S \cup {r}
    <3>1. \A s \in Receipts : s # r => (s \in T <=> s \in S)
      BY <1>1
    <3>2. S \subseteq Receipts /\ T \subseteq Receipts
      OBVIOUS
    <3> HIDE DEF f, S, T
    <3>3. CASE r \in T
      <4>1. T = S \cup {r}
        BY <3>1, <3>2, <3>3, <2>4
      <4> QED  BY <4>1
    <3>4. CASE r \notin T
      <4>1. T = S
        BY <3>1, <3>2, <3>4, <2>4
      <4> QED  BY <4>1
    <3> QED  BY <3>3, <3>4
  <2>6. SumFunctionOnSet(f, S) = SumFunctionOnSet(f, T)
    <3> HIDE DEF f, S, T
    <3>1. CASE T = S
      BY <3>1
    <3>2. CASE T = S \cup {r}
      <4>1. SumFunctionOnSet(f, S \cup {r}) = SumFunctionOnSet(f, S) + f[r]
        BY <2>3, <2>4, SumWith
      <4>2. SumFunctionOnSet(f, S) \in Int
        BY <2>3, SumType
      <4> QED  BY <2>4, <3>2, <4>1, <4>2
    <3> QED  BY <2>5, <3>1, <3>2
  <2>7. Posted(a, i) = Stocked(a, i)
    BY DEF IInv, StockMatchesReceipts, Stocked
  <2> QED  BY <1>5, <2>2, <2>6, <2>7
<1> QED  BY <1>2, <1>3, <1>4, <1>6, <1>7, Untouched DEF IInv

\* A new draft holds nothing, and no correction refers to it yet.
LEMMA CreateReceiptKeeps ==
  ASSUME IInv, NEW r \in Receipts, NEW a \in Asns, NEW q \in [Items -> Quantities],
         CreateReceipt(r, a, q)
  PROVE  IInv'
<1> DEFINE row == [kind |-> "RECEIPT", status |-> "DRAFT", asn |-> a,
                   corrects |-> NoReceipt, delta |-> q]
<1>1. /\ receipt[r].status = "NONE" /\ asn[a].status = "ARRIVED"
      /\ receipt' = [receipt EXCEPT ![r] = row]
      /\ UNCHANGED <<order, asn, lot, definition, inspection, allocation>>
  BY DEF CreateReceipt
<1>2. q \in [Items -> Deltas] /\ \A i \in Items : q[i] >= 0
  BY Bounds DEF Quantities, Deltas
<1>3. row \in ReceiptRow /\ row.kind = "RECEIPT" /\ row.status = "DRAFT" /\ row.asn = a
      /\ row.delta = q
  BY <1>2 DEF ReceiptRow
<1> HIDE DEF row
<1> QED  BY <1>1, <1>2, <1>3, DraftKeeps

\* A correction refers to a posted receipt of the same notice.
LEMMA CreateCorrectionKeeps ==
  ASSUME IInv, NEW r \in Receipts, NEW original \in Receipts, NEW d \in [Items -> Deltas],
         CreateCorrection(r, original, d)
  PROVE  IInv'
<1> DEFINE a == receipt[original].asn
           row == [kind |-> "CORRECTION", status |-> "DRAFT", asn |-> a,
                   corrects |-> original, delta |-> d]
<1>1. /\ receipt[r].status = "NONE"
      /\ receipt[original].kind = "RECEIPT" /\ receipt[original].status = "POSTED"
      /\ \A i \in Items : d[i] # 0 => receipt[original].delta[i] # 0
      /\ receipt' = [receipt EXCEPT ![r] = row]
      /\ UNCHANGED <<order, asn, lot, definition, inspection, allocation>>
  BY DEF CreateCorrection
<1>2. a \in Asns /\ asn[a].status = "ARRIVED"
  BY <1>1 DEF IInv, ReceiptsAreOfNotices, ReceiptIsOfNotice
<1>3. row \in ReceiptRow /\ row.kind = "CORRECTION" /\ row.status = "DRAFT" /\ row.asn = a
      /\ row.corrects = original /\ row.delta = d
  BY <1>2 DEF ReceiptRow
<1> HIDE DEF row
<1> QED  BY <1>1, <1>2, <1>3, DraftKeeps

-----------------------------------------------------------------------------
(***************************************************************************)
(* Posting.                                                                *)
(***************************************************************************)
\* Posting a receipt changes its status alone.
LEMMA PostingIsOfOne ==
  ASSUME IInv, NEW r \in Receipts, PostingChecks(r),
         receipt' = [receipt EXCEPT ![r].status = "POSTED"]
  PROVE  /\ receipt' \in [Receipts -> ReceiptRow]
         /\ receipt[r].status = "DRAFT"
         /\ receipt'[r].status = "POSTED"
         /\ \A s \in Receipts \ {r} : receipt'[s] = receipt[s]
         /\ \A s \in Receipts : /\ receipt'[s].kind = receipt[s].kind
                                /\ receipt'[s].asn = receipt[s].asn
                                /\ receipt'[s].corrects = receipt[s].corrects
                                /\ receipt'[s].delta = receipt[s].delta
         /\ receipt[r].asn \in Asns
<1> DEFINE row == [receipt[r] EXCEPT !.status = "POSTED"]
<1>1. /\ receipt \in [Receipts -> ReceiptRow] /\ receipt[r] \in ReceiptRow
      /\ receipt' = [receipt EXCEPT ![r] = row]
      /\ receipt[r].status = "DRAFT"
  BY DEF IInv, TypeOK, PostingChecks
<1>2. row \in ReceiptRow /\ row.status = "POSTED" /\ row.kind = receipt[r].kind
      /\ row.asn = receipt[r].asn /\ row.corrects = receipt[r].corrects
      /\ row.delta = receipt[r].delta
  BY <1>1 DEF ReceiptRow
<1>3. receipt[r].asn \in Asns
  BY <1>1 DEF IInv, ReceiptsAreOfNotices, ReceiptIsOfNotice
<1> HIDE DEF row
<1>4. receipt' \in [Receipts -> ReceiptRow] /\ receipt'[r] = row
      /\ \A s \in Receipts \ {r} : receipt'[s] = receipt[s]
  BY <1>1, <1>2
<1> QED  BY <1>1, <1>2, <1>3, <1>4

\* It adds the receipt's line to what is posted on the notice's line.
LEMMA PostingAdds ==
  ASSUME IInv, NEW r \in Receipts, PostingChecks(r),
         receipt' = [receipt EXCEPT ![r].status = "POSTED"],
         NEW a \in Asns, NEW i \in Items
  PROVE  /\ receipt[r].asn = a => Posted(a, i)' = Posted(a, i) + receipt[r].delta[i]
         /\ receipt[r].asn = a => Posted(a, i) = ReceivedBesides(r, i)
         /\ receipt[r].asn # a => Posted(a, i)' = Posted(a, i)
<1> DEFINE f == [s \in Receipts |-> receipt[s].delta[i]]
           g == [s \in Receipts |-> receipt'[s].delta[i]]
           S == {s \in Receipts : receipt[s].asn = a /\ receipt[s].status = "POSTED"}
           T == {s \in Receipts : receipt'[s].asn = a /\ receipt'[s].status = "POSTED"}
           U == {s \in Receipts \ {r} : receipt[s].asn = a /\ receipt[s].status = "POSTED"}
<1>1. Posted(a, i) = SumFunctionOnSet(f, S) /\ Posted(a, i)' = SumFunctionOnSet(g, T)
  BY DEF Posted, PostedOn
<1>2. f = g /\ f[r] = receipt[r].delta[i]
  BY PostingIsOfOne
<1>3. r \notin S /\ S = U
  BY PostingIsOfOne
<1>4. IsFiniteSet(S) /\ (\A s \in S : f[s] \in Int) /\ f[r] \in Int
  <2>1. IsFiniteSet(S)
    BY MaterialAssumption, FS_Subset
  <2>2. \A s \in Receipts : f[s] \in Int
    BY Bounds DEF IInv, TypeOK, ReceiptRow, Deltas
  <2> QED  BY <2>1, <2>2
<1>5. ASSUME receipt[r].asn = a
      PROVE  Posted(a, i)' = Posted(a, i) + receipt[r].delta[i]
  <2>1. T = S \cup {r}
    BY <1>5, PostingIsOfOne
  <2>2. SumFunctionOnSet(f, S \cup {r}) = SumFunctionOnSet(f, S) + f[r]
    <3> HIDE DEF f, g, S, T
    <3> QED  BY <1>3, <1>4, SumWith
  <2> QED  BY <1>1, <1>2, <2>1, <2>2
<1>6. ASSUME receipt[r].asn = a
      PROVE  Posted(a, i) = ReceivedBesides(r, i)
  BY <1>3, <1>6 DEF ReceivedBesides, PostedOn, Posted
<1>7. ASSUME receipt[r].asn # a
      PROVE  Posted(a, i)' = Posted(a, i)
  <2>1. T = S
    BY <1>7, PostingIsOfOne
  <2> QED  BY <1>1, <1>2, <2>1
<1> QED  BY <1>5, <1>6, <1>7

\* It leaves the notice's lines within what the notice ships.
LEMMA PostingFits ==
  ASSUME IInv, NEW r \in Receipts, PostingChecks(r), UNCHANGED asn,
         receipt' = [receipt EXCEPT ![r].status = "POSTED"]
  PROVE  PostedWithinShipped'
<1>1. SUFFICES ASSUME NEW a \in Asns, NEW i \in Items
               PROVE  0 <= Posted(a, i)' /\ Posted(a, i)' <= asn[a].shipped[i]
  BY DEF PostedWithinShipped
<1>2. 0 <= Posted(a, i) /\ Posted(a, i) <= asn[a].shipped[i] /\ Posted(a, i) \in Int
  BY PostedType DEF IInv, PostedWithinShipped
<1>3. CASE receipt[r].asn # a
  BY <1>2, <1>3, PostingAdds
<1>4. CASE receipt[r].asn = a
  <2>1. Posted(a, i)' = Posted(a, i) + receipt[r].delta[i] /\ Posted(a, i) = ReceivedBesides(r, i)
    BY <1>4, PostingAdds
  <2>2. CASE receipt[r].delta[i] = 0
    BY <1>2, <2>1, <2>2
  <2>3. CASE receipt[r].delta[i] # 0
    <3>1. WithinShipped(a, i, ReceivedBesides(r, i) + receipt[r].delta[i])
      BY <1>4, <2>3 DEF PostingChecks, LinesOf
    <3> QED  BY <2>1, <3>1 DEF WithinShipped
  <2> QED  BY <2>2, <2>3
<1> QED  BY <1>3, <1>4

\* A posted receipt is still one of its notice.
LEMMA PostingIsOfNotice ==
  ASSUME IInv, NEW r \in Receipts, PostingChecks(r), UNCHANGED asn,
         receipt' = [receipt EXCEPT ![r].status = "POSTED"]
  PROVE  ReceiptsAreOfNotices'
<1>1. SUFFICES ASSUME NEW s \in Receipts PROVE ReceiptIsOfNotice(s)'
  BY DEF ReceiptsAreOfNotices
<1>2. ReceiptIsOfNotice(s)
  BY DEF IInv, ReceiptsAreOfNotices
<1>3. receipt'[s].status = "NONE" => receipt'[s] = NewReceipt
  BY <1>2, PostingIsOfOne DEF ReceiptIsOfNotice
<1>4. receipt'[s].status # "NONE" => receipt'[s].asn \in Asns /\ asn[receipt'[s].asn].status = "ARRIVED"
  BY <1>2, PostingIsOfOne DEF ReceiptIsOfNotice
<1>5. receipt'[s].kind = "RECEIPT" => \A i \in Items : receipt'[s].delta[i] >= 0
  BY <1>2, PostingIsOfOne DEF ReceiptIsOfNotice
<1>6. ASSUME receipt'[s].kind = "CORRECTION"
      PROVE  LET original == receipt'[s].corrects IN
             /\ original \in Receipts
             /\ receipt'[original].kind = "RECEIPT"
             /\ receipt'[original].status = "POSTED"
             /\ receipt'[original].asn = receipt'[s].asn
             /\ \A i \in Items : receipt'[s].delta[i] # 0 => receipt'[original].delta[i] # 0
  <2>1. PICK original \in Receipts : original = receipt[s].corrects
    BY <1>2, <1>6, PostingIsOfOne DEF ReceiptIsOfNotice
  <2>2. /\ receipt[original].kind = "RECEIPT"
        /\ receipt[original].status = "POSTED"
        /\ receipt[original].asn = receipt[s].asn
        /\ \A i \in Items : receipt[s].delta[i] # 0 => receipt[original].delta[i] # 0
    BY <1>2, <1>6, <2>1, PostingIsOfOne DEF ReceiptIsOfNotice
  <2>3. receipt'[original].status = "POSTED"
    BY <2>2, PostingIsOfOne
  <2> QED  BY <2>1, <2>2, <2>3, PostingIsOfOne
<1> QED  BY <1>3, <1>4, <1>5, <1>6 DEF ReceiptIsOfNotice

\* An inspection that exists is kept; a new one is open.
LEMMA InspectionOfLot ==
  ASSUME TypeOK, NEW l \in Lots
  PROVE  /\ InspectionForLot(l) \in InspectionRow
         /\ \/ InspectionForLot(l) = inspection[l]
            \/ inspection[l].status = "NONE" /\ InspectionForLot(l).status = "OPEN"
<1>1. inspection[l] \in InspectionRow /\ definition \in [Items -> [Checks -> DefinitionStates]]
      /\ ItemOf(l) \in Items
  BY LotsArePairs DEF TypeOK
<1> DEFINE checks == [c \in Checks |-> IF c \in ActiveChecks(ItemOf(l))
                                       THEN definition[ItemOf(l)][c] ELSE "ABSENT"]
           new == [NewInspection EXCEPT !.status = "OPEN", !.checks = checks]
<1>2. checks \in [Checks -> DefinitionStates]
  BY <1>1 DEF DefinitionStates
<1>3. new \in InspectionRow /\ new.status = "OPEN"
  <2> HIDE DEF checks
  <2>1. NewInspection \in InspectionRow
    BY DEF NewInspection, InspectionRow, DefinitionStates, Results
  <2> QED  BY <1>2, <2>1 DEF InspectionRow
<1>4. \/ InspectionForLot(l) = inspection[l]
      \/ inspection[l].status = "NONE" /\ InspectionForLot(l) = new
  BY DEF InspectionForLot
<1> HIDE DEF new, checks
<1> QED  BY <1>1, <1>3, <1>4

\* An original receipt that is posted is all its lots hold.
LEMMA OriginalLots ==
  ASSUME IInv, NEW r \in Receipts, PostOriginal(r), NEW s \in Receipts, NEW i \in Items
  PROVE  /\ lot'[<<s, i>>] \in StockRow
         /\ s # r => lot'[<<s, i>>] = lot[<<s, i>>]
         /\ receipt[r].delta[i] = 0 => lot'[<<r, i>>] = lot[<<r, i>>]
         /\ lot[<<r, i>>] = NewLot /\ lot[<<r, i>>].status = "NONE"
         /\ receipt[r].delta[i] # 0 =>
              /\ lot'[<<r, i>>].status = "AWAITING_INSPECTION"
              /\ lot'[<<r, i>>].accepted = lot[<<r, i>>].accepted
              /\ lot'[<<r, i>>].rejected = lot[<<r, i>>].rejected
              /\ lot'[<<r, i>>].quarantined = lot[<<r, i>>].quarantined
         /\ Effective(<<r, i>>)' = receipt[r].delta[i]
         /\ Effective(<<r, i>>) = 0
<1> DEFINE created == {r} \X LinesOf(r)
           delta == receipt[r].delta[i]
           new == [NewLot EXCEPT !.status = "AWAITING_INSPECTION", !.quantity = delta]
<1>1. /\ receipt[r].status = "DRAFT"
      /\ \A l \in Lots : lot'[l] = IF l \in created
                            THEN [NewLot EXCEPT !.status = "AWAITING_INSPECTION",
                                                !.quantity = receipt[r].delta[ItemOf(l)]]
                            ELSE lot[l]
  BY DEF PostOriginal, PostingChecks
<1>2. <<s, i>> \in Lots /\ <<r, i>> \in Lots /\ ItemOf(<<r, i>>) = i
  BY LotsArePairs
<1>3. <<s, i>> \in created <=> s = r /\ delta # 0
  BY DEF LinesOf
<1>4. /\ s # r \/ delta = 0 => lot'[<<s, i>>] = lot[<<s, i>>]
      /\ delta = 0 => lot'[<<r, i>>] = lot[<<r, i>>]
  <2>1. delta = 0 => <<r, i>> \notin created
    BY DEF LinesOf
  <2> HIDE DEF created
  <2> QED  BY <1>1, <1>2, <1>3, <2>1
<1>5. delta # 0 => lot'[<<r, i>>] = new
  <2>1. delta # 0 => <<r, i>> \in created
    BY DEF LinesOf
  <2> HIDE DEF created
  <2> QED  BY <1>1, <1>2, <2>1
<1>6. /\ lot[<<s, i>>] \in StockRow /\ lot[<<r, i>>] = NewLot
      /\ lot[<<r, i>>].status = "NONE" /\ Effective(<<r, i>>) = 0
  BY <1>1, EffectiveType
<1>7. delta \in Int
  BY Bounds DEF IInv, TypeOK, ReceiptRow, Deltas
<1>8. /\ new \in StockRow /\ new.status = "AWAITING_INSPECTION"
      /\ new.quantity = delta /\ new.adjusted = 0 /\ new.accepted = NewLot.accepted
      /\ new.rejected = NewLot.rejected /\ new.quarantined = NewLot.quarantined
  <2> HIDE DEF delta
  <2>1. NewLot \in StockRow /\ NewLot.adjusted = 0
    BY DEF StockRow, NewLot, LotStatuses
  <2>2. "AWAITING_INSPECTION" \in LotStatuses
    BY DEF LotStatuses
  <2> QED  BY <1>7, <2>1, <2>2 DEF StockRow
<1>9. Effective(<<r, i>>)' = delta
  <2>1. CASE delta = 0
    <3>1. lot'[<<r, i>>] = lot[<<r, i>>]
      BY <1>1, <1>2, <2>1 DEF LinesOf
    <3>2. Effective(<<r, i>>)' = Effective(<<r, i>>)
      BY <3>1 DEF Effective
    <3> QED  BY <1>6, <2>1, <3>2
  <2>2. CASE delta # 0
    <3>1. Effective(<<r, i>>)' = new.quantity + new.adjusted
      BY <1>5, <2>2 DEF Effective
    <3> HIDE DEF new, delta
    <3> QED  BY <1>7, <1>8, <3>1
  <2> QED  BY <2>1, <2>2
<1>10. lot'[<<s, i>>] \in StockRow
  <2> HIDE DEF new
  <2> QED  BY <1>4, <1>5, <1>6, <1>8
<1> HIDE DEF created, new
<1> QED  BY <1>4, <1>5, <1>6, <1>8, <1>9, <1>10

\* Posting an original receipt leaves the lots of every other receipt alone.
LEMMA OtherLotsStand ==
  ASSUME IInv, NEW r \in Receipts, PostOriginal(r), NEW i \in Items
  PROVE  \A s \in Receipts \ {r} : lot'[<<s, i>>] = lot[<<s, i>>]
<1>1. ASSUME NEW s \in Receipts, s # r PROVE lot'[<<s, i>>] = lot[<<s, i>>]
  BY <1>1, OriginalLots
<1> QED  BY <1>1

\* Posting a receipt creates its lots with what it counted, within what was
\* shipped, and with an open inspection each.
LEMMA PostOriginalKeeps ==
  ASSUME IInv, NEW r \in Receipts, PostOriginal(r)
  PROVE  IInv'
<1>1. /\ PostingChecks(r)
      /\ receipt[r].kind = "RECEIPT"
      /\ receipt' = [receipt EXCEPT ![r].status = "POSTED"]
      /\ UNCHANGED <<order, asn, definition, allocation>>
  BY DEF PostOriginal
<1> DEFINE created == {r} \X LinesOf(r)
<1>2. /\ lot' \in [Lots -> StockRow]
      /\ inspection' = [l \in Lots |-> IF l \in created THEN InspectionForLot(l)
                                       ELSE inspection[l]]
  <2>1. DOMAIN lot' = Lots /\ lot' = [l \in Lots |-> lot'[l]]
    BY DEF PostOriginal
  <2>2. \A l \in Lots : lot'[l] \in StockRow
    <3>1. \A s \in Receipts, i \in Items : lot'[<<s, i>>] \in StockRow
      BY OriginalLots
    <3> QED  BY <3>1, LotsArePairs
  <2> QED  BY <2>1, <2>2 DEF PostOriginal
<1>3. inspection' \in [Lots -> InspectionRow]
  <2>1. \A l \in Lots : inspection[l] \in InspectionRow /\ InspectionForLot(l) \in InspectionRow
    BY InspectionOfLot DEF IInv, TypeOK
  <2> HIDE DEF created
  <2> QED  BY <1>2, <2>1
<1>4. TypeOK'
  BY <1>1, <1>2, <1>3, PostingIsOfOne DEF IInv, TypeOK
<1>5. NoticeIsOfRevision' /\ ShippedWithinOrdered'
  BY <1>1, Untouched
<1>6. ReceiptsAreOfNotices' /\ PostedWithinShipped'
  BY <1>1, PostingFits, PostingIsOfNotice
<1>7. LotIsOfReceipt'
  <2>1. SUFFICES ASSUME NEW s \in Receipts, NEW i \in Items
                 PROVE  /\ lot'[<<s, i>>].status # "NONE" <=>
                             /\ receipt'[s].kind = "RECEIPT"
                             /\ receipt'[s].status = "POSTED"
                             /\ receipt'[s].delta[i] # 0
                        /\ lot'[<<s, i>>].status = "NONE" => lot'[<<s, i>>] = NewLot
                        /\ Effective(<<s, i>>)' >= 0
    BY DEF LotIsOfReceipt
  <2>2. /\ lot[<<s, i>>].status # "NONE" <=>
             receipt[s].kind = "RECEIPT" /\ receipt[s].status = "POSTED" /\ receipt[s].delta[i] # 0
        /\ lot[<<s, i>>].status = "NONE" => lot[<<s, i>>] = NewLot
        /\ Effective(<<s, i>>) >= 0
    BY DEF IInv, LotIsOfReceipt
  <2>3. CASE s # r
    <3>1. lot'[<<s, i>>] = lot[<<s, i>>] /\ receipt'[s] = receipt[s]
      <4>1. lot'[<<s, i>>] = lot[<<s, i>>]
        BY <2>3, OriginalLots
      <4>2. receipt'[s] = receipt[s]
        BY <1>1, <2>3, PostingIsOfOne
      <4> QED  BY <4>1, <4>2
    <3>2. Effective(<<s, i>>)' = Effective(<<s, i>>)
      BY <3>1 DEF Effective
    <3> QED  BY <2>2, <3>1, <3>2
  <2>4. CASE s = r
    <3>1. receipt'[r].kind = "RECEIPT" /\ receipt'[r].status = "POSTED"
          /\ receipt'[r].delta = receipt[r].delta /\ receipt[r].delta[i] >= 0
      BY <1>1, PostingIsOfOne DEF IInv, ReceiptsAreOfNotices, ReceiptIsOfNotice
    <3>2. Effective(<<r, i>>)' = receipt[r].delta[i]
      BY OriginalLots
    <3>3. CASE receipt[r].delta[i] = 0
      <4>1. lot'[<<r, i>>] = NewLot /\ NewLot.status = "NONE"
        BY <3>3, OriginalLots DEF NewLot
      <4> QED  BY <2>4, <3>1, <3>2, <3>3, <4>1
    <3>4. CASE receipt[r].delta[i] # 0
      <4>1. lot'[<<r, i>>].status = "AWAITING_INSPECTION"
        BY <3>4, OriginalLots DEF NewLot
      <4> QED  BY <2>4, <3>1, <3>2, <3>4, <4>1
    <3> QED  BY <3>3, <3>4
  <2> QED  BY <2>3, <2>4
<1>8. StockMatchesReceipts'
  <2>1. SUFFICES ASSUME NEW a \in Asns, NEW i \in Items
                 PROVE  Posted(a, i)' = Stocked(a, i)'
    BY DEF StockMatchesReceipts, Stocked
  <2> DEFINE f == [s \in Receipts |-> Effective(<<s, i>>)]
             g == [s \in Receipts |-> Effective(<<s, i>>)']
             S == {s \in Receipts : receipt[s].asn = a}
             T == {s \in Receipts : receipt'[s].asn = a}
  <2>2. Stocked(a, i) = SumFunctionOnSet(f, S) /\ Stocked(a, i)' = SumFunctionOnSet(g, T)
    BY DEF Stocked
  <2>3. S = T
    BY <1>1, PostingIsOfOne
  <2>4. \A s \in Receipts \ {r} : f[s] = g[s]
    <3>1. \A s \in Receipts \ {r} : lot'[<<s, i>>] = lot[<<s, i>>]
      BY OtherLotsStand
    <3> QED  BY <3>1 DEF Effective
  <2>5. f[r] = 0 /\ g[r] = receipt[r].delta[i]
    <3>1. Effective(<<r, i>>)' = receipt[r].delta[i] /\ Effective(<<r, i>>) = 0
      <4> HIDE DEF f, g, S, T
      <4> QED  BY OriginalLots
    <3> QED  BY <3>1
  <2>6. receipt[r].delta[i] \in Int
    BY Bounds DEF IInv, TypeOK, ReceiptRow, Deltas
  <2>7. IsFiniteSet(S) /\ (\A s \in S : f[s] \in Int /\ g[s] \in Int)
    <3>1. IsFiniteSet(S)
      BY MaterialAssumption, FS_Subset
    <3>2. \A s \in Receipts : f[s] \in Int
      BY EffectiveType
    <3>3. \A s \in Receipts : g[s] \in Int
      <4> HIDE DEF f, g
      <4> QED  BY <2>4, <2>5, <2>6, <3>2
    <3> QED  BY <3>1, <3>2, <3>3
  <2>8. Posted(a, i) = Stocked(a, i)
    BY DEF IInv, StockMatchesReceipts, Stocked
  <2>9. CASE receipt[r].asn # a
    <3>1. r \notin S
      BY <2>9
    <3>2. SumFunctionOnSet(f, S) = SumFunctionOnSet(g, S)
      <4>1. \A s \in S : f[s] = g[s]
        BY <2>4, <3>1
      <4> HIDE DEF f, g, S, T
      <4> QED  BY <2>7, <4>1, SumSame
    <3> QED  BY <1>1, <2>2, <2>3, <2>8, <2>9, <3>2, PostingAdds
  <2>10. CASE receipt[r].asn = a
    <3>1. r \in S
      BY <2>10
    <3>2. SumFunctionOnSet(g, S) = SumFunctionOnSet(f, S) + (g[r] - f[r])
      <4>1. \A s \in S \ {r} : f[s] = g[s]
        BY <2>4
      <4> HIDE DEF f, g, S, T
      <4> QED  BY <2>7, <3>1, <4>1, SumChanged
    <3>3. Posted(a, i)' = Posted(a, i) + receipt[r].delta[i]
      BY <1>1, <2>10, PostingAdds
    <3>4. g[r] - f[r] = receipt[r].delta[i]
      <4> HIDE DEF f, g
      <4> QED  BY <2>5, <2>6
    <3> QED  BY <2>2, <2>3, <2>8, <3>2, <3>3, <3>4
  <2> QED  BY <2>9, <2>10
<1>9. InspectionDecidesLot'
  <2>1. SUFFICES ASSUME NEW l \in Lots
                 PROVE  /\ inspection'[l].status = "FINALIZED" <=> lot'[l].status \in Dispositions
                        /\ inspection'[l].status = "FINALIZED" =>
                             inspection'[l].disposition = lot'[l].status
                        /\ lot'[l].status = "ACCEPTED" =>
                             \A c \in RequiredChecks(l)' : inspection'[l].result[c] = "CONFORMING"
    BY DEF InspectionDecidesLot
  <2>2. /\ inspection[l].status = "FINALIZED" <=> lot[l].status \in Dispositions
        /\ inspection[l].status = "FINALIZED" => inspection[l].disposition = lot[l].status
        /\ lot[l].status = "ACCEPTED" =>
             \A c \in RequiredChecks(l) : inspection[l].result[c] = "CONFORMING"
    BY DEF IInv, InspectionDecidesLot
  <2>3. CASE l \notin created
    <3>1. inspection'[l] = inspection[l]
      <4> HIDE DEF created
      <4> QED  BY <1>2, <2>3
    <3>2. lot'[l] = lot[l]
      BY <2>3 DEF PostOriginal
    <3> QED  BY <2>2, <3>1, <3>2 DEF RequiredChecks
  <2>4. CASE l \in created
    <3>1. PICK i \in Items : l = <<r, i>> /\ receipt[r].delta[i] # 0
      BY <2>4 DEF LinesOf
    <3>2. lot[l].status = "NONE" /\ lot'[l].status = "AWAITING_INSPECTION"
      BY <3>1, OriginalLots DEF NewLot
    <3>3. inspection'[l] = InspectionForLot(l)
      <4> HIDE DEF created
      <4> QED  BY <1>2, <2>4
    <3>4. inspection[l].status # "FINALIZED"
      BY <2>2, <3>2 DEF Dispositions
    <3>5. inspection'[l].status # "FINALIZED"
      BY <3>3, <3>4, InspectionOfLot DEF IInv
    <3> QED  BY <3>2, <3>5 DEF Dispositions
  <2> QED  BY <2>3, <2>4
<1> QED  BY <1>4, <1>5, <1>6, <1>7, <1>8, <1>9 DEF IInv

\* A correction is of a receipt that was posted for the same notice.
LEMMA OriginalOf ==
  ASSUME IInv, NEW r \in Receipts, PostCorrection(r)
  PROVE  \E o \in Receipts : /\ receipt[r].corrects = o
                             /\ receipt[o].asn = receipt[r].asn
                             /\ receipt[o].status = "POSTED"
                             /\ o # r
BY DEF IInv, ReceiptsAreOfNotices, ReceiptIsOfNotice, PostCorrection, PostingChecks

\* A correction that is posted moves what the lots of its original hold, and
\* nothing else of them.
LEMMA CorrectedLots ==
  ASSUME IInv, NEW r \in Receipts, PostCorrection(r), NEW o \in Receipts,
         receipt[r].corrects = o, NEW s \in Receipts, NEW i \in Items
  PROVE  /\ lot'[<<s, i>>] \in StockRow
         /\ s # o => lot'[<<s, i>>] = lot[<<s, i>>]
         /\ receipt[r].delta[i] = 0 => lot'[<<o, i>>] = lot[<<o, i>>]
         /\ receipt[r].delta[i] # 0 => lot[<<o, i>>].status = "AWAITING_INSPECTION"
         /\ lot'[<<o, i>>].status = lot[<<o, i>>].status
         /\ lot'[<<o, i>>].quantity = lot[<<o, i>>].quantity
         /\ lot'[<<o, i>>].accepted = lot[<<o, i>>].accepted
         /\ lot'[<<o, i>>].rejected = lot[<<o, i>>].rejected
         /\ lot'[<<o, i>>].quarantined = lot[<<o, i>>].quarantined
         /\ Effective(<<o, i>>)' = Effective(<<o, i>>) + receipt[r].delta[i]
         /\ Effective(<<o, i>>)' >= 0
<1> DEFINE corrected == {o} \X LinesOf(r)
           delta == receipt[r].delta[i]
           old == lot[<<o, i>>]
           new == [old EXCEPT !.adjusted = old.adjusted + delta]
<1>1. /\ \A l \in corrected : CorrectionFits(l, receipt[r].delta[ItemOf(l)])
      /\ \A l \in Lots : lot'[l] = IF l \in corrected
                            THEN [lot[l] EXCEPT !.adjusted = @ + receipt[r].delta[ItemOf(l)]]
                            ELSE lot[l]
  BY DEF PostCorrection
<1>2. <<s, i>> \in Lots /\ <<o, i>> \in Lots /\ ItemOf(<<o, i>>) = i
  BY LotsArePairs
<1>3. /\ <<s, i>> \in corrected => s = o
      /\ <<o, i>> \in corrected <=> delta # 0
  BY DEF LinesOf
<1>4. /\ s # o => lot'[<<s, i>>] = lot[<<s, i>>]
      /\ delta = 0 => lot'[<<o, i>>] = old
      /\ delta # 0 => lot'[<<o, i>>] = new
  <2> HIDE DEF corrected
  <2> QED  BY <1>1, <1>2, <1>3
<1>5. delta # 0 => old.status = "AWAITING_INSPECTION" /\ Effective(<<o, i>>) + delta >= 0
  <2>1. delta # 0 => CorrectionFits(<<o, i>>, delta)
    <3> HIDE DEF corrected
    <3> QED  BY <1>1, <1>2, <1>3
  <2> QED  BY <2>1 DEF CorrectionFits
<1>6. lot[<<s, i>>] \in StockRow /\ old \in StockRow /\ Effective(<<o, i>>) \in Int
  BY EffectiveType
<1>7. Effective(<<o, i>>) >= 0
  BY DEF IInv, LotIsOfReceipt
<1>8. delta \in Int
  BY Bounds DEF IInv, TypeOK, ReceiptRow, Deltas
<1>9. Effective(<<o, i>>) = old.quantity + old.adjusted
      /\ Effective(<<o, i>>)' = lot'[<<o, i>>].quantity + lot'[<<o, i>>].adjusted
  BY DEF Effective
<1> HIDE DEF corrected, delta, old
<1>10. /\ new \in StockRow /\ new.adjusted = old.adjusted + delta
       /\ new.status = old.status /\ new.quantity = old.quantity /\ new.accepted = old.accepted
       /\ new.rejected = old.rejected /\ new.quarantined = old.quarantined
       /\ old.quantity \in Int /\ old.adjusted \in Int
  BY <1>6, <1>8 DEF StockRow
<1> HIDE DEF new
<1>11. Effective(<<o, i>>)' = Effective(<<o, i>>) + delta /\ Effective(<<o, i>>)' >= 0
  <2>1. CASE delta = 0
    BY <1>4, <1>6, <1>7, <1>9, <2>1
  <2>2. CASE delta # 0
    BY <1>4, <1>5, <1>6, <1>8, <1>9, <1>10, <2>2
  <2> QED  BY <2>1, <2>2
<1>12. lot'[<<s, i>>] \in StockRow
  <2>1. CASE s = o
    BY <1>4, <1>6, <1>10, <2>1
  <2>2. CASE s # o
    BY <1>4, <1>6, <2>2
  <2> QED  BY <2>1, <2>2
<1>13. /\ lot'[<<o, i>>].status = old.status
       /\ lot'[<<o, i>>].quantity = old.quantity
       /\ lot'[<<o, i>>].accepted = old.accepted
       /\ lot'[<<o, i>>].rejected = old.rejected
       /\ lot'[<<o, i>>].quarantined = old.quarantined
  BY <1>4, <1>10
<1> QED  BY <1>4, <1>5, <1>11, <1>12, <1>13 DEF delta, old

\* Posting a correction moves its deltas into lots that nobody has decided.
LEMMA PostCorrectionKeeps ==
  ASSUME IInv, NEW r \in Receipts, PostCorrection(r)
  PROVE  IInv'
<1>1. /\ PostingChecks(r)
      /\ receipt[r].kind = "CORRECTION"
      /\ receipt' = [receipt EXCEPT ![r].status = "POSTED"]
      /\ UNCHANGED <<order, asn, definition, inspection, allocation>>
  BY DEF PostCorrection
<1>2. PICK o \in Receipts : /\ receipt[r].corrects = o
                            /\ receipt[o].asn = receipt[r].asn
                            /\ receipt[o].status = "POSTED"
                            /\ o # r
  BY OriginalOf
<1>3. lot' \in [Lots -> StockRow]
  <2>1. DOMAIN lot' = Lots /\ lot' = [l \in Lots |-> lot'[l]]
    BY DEF PostCorrection
  <2>2. \A s \in Receipts, i \in Items : lot'[<<s, i>>] \in StockRow
    BY <1>2, CorrectedLots
  <2>3. \A l \in Lots : lot'[l] \in StockRow
    BY <2>2, LotsArePairs
  <2> QED  BY <2>1, <2>3
<1>4. TypeOK'
  BY <1>1, <1>3, PostingIsOfOne DEF IInv, TypeOK
<1>5. NoticeIsOfRevision' /\ ShippedWithinOrdered'
  BY <1>1, Untouched
<1>6. ReceiptsAreOfNotices' /\ PostedWithinShipped'
  BY <1>1, PostingFits, PostingIsOfNotice
<1>7. \A s \in Receipts, i \in Items : /\ lot'[<<s, i>>].status = lot[<<s, i>>].status
                                       /\ s # o => lot'[<<s, i>>] = lot[<<s, i>>]
  <2>1. ASSUME NEW s \in Receipts, NEW i \in Items
        PROVE  /\ s # o => lot'[<<s, i>>] = lot[<<s, i>>]
               /\ lot'[<<o, i>>].status = lot[<<o, i>>].status
    BY <1>2, CorrectedLots
  <2> QED  BY <2>1
<1>8. LotIsOfReceipt'
  <2>1. SUFFICES ASSUME NEW s \in Receipts, NEW i \in Items
                 PROVE  /\ lot'[<<s, i>>].status # "NONE" <=>
                             /\ receipt'[s].kind = "RECEIPT"
                             /\ receipt'[s].status = "POSTED"
                             /\ receipt'[s].delta[i] # 0
                        /\ lot'[<<s, i>>].status = "NONE" => lot'[<<s, i>>] = NewLot
                        /\ Effective(<<s, i>>)' >= 0
    BY DEF LotIsOfReceipt
  <2>2. /\ lot[<<s, i>>].status # "NONE" <=>
             receipt[s].kind = "RECEIPT" /\ receipt[s].status = "POSTED" /\ receipt[s].delta[i] # 0
        /\ lot[<<s, i>>].status = "NONE" => lot[<<s, i>>] = NewLot
        /\ Effective(<<s, i>>) >= 0
    BY DEF IInv, LotIsOfReceipt
  <2>3. lot'[<<s, i>>].status = lot[<<s, i>>].status
    BY <1>7
  <2>4. receipt'[s].kind = receipt[s].kind /\ receipt'[s].delta = receipt[s].delta
    BY <1>1, PostingIsOfOne
  <2>5. s # r => receipt'[s] = receipt[s]
    BY <1>1, PostingIsOfOne
  <2>6. lot'[<<s, i>>].status = "NONE" => lot'[<<s, i>>] = NewLot
    <3>1. CASE s # o
      BY <1>7, <2>2, <3>1
    <3>2. CASE s = o /\ receipt[r].delta[i] = 0
      <4>1. lot'[<<s, i>>] = lot[<<s, i>>]
        BY <1>2, <3>2, CorrectedLots
      <4> QED  BY <2>2, <4>1
    <3>3. CASE s = o /\ receipt[r].delta[i] # 0
      <4>1. lot[<<s, i>>].status = "AWAITING_INSPECTION"
        BY <1>2, <3>3, CorrectedLots
      <4> QED  BY <2>3, <4>1
    <3> QED  BY <3>1, <3>2, <3>3
  <2>7. Effective(<<s, i>>)' >= 0
    <3>1. CASE s # o
      <4>1. Effective(<<s, i>>)' = Effective(<<s, i>>)
        BY <1>7, <3>1 DEF Effective
      <4> QED  BY <2>2, <4>1
    <3>2. CASE s = o
      BY <1>2, <3>2, CorrectedLots
    <3> QED  BY <3>1, <3>2
  <2> QED  BY <1>1, <2>2, <2>3, <2>4, <2>5, <2>6, <2>7
<1>9. StockMatchesReceipts'
  <2>1. SUFFICES ASSUME NEW a \in Asns, NEW i \in Items
                 PROVE  Posted(a, i)' = Stocked(a, i)'
    BY DEF StockMatchesReceipts, Stocked
  <2> DEFINE f == [s \in Receipts |-> Effective(<<s, i>>)]
             g == [s \in Receipts |-> Effective(<<s, i>>)']
             S == {s \in Receipts : receipt[s].asn = a}
             T == {s \in Receipts : receipt'[s].asn = a}
  <2>2. Stocked(a, i) = SumFunctionOnSet(f, S) /\ Stocked(a, i)' = SumFunctionOnSet(g, T)
    BY DEF Stocked
  <2>3. S = T
    BY <1>1, PostingIsOfOne
  <2>4. \A s \in Receipts \ {o} : f[s] = g[s]
    BY <1>7 DEF Effective
  <2>5. g[o] = f[o] + receipt[r].delta[i]
    BY <1>2, CorrectedLots
  <2>6. receipt[r].delta[i] \in Int
    BY Bounds DEF IInv, TypeOK, ReceiptRow, Deltas
  <2>7. IsFiniteSet(S) /\ (\A s \in S : f[s] \in Int /\ g[s] \in Int)
        /\ f[o] \in Int /\ g[o] \in Int
    <3>1. IsFiniteSet(S)
      BY MaterialAssumption, FS_Subset
    <3>2. \A s \in Receipts : f[s] \in Int
      BY EffectiveType
    <3>3. \A s \in Receipts : g[s] \in Int
      <4> HIDE DEF f, g
      <4> QED  BY <2>4, <2>5, <2>6, <3>2
    <3> QED  BY <3>1, <3>2, <3>3
  <2>8. Posted(a, i) = Stocked(a, i)
    BY DEF IInv, StockMatchesReceipts, Stocked
  <2>9. CASE receipt[r].asn # a
    <3>1. o \notin S
      BY <1>2, <2>9
    <3>2. SumFunctionOnSet(f, S) = SumFunctionOnSet(g, S)
      <4>1. \A s \in S : f[s] = g[s]
        BY <2>4, <3>1
      <4> HIDE DEF f, g, S, T
      <4> QED  BY <2>7, <4>1, SumSame
    <3> QED  BY <1>1, <2>2, <2>3, <2>8, <2>9, <3>2, PostingAdds
  <2>10. CASE receipt[r].asn = a
    <3>1. o \in S
      BY <1>2, <2>10
    <3>2. SumFunctionOnSet(g, S) = SumFunctionOnSet(f, S) + (g[o] - f[o])
      <4>1. \A s \in S \ {o} : f[s] = g[s]
        BY <2>4
      <4> HIDE DEF f, g, S, T
      <4> QED  BY <2>7, <3>1, <4>1, SumChanged
    <3>3. Posted(a, i)' = Posted(a, i) + receipt[r].delta[i]
      BY <1>1, <2>10, PostingAdds
    <3>4. g[o] - f[o] = receipt[r].delta[i]
      <4> HIDE DEF f, g
      <4> QED  BY <2>5, <2>6, <2>7
    <3> QED  BY <2>2, <2>3, <2>8, <3>2, <3>3, <3>4
  <2> QED  BY <2>9, <2>10
<1>10. InspectionDecidesLot'
  <2>1. \A l \in Lots : lot'[l].status = lot[l].status
    BY <1>7, LotsArePairs
  <2> QED  BY <1>1, <2>1 DEF IInv, InspectionDecidesLot, RequiredChecks
<1> QED  BY <1>4, <1>5, <1>6, <1>8, <1>9, <1>10 DEF IInv

-----------------------------------------------------------------------------
(***************************************************************************)
(* Inspections and allocations.                                            *)
(***************************************************************************)
LEMMA DefinitionKeeps ==
  ASSUME IInv, NEW i \in Items, NEW c \in Checks, NEW state \in DefinitionStates,
         CreateDefinition(i, c, state) \/ UpdateDefinition(i, c, state)
  PROVE  IInv'
<1>1. /\ definition' = [definition EXCEPT ![i][c] = state]
      /\ UNCHANGED <<order, asn, receipt, lot, inspection, allocation>>
  BY DEF CreateDefinition, UpdateDefinition
<1>2. definition' \in [Items -> [Checks -> DefinitionStates]]
  BY <1>1 DEF IInv, TypeOK
<1>3. TypeOK'
  BY <1>1, <1>2 DEF IInv, TypeOK
<1> QED  BY <1>1, <1>3, Untouched DEF IInv

\* A new inspection decides nothing yet.
LEMMA CreateExplicitKeeps ==
  ASSUME IInv, NEW l \in Lots, CreateExplicit(l)
  PROVE  IInv'
<1> DEFINE row == InspectionForLot(l)
<1>1. /\ inspection \in [Lots -> InspectionRow]
      /\ lot[l].status = "AWAITING_INSPECTION"
      /\ inspection[l].status = "NONE"
      /\ inspection' = [inspection EXCEPT ![l] = row]
      /\ UNCHANGED <<order, asn, receipt, lot, definition, allocation>>
  BY DEF IInv, TypeOK, CreateExplicit
<1>2. row \in InspectionRow /\ row.status # "FINALIZED"
  <2>1. row \in InspectionRow /\ (row = inspection[l] \/ row.status = "OPEN")
    BY InspectionOfLot DEF IInv
  <2> HIDE DEF row
  <2> QED  BY <1>1, <2>1
<1> HIDE DEF row
<1>3. /\ inspection' \in [Lots -> InspectionRow]
      /\ inspection'[l] = row
      /\ \A m \in Lots \ {l} : inspection'[m] = inspection[m]
  BY <1>1, <1>2
<1>4. TypeOK'
  BY <1>1, <1>3 DEF IInv, TypeOK
<1>5. InspectionDecidesLot'
  <2>1. lot[l].status \notin Dispositions
    BY <1>1 DEF Dispositions
  <2>2. lot[l].status # "ACCEPTED"
    BY <1>1
  <2> QED  BY <1>1, <1>2, <1>3, <2>1, <2>2 DEF IInv, InspectionDecidesLot, RequiredChecks
<1> QED  BY <1>1, <1>4, <1>5, Untouched DEF IInv

\* Results move while the inspection is open, so its lot is not decided.
LEMMA SaveResultsKeeps ==
  ASSUME IInv, NEW l \in Lots, NEW recorded \in Recordings, SaveResults(l, recorded)
  PROVE  IInv'
<1> DEFINE old == inspection[l]
           result == [c \in Checks |-> IF c \in DOMAIN recorded THEN recorded[c]
                                       ELSE old.result[c]]
           row == [old EXCEPT !.result = result]
<1>1. /\ inspection \in [Lots -> InspectionRow] /\ old \in InspectionRow
      /\ old.status = "OPEN"
      /\ inspection' = [inspection EXCEPT ![l] = row]
      /\ UNCHANGED <<order, asn, receipt, lot, definition, allocation>>
  BY DEF IInv, TypeOK, SaveResults, Recordable
<1>2. \A c \in DOMAIN recorded : recorded[c] \in Results
  BY DEF Recordings
<1>3. result \in [Checks -> Results]
  <2>1. old.result \in [Checks -> Results]
    BY <1>1 DEF InspectionRow
  <2> HIDE DEF old
  <2> QED  BY <1>2, <2>1
<1>4. row \in InspectionRow /\ row.status = "OPEN"
  <2> HIDE DEF old, result
  <2> QED  BY <1>1, <1>3 DEF InspectionRow
<1> HIDE DEF row
<1>5. /\ inspection' \in [Lots -> InspectionRow]
      /\ inspection'[l] = row
      /\ \A m \in Lots \ {l} : inspection'[m] = inspection[m]
  BY <1>1, <1>4
<1>6. TypeOK'
  BY <1>1, <1>5 DEF IInv, TypeOK
<1>7. InspectionDecidesLot'
  <2>1. lot[l].status \notin Dispositions
    BY <1>1 DEF IInv, InspectionDecidesLot
  <2>2. lot[l].status # "ACCEPTED"
    BY <2>1 DEF Dispositions
  <2> QED  BY <1>1, <1>4, <1>5, <2>1, <2>2 DEF IInv, InspectionDecidesLot, RequiredChecks
<1> QED  BY <1>1, <1>6, <1>7, Untouched DEF IInv

\* The rows of a lot and of its inspection after they are decided.
LEMMA FinalizedRows ==
  ASSUME IInv, NEW l \in Lots, NEW disposition \in Dispositions,
         NEW accepted \in Quantities, NEW rejected \in Quantities,
         Finalize(l, disposition, accepted, rejected)
  PROVE  /\ lot' \in [Lots -> StockRow]
         /\ inspection' \in [Lots -> InspectionRow]
         /\ \A m \in Lots \ {l} : lot'[m] = lot[m] /\ inspection'[m] = inspection[m]
         /\ lot'[l].status = disposition
         /\ lot'[l].quantity = lot[l].quantity
         /\ lot'[l].adjusted = lot[l].adjusted
         /\ lot'[l].accepted = accepted
         /\ lot'[l].rejected = rejected
         /\ lot'[l].quarantined = Effective(l) - accepted - rejected
         /\ inspection'[l].status = "FINALIZED"
         /\ inspection'[l].disposition = disposition
         /\ inspection'[l].checks = inspection[l].checks
         /\ inspection'[l].result = inspection[l].result
         /\ Effective(l) \in Int
<1> DEFINE quantity == DecidedQuantity(l)
           rest == Quarantined(quantity, accepted, rejected)
           look == inspection[l]
           stock == lot[l]
           decided == [look EXCEPT !.status = "FINALIZED", !.disposition = disposition,
                                   !.received = quantity]
           split == [stock EXCEPT !.status = disposition, !.accepted = accepted,
                                  !.rejected = rejected, !.quarantined = rest]
<1>1. /\ inspection \in [Lots -> InspectionRow] /\ look \in InspectionRow
      /\ lot \in [Lots -> StockRow] /\ stock \in StockRow
      /\ inspection' = [inspection EXCEPT ![l] = decided]
      /\ lot' = [lot EXCEPT ![l] = split]
  BY DEF IInv, TypeOK, Finalize
<1>2. quantity = Effective(l) /\ Effective(l) \in Int
  <2>1. Effective(l) = stock.quantity + stock.adjusted
    BY DEF Effective
  <2>2. stock.quantity \in Int /\ stock.adjusted \in Int
    BY <1>1 DEF StockRow
  <2> QED  BY <2>1, <2>2 DEF DecidedQuantity
<1>3. rest = Effective(l) - accepted - rejected /\ rest \in Int
      /\ accepted \in Int /\ rejected \in Int
  BY <1>2, Bounds DEF Quarantined, Quantities
<1> HIDE DEF quantity, rest, look, stock
<1>4. /\ decided \in InspectionRow /\ decided.status = "FINALIZED"
      /\ decided.disposition = disposition /\ decided.checks = look.checks
      /\ decided.result = look.result
  BY <1>1, <1>2 DEF InspectionRow
<1>5. /\ split \in StockRow /\ split.status = disposition /\ split.quantity = stock.quantity
      /\ split.adjusted = stock.adjusted /\ split.accepted = accepted
      /\ split.rejected = rejected /\ split.quarantined = rest
  BY <1>1, <1>3 DEF StockRow, LotStatuses
<1> HIDE DEF decided, split
<1>6. /\ lot' \in [Lots -> StockRow] /\ lot'[l] = split
      /\ inspection' \in [Lots -> InspectionRow] /\ inspection'[l] = decided
      /\ \A m \in Lots \ {l} : lot'[m] = lot[m] /\ inspection'[m] = inspection[m]
  BY <1>1, <1>4, <1>5
<1> QED  BY <1>2, <1>3, <1>4, <1>5, <1>6 DEF look, stock

\* A finalization decides the lot and the inspection alike, on the lot's
\* corrected quantity.
LEMMA FinalizeKeeps ==
  ASSUME IInv, NEW l \in Lots, NEW disposition \in Dispositions,
         NEW accepted \in Quantities, NEW rejected \in Quantities,
         Finalize(l, disposition, accepted, rejected)
  PROVE  IInv'
<1>1. /\ inspection[l].status = "OPEN"
      /\ lot[l].status = "AWAITING_INSPECTION"
      /\ ChecksAllow(l, disposition)
      /\ UNCHANGED <<order, asn, receipt, definition, allocation>>
  BY DEF Finalize
<1>2. TypeOK'
  BY <1>1, FinalizedRows DEF IInv, TypeOK
<1>3. ASSUME NEW m \in Lots
      PROVE  /\ lot'[m].status = "NONE" <=> lot[m].status = "NONE"
             /\ lot'[m].status = "NONE" => lot'[m] = lot[m]
             /\ Effective(m)' = Effective(m)
  <2>1. CASE m # l
    <3>1. lot'[m] = lot[m]
      BY <2>1, FinalizedRows
    <3> QED  BY <3>1 DEF Effective
  <2>2. CASE m = l
    BY <1>1, <2>2, FinalizedRows DEF Effective, Dispositions
  <2> QED  BY <2>1, <2>2
<1>4. LotIsOfReceipt'
  <2>1. SUFFICES ASSUME NEW s \in Receipts, NEW i \in Items
                 PROVE  /\ lot'[<<s, i>>].status # "NONE" <=>
                             /\ receipt[s].kind = "RECEIPT"
                             /\ receipt[s].status = "POSTED"
                             /\ receipt[s].delta[i] # 0
                        /\ lot'[<<s, i>>].status = "NONE" => lot'[<<s, i>>] = NewLot
                        /\ Effective(<<s, i>>)' >= 0
    BY <1>1 DEF LotIsOfReceipt
  <2>2. /\ lot[<<s, i>>].status # "NONE" <=>
             receipt[s].kind = "RECEIPT" /\ receipt[s].status = "POSTED" /\ receipt[s].delta[i] # 0
        /\ lot[<<s, i>>].status = "NONE" => lot[<<s, i>>] = NewLot
        /\ Effective(<<s, i>>) >= 0
    BY DEF IInv, LotIsOfReceipt
  <2>3. <<s, i>> \in Lots
    BY LotsArePairs
  <2> QED  BY <1>3, <2>2, <2>3
<1>5. StockMatchesReceipts'
  <2>1. SUFFICES ASSUME NEW a \in Asns, NEW i \in Items
                 PROVE  Posted(a, i)' = Stocked(a, i)'
    BY DEF StockMatchesReceipts, Stocked
  <2>2. Posted(a, i)' = Posted(a, i)
    BY <1>1 DEF Posted, PostedOn
  <2>3. [s \in Receipts |-> Effective(<<s, i>>)]' = [s \in Receipts |-> Effective(<<s, i>>)]
    <3>1. \A s \in Receipts : Effective(<<s, i>>)' = Effective(<<s, i>>)
      BY <1>3, LotsArePairs
    <3> QED  BY <3>1
  <2>4. Stocked(a, i)' = Stocked(a, i)
    BY <1>1, <2>3 DEF Stocked
  <2>5. Posted(a, i) = Stocked(a, i)
    BY DEF IInv, StockMatchesReceipts, Stocked
  <2> QED  BY <2>2, <2>4, <2>5
<1>6. InspectionDecidesLot'
  <2>1. SUFFICES ASSUME NEW m \in Lots
                 PROVE  /\ inspection'[m].status = "FINALIZED" <=> lot'[m].status \in Dispositions
                        /\ inspection'[m].status = "FINALIZED" =>
                             inspection'[m].disposition = lot'[m].status
                        /\ lot'[m].status = "ACCEPTED" =>
                             \A c \in RequiredChecks(m)' : inspection'[m].result[c] = "CONFORMING"
    BY DEF InspectionDecidesLot
  <2>2. CASE m # l
    <3>1. lot'[m] = lot[m] /\ inspection'[m] = inspection[m]
      BY <2>2, FinalizedRows
    <3> QED  BY <3>1 DEF IInv, InspectionDecidesLot, RequiredChecks
  <2>3. CASE m = l
    <3>1. RequiredChecks(m)' = RequiredChecks(m)
      BY <2>3, FinalizedRows DEF RequiredChecks
    <3> QED  BY <1>1, <2>3, <3>1, FinalizedRows DEF ChecksAllow
  <2> QED  BY <2>2, <2>3
<1> QED  BY <1>1, <1>2, <1>4, <1>5, <1>6, Untouched DEF IInv

\* An allocation takes no more than its lot has left.
LEMMA AllocateKeeps ==
  ASSUME IInv, NEW x \in Allocations, NEW l \in Lots, NEW quantity \in Quantities,
         NEW authorized \in BOOLEAN, NEW reason \in BOOLEAN,
         Allocate(x, l, quantity, authorized, reason)
  PROVE  IInv'
<1> DEFINE conditional == lot[l].status = "CONDITIONALLY_ACCEPTED"
           row == [status |-> "ALLOCATED", lot |-> l, quantity |-> quantity,
                   conditionalUse |-> conditional]
<1>1. /\ allocation \in [Allocations -> AllocationRow]
      /\ allocation' = [allocation EXCEPT ![x] = row]
      /\ UNCHANGED <<order, asn, receipt, lot, definition, inspection>>
  BY DEF IInv, TypeOK, Allocate
<1>2. row \in AllocationRow
  BY DEF AllocationRow, AllocationStatuses
<1> HIDE DEF row
<1>3. TypeOK'
  BY <1>1, <1>2 DEF IInv, TypeOK
<1> QED  BY <1>1, <1>3, Untouched DEF IInv

\* An allocation that is released or consumed promises no more than before.
LEMMA TransitionAllocationKeeps ==
  ASSUME IInv, NEW x \in Allocations, NEW target \in AllocationStatuses,
         TransitionAllocation(x, target)
  PROVE  IInv'
<1> DEFINE row == [allocation[x] EXCEPT !.status = target]
<1>1. /\ allocation \in [Allocations -> AllocationRow] /\ allocation[x] \in AllocationRow
      /\ allocation' = [allocation EXCEPT ![x] = row]
      /\ UNCHANGED <<order, asn, receipt, lot, definition, inspection>>
  BY DEF IInv, TypeOK, TransitionAllocation
<1>2. row \in AllocationRow
  BY <1>1 DEF AllocationRow
<1> HIDE DEF row
<1>3. TypeOK'
  BY <1>1, <1>2 DEF IInv, TypeOK
<1> QED  BY <1>1, <1>3, Untouched DEF IInv

-----------------------------------------------------------------------------
(***************************************************************************)
(* The invariant.                                                          *)
(***************************************************************************)
\* In the initial state nothing has been shipped, received or decided.
LEMMA InitHolds == Init => IInv
<1> SUFFICES ASSUME Init PROVE IInv
  OBVIOUS
<1>1. /\ asn = [a \in Asns |-> NewAsn]
      /\ receipt = [r \in Receipts |-> NewReceipt]
      /\ lot = [l \in Lots |-> NewLot]
      /\ definition = [i \in Items |-> [c \in Checks |-> "ABSENT"]]
      /\ inspection = [l \in Lots |-> NewInspection]
      /\ allocation = [x \in Allocations |-> NewAllocation]
  BY DEF Init
<1>2. order \in OrderRow /\ order.revision = 1
  <2>1. PICK q \in [Items -> Quantities] :
          order = [status |-> "DRAFT", revision |-> 1,
                   ordered |-> [v \in Revisions |-> IF v = 1 THEN q ELSE NoLines]]
    BY DEF Init
  <2> DEFINE ordered == [v \in Revisions |-> IF v = 1 THEN q ELSE NoLines]
  <2>2. ordered \in [Revisions -> [Items -> Quantities]]
    BY Bounds
  <2> HIDE DEF ordered
  <2>3. 1 \in Revisions /\ "DRAFT" \in OrderStatuses
    BY Bounds DEF Revisions, OrderStatuses
  <2> QED  BY <2>1, <2>2, <2>3 DEF OrderRow, ordered
<1>3. TypeOK
  <2>1. NewAsn \in AsnRow
    BY Bounds DEF NewAsn, AsnRow, AsnStatuses
  <2>2. NewReceipt \in ReceiptRow
    BY Bounds DEF NewReceipt, ReceiptRow
  <2>3. NewLot \in StockRow
    BY DEF NewLot, StockRow, LotStatuses
  <2>4. NewInspection \in InspectionRow
    BY DEF NewInspection, InspectionRow, DefinitionStates, Results
  <2>5. NewAllocation \in AllocationRow
    BY Bounds DEF NewAllocation, AllocationRow, AllocationStatuses, Quantities
  <2> QED  BY <1>1, <1>2, <2>1, <2>2, <2>3, <2>4, <2>5 DEF TypeOK, DefinitionStates
<1>4. NoticeIsOfRevision
  BY <1>1, <1>2 DEF NoticeIsOfRevision, NewAsn
<1>5. ReceiptsAreOfNotices
  BY <1>1 DEF ReceiptsAreOfNotices, ReceiptIsOfNotice, NewReceipt
<1>6. LotIsOfReceipt
  <2>1. \A r \in Receipts, i \in Items : lot[<<r, i>>] = NewLot
    BY <1>1, LotsArePairs
  <2>2. \A r \in Receipts : receipt[r].status = "NONE"
    BY <1>1 DEF NewReceipt
  <2>3. NewLot.status = "NONE" /\ NewLot.quantity + NewLot.adjusted = 0
    BY DEF NewLot
  <2>4. \A r \in Receipts, i \in Items : Effective(<<r, i>>) = 0
    BY <2>1, <2>3 DEF Effective
  <2>5. ASSUME NEW r \in Receipts, NEW i \in Items
        PROVE  /\ lot[<<r, i>>].status = "NONE" /\ receipt[r].status # "POSTED"
               /\ lot[<<r, i>>] = NewLot /\ Effective(<<r, i>>) >= 0
    <3>1. lot[<<r, i>>] = NewLot /\ receipt[r].status = "NONE" /\ Effective(<<r, i>>) = 0
      BY <2>1, <2>2, <2>4
    <3> QED  BY <2>3, <3>1
  <2> QED  BY <2>5, Zenon DEF LotIsOfReceipt
<1>7. ASSUME NEW a \in Asns, NEW i \in Items
      PROVE  Posted(a, i) = 0 /\ Stocked(a, i) = 0 /\ asn[a].shipped[i] = 0
  <2>1. {r \in Receipts : receipt[r].asn = a /\ receipt[r].status = "POSTED"} = {}
    BY <1>1 DEF NewReceipt
  <2>2. {r \in Receipts : receipt[r].asn = a} = {}
    BY <1>1, MaterialAssumption DEF NewReceipt
  <2>3. asn[a].shipped[i] = 0
    BY <1>1, Bounds DEF NewAsn
  <2> QED  BY <2>1, <2>2, <2>3, SumOfNone DEF Posted, PostedOn, Stocked
<1>8. PostedWithinShipped /\ StockMatchesReceipts
  <2>1. ASSUME NEW a \in Asns, NEW i \in Items
        PROVE  0 <= Posted(a, i) /\ Posted(a, i) <= asn[a].shipped[i]
    BY <1>7
  <2>2. ASSUME NEW a \in Asns, NEW i \in Items
        PROVE  Posted(a, i) = Stocked(a, i)
    BY <1>7
  <2> QED  BY <2>1, <2>2 DEF PostedWithinShipped, StockMatchesReceipts, Stocked
<1>9. ShippedWithinOrdered
  <2>1. SUFFICES ASSUME NEW v \in Revisions, NEW i \in Items
                 PROVE  Shipped(v, i) <= order.ordered[v][i]
    BY DEF ShippedWithinOrdered
  <2>2. {a \in Asns : asn[a].revision = v /\ asn[a].status # "CANCELLED"} = {}
    BY <1>1 DEF NewAsn, Revisions
  <2>3. Shipped(v, i) = 0
    BY <2>2, SumOfNone DEF Shipped
  <2>4. order.ordered[v][i] \in Nat
    BY <1>2, Bounds DEF OrderRow, Quantities
  <2> QED  BY <2>3, <2>4
<1>10. InspectionDecidesLot
  BY <1>1 DEF InspectionDecidesLot, NewInspection, NewLot, Dispositions
<1> QED  BY <1>3, <1>4, <1>5, <1>6, <1>8, <1>9, <1>10 DEF IInv

\* Every command keeps the invariant.
LEMMA NextKeeps == IInv /\ [Next]_vars => IInv'
<1> SUFFICES ASSUME IInv, [Next]_vars PROVE IInv'
  OBVIOUS
<1>1. ASSUME UNCHANGED vars PROVE IInv'
  <2>1. UNCHANGED <<order, asn, receipt, lot, definition, inspection, allocation>>
    BY <1>1 DEF vars
  <2>2. TypeOK'
    BY <2>1 DEF IInv, TypeOK
  <2> QED  BY <2>1, <2>2, Untouched DEF IInv
<1>2. ASSUME ReceivingNext PROVE IInv'
  <2>1. ASSUME NEW target \in OrderStatuses \ {"DRAFT"}, TransitionOrder(target) PROVE IInv'
    BY <2>1, TransitionOrderKeeps
  <2>2. ASSUME NEW q \in [Items -> Quantities], ReviseOrder(q) PROVE IInv'
    BY <2>2, ReviseOrderKeeps
  <2>3. ASSUME NEW a \in Asns, NEW q \in [Items -> Quantities], CreateAsn(a, q) PROVE IInv'
    BY <2>3, CreateAsnKeeps
  <2>4. ASSUME NEW a \in Asns, NEW target \in AsnStatuses, TransitionAsn(a, target) PROVE IInv'
    BY <2>4, TransitionAsnKeeps
  <2>5. ASSUME NEW r \in Receipts, NEW a \in Asns, NEW q \in [Items -> Quantities],
               CreateReceipt(r, a, q)
        PROVE  IInv'
    BY <2>5, CreateReceiptKeeps
  <2>6. ASSUME NEW r \in Receipts, NEW original \in Receipts, NEW d \in [Items -> Deltas],
               CreateCorrection(r, original, d)
        PROVE  IInv'
    BY <2>6, CreateCorrectionKeeps
  <2>7. ASSUME NEW r \in Receipts, PostReceipt(r) PROVE IInv'
    BY <2>7, PostOriginalKeeps, PostCorrectionKeeps DEF PostReceipt
  <2> HIDE DEF IInv
  <2> QED  BY <1>2, <2>1, <2>2, <2>3, <2>4, <2>5, <2>6, <2>7, Zenon DEF ReceivingNext
<1>3. ASSUME InspectionsNext PROVE IInv'
  <2>1. ASSUME NEW i \in Items, NEW c \in Checks, NEW state \in DefinitionStates,
               CreateDefinition(i, c, state) \/ UpdateDefinition(i, c, state)
        PROVE  IInv'
    BY <2>1, DefinitionKeeps
  <2>2. ASSUME NEW l \in Lots, CreateExplicit(l) PROVE IInv'
    BY <2>2, CreateExplicitKeeps
  <2>3. ASSUME NEW l \in Lots, NEW recorded \in Recordings, SaveResults(l, recorded) PROVE IInv'
    BY <2>3, SaveResultsKeeps
  <2>4. ASSUME NEW l \in Lots, NEW disposition \in Dispositions, NEW accepted \in Quantities,
               NEW rejected \in Quantities, Finalize(l, disposition, accepted, rejected)
        PROVE  IInv'
    BY <2>4, FinalizeKeeps
  <2> QED  BY <1>3, <2>1, <2>2, <2>3, <2>4, Zenon DEF InspectionsNext
<1>4. ASSUME AllocationsNext PROVE IInv'
  <2>1. ASSUME NEW x \in Allocations, NEW l \in Lots, NEW quantity \in Quantities,
               NEW authorized \in BOOLEAN, NEW reason \in BOOLEAN,
               Allocate(x, l, quantity, authorized, reason)
        PROVE  IInv'
    BY <2>1, AllocateKeeps
  <2>2. ASSUME NEW x \in Allocations, NEW target \in AllocationStatuses,
               TransitionAllocation(x, target)
        PROVE  IInv'
    BY <2>2, TransitionAllocationKeeps
  <2> QED  BY <1>4, <2>1, <2>2, Zenon DEF AllocationsNext
<1> QED  BY <1>1, <1>2, <1>3, <1>4 DEF Next

\* The inductive invariant holds in every state the commands reach.
THEOREM Invariance == Spec => []IInv
<1>1. Init => IInv
  BY InitHolds
<1>2. IInv /\ [Next]_vars => IInv'
  BY NextKeeps
<1> QED  BY <1>1, <1>2, PTL DEF Spec

\* The tables hold rows of their types (one row of the code's tables each).
THEOREM TypeCorrect == Spec => []TypeOK
<1>1. IInv => TypeOK
  BY DEF IInv
<1> QED  BY <1>1, Invariance, PTL

\* Notices that are not cancelled never ship more than their revision of the
\* order orders, whatever is revised, cancelled or shipped in between.
THEOREM ShippedWithin == Spec => []ShippedWithinOrdered
<1>1. IInv => ShippedWithinOrdered
  BY DEF IInv
<1> QED  BY <1>1, Invariance, PTL

\* What receipts and corrections posted on a notice line is what its lots
\* hold, and it never exceeds what the notice ships.
THEOREM StockMatches == Spec => [](StockMatchesReceipts /\ PostedWithinShipped)
<1>1. IInv => StockMatchesReceipts /\ PostedWithinShipped
  BY DEF IInv
<1> QED  BY <1>1, Invariance, PTL

\* A lot and its inspection are decided together and alike, and a plain
\* acceptance rests on required checks that all conform.
THEOREM InspectionDecides == Spec => []InspectionDecidesLot
<1>1. IInv => InspectionDecidesLot
  BY DEF IInv
<1> QED  BY <1>1, Invariance, PTL

-----------------------------------------------------------------------------
(***************************************************************************)
(* The history of a lot.                                                   *)
(***************************************************************************)
\* A lot holds no more than a line can order: its notice line ships no more.
LEMMA LotWithinLimit ==
  ASSUME IInv, NEW l \in Lots
  PROVE  Effective(l) \in 0..MaxOrdered
<1>1. PICK r \in Receipts, i \in Items : l = <<r, i>>
  BY DEF Lots
<1>2. Effective(l) \in Int /\ Effective(l) >= 0
  BY <1>1, EffectiveType DEF IInv, LotIsOfReceipt
<1>3. CASE lot[l].status = "NONE"
  <2>1. Effective(l) = 0
    BY <1>1, <1>3, EffectiveType
  <2> QED  BY <2>1, Bounds
<1>4. CASE lot[l].status # "NONE"
  <2>1. receipt[r].status = "POSTED"
    BY <1>1, <1>4, EffectiveType
  <2>2. PICK a \in Asns : receipt[r].asn = a
    BY <2>1 DEF IInv, ReceiptsAreOfNotices, ReceiptIsOfNotice
  <2> DEFINE f == [s \in Receipts |-> Effective(<<s, i>>)]
             S == {s \in Receipts : receipt[s].asn = a}
  <2>3. IsFiniteSet(S) /\ r \in S /\ \A s \in S : f[s] \in Nat
    <3>1. IsFiniteSet(S)
      BY MaterialAssumption, FS_Subset
    <3>2. \A s \in Receipts : f[s] \in Nat
      BY EffectiveType DEF IInv, LotIsOfReceipt
    <3> QED  BY <2>2, <3>1, <3>2
  <2>4. f[r] <= SumFunctionOnSet(f, S) /\ SumFunctionOnSet(f, S) \in Nat
    <3> HIDE DEF f, S
    <3>1. SumFunctionOnSet(f, S) = f[r] + SumFunctionOnSet(f, S \ {r})
      BY <2>3, SumWithout
    <3>2. IsFiniteSet(S \ {r}) /\ \A s \in S \ {r} : f[s] \in Nat
      BY <2>3, FS_Subset
    <3>3. SumFunctionOnSet(f, S \ {r}) \in Nat
      BY <3>2, SumOfNat
    <3>4. f[r] \in Nat
      BY <2>3
    <3> QED  BY <3>1, <3>3, <3>4
  <2>5. f[r] = Effective(l)
    BY <1>1
  <2>6. SumFunctionOnSet(f, S) = Posted(a, i)
    BY DEF IInv, StockMatchesReceipts
  <2>7. Posted(a, i) <= asn[a].shipped[i] /\ asn[a].shipped[i] \in Quantities
    BY DEF IInv, PostedWithinShipped, TypeOK, AsnRow
  <2>8. Effective(l) <= Posted(a, i) /\ Posted(a, i) \in Nat
    BY <2>4, <2>5, <2>6
  <2> QED  BY <1>2, <2>7, <2>8, Bounds DEF Quantities
<1> QED  BY <1>3, <1>4

WatchedInRange == Effective(WatchedLot) \in 0..MaxOrdered

\* The watched lot stays within the limit of LotStock.
LEMMA WatchedWithinLimit == IInv => WatchedInRange
BY LotWithinLimit, WatchedLotAssumption DEF WatchedInRange

\* Nothing moves the watched lot of a step that leaves its row alone.
LEMMA LotAlone ==
  ASSUME lot'[WatchedLot] = lot[WatchedLot]
  PROVE  UNCHANGED Stock!vars
BY DEF Stock!vars, Effective

\* Posting an original receipt receives the lot, or leaves it alone.
LEMMA PostOriginalReceives ==
  ASSUME IInv, IInv', NEW r \in Receipts, PostOriginal(r)
  PROVE  [Stock!Next]_(Stock!vars)
<1>1. PICK s \in Receipts, i \in Items : WatchedLot = <<s, i>>
  BY WatchedLotAssumption DEF Lots
<1>2. CASE s # r
  <2>1. lot'[WatchedLot] = lot[WatchedLot]
    BY <1>1, <1>2, OriginalLots
  <2> QED  BY <2>1, LotAlone
<1>3. CASE receipt[r].delta[i] = 0 /\ s = r
  <2>1. lot'[WatchedLot] = lot[WatchedLot]
    BY <1>1, <1>3, OriginalLots
  <2> QED  BY <2>1, LotAlone
<1>4. CASE receipt[r].delta[i] # 0 /\ s = r
  <2>1. /\ lot[WatchedLot].status = "NONE"
        /\ lot'[WatchedLot].status = "AWAITING_INSPECTION"
        /\ lot'[WatchedLot].accepted = lot[WatchedLot].accepted
        /\ lot'[WatchedLot].rejected = lot[WatchedLot].rejected
        /\ lot'[WatchedLot].quarantined = lot[WatchedLot].quarantined
    BY <1>1, <1>4, OriginalLots
  <2>2. Effective(WatchedLot)' = receipt[r].delta[i]
    BY <1>1, <1>4, OriginalLots
  <2>3. WatchedInRange'
    BY WatchedWithinLimit, PTL
  <2>4. Effective(WatchedLot)' \in 1..MaxOrdered
    BY <1>4, <2>2, <2>3, Bounds DEF WatchedInRange
  <2>5. Stock!Receive
    BY <2>1, <2>4 DEF Stock!Receive
  <2> QED  BY <2>5 DEF Stock!Next
<1> QED  BY <1>2, <1>3, <1>4

\* Posting a correction moves what the lot holds while it awaits inspection.
LEMMA PostCorrectionCorrects ==
  ASSUME IInv, IInv', NEW r \in Receipts, PostCorrection(r)
  PROVE  [Stock!Next]_(Stock!vars)
<1>1. PICK s \in Receipts, i \in Items : WatchedLot = <<s, i>>
  BY WatchedLotAssumption DEF Lots
<1>2. PICK o \in Receipts : receipt[r].corrects = o
  BY OriginalOf
<1>3. CASE s # o
  <2>1. lot'[<<s, i>>] = lot[<<s, i>>] /\ lot'[<<o, i>>].status = lot[<<o, i>>].status
    BY <1>2, <1>3, CorrectedLots
  <2> QED  BY <1>1, <2>1, LotAlone
<1>4. CASE receipt[r].delta[i] = 0 /\ s = o
  <2>1. lot'[WatchedLot] = lot[WatchedLot]
    BY <1>1, <1>2, <1>4, CorrectedLots
  <2> QED  BY <2>1, LotAlone
<1>5. CASE receipt[r].delta[i] # 0 /\ s = o
  <2>1. /\ lot[WatchedLot].status = "AWAITING_INSPECTION"
        /\ lot'[WatchedLot].status = lot[WatchedLot].status
        /\ lot'[WatchedLot].accepted = lot[WatchedLot].accepted
        /\ lot'[WatchedLot].rejected = lot[WatchedLot].rejected
        /\ lot'[WatchedLot].quarantined = lot[WatchedLot].quarantined
    BY <1>1, <1>2, <1>5, CorrectedLots
  <2>2. WatchedInRange'
    BY WatchedWithinLimit, PTL
  <2>3. Stock!Correct
    BY <2>1, <2>2 DEF Stock!Correct, WatchedInRange
  <2> QED  BY <2>3 DEF Stock!Next
<1> QED  BY <1>3, <1>4, <1>5

\* Finalizing an inspection disposes of its lot.
LEMMA FinalizeDisposes ==
  ASSUME IInv, NEW l \in Lots, NEW disposition \in Dispositions,
         NEW accepted \in Quantities, NEW rejected \in Quantities,
         Finalize(l, disposition, accepted, rejected)
  PROVE  [Stock!Next]_(Stock!vars)
<1>1. CASE l # WatchedLot
  <2>1. lot'[WatchedLot] = lot[WatchedLot]
    BY <1>1, WatchedLotAssumption, FinalizedRows
  <2> QED  BY <2>1, LotAlone
<1>2. CASE l = WatchedLot
  <2>1. /\ lot[WatchedLot].status = "AWAITING_INSPECTION"
        /\ ValidDecision(Effective(WatchedLot), disposition, accepted, rejected)
    BY <1>2 DEF Finalize, DecidedQuantity
  <2>2. /\ lot'[WatchedLot].status = disposition
        /\ lot'[WatchedLot].accepted = accepted
        /\ lot'[WatchedLot].rejected = rejected
        /\ lot'[WatchedLot].quarantined = Effective(WatchedLot) - accepted - rejected
        /\ Effective(WatchedLot) \in Int
    BY <1>2, FinalizedRows
  <2>3. Effective(WatchedLot)' = Effective(WatchedLot)
    BY <1>2, FinalizedRows DEF Effective
  <2>4. /\ accepted \in 0..Effective(WatchedLot)
        /\ rejected \in 0..Effective(WatchedLot)
    <3>1. /\ accepted >= 0 /\ rejected >= 0 /\ accepted + rejected <= Effective(WatchedLot)
          /\ accepted \in Int /\ rejected \in Int
      BY <2>1, Bounds DEF ValidDecision, Quantities
    <3> QED  BY <2>2, <3>1
  <2>5. Stock!Dispose
    BY <2>1, <2>2, <2>3, <2>4 DEF Stock!Dispose, Stock!Quarantined, Stock!ValidDecision,
       Stock!Dispositions, Stock!AllocatableStatuses, ValidDecision, Quarantined, Dispositions,
       AllocatableStatuses
  <2> QED  BY <2>5 DEF Stock!Next
<1> QED  BY <1>1, <1>2

\* Whatever the commands on notices, receipts, inspections and allocations do,
\* the stock of a lot moves only as LotStock promises: every lot's history is
\* one of receiving, correcting and disposing, within what a line can order.
THEOREM Implements == Spec => ImplementsLotStock
<1>1. Init => Stock!Init
  <2>1. ASSUME Init PROVE lot[WatchedLot] = NewLot
    BY <2>1, WatchedLotAssumption DEF Init
  <2> QED  BY <2>1 DEF Stock!Init, Effective, NewLot
<1>2. IInv /\ IInv' /\ [Next]_vars => [Stock!Next]_(Stock!vars)
  <2> SUFFICES ASSUME IInv, IInv', [Next]_vars PROVE [Stock!Next]_(Stock!vars)
    OBVIOUS
  <2>1. ASSUME UNCHANGED lot PROVE [Stock!Next]_(Stock!vars)
    BY <2>1, LotAlone
  <2>2. ASSUME UNCHANGED vars \/ AllocationsNext PROVE UNCHANGED lot
    BY <2>2 DEF vars, AllocationsNext, Allocate, TransitionAllocation
  <2>3. ASSUME ReceivingNext
        PROVE  UNCHANGED lot \/ \E r \in Receipts : PostOriginal(r) \/ PostCorrection(r)
    BY <2>3 DEF ReceivingNext, TransitionOrder, ReviseOrder, CreateAsn, TransitionAsn,
       CreateReceipt, CreateCorrection, PostReceipt
  <2>4. ASSUME InspectionsNext
        PROVE  \/ UNCHANGED lot
               \/ \E l \in Lots, disposition \in Dispositions, accepted, rejected \in Quantities :
                    Finalize(l, disposition, accepted, rejected)
    BY <2>4 DEF InspectionsNext, CreateDefinition, UpdateDefinition, CreateExplicit, SaveResults
  <2>5. ASSUME NEW r \in Receipts, PostOriginal(r) \/ PostCorrection(r)
        PROVE  [Stock!Next]_(Stock!vars)
    BY <2>5, PostOriginalReceives, PostCorrectionCorrects
  <2>6. ASSUME NEW l \in Lots, NEW disposition \in Dispositions, NEW accepted \in Quantities,
               NEW rejected \in Quantities, Finalize(l, disposition, accepted, rejected)
        PROVE  [Stock!Next]_(Stock!vars)
    BY <2>6, FinalizeDisposes
  <2>7. ReceivingNext \/ InspectionsNext \/ AllocationsNext \/ UNCHANGED vars
    BY DEF Next
  <2> DEFINE step == [Stock!Next]_(Stock!vars)
  <2> HIDE DEF step
  <2>8. ASSUME ReceivingNext PROVE step
    BY <2>1, <2>3, <2>5, <2>8, Zenon DEF step
  <2>9. ASSUME InspectionsNext PROVE step
    BY <2>1, <2>4, <2>6, <2>9, Zenon DEF step
  <2>10. step
    BY <2>1, <2>2, <2>7, <2>8, <2>9, Zenon DEF step
  <2> QED  BY <2>10 DEF step
<1> QED  BY <1>1, <1>2, Invariance, PTL DEF Spec, ImplementsLotStock, Stock!Spec

-----------------------------------------------------------------------------
(***************************************************************************)
(* The triggers.                                                           *)
(***************************************************************************)
AsnGuards == AsnInsertGuard /\ AsnUpdateGuard
ReceiptGuards == ReceiptInsertGuard /\ ReceiptUpdateGuard
LotGuards == LotInsertGuard /\ LotUpdateGuard /\ AdjustmentInsertGuard
InspectionGuards == InspectionUpdateGuard /\ CheckUpdateGuard
AllocationGuards == AllocationInsertGuard /\ AllocationUpdateGuard

\* Setting a field of a row to the value it has leaves the row as it is.
LEMMA SameAdjusted ==
  ASSUME NEW row \in StockRow
  PROVE  [row EXCEPT !.adjusted = row.adjusted] = row
BY DEF StockRow

\* The triggers of a table have nothing to say where no row of it changes.
LEMMA TriggersOfUntouched ==
  ASSUME IInv
  PROVE  /\ UNCHANGED asn => AsnGuards
         /\ UNCHANGED receipt => ReceiptGuards
         /\ UNCHANGED lot => LotGuards
         /\ UNCHANGED inspection => InspectionGuards
         /\ UNCHANGED allocation => AllocationGuards
<1>1. UNCHANGED asn => AsnGuards
  BY DEF AsnGuards, AsnInsertGuard, AsnUpdateGuard, Inserted, Updated
<1>2. UNCHANGED receipt => ReceiptGuards
  BY DEF ReceiptGuards, ReceiptInsertGuard, ReceiptUpdateGuard, Inserted, Updated
<1>3. UNCHANGED lot => LotGuards
  <2>1. \A l \in Lots : [lot[l] EXCEPT !.adjusted = lot[l].adjusted] = lot[l]
    BY SameAdjusted DEF IInv, TypeOK
  <2> QED  BY <2>1 DEF LotGuards, LotInsertGuard, LotUpdateGuard, AdjustmentInsertGuard, Inserted
<1>4. UNCHANGED inspection => InspectionGuards
  BY DEF InspectionGuards, InspectionUpdateGuard, CheckUpdateGuard, Updated
<1>5. UNCHANGED allocation => AllocationGuards
  BY DEF AllocationGuards, AllocationInsertGuard, AllocationUpdateGuard, Inserted, Updated
<1> QED  BY <1>1, <1>2, <1>3, <1>4, <1>5

\* validate_advance_shipment_notice_scope and guard_advance_shipment_notice_update
LEMMA CreateAsnAccepted ==
  ASSUME IInv, NEW a \in Asns, NEW q \in [Items -> Quantities], CreateAsn(a, q)
  PROVE  AsnGuards
<1> DEFINE row == [status |-> "DRAFT", revision |-> order.revision, shipped |-> q]
<1>1. /\ asn \in [Asns -> AsnRow] /\ asn[a].status = "NONE"
      /\ asn' = [asn EXCEPT ![a] = row] /\ order.status = "ACKNOWLEDGED"
  BY DEF IInv, TypeOK, CreateAsn
<1>2. row.revision = order.revision
  OBVIOUS
<1> HIDE DEF row
<1>3. asn'[a] = row /\ \A b \in Asns \ {a} : asn'[b] = asn[b]
  BY <1>1
<1>4. AsnInsertGuard
  BY <1>1, <1>2, <1>3 DEF AsnInsertGuard, Inserted
<1>5. AsnUpdateGuard
  <2>1. \A b \in Asns : ~ Updated(asn, b)
    BY <1>1, <1>3 DEF Updated
  <2> QED  BY <2>1 DEF AsnUpdateGuard
<1> QED  BY <1>4, <1>5 DEF AsnGuards

\* A notice moves along its lifecycle, as its trigger asks.
LEMMA TransitionAsnAccepted ==
  ASSUME IInv, NEW a \in Asns, NEW target \in AsnStatuses, TransitionAsn(a, target)
  PROVE  AsnGuards
<1> DEFINE row == [asn[a] EXCEPT !.status = target]
<1>1. /\ asn \in [Asns -> AsnRow] /\ asn[a] \in AsnRow
      /\ CanTransitionShipment(asn[a].status, target)
      /\ asn' = [asn EXCEPT ![a] = row]
  BY DEF IInv, TypeOK, TransitionAsn
<1>2. row.status = target
  BY <1>1 DEF AsnRow
<1>3. row = [asn[a] EXCEPT !.status = row.status]
  BY <1>2
<1> HIDE DEF row
<1>4. asn'[a] = row /\ \A b \in Asns \ {a} : asn'[b] = asn[b]
  BY <1>1
<1>5. AsnInsertGuard
  <2>1. \A b \in Asns : ~ Inserted(asn, b)
    BY <1>1, <1>4 DEF Inserted, CanTransitionShipment
  <2> QED  BY <2>1 DEF AsnInsertGuard
<1>6. AsnUpdateGuard
  <2>1. SUFFICES ASSUME NEW b \in Asns, Updated(asn, b)
                 PROVE  /\ asn'[b] = [asn[b] EXCEPT !.status = asn'[b].status]
                        /\ <<asn[b].status, asn'[b].status>> \in
                             {<<"DRAFT", "SUBMITTED">>, <<"DRAFT", "CANCELLED">>,
                              <<"SUBMITTED", "IN_TRANSIT">>, <<"SUBMITTED", "CANCELLED">>,
                              <<"IN_TRANSIT", "ARRIVED">>}
    BY DEF AsnUpdateGuard
  <2>2. b = a
    BY <1>4, <2>1 DEF Updated
  <2>3. asn'[b] = [asn[b] EXCEPT !.status = asn'[b].status]
    BY <1>3, <1>4, <2>2
  <2>4. asn'[b].status = target
    BY <1>2, <1>4, <2>2
  <2>5. \/ asn[b].status = "DRAFT" /\ target \in {"SUBMITTED", "CANCELLED"}
        \/ asn[b].status = "SUBMITTED" /\ target \in {"IN_TRANSIT", "CANCELLED"}
        \/ asn[b].status = "IN_TRANSIT" /\ target = "ARRIVED"
    BY <1>1, <2>2 DEF CanTransitionShipment
  <2>6. <<asn[b].status, target>> \in
          {<<"DRAFT", "SUBMITTED">>, <<"DRAFT", "CANCELLED">>,
           <<"SUBMITTED", "IN_TRANSIT">>, <<"SUBMITTED", "CANCELLED">>,
           <<"IN_TRANSIT", "ARRIVED">>}
    BY <2>5
  <2> QED  BY <2>3, <2>4, <2>6
<1> QED  BY <1>5, <1>6 DEF AsnGuards

\* validate_goods_receipt_scope, validate_goods_receipt_line_scope and
\* guard_goods_receipt_update: for a new draft.
LEMMA DraftAccepted ==
  ASSUME IInv, NEW r \in Receipts, NEW row, receipt[r].status = "NONE",
         row.asn \in Asns, asn[row.asn].status = "ARRIVED",
         row.kind = "RECEIPT" => \A i \in Items : row.delta[i] >= 0,
         row.kind = "CORRECTION" =>
           /\ receipt[row.corrects].kind = "RECEIPT"
           /\ receipt[row.corrects].status = "POSTED"
           /\ receipt[row.corrects].asn = row.asn
           /\ \A i \in Items : row.delta[i] # 0 => receipt[row.corrects].delta[i] # 0,
         receipt' = [receipt EXCEPT ![r] = row]
  PROVE  ReceiptGuards
<1>1. receipt \in [Receipts -> ReceiptRow]
  BY DEF IInv, TypeOK
<1>2. receipt'[r] = row /\ \A s \in Receipts \ {r} : receipt'[s] = receipt[s]
  BY <1>1
<1>3. ReceiptInsertGuard
  <2>1. \A s \in Receipts : Inserted(receipt, s) => s = r
    BY <1>2 DEF Inserted
  <2> QED  BY <1>2, <2>1 DEF ReceiptInsertGuard
<1>4. ReceiptUpdateGuard
  <2>1. \A s \in Receipts : ~ Updated(receipt, s)
    BY <1>2 DEF Updated
  <2> QED  BY <2>1 DEF ReceiptUpdateGuard
<1> QED  BY <1>3, <1>4 DEF ReceiptGuards

\* A new draft is one the trigger of receipts takes.
LEMMA CreateReceiptAccepted ==
  ASSUME IInv, NEW r \in Receipts, NEW a \in Asns, NEW q \in [Items -> Quantities],
         CreateReceipt(r, a, q)
  PROVE  ReceiptGuards
<1> DEFINE row == [kind |-> "RECEIPT", status |-> "DRAFT", asn |-> a,
                   corrects |-> NoReceipt, delta |-> q]
<1>1. /\ receipt[r].status = "NONE" /\ asn[a].status = "ARRIVED"
      /\ receipt' = [receipt EXCEPT ![r] = row]
  BY DEF CreateReceipt
<1>2. row.kind = "RECEIPT" /\ row.asn = a /\ \A i \in Items : row.delta[i] >= 0
  BY Bounds DEF Quantities
<1> HIDE DEF row
<1> QED  BY <1>1, <1>2, DraftAccepted

\* So is a new correction.
LEMMA CreateCorrectionAccepted ==
  ASSUME IInv, NEW r \in Receipts, NEW original \in Receipts, NEW d \in [Items -> Deltas],
         CreateCorrection(r, original, d)
  PROVE  ReceiptGuards
<1> DEFINE a == receipt[original].asn
           row == [kind |-> "CORRECTION", status |-> "DRAFT", asn |-> a,
                   corrects |-> original, delta |-> d]
<1>1. /\ receipt[r].status = "NONE"
      /\ receipt[original].kind = "RECEIPT" /\ receipt[original].status = "POSTED"
      /\ \A i \in Items : d[i] # 0 => receipt[original].delta[i] # 0
      /\ receipt' = [receipt EXCEPT ![r] = row]
  BY DEF CreateCorrection
<1>2. a \in Asns /\ asn[a].status = "ARRIVED"
  BY <1>1 DEF IInv, ReceiptsAreOfNotices, ReceiptIsOfNotice
<1>3. row.kind = "CORRECTION" /\ row.asn = a /\ row.corrects = original /\ row.delta = d
  OBVIOUS
<1> HIDE DEF row
<1> QED  BY <1>1, <1>2, <1>3, DraftAccepted

\* The same triggers, for a receipt that is posted.
LEMMA PostingAccepted ==
  ASSUME IInv, NEW r \in Receipts, PostingChecks(r),
         receipt' = [receipt EXCEPT ![r].status = "POSTED"]
  PROVE  ReceiptGuards
<1>1. /\ receipt[r].status = "DRAFT" /\ receipt'[r].status = "POSTED"
      /\ \A s \in Receipts \ {r} : receipt'[s] = receipt[s]
  BY PostingIsOfOne
<1>2. receipt'[r] = [receipt[r] EXCEPT !.status = "POSTED"]
  BY DEF IInv, TypeOK
<1>3. ReceiptInsertGuard
  <2>1. \A s \in Receipts : ~ Inserted(receipt, s)
    BY <1>1 DEF Inserted
  <2> QED  BY <2>1 DEF ReceiptInsertGuard
<1>4. ReceiptUpdateGuard
  <2>1. \A s \in Receipts : Updated(receipt, s) => s = r
    BY <1>1 DEF Updated
  <2> QED  BY <1>1, <1>2, <2>1 DEF ReceiptUpdateGuard
<1> QED  BY <1>3, <1>4 DEF ReceiptGuards

\* validate_inventory_lot_scope, and the lots the update triggers do not
\* concern: those that are new.
LEMMA PostOriginalAccepted ==
  ASSUME IInv, NEW r \in Receipts, PostOriginal(r)
  PROVE  LotGuards /\ InspectionGuards
<1> DEFINE created == {r} \X LinesOf(r)
<1>1. /\ PostingChecks(r) /\ receipt[r].kind = "RECEIPT"
      /\ receipt' = [receipt EXCEPT ![r].status = "POSTED"]
      /\ inspection' = [l \in Lots |-> IF l \in created THEN InspectionForLot(l)
                                       ELSE inspection[l]]
  BY DEF PostOriginal
<1>2. receipt'[r].status = "POSTED" /\ receipt'[r].kind = "RECEIPT"
  BY <1>1, PostingIsOfOne
<1>3. ASSUME NEW l \in Lots
      PROVE  /\ l \in created => lot[l].status = "NONE" /\ l[1] = r
             /\ l \notin created => lot'[l] = lot[l]
  <2>1. l \notin created => lot'[l] = lot[l]
    BY DEF PostOriginal
  <2>2. ASSUME l \in created PROVE lot[l].status = "NONE" /\ l[1] = r
    <3>1. PICK i \in Items : l = <<r, i>>
      BY <2>2 DEF LinesOf
    <3> QED  BY <3>1, OriginalLots
  <2> QED  BY <2>1, <2>2
<1>4. LotGuards
  <2>1. LotInsertGuard
    <3>1. \A l \in Lots : Inserted(lot, l) => l[1] = r
      BY <1>3 DEF Inserted
    <3> QED  BY <1>2, <3>1 DEF LotInsertGuard
  <2>2. \A l \in Lots : lot[l].status # "NONE" => lot'[l] = lot[l]
    BY <1>3
  <2>3. LotUpdateGuard
    <3>1. \A l \in Lots : [lot[l] EXCEPT !.adjusted = lot[l].adjusted] = lot[l]
      BY SameAdjusted DEF IInv, TypeOK
    <3> QED  BY <2>2, <3>1 DEF LotUpdateGuard
  <2>4. AdjustmentInsertGuard
    BY <2>2 DEF AdjustmentInsertGuard
  <2> QED  BY <2>1, <2>3, <2>4 DEF LotGuards
<1>5. InspectionGuards
  <2>1. ASSUME NEW l \in Lots PROVE ~ Updated(inspection, l)
    <3>1. inspection'[l] = inspection[l] \/ inspection'[l] = InspectionForLot(l)
      <4> HIDE DEF created
      <4> QED  BY <1>1
    <3> QED  BY <3>1, InspectionOfLot DEF Updated, IInv
  <2> QED  BY <2>1 DEF InspectionGuards, InspectionUpdateGuard, CheckUpdateGuard
<1> QED  BY <1>4, <1>5

\* guard_inventory_lot_inspection_update leaves adjustments alone, and
\* validate_inventory_lot_adjustment_scope wants the posting of a correction
\* and a lot that awaits inspection.
LEMMA PostCorrectionAccepted ==
  ASSUME IInv, NEW r \in Receipts, PostCorrection(r)
  PROVE  LotGuards
<1>1. /\ PostingChecks(r) /\ receipt[r].kind = "CORRECTION"
      /\ receipt' = [receipt EXCEPT ![r].status = "POSTED"]
  BY DEF PostCorrection
<1>2. receipt[r].status = "DRAFT" /\ receipt'[r].status = "POSTED"
  BY <1>1, PostingIsOfOne
<1> DEFINE corrected == {receipt[r].corrects} \X LinesOf(r)
<1>3. ASSUME NEW l \in Lots
      PROVE  /\ l \notin corrected => lot'[l] = lot[l]
             /\ l \in corrected =>
                  /\ lot[l].status = "AWAITING_INSPECTION"
                  /\ lot'[l] = [lot[l] EXCEPT !.adjusted = lot'[l].adjusted]
  <2>1. /\ l \in corrected => CorrectionFits(l, receipt[r].delta[ItemOf(l)])
        /\ lot'[l] = IF l \in corrected
                     THEN [lot[l] EXCEPT !.adjusted = @ + receipt[r].delta[ItemOf(l)]]
                     ELSE lot[l]
    BY DEF PostCorrection
  <2> DEFINE row == lot[l]
             sum == row.adjusted + receipt[r].delta[ItemOf(l)]
             new == [row EXCEPT !.adjusted = sum]
  <2>2. row \in StockRow
    BY DEF IInv, TypeOK
  <2>3. new = [row EXCEPT !.adjusted = new.adjusted]
    <3> HIDE DEF row, sum
    <3> QED  BY <2>2 DEF StockRow
  <2>4. l \in corrected => lot'[l] = new
    <3> HIDE DEF corrected
    <3> QED  BY <2>1
  <2>5. l \in corrected => lot'[l] = [row EXCEPT !.adjusted = lot'[l].adjusted]
    <3> HIDE DEF corrected, new, row
    <3> QED  BY <2>3, <2>4
  <2> QED  BY <2>1, <2>5 DEF CorrectionFits
<1>4. \A l \in Lots : lot'[l].status = lot[l].status
  <2>1. ASSUME NEW s \in Receipts, NEW i \in Items
        PROVE  lot'[<<s, i>>].status = lot[<<s, i>>].status
    <3>1. PICK o \in Receipts : receipt[r].corrects = o
      BY OriginalOf
    <3>2. /\ s # o => lot'[<<s, i>>] = lot[<<s, i>>]
          /\ lot'[<<o, i>>].status = lot[<<o, i>>].status
      BY <3>1, CorrectedLots
    <3> QED  BY <3>2
  <2> QED  BY <2>1, LotsArePairs
<1>5. LotInsertGuard
  BY <1>4 DEF LotInsertGuard, Inserted
<1>6. LotUpdateGuard
  <2>1. ASSUME NEW l \in Lots
        PROVE  [lot'[l] EXCEPT !.adjusted = lot[l].adjusted] = lot[l]
    <3> DEFINE row == lot[l]
               new == lot'[l]
    <3>1. row \in StockRow
      BY DEF IInv, TypeOK
    <3>2. new = row \/ new = [row EXCEPT !.adjusted = new.adjusted]
      <4> HIDE DEF corrected
      <4> QED  BY <1>3
    <3> HIDE DEF row, new
    <3>3. [new EXCEPT !.adjusted = row.adjusted] = row
      BY <3>1, <3>2 DEF StockRow
    <3> QED  BY <3>3 DEF row, new
  <2> QED  BY <2>1 DEF LotUpdateGuard
<1>7. AdjustmentInsertGuard
  <2>1. \A l \in Lots : lot'[l].adjusted # lot[l].adjusted => lot[l].status = "AWAITING_INSPECTION"
    <3> HIDE DEF corrected
    <3> QED  BY <1>3
  <2> QED  BY <1>1, <1>2, <2>1 DEF AdjustmentInsertGuard
<1> QED  BY <1>5, <1>6, <1>7 DEF LotGuards

\* guard_receiving_inspection_update and guard_receiving_inspection_check_update
LEMMA CreateExplicitAccepted ==
  ASSUME IInv, NEW l \in Lots, CreateExplicit(l)
  PROVE  InspectionGuards
<1>1. /\ inspection \in [Lots -> InspectionRow] /\ inspection[l].status = "NONE"
      /\ inspection' = [inspection EXCEPT ![l] = InspectionForLot(l)]
  BY DEF IInv, TypeOK, CreateExplicit
<1>2. \A m \in Lots : ~ Updated(inspection, m)
  BY <1>1 DEF Updated
<1> QED  BY <1>2 DEF InspectionGuards, InspectionUpdateGuard, CheckUpdateGuard

\* Results are only written into inspections that are open.
LEMMA SaveResultsAccepted ==
  ASSUME IInv, NEW l \in Lots, NEW recorded \in Recordings, SaveResults(l, recorded)
  PROVE  InspectionGuards
<1> DEFINE old == inspection[l]
           result == [c \in Checks |-> IF c \in DOMAIN recorded THEN recorded[c]
                                       ELSE old.result[c]]
           row == [old EXCEPT !.result = result]
<1>1. /\ inspection \in [Lots -> InspectionRow] /\ old \in InspectionRow
      /\ old.status = "OPEN"
      /\ inspection' = [inspection EXCEPT ![l] = row]
  BY DEF IInv, TypeOK, SaveResults, Recordable
<1>2. row.status = "OPEN" /\ row.checks = old.checks
  <2> HIDE DEF old, result
  <2> QED  BY <1>1 DEF InspectionRow
<1> HIDE DEF row
<1>3. inspection'[l] = row /\ \A m \in Lots \ {l} : inspection'[m] = inspection[m]
  BY <1>1
<1>4. \A m \in Lots : Updated(inspection, m) => m = l
  BY <1>3 DEF Updated
<1> QED  BY <1>1, <1>2, <1>3, <1>4 DEF InspectionGuards, InspectionUpdateGuard, CheckUpdateGuard

\* guard_inventory_lot_inspection_update and guard_receiving_inspection_update,
\* for a lot and the inspection that decides it.
LEMMA FinalizeAccepted ==
  ASSUME IInv, NEW l \in Lots, NEW disposition \in Dispositions,
         NEW accepted \in Quantities, NEW rejected \in Quantities,
         Finalize(l, disposition, accepted, rejected)
  PROVE  LotGuards /\ InspectionGuards
<1>1. /\ inspection[l].status = "OPEN" /\ lot[l].status = "AWAITING_INSPECTION"
      /\ ValidDecision(Effective(l), disposition, accepted, rejected)
  BY DEF Finalize, DecidedQuantity
<1>2. \A m \in Lots : lot'[m].status = "NONE" => lot[m].status = "NONE"
  BY FinalizedRows DEF Dispositions
<1>3. \A m \in Lots \ {l} : lot'[m] = lot[m] /\ inspection'[m] = inspection[m]
  BY FinalizedRows
<1>4. \A m \in Lots : lot'[m].adjusted = lot[m].adjusted
  BY FinalizedRows
<1>5. LotInsertGuard
  <2>1. \A m \in Lots : ~ Inserted(lot, m)
    BY <1>1, <1>3 DEF Inserted
  <2> QED  BY <2>1 DEF LotInsertGuard
<1>6. LotUpdateGuard
  <2>1. ASSUME NEW m \in Lots
        PROVE  [lot'[m] EXCEPT !.adjusted = lot[m].adjusted] = lot'[m]
    <3> DEFINE row == lot'[m]
    <3>1. row \in StockRow
      BY FinalizedRows
    <3>2. lot[m].adjusted = row.adjusted
      BY <1>4
    <3> HIDE DEF row
    <3>3. [row EXCEPT !.adjusted = lot[m].adjusted] = row
      BY <3>1, <3>2 DEF StockRow
    <3> QED  BY <3>3 DEF row
  <2>2. SUFFICES ASSUME NEW m \in Lots, lot[m].status # "NONE", lot'[m] # lot[m]
                 PROVE  /\ lot'[m].quantity = lot[m].quantity
                        /\ lot[m].status = "AWAITING_INSPECTION"
                        /\ lot'[m].status # "AWAITING_INSPECTION"
                        /\ lot'[m].accepted + lot'[m].rejected <= Effective(m)
                        /\ lot'[m].quarantined = Effective(m) - lot'[m].accepted - lot'[m].rejected
                        /\ inspection'[m].status = "FINALIZED"
                        /\ inspection'[m].disposition = lot'[m].status
    BY <2>1 DEF LotUpdateGuard
  <2>3. m = l
    BY <1>3, <2>2
  <2>4. disposition # "AWAITING_INSPECTION"
    BY DEF Dispositions
  <2>5. accepted + rejected <= Effective(l)
    BY <1>1 DEF ValidDecision
  <2> QED  BY <1>1, <2>3, <2>4, <2>5, FinalizedRows
<1>7. AdjustmentInsertGuard
  BY <1>4 DEF AdjustmentInsertGuard
<1>8. InspectionGuards
  <2>1. \A m \in Lots : Updated(inspection, m) => m = l
    BY <1>3 DEF Updated
  <2>2. /\ inspection'[l].status = "FINALIZED"
        /\ inspection'[l].checks = inspection[l].checks
    BY FinalizedRows
  <2> QED  BY <1>1, <2>1, <2>2 DEF InspectionGuards, InspectionUpdateGuard, CheckUpdateGuard
<1> QED  BY <1>5, <1>6, <1>7, <1>8 DEF LotGuards

\* validate_material_allocation_insert and guard_material_allocation_update
LEMMA AllocateAccepted ==
  ASSUME IInv, NEW x \in Allocations, NEW l \in Lots, NEW quantity \in Quantities,
         NEW authorized \in BOOLEAN, NEW reason \in BOOLEAN,
         Allocate(x, l, quantity, authorized, reason)
  PROVE  AllocationGuards
<1> DEFINE conditional == lot[l].status = "CONDITIONALLY_ACCEPTED"
           row == [status |-> "ALLOCATED", lot |-> l, quantity |-> quantity,
                   conditionalUse |-> conditional]
<1>1. /\ allocation \in [Allocations -> AllocationRow]
      /\ allocation[x].status = "NONE"
      /\ lot[l].status \in AllocatableStatuses
      /\ Committed(l) + quantity <= lot[l].accepted
      /\ allocation' = [allocation EXCEPT ![x] = row]
  BY DEF IInv, TypeOK, Allocate, Available
<1>2. row.lot = l /\ row.quantity = quantity /\ row.conditionalUse = conditional
  OBVIOUS
<1> HIDE DEF row
<1>3. allocation'[x] = row /\ \A y \in Allocations \ {x} : allocation'[y] = allocation[y]
  BY <1>1
<1>4. AllocationInsertGuard
  <2>1. \A y \in Allocations : Inserted(allocation, y) => y = x
    BY <1>3 DEF Inserted
  <2> QED  BY <1>1, <1>2, <1>3, <2>1 DEF AllocationInsertGuard
<1>5. AllocationUpdateGuard
  <2>1. \A y \in Allocations : ~ Updated(allocation, y)
    BY <1>1, <1>3 DEF Updated
  <2> QED  BY <2>1 DEF AllocationUpdateGuard
<1> QED  BY <1>4, <1>5 DEF AllocationGuards

\* An allocation keeps its lot and quantity when its status moves.
LEMMA TransitionAllocationAccepted ==
  ASSUME IInv, NEW x \in Allocations, NEW target \in AllocationStatuses,
         TransitionAllocation(x, target)
  PROVE  AllocationGuards
<1> DEFINE row == [allocation[x] EXCEPT !.status = target]
<1>1. /\ allocation \in [Allocations -> AllocationRow] /\ allocation[x] \in AllocationRow
      /\ allocation[x].status = "ALLOCATED" /\ target \in {"CONSUMED", "RELEASED"}
      /\ allocation' = [allocation EXCEPT ![x] = row]
  BY DEF IInv, TypeOK, TransitionAllocation, CanTransitionAllocation
<1>2. row.status = target
  BY <1>1 DEF AllocationRow
<1>3. row = [allocation[x] EXCEPT !.status = row.status]
  BY <1>2
<1> HIDE DEF row
<1>4. allocation'[x] = row /\ \A y \in Allocations \ {x} : allocation'[y] = allocation[y]
  BY <1>1
<1>5. AllocationInsertGuard
  <2>1. \A y \in Allocations : ~ Inserted(allocation, y)
    BY <1>1, <1>4 DEF Inserted
  <2> QED  BY <2>1 DEF AllocationInsertGuard
<1>6. AllocationUpdateGuard
  <2>1. \A y \in Allocations : Updated(allocation, y) => y = x
    BY <1>4 DEF Updated
  <2> QED  BY <1>1, <1>2, <1>3, <1>4, <2>1 DEF AllocationUpdateGuard
<1> QED  BY <1>5, <1>6 DEF AllocationGuards

\* The triggers accept every transaction the repositories commit: no command
\* whose own checks passed is refused by the database.
THEOREM Agrees == Spec => DatabaseAgrees
<1>1. IInv /\ [Next]_vars => [DatabaseAccepts]_vars
  <2> SUFFICES ASSUME IInv, Next PROVE DatabaseAccepts
    OBVIOUS
  <2> DEFINE all == AsnGuards /\ ReceiptGuards /\ LotGuards /\ InspectionGuards /\ AllocationGuards
  <2>1. SUFFICES all
    BY DEF DatabaseAccepts, AsnGuards, ReceiptGuards, LotGuards, InspectionGuards, AllocationGuards
  <2>2. ASSUME ReceivingNext PROVE all
    <3>1. ASSUME NEW target \in OrderStatuses \ {"DRAFT"}, TransitionOrder(target) PROVE all
      BY <3>1, TriggersOfUntouched DEF TransitionOrder
    <3>2. ASSUME NEW q \in [Items -> Quantities], ReviseOrder(q) PROVE all
      BY <3>2, TriggersOfUntouched DEF ReviseOrder
    <3>3. ASSUME NEW a \in Asns, NEW q \in [Items -> Quantities], CreateAsn(a, q) PROVE all
      <4>1. UNCHANGED <<receipt, lot, inspection, allocation>>
        BY <3>3 DEF CreateAsn
      <4> QED  BY <3>3, <4>1, TriggersOfUntouched, CreateAsnAccepted
    <3>4. ASSUME NEW a \in Asns, NEW target \in AsnStatuses, TransitionAsn(a, target) PROVE all
      <4>1. UNCHANGED <<receipt, lot, inspection, allocation>>
        BY <3>4 DEF TransitionAsn
      <4> QED  BY <3>4, <4>1, TriggersOfUntouched, TransitionAsnAccepted
    <3>5. ASSUME NEW r \in Receipts, NEW a \in Asns, NEW q \in [Items -> Quantities],
                 CreateReceipt(r, a, q)
          PROVE  all
      <4>1. UNCHANGED <<asn, lot, inspection, allocation>>
        BY <3>5 DEF CreateReceipt
      <4> QED  BY <3>5, <4>1, TriggersOfUntouched, CreateReceiptAccepted
    <3>6. ASSUME NEW r \in Receipts, NEW original \in Receipts, NEW d \in [Items -> Deltas],
                 CreateCorrection(r, original, d)
          PROVE  all
      <4>1. UNCHANGED <<asn, lot, inspection, allocation>>
        BY <3>6 DEF CreateCorrection
      <4> QED  BY <3>6, <4>1, TriggersOfUntouched, CreateCorrectionAccepted
    <3>7. ASSUME NEW r \in Receipts, PostOriginal(r) PROVE all
      <4>1. /\ UNCHANGED <<asn, allocation>> /\ PostingChecks(r)
            /\ receipt' = [receipt EXCEPT ![r].status = "POSTED"]
        BY <3>7 DEF PostOriginal
      <4> QED  BY <3>7, <4>1, TriggersOfUntouched, PostingAccepted, PostOriginalAccepted
    <3>8. ASSUME NEW r \in Receipts, PostCorrection(r) PROVE all
      <4>1. /\ UNCHANGED <<asn, inspection, allocation>> /\ PostingChecks(r)
            /\ receipt' = [receipt EXCEPT ![r].status = "POSTED"]
        BY <3>8 DEF PostCorrection
      <4> QED  BY <3>8, <4>1, TriggersOfUntouched, PostingAccepted, PostCorrectionAccepted
    <3> HIDE DEF all
    <3>9. ASSUME NEW r \in Receipts, PostReceipt(r) PROVE all
      BY <3>7, <3>8, <3>9 DEF PostReceipt
    <3> QED  BY <2>2, <3>1, <3>2, <3>3, <3>4, <3>5, <3>6, <3>9, Zenon DEF ReceivingNext
  <2>3. ASSUME InspectionsNext PROVE all
    <3>1. ASSUME NEW i \in Items, NEW c \in Checks, NEW state \in DefinitionStates,
                 CreateDefinition(i, c, state) \/ UpdateDefinition(i, c, state)
          PROVE  all
      BY <3>1, TriggersOfUntouched DEF CreateDefinition, UpdateDefinition
    <3>2. ASSUME NEW l \in Lots, CreateExplicit(l) PROVE all
      <4>1. UNCHANGED <<asn, receipt, lot, allocation>>
        BY <3>2 DEF CreateExplicit
      <4> QED  BY <3>2, <4>1, TriggersOfUntouched, CreateExplicitAccepted
    <3>3. ASSUME NEW l \in Lots, NEW recorded \in Recordings, SaveResults(l, recorded) PROVE all
      <4>1. UNCHANGED <<asn, receipt, lot, allocation>>
        BY <3>3 DEF SaveResults
      <4> QED  BY <3>3, <4>1, TriggersOfUntouched, SaveResultsAccepted
    <3>4. ASSUME NEW l \in Lots, NEW disposition \in Dispositions, NEW accepted \in Quantities,
                 NEW rejected \in Quantities, Finalize(l, disposition, accepted, rejected)
          PROVE  all
      <4>1. UNCHANGED <<asn, receipt, allocation>>
        BY <3>4 DEF Finalize
      <4> QED  BY <3>4, <4>1, TriggersOfUntouched, FinalizeAccepted
    <3> HIDE DEF all
    <3> QED  BY <2>3, <3>1, <3>2, <3>3, <3>4, Zenon DEF InspectionsNext
  <2>4. ASSUME AllocationsNext PROVE all
    <3>1. ASSUME NEW x \in Allocations, NEW l \in Lots, NEW quantity \in Quantities,
                 NEW authorized \in BOOLEAN, NEW reason \in BOOLEAN,
                 Allocate(x, l, quantity, authorized, reason)
          PROVE  all
      <4>1. UNCHANGED <<asn, receipt, lot, inspection>>
        BY <3>1 DEF Allocate
      <4> QED  BY <3>1, <4>1, TriggersOfUntouched, AllocateAccepted
    <3>2. ASSUME NEW x \in Allocations, NEW target \in AllocationStatuses,
                 TransitionAllocation(x, target)
          PROVE  all
      <4>1. UNCHANGED <<asn, receipt, lot, inspection>>
        BY <3>2 DEF TransitionAllocation
      <4> QED  BY <3>2, <4>1, TriggersOfUntouched, TransitionAllocationAccepted
    <3> HIDE DEF all
    <3> QED  BY <2>4, <3>1, <3>2, Zenon DEF AllocationsNext
  <2> QED  BY <2>2, <2>3, <2>4 DEF Next
<1> QED  BY <1>1, Invariance, PTL DEF Spec, DatabaseAgrees

-----------------------------------------------------------------------------
(***************************************************************************)
(* The requirement status.                                                 *)
(***************************************************************************)
\* What is decided of a lot is all it holds, and nothing before the decision.
Decided(l) == lot[l].accepted + lot[l].rejected + lot[l].quarantined

BucketsFill(l) ==
  /\ lot[l].accepted >= 0 /\ lot[l].rejected >= 0 /\ lot[l].quarantined >= 0
  /\ lot[l].status \in Dispositions => Decided(l) = Effective(l)
  /\ lot[l].status \notin Dispositions => Decided(l) = 0

BucketsFillLots == \A l \in Lots : BucketsFill(l)

\* Nothing is decided of the lots that posting creates or corrects.
LEMMA PostingKeepsBuckets ==
  ASSUME IInv, BucketsFillLots, NEW r \in Receipts, PostOriginal(r) \/ PostCorrection(r)
  PROVE  BucketsFillLots'
<1>1. SUFFICES ASSUME NEW l \in Lots PROVE BucketsFill(l)'
  BY DEF BucketsFillLots
<1>2. PICK s \in Receipts, i \in Items : l = <<s, i>>
  BY DEF Lots
<1>3. BucketsFill(l)
  BY DEF BucketsFillLots
<1>4. ASSUME lot'[l] = lot[l] PROVE BucketsFill(l)'
  BY <1>3, <1>4 DEF BucketsFill, Decided, Effective
<1>5. ASSUME lot[l].status \notin Dispositions, lot'[l].status \notin Dispositions,
             lot'[l].accepted = lot[l].accepted, lot'[l].rejected = lot[l].rejected,
             lot'[l].quarantined = lot[l].quarantined
      PROVE  BucketsFill(l)'
  BY <1>3, <1>5 DEF BucketsFill, Decided
<1>6. "AWAITING_INSPECTION" \notin Dispositions /\ "NONE" \notin Dispositions
  BY DEF Dispositions
<1>7. CASE PostOriginal(r)
  <2>1. CASE s # r \/ receipt[r].delta[i] = 0
    <3>1. lot'[<<s, i>>] = lot[<<s, i>>]
      <4>1. CASE s # r
        BY <1>7, <4>1, OriginalLots
      <4>2. CASE s = r
        BY <1>7, <2>1, <4>2, OriginalLots
      <4> QED  BY <4>1, <4>2
    <3> QED  BY <1>2, <1>4, <3>1
  <2>2. CASE s = r /\ receipt[r].delta[i] # 0
    <3>1. /\ lot[<<r, i>>].status = "NONE"
          /\ lot'[<<r, i>>].status = "AWAITING_INSPECTION"
          /\ lot'[<<r, i>>].accepted = lot[<<r, i>>].accepted
          /\ lot'[<<r, i>>].rejected = lot[<<r, i>>].rejected
          /\ lot'[<<r, i>>].quarantined = lot[<<r, i>>].quarantined
      BY <1>7, <2>2, OriginalLots
    <3>2. l = <<r, i>>
      BY <1>2, <2>2
    <3> QED  BY <1>5, <1>6, <3>1, <3>2
  <2> QED  BY <2>1, <2>2
<1>8. CASE PostCorrection(r)
  <2>1. PICK o \in Receipts : receipt[r].corrects = o
    BY <1>8, OriginalOf
  <2>2. CASE s # o \/ receipt[r].delta[i] = 0
    <3>1. lot'[<<s, i>>] = lot[<<s, i>>]
      <4>1. CASE s # o
        <5>1. lot'[<<s, i>>] = lot[<<s, i>>] /\ lot'[<<o, i>>].status = lot[<<o, i>>].status
          BY <1>8, <2>1, <4>1, CorrectedLots
        <5> QED  BY <5>1
      <4>2. CASE s = o
        BY <1>8, <2>1, <2>2, <4>2, CorrectedLots
      <4> QED  BY <4>1, <4>2
    <3> QED  BY <1>2, <1>4, <3>1
  <2>3. CASE s = o /\ receipt[r].delta[i] # 0
    <3>1. /\ lot[<<o, i>>].status = "AWAITING_INSPECTION"
          /\ lot'[<<o, i>>].status = lot[<<o, i>>].status
          /\ lot'[<<o, i>>].accepted = lot[<<o, i>>].accepted
          /\ lot'[<<o, i>>].rejected = lot[<<o, i>>].rejected
          /\ lot'[<<o, i>>].quarantined = lot[<<o, i>>].quarantined
      BY <1>8, <2>1, <2>3, CorrectedLots
    <3>2. l = <<o, i>>
      BY <1>2, <2>3
    <3> QED  BY <1>5, <1>6, <3>1, <3>2
  <2> QED  BY <2>2, <2>3
<1> QED  BY <1>7, <1>8

\* A decision fills the buckets with what the lot holds.
LEMMA FinalizeKeepsBuckets ==
  ASSUME IInv, BucketsFillLots, NEW l \in Lots, NEW disposition \in Dispositions,
         NEW accepted \in Quantities, NEW rejected \in Quantities,
         Finalize(l, disposition, accepted, rejected)
  PROVE  BucketsFillLots'
<1>1. SUFFICES ASSUME NEW m \in Lots PROVE BucketsFill(m)'
  BY DEF BucketsFillLots
<1>2. CASE m # l
  <2>1. lot'[m] = lot[m]
    BY <1>2, FinalizedRows
  <2> QED  BY <2>1 DEF BucketsFillLots, BucketsFill, Decided, Effective
<1>3. CASE m = l
  <2>1. /\ lot'[l].status = disposition /\ lot'[l].accepted = accepted
        /\ lot'[l].rejected = rejected
        /\ lot'[l].quarantined = Effective(l) - accepted - rejected
        /\ Effective(l) \in Int
    BY FinalizedRows
  <2>2. Effective(l)' = Effective(l)
    BY FinalizedRows DEF Effective
  <2>3. /\ accepted >= 0 /\ rejected >= 0 /\ accepted + rejected <= Effective(l)
        /\ accepted \in Int /\ rejected \in Int
    BY Bounds DEF Finalize, DecidedQuantity, ValidDecision, Quantities
  <2>4. Decided(l)' = Effective(l)'
    <3>1. Decided(l)' = accepted + rejected + (Effective(l) - accepted - rejected)
      BY <2>1 DEF Decided
    <3> QED  BY <2>1, <2>2, <2>3, <3>1
  <2>5. lot'[l].accepted >= 0 /\ lot'[l].rejected >= 0 /\ lot'[l].quarantined >= 0
    BY <2>1, <2>3
  <2> QED  BY <1>3, <2>1, <2>4, <2>5 DEF BucketsFill
<1> QED  BY <1>2, <1>3

\* Only posting and deciding write lots.
LEMMA LotsWritten ==
  ASSUME [Next]_vars
  PROVE  \/ UNCHANGED lot
         \/ \E r \in Receipts : PostOriginal(r) \/ PostCorrection(r)
         \/ \E l \in Lots, disposition \in Dispositions, accepted, rejected \in Quantities :
              Finalize(l, disposition, accepted, rejected)
<1>1. ASSUME UNCHANGED vars \/ AllocationsNext PROVE UNCHANGED lot
  BY <1>1 DEF vars, AllocationsNext, Allocate, TransitionAllocation
<1>2. ASSUME ReceivingNext
      PROVE  UNCHANGED lot \/ \E r \in Receipts : PostOriginal(r) \/ PostCorrection(r)
  BY <1>2 DEF ReceivingNext, TransitionOrder, ReviseOrder, CreateAsn, TransitionAsn,
     CreateReceipt, CreateCorrection, PostReceipt
<1>3. ASSUME InspectionsNext
      PROVE  \/ UNCHANGED lot
             \/ \E l \in Lots, disposition \in Dispositions, accepted, rejected \in Quantities :
                  Finalize(l, disposition, accepted, rejected)
  BY <1>3 DEF InspectionsNext, CreateDefinition, UpdateDefinition, CreateExplicit, SaveResults
<1> QED  BY <1>1, <1>2, <1>3, Zenon DEF Next

\* The buckets of every lot partition its quantity once it is decided, and
\* are empty before: what the calculation of the status asks of a lot.
THEOREM BucketsFilled == Spec => []BucketsFillLots
<1>1. Init => BucketsFillLots
  <2> SUFFICES ASSUME Init PROVE BucketsFillLots
    OBVIOUS
  <2>1. \A l \in Lots : lot[l] = NewLot
    BY DEF Init
  <2>2. /\ NewLot.accepted = 0 /\ NewLot.rejected = 0 /\ NewLot.quarantined = 0
        /\ NewLot.status \notin Dispositions
    BY DEF NewLot, Dispositions
  <2> HIDE DEF NewLot
  <2> QED  BY <2>1, <2>2 DEF BucketsFillLots, BucketsFill, Decided
<1>2. IInv /\ BucketsFillLots /\ [Next]_vars => BucketsFillLots'
  <2> SUFFICES ASSUME IInv, BucketsFillLots, [Next]_vars PROVE BucketsFillLots'
    OBVIOUS
  <2>1. ASSUME UNCHANGED lot PROVE BucketsFillLots'
    BY <2>1 DEF BucketsFillLots, BucketsFill, Decided, Effective
  <2> HIDE DEF BucketsFillLots
  <2> QED  BY <2>1, LotsWritten, PostingKeepsBuckets, FinalizeKeepsBuckets, Zenon
<1> QED  BY <1>1, <1>2, Invariance, PTL DEF Spec

\* A lot is refused exactly when nothing is left of it.
LEMMA RefusedIsEmptied ==
  ASSUME IInv, BucketsFillLots, NEW l \in Lots
  PROVE  Calculation!LotRefused(LotRow(l)) <=> Effective(l) = 0
<1> DEFINE row == LotRow(l)
<1>1. Effective(l) \in Int /\ Effective(l) >= 0 /\ lot[l] \in StockRow
  <2>1. PICK r \in Receipts, i \in Items : l = <<r, i>>
    BY DEF Lots
  <2> QED  BY <2>1, EffectiveType DEF IInv, LotIsOfReceipt
<1>2. /\ row.quantity = lot[l].quantity /\ row.adjusted = lot[l].adjusted
      /\ row.accepted = lot[l].accepted /\ row.rejected = lot[l].rejected
      /\ row.quarantined = lot[l].quarantined
      /\ row.certified = lot[l].accepted \/ row.certified = 0
  BY DEF LotRow
<1>3. /\ lot[l].accepted \in Int /\ lot[l].rejected \in Int /\ lot[l].quarantined \in Int
      /\ lot[l].accepted >= 0 /\ lot[l].rejected >= 0 /\ lot[l].quarantined >= 0
      /\ \/ lot[l].accepted + lot[l].rejected + lot[l].quarantined = Effective(l)
         \/ lot[l].accepted + lot[l].rejected + lot[l].quarantined = 0
  BY <1>1 DEF BucketsFillLots, BucketsFill, Decided, StockRow
<1>4. Calculation!EffectiveReceipt(row) = Effective(l)
  BY <1>2 DEF Calculation!EffectiveReceipt, Effective
<1> HIDE DEF row
<1>5. Calculation!LotRefused(row) <=> Effective(l) = 0
  BY <1>1, <1>2, <1>3, <1>4 DEF Calculation!LotRefused
<1> QED  BY <1>5 DEF row

\* The calculation's sums are the sums of the tables.
LEMMA SameSum ==
  ASSUME NEW f, NEW S
  PROVE  Calculation!SumFunctionOnSet(f, S) = SumFunctionOnSet(f, S)
BY Zenon DEF SumFunctionOnSet, FoldFunctionOnSet, MapThenFoldSet,
   Calculation!SumFunctionOnSet, Calculation!FoldFunctionOnSet, Calculation!MapThenFoldSet

\* The quantity an order line is for, and what is on its way or has arrived.
PlannedOf(line) ==
  SumFunctionOnSet([r \in DOMAIN line.allocations |-> line.allocations[r].quantity],
                   DOMAIN line.allocations)

Underway(line) ==
  {s \in DOMAIN line.shipments : line.shipments[s].status \in {"ARRIVED", "IN_TRANSIT"}}

DispatchedOf(line) ==
  SumFunctionOnSet([s \in Underway(line) |-> line.shipments[s].quantity], Underway(line))

ReceivedOf(line, m) ==
  SumFunctionOnSet([j \in 1..m |-> Calculation!EffectiveReceipt(line.lots[j])], 1..m)

\* What it takes for a line to be refused.
LEMMA Refusal ==
  ASSUME NEW line, NEW m \in Nat, Len(line.lots) = m
  PROVE  Calculation!LineRefused(line) <=>
           \/ \E r \in DOMAIN line.allocations : line.allocations[r].quantity <= 0
           \/ DispatchedOf(line) > PlannedOf(line)
           \/ \E k \in 1..m : Calculation!LotRefused(line.lots[k])
           \/ ReceivedOf(line, m) > PlannedOf(line)
<1> DEFINE planned ==
             Calculation!SumFunctionOnSet(
               [r \in DOMAIN line.allocations |-> line.allocations[r].quantity],
               DOMAIN line.allocations)
           dispatched ==
             Calculation!SumFunctionOnSet(
               [s \in Underway(line) |-> line.shipments[s].quantity], Underway(line))
           received(n) ==
             Calculation!SumFunctionOnSet(
               [j \in 1..n |-> Calculation!EffectiveReceipt(line.lots[j])], 1..n)
<1>1. Calculation!LineRefused(line) <=>
        \/ \E r \in DOMAIN line.allocations : line.allocations[r].quantity <= 0
        \/ dispatched > planned
        \/ \E k \in 1..m : Calculation!LotRefused(line.lots[k])
        \/ received(m + 1 - 1) > planned
  BY DEF Calculation!LineRefused, Calculation!Dispatched, Calculation!ReceivedBefore,
     Calculation!SumOver, Underway
<1>2. m + 1 - 1 = m
  OBVIOUS
<1>3. /\ planned = PlannedOf(line) /\ dispatched = DispatchedOf(line)
      /\ received(m) = ReceivedOf(line, m)
  BY SameSum DEF PlannedOf, DispatchedOf, ReceivedOf
<1> HIDE DEF planned, dispatched, received
<1> QED  BY <1>1, <1>2, <1>3

\* A line is for as many units as the order asks for.
LEMMA PlannedIsOrdered ==
  ASSUME IInv, NEW v \in Revisions, NEW i \in Items, NEW received
  PROVE  LET line == SupplyLine(v, i, received) IN
         /\ order.ordered[v][i] \in Nat
         /\ PlannedOf(line) = order.ordered[v][i]
         /\ \A r \in DOMAIN line.allocations : line.allocations[r].quantity = 1
<1> DEFINE n == order.ordered[v][i]
           line == SupplyLine(v, i, received)
           f == [r \in DOMAIN line.allocations |-> line.allocations[r].quantity]
<1>1. n \in Nat
  BY Bounds DEF IInv, TypeOK, OrderRow, Quantities
<1>2. line.allocations = [r \in 1..n |-> [need |-> r, quantity |-> 1, date |-> r]]
  BY DEF SupplyLine, Planned
<1>3. DOMAIN line.allocations = 1..n /\ \A r \in 1..n : line.allocations[r].quantity = 1
  <2> HIDE DEF n, line
  <2> QED  BY <1>2
<1>4. IsFiniteSet(1..n) /\ Cardinality(1..n) = n
  <2> HIDE DEF n
  <2> QED  BY <1>1, FS_Interval
<1>5. \A r \in 1..n : f[r] = 1
  <2> HIDE DEF n, line
  <2> QED  BY <1>3
<1>6. PlannedOf(line) = SumFunctionOnSet(f, 1..n)
  <2> HIDE DEF n, line
  <2> QED  BY <1>3 DEF PlannedOf
<1>7. SumFunctionOnSet(f, 1..n) = Cardinality(1..n)
  <2> HIDE DEF n, line, f
  <2> QED  BY <1>4, <1>5, SumOfOnes
<1> QED  BY <1>1, <1>3, <1>4, <1>6, <1>7

\* No more is underway than was ordered.
LEMMA UnderwayWithinOrdered ==
  ASSUME IInv, NEW v \in Revisions, NEW i \in Items, NEW received
  PROVE  /\ DispatchedOf(SupplyLine(v, i, received)) \in Nat
         /\ DispatchedOf(SupplyLine(v, i, received)) <= order.ordered[v][i]
<1> DEFINE line == SupplyLine(v, i, received)
           f == [a \in Asns |-> asn[a].shipped[i]]
           A == {a \in Asns : asn[a].revision = v /\ asn[a].status # "CANCELLED"}
           U == Underway(line)
           g == [s \in U |-> line.shipments[s].quantity]
<1>1. line.shipments = [a \in {b \in Asns : asn[b].revision = v /\ asn[b].shipped[i] > 0} |->
                          [quantity |-> asn[a].shipped[i], status |-> asn[a].status]]
  BY DEF SupplyLine
<1>2. U \subseteq A /\ \A a \in U : g[a] = f[a]
  <2> HIDE DEF line
  <2>1. \A a \in DOMAIN line.shipments :
          /\ a \in Asns /\ asn[a].revision = v
          /\ line.shipments[a].quantity = asn[a].shipped[i]
          /\ line.shipments[a].status = asn[a].status
    BY <1>1
  <2> QED  BY <2>1 DEF Underway
<1>3. IsFiniteSet(A) /\ IsFiniteSet(U)
  <2>1. IsFiniteSet(A)
    BY MaterialAssumption, FS_Subset
  <2> HIDE DEF A, U
  <2> QED  BY <1>2, <2>1, FS_Subset
<1>4. \A a \in A : f[a] \in Nat
  BY Bounds DEF IInv, TypeOK, AsnRow, Quantities
<1>5. SumFunctionOnSet(g, U) = SumFunctionOnSet(f, U)
  <2> HIDE DEF f, g, U, A
  <2> QED  BY <1>2, <1>3, SumSame
<1>6. SumFunctionOnSet(f, U) <= SumFunctionOnSet(f, A)
  <2> HIDE DEF f, g, U, A
  <2> QED  BY <1>2, <1>3, <1>4, SumOfPart
<1>7. SumFunctionOnSet(f, U) \in Nat /\ SumFunctionOnSet(f, A) \in Nat
  <2> HIDE DEF f, g, U, A
  <2> QED  BY <1>2, <1>3, <1>4, SumOfNat
<1>8. SumFunctionOnSet(f, A) <= order.ordered[v][i]
  BY DEF IInv, ShippedWithinOrdered, Shipped
<1>9. DispatchedOf(line) = SumFunctionOnSet(g, U)
  BY DEF DispatchedOf
<1>10. order.ordered[v][i] \in Nat
  BY PlannedIsOrdered
<1> HIDE DEF line, f, g, U, A
<1>11. DispatchedOf(line) \in Nat /\ DispatchedOf(line) <= order.ordered[v][i]
  BY <1>5, <1>6, <1>7, <1>8, <1>9, <1>10
<1> QED  BY <1>11 DEF line

\* The receipts of notices that count for a revision.
CountingReceipts(v) ==
  {r \in Receipts : \E a \in Asns : /\ receipt[r].asn = a
                                    /\ asn[a].revision = v
                                    /\ asn[a].status # "CANCELLED"}

\* The lots of an order line are of its item and of such receipts.
LEMMA LotsOfLineCount ==
  ASSUME IInv, NEW v \in Revisions, NEW i \in Items, NEW l \in LotsOfLine(v, i)
  PROVE  l \in Lots /\ l[1] \in CountingReceipts(v) /\ l = <<l[1], i>>
<1>1. PICK r \in Receipts, j \in Items : l = <<r, j>>
  BY DEF LotsOfLine, Lots
<1>2. /\ l \in Lots /\ j = i /\ lot[<<r, i>>].status # "NONE"
      /\ asn[receipt[r].asn].revision = v
  BY <1>1 DEF LotsOfLine, ItemOf
<1>3. receipt[r].status = "POSTED"
  BY <1>2, EffectiveType
<1>4. receipt[r].asn \in Asns /\ asn[receipt[r].asn].status = "ARRIVED"
  BY <1>3 DEF IInv, ReceiptsAreOfNotices, ReceiptIsOfNotice
<1> QED  BY <1>1, <1>2, <1>4 DEF CountingReceipts

\* All lots of an order line together hold no more than was ordered: notice
\* by notice they hold what was posted on it, which is within what it ships.
LEMMA HeldWithinOrdered ==
  ASSUME IInv, NEW v \in Revisions, NEW i \in Items
  PROVE  SumFunctionOnSet([r \in Receipts |-> Effective(<<r, i>>)], CountingReceipts(v))
           <= order.ordered[v][i]
<1> DEFINE f == [r \in Receipts |-> Effective(<<r, i>>)]
           R == CountingReceipts(v)
           A == {a \in Asns : asn[a].revision = v /\ asn[a].status # "CANCELLED"}
           key == [r \in Receipts |-> receipt[r].asn]
           shipped == [a \in Asns |-> asn[a].shipped[i]]
           held == ByKey(f, R, key, A)
<1>1. IsFiniteSet(A) /\ IsFiniteSet(R)
  BY MaterialAssumption, FS_Subset DEF CountingReceipts
<1>2. \A r \in R : f[r] \in Int /\ key[r] \in A
  <2>1. \A r \in Receipts : f[r] \in Int
    BY EffectiveType
  <2> QED  BY <2>1 DEF CountingReceipts
<1>3. SumFunctionOnSet(held, A) = SumFunctionOnSet(f, R)
  <2> HIDE DEF f, R, A, key
  <2> QED  BY <1>1, <1>2, SumByKey
<1>4. ASSUME NEW a \in A
      PROVE  held[a] \in Int /\ shipped[a] \in Int /\ held[a] <= shipped[a]
  <2>1. {r \in R : key[r] = a} = {r \in Receipts : receipt[r].asn = a}
    BY DEF CountingReceipts
  <2>2. held[a] = SumFunctionOnSet(f, {r \in Receipts : receipt[r].asn = a})
    BY <2>1 DEF ByKey
  <2>3. held[a] = Posted(a, i)
    BY <2>2 DEF IInv, StockMatchesReceipts
  <2>4. Posted(a, i) \in Int /\ Posted(a, i) <= asn[a].shipped[i]
    BY PostedType DEF IInv, PostedWithinShipped
  <2>5. asn[a].shipped[i] \in Int
    BY Bounds DEF IInv, TypeOK, AsnRow, Quantities
  <2> QED  BY <2>3, <2>4, <2>5
<1>5. SumFunctionOnSet(held, A) <= SumFunctionOnSet(shipped, A)
  <2> HIDE DEF held, shipped, A
  <2> QED  BY <1>1, <1>4, SumAtMost
<1>6. SumFunctionOnSet(shipped, A) <= order.ordered[v][i]
  BY DEF IInv, ShippedWithinOrdered, Shipped
<1>7. SumFunctionOnSet(held, A) \in Int /\ SumFunctionOnSet(shipped, A) \in Int
      /\ order.ordered[v][i] \in Int
  <2>1. order.ordered[v][i] \in Int
    BY PlannedIsOrdered
  <2> HIDE DEF held, shipped, A
  <2> QED  BY <1>1, <1>4, <2>1, SumType
<1> HIDE DEF f, R, A, key, shipped, held
<1>8. SumFunctionOnSet(f, R) <= order.ordered[v][i]
  BY <1>3, <1>5, <1>6, <1>7
<1> QED  BY <1>8 DEF f, R

\* So do they in any order in which the calculation goes through them.
LEMMA ReceivedWithinOrdered ==
  ASSUME IInv, NEW v \in Revisions, NEW i \in Items, NEW m \in Nat,
         NEW received \in [1..m -> LotsOfLine(v, i)],
         \A j, k \in 1..m : received[j] = received[k] => j = k
  PROVE  /\ ReceivedOf(SupplyLine(v, i, received), m) \in Int
         /\ ReceivedOf(SupplyLine(v, i, received), m) <= order.ordered[v][i]
<1> DEFINE f == [r \in Receipts |-> Effective(<<r, i>>)]
           R == CountingReceipts(v)
           list == [k \in 1..m |-> received[k][1]]
           g == [k \in 1..m |-> f[list[k]]]
           line == SupplyLine(v, i, received)
           h == [j \in 1..m |-> Calculation!EffectiveReceipt(line.lots[j])]
<1>1. IsFiniteSet(R) /\ IsFiniteSet(1..m)
  <2>1. IsFiniteSet(R)
    BY MaterialAssumption, FS_Subset DEF CountingReceipts
  <2>2. IsFiniteSet(1..m)
    BY FS_Interval
  <2> QED  BY <2>1, <2>2
<1>2. \A r \in R : r \in Receipts /\ f[r] \in Nat
  BY EffectiveType DEF IInv, LotIsOfReceipt, CountingReceipts
<1>3. \A k \in 1..m : received[k] \in LotsOfLine(v, i)
  OBVIOUS
<1>4. \A k \in 1..m : list[k] \in R /\ received[k] = <<list[k], i>> /\ received[k] \in Lots
  BY <1>3, LotsOfLineCount
<1>5. \A j, k \in 1..m : list[j] = list[k] => j = k
  <2> HIDE DEF list
  <2> QED  BY <1>4
<1>6. list \in [1..m -> R]
  BY <1>4
<1>7. SumFunctionOnSet(g, 1..m) <= SumFunctionOnSet(f, R)
  <2> HIDE DEF f, R, list
  <2> QED  BY <1>1, <1>2, <1>5, <1>6, SumOfList
<1>8. \A k \in 1..m : h[k] = g[k] /\ g[k] \in Nat
  <2> SUFFICES ASSUME NEW k \in 1..m PROVE h[k] = g[k] /\ g[k] \in Nat
    OBVIOUS
  <2>1. DOMAIN received = 1..m
    OBVIOUS
  <2>2. line.lots[k] = LotRow(received[k])
    BY <2>1 DEF SupplyLine
  <2>3. Calculation!EffectiveReceipt(LotRow(received[k])) = Effective(received[k])
    BY DEF Calculation!EffectiveReceipt, LotRow, Effective
  <2>4. g[k] = Effective(received[k])
    <3>1. list[k] \in Receipts /\ received[k] = <<list[k], i>>
      BY <1>2, <1>4
    <3>2. f[list[k]] = Effective(<<list[k], i>>)
      <4> HIDE DEF list
      <4> QED  BY <3>1
    <3>3. g[k] = f[list[k]]
      OBVIOUS
    <3> HIDE DEF f, list, g
    <3> QED  BY <3>1, <3>2, <3>3
  <2>5. g[k] \in Nat
    <3>1. f[list[k]] \in Nat
      BY <1>2, <1>4
    <3> HIDE DEF f, list
    <3> QED  BY <3>1
  <2>6. h[k] = Effective(received[k])
    BY <2>2, <2>3
  <2> HIDE DEF g, h
  <2> QED  BY <2>4, <2>5, <2>6
<1>9. SumFunctionOnSet(h, 1..m) = SumFunctionOnSet(g, 1..m) /\ SumFunctionOnSet(g, 1..m) \in Nat
  <2> HIDE DEF g, h
  <2> QED  BY <1>1, <1>8, SumSame, SumOfNat
<1>10. ReceivedOf(line, m) = SumFunctionOnSet(h, 1..m)
  BY DEF ReceivedOf
<1>11. SumFunctionOnSet(f, R) <= order.ordered[v][i] /\ order.ordered[v][i] \in Int
       /\ SumFunctionOnSet(f, R) \in Nat
  <2>1. SumFunctionOnSet(f, R) \in Nat
    <3> HIDE DEF f, R
    <3> QED  BY <1>1, <1>2, SumOfNat
  <2>2. SumFunctionOnSet(f, R) <= order.ordered[v][i]
    BY HeldWithinOrdered
  <2> QED  BY <2>1, <2>2, PlannedIsOrdered
<1> HIDE DEF f, R, list, g, line, h
<1>12. ReceivedOf(line, m) \in Int /\ ReceivedOf(line, m) <= order.ordered[v][i]
  BY <1>7, <1>9, <1>10, <1>11
<1> QED  BY <1>12 DEF line

\* In whatever order its lots came in, a line is refused exactly when one of
\* them is emptied.
LEMMA RefusedLine ==
  ASSUME IInv, BucketsFillLots, NEW v \in Revisions, NEW i \in Items, NEW m \in Nat,
         NEW received \in [1..m -> LotsOfLine(v, i)],
         \A j, k \in 1..m : received[j] = received[k] => j = k
  PROVE  Calculation!LineRefused(SupplyLine(v, i, received))
           <=> \E k \in 1..m : Effective(received[k]) = 0
<1> DEFINE line == SupplyLine(v, i, received)
<1>1. DOMAIN received = 1..m /\ line.lots = [k \in 1..m |-> LotRow(received[k])]
  BY DEF SupplyLine
<1>2. Len(line.lots) = m
  <2> HIDE DEF line
  <2> QED  BY <1>1
<1>3. \A k \in 1..m : Calculation!LotRefused(line.lots[k]) <=> Effective(received[k]) = 0
  <2> SUFFICES ASSUME NEW k \in 1..m
               PROVE  Calculation!LotRefused(line.lots[k]) <=> Effective(received[k]) = 0
    OBVIOUS
  <2>1. received[k] \in Lots
    BY DEF LotsOfLine
  <2>2. line.lots[k] = LotRow(received[k])
    <3> HIDE DEF line
    <3> QED  BY <1>1
  <2> HIDE DEF line
  <2> QED  BY <2>1, <2>2, RefusedIsEmptied
<1>4. /\ order.ordered[v][i] \in Nat
      /\ PlannedOf(line) = order.ordered[v][i]
      /\ \A r \in DOMAIN line.allocations : line.allocations[r].quantity = 1
  BY PlannedIsOrdered
<1>5. DispatchedOf(line) \in Nat /\ DispatchedOf(line) <= order.ordered[v][i]
  BY UnderwayWithinOrdered
<1>6. ReceivedOf(line, m) \in Int /\ ReceivedOf(line, m) <= order.ordered[v][i]
  BY ReceivedWithinOrdered
<1> HIDE DEF line
<1>7. Calculation!LineRefused(line) <=>
        \/ \E r \in DOMAIN line.allocations : line.allocations[r].quantity <= 0
        \/ DispatchedOf(line) > PlannedOf(line)
        \/ \E k \in 1..m : Calculation!LotRefused(line.lots[k])
        \/ ReceivedOf(line, m) > PlannedOf(line)
  BY <1>2, Refusal
<1>8. ~ \E r \in DOMAIN line.allocations : line.allocations[r].quantity <= 0
  BY <1>4
<1>9. ~ (DispatchedOf(line) > PlannedOf(line)) /\ ~ (ReceivedOf(line, m) > PlannedOf(line))
  BY <1>4, <1>5, <1>6
<1>10. Calculation!LineRefused(line) <=> \E k \in 1..m : Calculation!LotRefused(line.lots[k])
  BY <1>7, <1>8, <1>9, Zenon
<1> QED  BY <1>3, <1>10 DEF line

\* The lots of a line are finitely many, so they can be gone through.
LEMMA LotsAreListed ==
  ASSUME IInv, NEW v \in Revisions, NEW i \in Items
  PROVE  LET lots == LotsOfLine(v, i)
             m == Cardinality(lots)
         IN /\ m \in Nat
            /\ \E received \in [1..m -> lots] :
                 /\ \A j, k \in 1..m : received[j] = received[k] => j = k
                 /\ \A l \in lots : \E k \in 1..m : received[k] = l
<1> DEFINE lots == LotsOfLine(v, i)
           first == [l \in lots |-> l[1]]
           m == Cardinality(lots)
<1>1. \A l \in lots : first[l] \in Receipts /\ l = <<first[l], i>>
  BY LotsOfLineCount DEF CountingReceipts
<1>2. first \in Injection(lots, Receipts)
  <2>1. first \in [lots -> Receipts]
    BY <1>1
  <2>2. \A k, l \in lots : first[k] = first[l] => k = l
    <3> HIDE DEF first
    <3> QED  BY <1>1
  <2> HIDE DEF first, lots
  <2> QED  BY <2>1, <2>2 DEF Injection, IsInjective
<1>3. IsFiniteSet(lots)
  <2> HIDE DEF first, lots
  <2> QED  BY <1>2, MaterialAssumption, FS_Injection
<1>4. m \in Nat /\ ExistsBijection(1..m, lots)
  <2> HIDE DEF lots
  <2> QED  BY <1>3, FS_CardinalityType
<1>5. PICK received : received \in Bijection(1..m, lots)
  BY <1>4 DEF ExistsBijection
<1> HIDE DEF lots, m
<1>6. /\ received \in [1..m -> lots]
      /\ \A j, k \in 1..m : received[j] = received[k] => j = k
      /\ \A l \in lots : \E k \in 1..m : received[k] = l
  BY <1>5 DEF Bijection, Injection, Surjection, IsInjective
<1> QED  BY <1>4, <1>6 DEF lots, m

\* The requirement status of a project can be calculated in every state the
\* commands of the material flow reach, except where corrections emptied a lot,
\* and then it never can: for any number of notices, receipts and revisions.
THEOREM OnlyEmptiedLotsStop == Spec => []OnlyEmptiedLotsStopStatus
<1>1. IInv /\ BucketsFillLots => OnlyEmptiedLotsStopStatus
  <2> SUFFICES ASSUME IInv, BucketsFillLots, NEW v \in Revisions, NEW i \in Items
               PROVE  Refused(v, i) <=> \E l \in LotsOfLine(v, i) : Effective(l) = 0
    BY DEF OnlyEmptiedLotsStopStatus, OrderLines
  <2> DEFINE lots == LotsOfLine(v, i)
             m == Cardinality(lots)
  <2>1. /\ m \in Nat
        /\ \E received \in [1..m -> lots] :
             /\ \A j, k \in 1..m : received[j] = received[k] => j = k
             /\ \A l \in lots : \E k \in 1..m : received[k] = l
    BY LotsAreListed
  <2>2. ASSUME NEW received \in [1..m -> lots],
               \A j, k \in 1..m : received[j] = received[k] => j = k
        PROVE  /\ received \in Orders(lots)
               /\ Calculation!LineRefused(SupplyLine(v, i, received))
                    <=> \E k \in 1..m : Effective(received[k]) = 0
    <3>1. received \in Orders(lots)
      BY <2>2 DEF Orders
    <3>2. Calculation!LineRefused(SupplyLine(v, i, received))
            <=> \E k \in 1..m : Effective(received[k]) = 0
      <4>1. m \in Nat /\ received \in [1..m -> LotsOfLine(v, i)]
        BY <2>1, <2>2
      <4> HIDE DEF m, lots
      <4> QED  BY <2>2, <4>1, RefusedLine
    <3> QED  BY <3>1, <3>2
  <2>3. ASSUME Refused(v, i) PROVE \E l \in lots : Effective(l) = 0
    <3>1. PICK received \in Orders(lots) : Calculation!LineRefused(SupplyLine(v, i, received))
      BY <2>3 DEF Refused
    <3>2. received \in [1..m -> lots] /\ \A j, k \in 1..m : received[j] = received[k] => j = k
      BY <3>1 DEF Orders
    <3>3. PICK k \in 1..m : Effective(received[k]) = 0
      BY <2>2, <3>1, <3>2
    <3> QED  BY <3>2, <3>3
  <2>4. ASSUME NEW l \in lots, Effective(l) = 0 PROVE Refused(v, i)
    <3>1. PICK received \in [1..m -> lots] :
            /\ \A j, k \in 1..m : received[j] = received[k] => j = k
            /\ \A x \in lots : \E k \in 1..m : received[k] = x
      BY <2>1
    <3>2. \E k \in 1..m : Effective(received[k]) = 0
      BY <2>4, <3>1
    <3>3. received \in Orders(lots) /\ Calculation!LineRefused(SupplyLine(v, i, received))
      BY <2>2, <3>1, <3>2
    <3> QED  BY <3>3 DEF Refused
  <2> QED  BY <2>3, <2>4
<1> QED  BY <1>1, Invariance, BucketsFilled, PTL

-----------------------------------------------------------------------------
(***************************************************************************)
(* The readiness worker: what its batches tell of the rows once all events *)
(* of a project are processed.                                             *)
(***************************************************************************)
RowSets == Changing \cup UNION {Range(first) : first \in Initial}
ReadRows == {Read(tables) : tables \in RowSets}

EventRows ==
  [project : Nat, status : {"NONE", "PENDING", "PROCESSING", "PROCESSED", "FAILED"},
   attempts : Nat, claim : Loops \cup {NoClaim}, stale : BOOLEAN]

ProcessRows ==
  [at : {"idle", "begin", "commit", "fail"}, project : Nat, attempts : Nat, tries : Nat,
   date : Nat, rows : ReadRows \cup {NoRows}, known : Nat, mine : SUBSET Events,
   passed : BOOLEAN]

ReadinessTyped ==
  /\ \E n \in Nat : rows \in [1..n -> ReadRows]
  /\ today \in Nat
  /\ outbox \in [Events -> EventRows]
  /\ DOMAIN batches = Projects /\ \A p \in Projects : \E S : batches[p] \in Seq(S)
  /\ process \in [Processes -> ProcessRows]

\* What a batch tells of the rows that events announce.
Told(source) == <<Lines(source), source.projectNcrs>>

\* What a process has claimed is of the project it is at, and what it has not
\* claimed it has let go.
Owned ==
  /\ \A e \in Events : IF outbox[e].status = "NONE" THEN outbox[e].project = 0
                       ELSE outbox[e].project \in Projects
  /\ \A x \in Processes :
       /\ process[x].at # "idle" => process[x].project \in Projects
       /\ process[x].at = "idle" => Held(x) = {}
       /\ \A e \in Held(x) : outbox[e].project = process[x].project
       /\ process[x].at = "commit" =>
            /\ process[x].known <= Len(batches[process[x].project])
            /\ \A e \in process[x].mine : outbox[e].status # "NONE"

Unanswered(p) == {e \in Events : outbox[e].project = p /\ outbox[e].status # "PROCESSED"}

UpToDate(x) == Told(process[x].rows.source) = Told(rows[process[x].project].source)

\* Somebody has calculated the project since the process began, or there is an
\* event it does not have.
Warned(x) ==
  \/ Overlapped(x)
  \/ process[x].passed
  \/ \E e \in Unanswered(process[x].project) : e \notin process[x].mine

\* A process that works with old rows is warned.
Informed == \A x \in Processes : process[x].at = "commit" => UpToDate(x) \/ Warned(x)

\* The processes that read old rows and find them in the latest batch.
Deceived(p) ==
  {x \in Processes : /\ process[x].at = "commit" /\ process[x].project = p
                     /\ ~UpToDate(x) /\ ~Overlapped(x) /\ Compare(x)}

\* They all lack one and the same event.
DeceivedLackOne ==
  \A p \in Projects :
    Deceived(p) # {} /\ p \notin overtaken
      => \E e \in Unanswered(p) : \A x \in Deceived(p) : e \notin process[x].mine

LatestIsTold(p) == batches[p] # <<>> => Told(Latest(p).source) = Told(rows[p].source)

AnsweredIsTold ==
  \A p \in Projects : Unanswered(p) # {} \/ p \in overtaken \/ LatestIsTold(p)

ReadinessInv ==
  ReadinessTyped /\ Owned /\ Informed /\ DeceivedLackOne /\ AnsweredIsTold

\* A finite set of numbers has a least one.
LEMMA LeastOfFinite ==
  ASSUME NEW S, IsFiniteSet(S), S \subseteq Nat, S # {}
  PROVE  Min(S) \in S
<1> DEFINE B == {T \in SUBSET S : T # {} /\ \A y \in S : \E z \in T : z <= y}
<1>1. S \in B
  OBVIOUS
<1>2. PICK T \in B : \A U \in SUBSET T : U # T => U \notin B
  <2> HIDE DEF B
  <2>1. B \subseteq SUBSET S
    BY DEF B
  <2>2. B # {}
    BY <1>1
  <2>3. \E T \in B : \A U \in SUBSET T : U # T => U \notin B
    BY <2>1, <2>2, SmallestSubset
  <2> QED  BY <2>3
<1>3. PICK x \in T : TRUE
  OBVIOUS
<1>4. \A z \in T : x <= z
  <2>1. SUFFICES ASSUME NEW z \in T, ~(x <= z) PROVE FALSE
    OBVIOUS
  <2>2. T \ {x} \in B
    <3>1. \A y \in S : \E u \in T \ {x} : u <= y
      <4>1. TAKE y \in S
      <4>2. PICK u \in T : u <= y
        OBVIOUS
      <4>3. CASE u # x
        BY <4>2, <4>3
      <4>4. CASE u = x
        <5>1. z \in Nat /\ x \in Nat /\ y \in Nat /\ z # x
          BY <2>1
        <5>2. z <= y
          BY <2>1, <4>2, <4>4, <5>1
        <5> QED  BY <5>1, <5>2
      <4> QED  BY <4>3, <4>4
    <3>2. z \in T \ {x}
      BY <2>1
    <3> QED  BY <3>1, <3>2
  <2> QED  BY <1>2, <1>3, <2>2
<1>5. \A y \in S : x <= y
  <2>1. TAKE y \in S
  <2>2. PICK z \in T : z <= y
    OBVIOUS
  <2> QED  BY <1>3, <1>4, <2>2
<1>6. x \in S
  BY <1>3
<1> HIDE DEF B
<1> QED  BY <1>5, <1>6 DEF Min

\* A row of a table and a column of it do not matter to what else there is.
LEMMA UnannouncedColumn ==
  ASSUME NEW t \in RowSets, NEW u \in RowSets, Announced(t) = Announced(u)
  PROVE  /\ t.needs = u.needs /\ t.requisitions = u.requisitions /\ t.supply = u.supply
         /\ t.allocations = u.allocations /\ t.certificates = u.certificates /\ t.ncrs = u.ncrs
<1> DEFINE fields == {"needs", "requisitions", "supply", "allocations", "certificates",
                     "names", "ncrs"}
<1>1. DOMAIN t = fields /\ DOMAIN u = fields
  BY ReadinessAssumption DEF RowSets, RowsTyped
<1>2. \A f \in fields \ {"names"} : Announced(t)[f] = t[f] /\ Announced(u)[f] = u[f]
  BY <1>1 DEF Announced
<1> QED  BY <1>2

\* Of a line everything is kept but the one column.
LEMMA OneColumnChanges ==
  ASSUME NEW c1, NEW c2, NEW c3, NEW c4, NEW c5, NEW c6, NEW c7, NEW c8, NEW c9, NEW c10,
         NEW c11, NEW c12, NEW c13, NEW c14, NEW c15, NEW c16, NEW c17, NEW c18, NEW c19,
         NEW c20, NEW new
  PROVE  [[need |-> c1, required |-> c2, requisitioned |-> c3, ordered |-> c4,
           confirmed |-> c5, shipped |-> c6, received |-> c7, accepted |-> c8,
           allocated |-> c9, certificateComplete |-> c10, shortage |-> c11, stage |-> c12,
           blocker |-> c13, commitment |-> c14, criticality |-> c15, due |-> c16,
           workPackage |-> c17, certificateRequired |-> c18, itemName |-> c19,
           openNcrs |-> c20] EXCEPT !.itemName = new]
         = [need |-> c1, required |-> c2, requisitioned |-> c3, ordered |-> c4,
            confirmed |-> c5, shipped |-> c6, received |-> c7, accepted |-> c8,
            allocated |-> c9, certificateComplete |-> c10, shortage |-> c11, stage |-> c12,
            blocker |-> c13, commitment |-> c14, criticality |-> c15, due |-> c16,
            workPackage |-> c17, certificateRequired |-> c18, itemName |-> new,
            openNcrs |-> c20]
OBVIOUS

\* The needs of two sets of rows that differ in the names of items only:
\* their lines differ in nothing else either.
LEMMA LinesButNames ==
  ASSUME NEW t \in RowSets, NEW u \in RowSets, Announced(t) = Announced(u)
  PROVE  /\ ProjectNcrs(t) = ProjectNcrs(u) /\ Touching(t) = Touching(u)
         /\ Refuses(t) <=> Refuses(u)
         /\ \A need : /\ [LineOf(t, need) EXCEPT !.itemName = ""]
                           = [LineOf(u, need) EXCEPT !.itemName = ""]
                      /\ LineRejected(LineOf(t, need)) <=> LineRejected(LineOf(u, need))
<1>1. /\ t.needs = u.needs /\ t.requisitions = u.requisitions /\ t.supply = u.supply
      /\ t.allocations = u.allocations /\ t.certificates = u.certificates /\ t.ncrs = u.ncrs
  BY UnannouncedColumn
<1>2. ActiveNcrs(t) = ActiveNcrs(u)
  BY <1>1, Zenon DEF ActiveNcrs
<1>3. ProjectNcrs(t) = ProjectNcrs(u)
  BY <1>1, <1>2, Zenon DEF ProjectNcrs
<1>4. Touching(t) = Touching(u)
  BY <1>1, Zenon DEF Touching
<1>5. Refuses(t) <=> Refuses(u)
  BY <1>1, <1>4, Zenon DEF Refuses
<1>6. ASSUME NEW need
      PROVE  /\ [LineOf(t, need) EXCEPT !.itemName = ""]
                  = [LineOf(u, need) EXCEPT !.itemName = ""]
             /\ LineRejected(LineOf(t, need)) <=> LineRejected(LineOf(u, need))
  <2>1. QuantitiesOf(t, need) = QuantitiesOf(u, need)
    BY <1>1, <1>4, Zenon DEF QuantitiesOf
  <2>2. OpenNcrs(t, need) = OpenNcrs(u, need)
    BY <1>1, <1>2, Zenon DEF OpenNcrs
  <2> DEFINE n == t.needs[need]
             acc == QuantitiesOf(t, need)
             l == LineWith(t, need, n, acc)
             m == LineWith(u, need, n, acc)
  <2>3. LineOf(t, need) = l /\ LineOf(u, need) = m
    BY <1>1, <2>1 DEF LineOf
  <2>4. [l EXCEPT !.itemName = ""] = [m EXCEPT !.itemName = ""]
    <3> DEFINE due == OperativeCommitmentDate(need, t.supply)
               ncrs == OpenNcrs(t, need)
               line(name) ==
                 [need |-> need,
                  required |-> acc.required, requisitioned |-> acc.requisitioned,
                  ordered |-> acc.ordered, confirmed |-> acc.confirmed,
                  shipped |-> acc.shipped, received |-> acc.received,
                  accepted |-> acc.accepted, allocated |-> acc.allocated,
                  certificateComplete |-> acc.certificateComplete,
                  shortage |-> Shortage(acc), stage |-> CurrentStage(acc),
                  blocker |-> BlockerReason(acc), commitment |-> due,
                  criticality |-> n.criticality, due |-> n.due, workPackage |-> n.workPackage,
                  certificateRequired |-> n.item \in t.certificates,
                  itemName |-> name, openNcrs |-> ncrs]
    <3>1. l = line(t.names[n.item]) /\ m = line(u.names[n.item])
      BY <1>1, <2>2 DEF LineWith
    <3>2. ASSUME NEW name, NEW new
          PROVE  [line(name) EXCEPT !.itemName = new] = line(new)
      BY OneColumnChanges
    <3> DEFINE nameT == t.names[n.item]
               nameU == u.names[n.item]
    <3>3. l = line(nameT) /\ m = line(nameU)
      BY <3>1
    <3> HIDE DEF line, l, m, nameT, nameU
    <3> QED  BY <3>2, <3>3
  <2>5. /\ l.required = m.required /\ l.certificateComplete = m.certificateComplete
        /\ l.accepted = m.accepted /\ l.shortage = m.shortage /\ l.allocated = m.allocated
    BY DEF LineWith
  <2> HIDE DEF l, m
  <2>6. LineRejected(l) <=> LineRejected(m)
    BY <2>5, Zenon DEF LineRejected
  <2> QED  BY <2>3, <2>4, <2>6, Zenon
<1> QED  BY <1>3, <1>4, <1>5, <1>6, Zenon

\* What no event announces, no batch is asked to tell.
LEMMA NamesAreNotTold ==
  ASSUME NEW t \in RowSets, NEW u \in RowSets, Announced(t) = Announced(u)
  PROVE  Told(Read(t).source) = Told(Read(u).source)
<1> DEFINE a(need) == LineOf(t, need)
           b(need) == LineOf(u, need)
           needs == DOMAIN t.needs
           Plain(line) == [line EXCEPT !.itemName = ""]
<1>1. DOMAIN u.needs = needs
  BY UnannouncedColumn
<1>2. /\ ProjectNcrs(t) = ProjectNcrs(u) /\ (Refuses(t) <=> Refuses(u))
      /\ \A need : /\ Plain(a(need)) = Plain(b(need))
                   /\ LineRejected(a(need)) <=> LineRejected(b(need))
  BY LinesButNames
<1>3. /\ Load(t).lines = {a(need) : need \in needs}
      /\ Load(u).lines = {b(need) : need \in needs}
      /\ Load(t).projectNcrs = ProjectNcrs(t) /\ Load(u).projectNcrs = ProjectNcrs(u)
  BY <1>1 DEF Load
<1>4. \A source : Lines(source) = {Plain(line) : line \in source.lines}
  BY DEF Lines
<1> HIDE DEF a, b, needs, Plain
<1>5. Lines(Load(t)) = Lines(Load(u))
  <2>1. {Plain(line) : line \in {a(need) : need \in needs}} = {Plain(a(need)) : need \in needs}
    OBVIOUS
  <2>2. {Plain(line) : line \in {b(need) : need \in needs}} = {Plain(b(need)) : need \in needs}
    OBVIOUS
  <2>3. {Plain(a(need)) : need \in needs} = {Plain(b(need)) : need \in needs}
    BY <1>2
  <2> QED  BY <1>3, <1>4, <2>1, <2>2, <2>3
<1>6. (\E line \in Load(t).lines : LineRejected(line))
        <=> (\E line \in Load(u).lines : LineRejected(line))
  BY <1>2, <1>3
<1>7. Told(Load(t)) = Told(Load(u))
  BY <1>2, <1>3, <1>5 DEF Told
<1> DEFINE bad(x) == Refuses(x) \/ \E line \in Load(x).lines : LineRejected(line)
<1>8. bad(t) <=> bad(u)
  BY <1>2, <1>6
<1>9. ASSUME NEW x PROVE Read(x).source = IF bad(x) THEN NoSource ELSE Load(x)
  <2>1. CASE Refuses(x)
    BY <2>1 DEF Read
  <2>2. CASE ~Refuses(x)
    BY <2>2 DEF Read, Result
  <2> QED  BY <2>1, <2>2
<1> HIDE DEF bad
<1> QED  BY <1>7, <1>8, <1>9

\* Who rests holds a row of its type.
LEMMA RestingIsRow ==
  Resting \in ProcessRows /\ Resting.at = "idle"
BY DEF Resting, ProcessRows

\* Who has chosen a project does, too.
LEMMA StartingIsRow ==
  ASSUME NEW p \in Nat, NEW attempts \in Nat, today \in Nat
  PROVE  /\ Starting(p, attempts) \in ProcessRows
         /\ Starting(p, attempts).at = "begin" /\ Starting(p, attempts).project = p
BY DEF Starting, ProcessRows

\* Nobody claims an event for the sweep.
LEMMA SweepHoldsNothing ==
  ASSUME ReadinessTyped
  PROVE  Held(Sweep) = {}
<1>1. \A e \in Events : outbox[e].claim \in Loops \cup {NoClaim}
  BY DEF ReadinessTyped, EventRows
<1>2. Sweep \notin Loops \cup {NoClaim}
  BY ReadinessAssumption DEF Sweep, NoClaim
<1> QED  BY <1>1, <1>2 DEF Held

\* The sweep goes to a project there is, or rests.
LEMMA SweepGoesOn ==
  ASSUME ReadinessTyped, NEW p
  PROVE  /\ SweepFrom(p) \in ProcessRows
         /\ SweepFrom(p).at \in {"idle", "begin"}
         /\ SweepFrom(p).at # "idle" => SweepFrom(p).project \in Projects
<1> DEFINE next == {q \in Projects : q >= p /\ Scheduled(q)}
<1>1. CASE next = {}
  <2>1. SweepFrom(p) = Resting
    BY <1>1 DEF SweepFrom
  <2> QED  BY <2>1, RestingIsRow
<1>2. CASE next # {}
  <2>1. PICK n \in Nat : Projects = 1..n
    BY DEF ReadinessTyped, Projects
  <2>2. IsFiniteSet(1..n) /\ 1..n \subseteq Nat
    BY FS_Interval
  <2>3. IsFiniteSet(next) /\ next \subseteq Nat
    <3>1. next \subseteq 1..n
      BY <2>1
    <3> HIDE DEF next
    <3> QED  BY <2>2, <3>1, FS_Subset
  <2>4. Min(next) \in next
    <3> HIDE DEF next
    <3> QED  BY <1>2, <2>3, LeastOfFinite
  <2>5. SweepFrom(p) = Starting(Min(next), 0)
    BY <1>2 DEF SweepFrom
  <2>6. Min(next) \in Projects /\ Min(next) \in Nat /\ today \in Nat
    BY <2>3, <2>4 DEF ReadinessTyped
  <2> HIDE DEF next
  <2> QED  BY <2>5, <2>6, StartingIsRow
<1> QED  BY <1>1, <1>2

\* Who is done rests, and the sweep goes to a project there is.
LEMMA GoesAfter ==
  ASSUME ReadinessTyped, NEW x \in Processes
  PROVE  /\ After(x) \in ProcessRows
         /\ After(x).at \in {"idle", "begin"}
         /\ After(x).at # "idle" => x = Sweep /\ After(x).project \in Projects
BY RestingIsRow, SweepGoesOn DEF After

\* An error takes a loop to fail, which is at the project still, and ends the sweep.
LEMMA GoesAfterError ==
  ASSUME ReadinessTyped, NEW x \in Processes
  PROVE  /\ AfterError(x) \in ProcessRows
         /\ x = Sweep => AfterError(x).at = "idle"
         /\ x # Sweep => AfterError(x).at = "fail" /\ AfterError(x).project = process[x].project
<1>1. process[x] \in ProcessRows
  BY DEF ReadinessTyped
<1>2. [process[x] EXCEPT !.at = "fail"] \in ProcessRows
  BY <1>1 DEF ProcessRows
<1>3. /\ [process[x] EXCEPT !.at = "fail"].at = "fail"
      /\ [process[x] EXCEPT !.at = "fail"].project = process[x].project
  BY <1>1 DEF ProcessRows
<1> QED  BY <1>2, <1>3, RestingIsRow DEF AfterError

\* A step that answers nothing, changes nothing that is announced and lets
\* processes begin with what there is.
Quiet ==
  /\ DOMAIN rows' = DOMAIN rows
  /\ \A p \in Projects : Told(rows'[p].source) = Told(rows[p].source)
  /\ UNCHANGED <<batches, overtaken>>
  /\ \A e \in Events :
       /\ outbox'[e].project = outbox[e].project
       /\ outbox'[e].status = "PROCESSED" => outbox[e].status = "PROCESSED"
  /\ \A x \in Processes :
       process'[x].at = "commit" => process'[x] = process[x] \/ UpToDate(x)'

\* After a quiet step everybody is as well informed as before.
LEMMA QuietKeeps ==
  ASSUME ReadinessInv, Quiet
  PROVE  Informed' /\ DeceivedLackOne' /\ AnsweredIsTold'
<1>1. Projects' = Projects
  BY DEF Quiet, Projects
<1>2. \A p : Unanswered(p) \subseteq Unanswered(p)'
  BY DEF Quiet, Unanswered
<1>3. ASSUME NEW x \in Processes, process[x].at = "commit", process'[x] = process[x]
      PROVE  /\ UpToDate(x)' <=> UpToDate(x)
             /\ Overlapped(x)' <=> Overlapped(x)
             /\ Compare(x)' <=> Compare(x)
  <2>1. process[x].project \in Projects
    BY <1>3 DEF ReadinessInv, Owned
  <2>2. UpToDate(x)' <=> UpToDate(x)
    BY <1>3, <2>1 DEF UpToDate, Quiet
  <2> QED  BY <1>3, <2>2 DEF Overlapped, Compare, SameAsLatest, Quiet
<1>4. Informed'
  <2>1. ASSUME NEW x \in Processes, process'[x].at = "commit", ~UpToDate(x)'
        PROVE  Warned(x)'
    <3>1. process'[x] = process[x]
      BY <2>1 DEF Quiet
    <3>2. process[x].at = "commit" /\ ~UpToDate(x)
      BY <1>3, <2>1, <3>1
    <3>3. Warned(x)
      BY <3>2, Zenon DEF ReadinessInv, Informed
    <3>4. CASE Overlapped(x)
      BY <1>3, <3>1, <3>2, <3>4 DEF Warned
    <3>5. CASE process[x].passed
      BY <3>1, <3>5 DEF Warned
    <3>6. CASE \E e \in Unanswered(process[x].project) : e \notin process[x].mine
      BY <1>2, <3>1, <3>6 DEF Warned
    <3> QED  BY <3>3, <3>4, <3>5, <3>6 DEF Warned
  <2> QED  BY <2>1, Zenon DEF Informed
<1>5. DeceivedLackOne'
  <2>1. SUFFICES ASSUME NEW p \in Projects, Deceived(p)' # {}, p \notin overtaken
                 PROVE  \E e \in Unanswered(p)' : \A x \in Deceived(p)' : e \notin process'[x].mine
    BY <1>1 DEF DeceivedLackOne, Quiet
  <2>2. \A x \in Deceived(p)' : x \in Deceived(p) /\ process'[x] = process[x]
    BY <1>3 DEF Deceived, Quiet
  <2>3. PICK e \in Unanswered(p) : \A x \in Deceived(p) : e \notin process[x].mine
    BY <2>1, <2>2 DEF ReadinessInv, DeceivedLackOne
  <2> QED  BY <1>2, <2>2, <2>3
<1>6. AnsweredIsTold'
  <2>1. \A p \in Projects : LatestIsTold(p)' <=> LatestIsTold(p)
    BY DEF LatestIsTold, Latest, Quiet
  <2> QED  BY <1>1, <1>2, <2>1 DEF AnsweredIsTold, ReadinessInv, Quiet
<1> QED  BY <1>4, <1>5, <1>6

\* The part of the invariant that keeps the records in order.
Orderly == ReadinessTyped /\ Owned

\* One process moves on; if it begins, it begins with what there is.
LEMMA OneProcessMoves ==
  ASSUME Orderly, NEW x \in Processes, NEW r \in ProcessRows,
         process' = [process EXCEPT ![x] = r],
         UNCHANGED <<rows, today, outbox, batches, overtaken>>,
         r.at # "idle" => r.project \in Projects,
         r.at = "idle" => Held(x) = {},
         \A e \in Held(x) : outbox[e].project = r.project,
         r.at = "commit" =>
           /\ r.known <= Len(batches[r.project])
           /\ \A e \in r.mine : outbox[e].status # "NONE"
           /\ Told(r.rows.source) = Told(rows[r.project].source)
  PROVE  Orderly' /\ Quiet
<1>1. process \in [Processes -> ProcessRows] /\ ReadinessTyped
  BY DEF Orderly, ReadinessTyped
<1>2. /\ process' \in [Processes -> ProcessRows] /\ process'[x] = r
      /\ \A y \in Processes : y # x => process'[y] = process[y]
  BY <1>1
<1>3. Projects' = Projects
  BY DEF Projects
<1>4. \A y : Held(y)' = Held(y)
  BY DEF Held
<1>5. ReadinessTyped'
  BY <1>1, <1>2, <1>3 DEF ReadinessTyped
<1>6. Owned'
  BY <1>2, <1>3, <1>4 DEF Owned, Orderly
<1>7. Quiet
  <2>1. ASSUME NEW y \in Processes, process'[y].at = "commit"
        PROVE  process'[y] = process[y] \/ UpToDate(y)'
    <3>1. CASE y = x
      BY <1>2, <2>1, <3>1 DEF UpToDate
    <3>2. CASE y # x
      BY <1>2, <3>2
    <3> QED  BY <3>1, <3>2
  <2> QED  BY <2>1 DEF Quiet
<1> QED  BY <1>5, <1>6, <1>7 DEF Orderly

\* The sweep starts with what there is.
LEMMA StartSweepKeeps ==
  ASSUME Orderly, StartSweep
  PROVE  Orderly' /\ Quiet
<1>1. Sweep \in Processes /\ ReadinessTyped
  BY DEF Orderly, Processes
<1>2. /\ SweepFrom(1) \in ProcessRows /\ SweepFrom(1).at \in {"idle", "begin"}
      /\ SweepFrom(1).at # "idle" => SweepFrom(1).project \in Projects
  BY <1>1, SweepGoesOn
<1>3. Held(Sweep) = {}
  BY <1>1, SweepHoldsNothing
<1>4. /\ process' = [process EXCEPT ![Sweep] = SweepFrom(1)]
      /\ UNCHANGED <<rows, today, outbox, batches, overtaken>>
  BY DEF StartSweep
<1> QED  BY <1>1, <1>2, <1>3, <1>4, OneProcessMoves

\* A calculation begins with the rows, the batches and the claims there are.
LEMMA BeginKeeps ==
  ASSUME Orderly, NEW x \in Processes, Begin(x)
  PROVE  Orderly' /\ Quiet
<1> DEFINE p == process[x].project
           r == [at |-> "commit", project |-> p, attempts |-> process[x].attempts,
                 tries |-> process[x].tries + 1, date |-> process[x].date, rows |-> rows[p],
                 known |-> Len(batches[p]), mine |-> Held(x), passed |-> FALSE]
<1>1. process[x] \in ProcessRows /\ process[x].at = "begin"
  BY DEF Begin, Orderly, ReadinessTyped
<1>2. /\ process' = [process EXCEPT ![x] = r]
      /\ UNCHANGED <<rows, today, outbox, batches, overtaken>>
  BY DEF Begin
<1>3. p \in Projects /\ p \in Nat
  BY <1>1 DEF Orderly, Owned, ProcessRows
<1>4. rows[p] \in ReadRows
  BY <1>3 DEF Orderly, ReadinessTyped, Projects
<1>5. Len(batches[p]) \in Nat
  <2>1. PICK S : batches[p] \in Seq(S)
    BY <1>3 DEF Orderly, ReadinessTyped
  <2> QED  BY <2>1
<1>6. /\ Held(x) \subseteq Events
      /\ \A e \in Held(x) : outbox[e].status = "PROCESSING" /\ outbox[e].project = p
  BY DEF Held, Orderly, Owned
<1>7. process[x].tries + 1 \in Nat /\ process[x].attempts \in Nat /\ process[x].date \in Nat
  BY <1>1 DEF ProcessRows
<1>8. r \in ProcessRows
  <2> HIDE DEF p
  <2> QED  BY <1>3, <1>4, <1>5, <1>6, <1>7 DEF ProcessRows
<1>9. /\ r.at = "commit" /\ r.project = p /\ r.known = Len(batches[p]) /\ r.mine = Held(x)
      /\ r.rows = rows[p]
  OBVIOUS
<1>10. r.known <= Len(batches[r.project])
  BY <1>5, <1>9
<1> HIDE DEF r, p
<1> QED  BY <1>2, <1>3, <1>6, <1>8, <1>9, <1>10, OneProcessMoves

\* A process gives up what it was at.
LEMMA GivingUpKeeps ==
  ASSUME Orderly, NEW x \in Processes, process[x].at = "commit",
         process' = [process EXCEPT ![x] = AfterError(x)],
         UNCHANGED <<rows, today, outbox, batches, overtaken>>
  PROVE  Orderly' /\ Quiet
<1>1. ReadinessTyped /\ process[x].project \in Projects
  BY DEF Orderly, Owned
<1>2. /\ AfterError(x) \in ProcessRows
      /\ x = Sweep => AfterError(x).at = "idle"
      /\ x # Sweep => AfterError(x).at = "fail" /\ AfterError(x).project = process[x].project
  BY <1>1, GoesAfterError
<1>3. x = Sweep => Held(x) = {}
  BY <1>1, SweepHoldsNothing
<1>4. \A e \in Held(x) : outbox[e].project = AfterError(x).project
  BY <1>2, <1>3 DEF Orderly, Owned
<1> QED  BY <1>1, <1>2, <1>3, <1>4, OneProcessMoves

\* Who conflicts begins again or gives up.
LEMMA ConflictKeeps ==
  ASSUME Orderly, NEW x \in Processes, Conflict(x)
  PROVE  Orderly' /\ Quiet
<1>1. process[x].at = "commit" /\ UNCHANGED <<rows, today, outbox, batches, overtaken>>
  BY DEF Conflict
<1>2. CASE process[x].tries < MaxTries
  <2> DEFINE r == [process[x] EXCEPT !.at = "begin"]
  <2>1. process' = [process EXCEPT ![x] = r]
    BY <1>2 DEF Conflict
  <2>2. process[x] \in ProcessRows
    BY DEF Orderly, ReadinessTyped
  <2>3. r \in ProcessRows /\ r.at = "begin" /\ r.project = process[x].project
    BY <2>2 DEF ProcessRows
  <2>4. process[x].project \in Projects /\ \A e \in Held(x) : outbox[e].project = process[x].project
    BY <1>1 DEF Orderly, Owned
  <2> HIDE DEF r
  <2> QED  BY <1>1, <2>1, <2>3, <2>4, OneProcessMoves
<1>3. CASE ~(process[x].tries < MaxTries)
  <2>1. process' = [process EXCEPT ![x] = AfterError(x)]
    BY <1>3 DEF Conflict
  <2> QED  BY <1>1, <2>1, GivingUpKeeps
<1> QED  BY <1>2, <1>3

\* What cannot be calculated tells nothing and answers nothing.
LEMMA ThrowKeeps ==
  ASSUME Orderly, NEW x \in Processes, Throw(x)
  PROVE  Orderly' /\ Quiet
BY GivingUpKeeps DEF Throw

\* A statement that fails leaves nothing behind.
LEMMA StatementFailsKeeps ==
  ASSUME Orderly, NEW x \in Processes, StatementFails(x)
  PROVE  Orderly' /\ Quiet
BY GivingUpKeeps DEF StatementFails

\* A new day changes no rows.
LEMMA NextDayKeeps ==
  ASSUME Orderly, NextDay
  PROVE  Orderly' /\ Quiet
<1>1. UNCHANGED <<rows, outbox, batches, process, overtaken>> /\ today' = today + 1
  BY DEF NextDay
<1>2. Projects' = Projects /\ \A x : Held(x)' = Held(x)
  BY <1>1 DEF Projects, Held
<1>3. ReadinessTyped'
  <2>1. today' \in Nat
    BY <1>1 DEF Orderly, ReadinessTyped
  <2>2. \E n \in Nat : rows' \in [1..n -> ReadRows]
    BY <1>1 DEF Orderly, ReadinessTyped
  <2> QED  BY <1>1, <1>2, <2>1, <2>2 DEF Orderly, ReadinessTyped
<1>4. Owned'
  BY <1>1, <1>2 DEF Orderly, Owned
<1> QED  BY <1>1, <1>3, <1>4 DEF Orderly, Quiet

\* Another name changes nothing that is announced.
LEMMA RenameKeeps ==
  ASSUME Orderly, NEW p \in Projects, NEW tables \in Changing, Rename(p, tables)
  PROVE  Orderly' /\ Quiet
<1>1. /\ UNCHANGED <<today, outbox, batches, process, overtaken>>
      /\ rows' = [rows EXCEPT ![p] = Read(tables)]
      /\ Announced(tables) = Announced(rows[p].tables)
  BY DEF Rename
<1>2. PICK n \in Nat : rows \in [1..n -> ReadRows]
  BY DEF Orderly, ReadinessTyped
<1>3. Read(tables) \in ReadRows /\ tables \in RowSets
  BY DEF ReadRows, RowSets
<1>4. rows' \in [1..n -> ReadRows] /\ Projects = 1..n /\ Projects' = 1..n
  BY <1>1, <1>2, <1>3 DEF Projects
<1>5. PICK old \in RowSets : rows[p] = Read(old)
  BY <1>2, <1>4 DEF ReadRows
<1>6. Read(old).tables = old
  BY DEF Read, Result
<1>7. Told(Read(tables).source) = Told(rows[p].source)
  BY <1>1, <1>3, <1>5, <1>6, NamesAreNotTold
<1>8. /\ rows'[p] = Read(tables)
      /\ \A q \in Projects : q # p => rows'[q] = rows[q]
  BY <1>1, <1>2, <1>4
<1>9. \A q \in Projects : Told(rows'[q].source) = Told(rows[q].source)
  BY <1>7, <1>8
<1>10. \A x : Held(x)' = Held(x)
  BY <1>1 DEF Held
<1>11. ReadinessTyped'
  BY <1>1, <1>4 DEF Orderly, ReadinessTyped
<1>12. Owned'
  BY <1>1, <1>4, <1>10 DEF Orderly, Owned
<1> QED  BY <1>1, <1>4, <1>9, <1>11, <1>12 DEF Orderly, Quiet, Projects

\* An event that is claimed.
Taken(o, s, c, b) == [o EXCEPT !.status = s, !.attempts = o.attempts + 1, !.claim = c, !.stale = b]

\* It is a row, it is taken by the loop and of the project it was of.
LEMMA EventIsTaken ==
  ASSUME NEW o \in EventRows, NEW s \in {"NONE", "PENDING", "PROCESSING", "PROCESSED", "FAILED"},
         NEW c \in Loops \cup {NoClaim}, NEW b \in BOOLEAN
  PROVE  /\ Taken(o, s, c, b) \in EventRows
         /\ Taken(o, s, c, b).status = s
         /\ Taken(o, s, c, b).project = o.project
         /\ Taken(o, s, c, b).claim = c
<1>1. o.attempts + 1 \in Nat
  BY DEF EventRows
<1> QED  BY <1>1 DEF EventRows, Taken

\* One process lets go of events or takes some, and no event is answered.
LEMMA ClaimsMove ==
  ASSUME Orderly, NEW x \in Processes, NEW r \in ProcessRows,
         r.at # "commit" \/ r = process[x],
         process' = [process EXCEPT ![x] = r], UNCHANGED <<rows, today, batches, overtaken>>,
         DOMAIN outbox' = Events,
         \A e \in Events :
           /\ outbox'[e] \in EventRows
           /\ outbox'[e].project = outbox[e].project
           /\ outbox'[e].status = "NONE" <=> outbox[e].status = "NONE"
           /\ outbox'[e].status = "PROCESSED" => outbox[e].status = "PROCESSED",
         outbox' = [e \in Events |-> outbox'[e]],
         \A y \in Processes : y # x => Held(y)' \subseteq Held(y),
         r.at # "idle" => r.project \in Projects,
         r.at = "idle" => Held(x)' = {},
         \A e \in Held(x)' : outbox[e].project = r.project
  PROVE  Orderly' /\ Quiet
<1>1. process \in [Processes -> ProcessRows] /\ ReadinessTyped
  BY DEF Orderly, ReadinessTyped
<1>2. /\ process' \in [Processes -> ProcessRows] /\ process'[x] = r
      /\ \A y \in Processes : y # x => process'[y] = process[y]
  BY <1>1
<1>3. Projects' = Projects
  BY DEF Projects
<1>4. outbox' \in [Events -> EventRows]
  OBVIOUS
<1>5. ReadinessTyped'
  BY <1>1, <1>2, <1>3, <1>4 DEF ReadinessTyped
<1>6. Owned'
  <2>1. \A e \in Events : IF outbox'[e].status = "NONE" THEN outbox'[e].project = 0
                          ELSE outbox'[e].project \in Projects'
    BY <1>3 DEF Orderly, Owned
  <2>2. ASSUME NEW y \in Processes
        PROVE  /\ process'[y].at # "idle" => process'[y].project \in Projects'
               /\ process'[y].at = "idle" => Held(y)' = {}
               /\ \A e \in Held(y)' : outbox'[e].project = process'[y].project
               /\ process'[y].at = "commit" =>
                    /\ process'[y].known <= Len(batches'[process'[y].project])
                    /\ \A e \in process'[y].mine : outbox'[e].status # "NONE"
    <3>1. /\ process[y].at # "idle" => process[y].project \in Projects
          /\ process[y].at = "idle" => Held(y) = {}
          /\ \A e \in Held(y) : outbox[e].project = process[y].project
          /\ process[y].at = "commit" =>
               /\ process[y].known <= Len(batches[process[y].project])
               /\ \A e \in process[y].mine : outbox[e].status # "NONE"
      BY DEF Orderly, Owned
    <3>2. Held(y)' \subseteq Events /\ Held(y) \subseteq Events
      BY DEF Held
    <3>3. process[y].mine \subseteq Events
      BY <1>1 DEF ProcessRows
    <3>4. CASE y # x
      <4>1. process'[y] = process[y] /\ Held(y)' \subseteq Held(y)
        BY <1>2, <3>4
      <4> QED  BY <1>3, <3>1, <3>2, <3>3, <4>1
    <3>5. CASE y = x
      <4>1. process'[y] = r
        BY <1>2, <3>5
      <4>2. r.at = "commit" => /\ r.known <= Len(batches[r.project])
                               /\ \A e \in r.mine : e \in Events /\ outbox[e].status # "NONE"
        BY <3>1, <3>3, <3>5
      <4> QED  BY <1>3, <3>2, <3>5, <4>1, <4>2
    <3> QED  BY <3>4, <3>5
  <2> QED  BY <2>1, <2>2 DEF Owned
<1>7. Quiet
  <2>1. ASSUME NEW y \in Processes, process'[y].at = "commit"
        PROVE  process'[y] = process[y]
    BY <1>2, <2>1
  <2> QED  BY <2>1 DEF Quiet
<1> QED  BY <1>5, <1>6, <1>7 DEF Orderly

\* A claim answers nothing; it takes events of one project and leaves what other loops work with.
LEMMA ClaimKeeps ==
  ASSUME Orderly, NEW w \in Loops, Claim(w)
  PROVE  Orderly' /\ Quiet
<1>1. process[w].at = "idle" /\ UNCHANGED <<rows, today, batches, overtaken>>
  BY DEF Claim
<1>2. PICK candidate \in Candidates :
        /\ outbox' = [e \in Events |->
             IF e \in Coalesced(outbox[candidate].project)
             THEN [outbox[e] EXCEPT !.status = "PROCESSING", !.attempts = @ + 1, !.claim = w,
                                    !.stale = FALSE]
             ELSE outbox[e]]
        /\ process' = [process EXCEPT ![w] = Starting(outbox[candidate].project,
                                                     outbox[candidate].attempts + 1)]
  BY DEF Claim
<1> DEFINE p == outbox[candidate].project
           a == outbox[candidate].attempts + 1
           r == Starting(p, a)
<1>3. w \in Processes /\ outbox \in [Events -> EventRows] /\ today \in Nat
  BY DEF Orderly, ReadinessTyped, Processes
<1>4. candidate \in Events /\ outbox[candidate].status # "NONE"
  BY DEF Candidates, Claimable, StaleClaim
<1>5. p \in Projects /\ p \in Nat /\ a \in Nat
  BY <1>3, <1>4 DEF Orderly, Owned, EventRows
<1>6. process' = [process EXCEPT ![w] = r]
  BY <1>2
<1>7. r \in ProcessRows /\ r.at = "begin" /\ r.project = p
  <2> HIDE DEF p, a
  <2> QED  BY <1>3, <1>5, StartingIsRow
<1>8. \A e \in Coalesced(p) :
        /\ e \in Events /\ outbox[e].project = p
        /\ outbox[e].status \in {"PENDING", "PROCESSING"}
  BY DEF Coalesced, StaleClaim
<1>9. ASSUME NEW e \in Events
      PROVE  /\ outbox'[e] \in EventRows
             /\ outbox'[e].project = outbox[e].project
             /\ e \in Coalesced(p) => outbox'[e].status = "PROCESSING" /\ outbox'[e].claim = w
             /\ e \notin Coalesced(p) => outbox'[e] = outbox[e]
  <2>1. CASE e \in Coalesced(p)
    <3> DEFINE o == outbox[e]
               taken == Taken(o, "PROCESSING", w, FALSE)
    <3>1. o \in EventRows
      BY <1>3
    <3>2. outbox'[e] = taken
      BY <1>2, <2>1 DEF Taken
    <3> HIDE DEF o
    <3>3. ASSUME NEW b \in BOOLEAN
          PROVE  /\ Taken(o, "PROCESSING", w, b) \in EventRows
                 /\ Taken(o, "PROCESSING", w, b).project = o.project
                 /\ Taken(o, "PROCESSING", w, b).status = "PROCESSING"
                 /\ Taken(o, "PROCESSING", w, b).claim = w
      BY <3>1, EventIsTaken
    <3>4. /\ taken \in EventRows /\ taken.project = o.project
          /\ taken.status = "PROCESSING" /\ taken.claim = w
      BY <3>3
    <3> HIDE DEF taken
    <3>5. outbox[e].project = o.project
      BY DEF o
    <3> QED  BY <2>1, <3>2, <3>4, <3>5
  <2>2. CASE e \notin Coalesced(p)
    <3>1. outbox'[e] = outbox[e]
      BY <1>2, <2>2
    <3> QED  BY <1>3, <2>2, <3>1
  <2> QED  BY <2>1, <2>2
<1>10. DOMAIN outbox' = Events /\ outbox' = [e \in Events |-> outbox'[e]]
  <2> DEFINE f(e) == IF e \in Coalesced(p)
             THEN [outbox[e] EXCEPT !.status = "PROCESSING", !.attempts = @ + 1, !.claim = w,
                                    !.stale = FALSE]
             ELSE outbox[e]
  <2>1. outbox' = [e \in Events |-> f(e)]
    BY <1>2
  <2> HIDE DEF f
  <2> QED  BY <2>1
<1>11. Held(w) = {}
  BY <1>1, <1>3 DEF Orderly, Owned
<1>12. \A y \in Processes : y # w => Held(y)' \subseteq Held(y)
  BY <1>9 DEF Held
<1>13. \A e \in Held(w)' : outbox[e].project = p
  BY <1>8, <1>9, <1>11 DEF Held
<1> HIDE DEF r, p
<1>14. \A e \in Events :
         /\ outbox'[e].status = "NONE" <=> outbox[e].status = "NONE"
         /\ outbox'[e].status = "PROCESSED" => outbox[e].status = "PROCESSED"
  BY <1>8, <1>9
<1> QED
  BY <1>1, <1>3, <1>5, <1>6, <1>7, <1>9, <1>10, <1>12, <1>13, <1>14, ClaimsMove,
     ZenonT(40)

\* fail returns what the loop holds, or gives it up, and answers nothing.
LEMMA FailKeeps ==
  ASSUME Orderly, NEW w \in Loops, Fail(w)
  PROVE  Orderly' /\ Quiet
<1>1. process[w].at = "fail" /\ UNCHANGED <<rows, today, batches, overtaken>>
  BY DEF Fail
<1>2. /\ w \in Processes /\ outbox \in [Events -> EventRows]
      /\ process' = [process EXCEPT ![w] = Resting]
  BY DEF Orderly, ReadinessTyped, Processes, Fail
<1> DEFINE failed(e) == [outbox[e] EXCEPT !.status = "FAILED"]
           returned(e) == [outbox[e] EXCEPT !.status = "PENDING", !.claim = NoClaim]
           next(e) == IF e \notin Held(w) THEN outbox[e]
                      ELSE IF process[w].attempts >= MaxAttempts THEN failed(e) ELSE returned(e)
<1>3. outbox' = [e \in Events |-> next(e)]
  BY DEF Fail
<1>4. ASSUME NEW e \in Events
      PROVE  /\ failed(e) \in EventRows /\ failed(e).status = "FAILED"
             /\ failed(e).project = outbox[e].project
             /\ returned(e) \in EventRows /\ returned(e).status = "PENDING"
             /\ returned(e).project = outbox[e].project
  BY <1>2 DEF EventRows
<1> HIDE DEF failed, returned
<1>5. ASSUME NEW e \in Events
      PROVE  /\ outbox'[e] \in EventRows
             /\ outbox'[e].project = outbox[e].project
             /\ e \in Held(w) => outbox'[e].status \in {"PENDING", "FAILED"}
             /\ e \notin Held(w) => outbox'[e] = outbox[e]
  BY <1>2, <1>3, <1>4
<1>6. DOMAIN outbox' = Events /\ outbox' = [e \in Events |-> outbox'[e]]
  <2> HIDE DEF next
  <2> QED  BY <1>3
<1>7. /\ Held(w)' = {}
      /\ \A y \in Processes : y # w => Held(y)' \subseteq Held(y)
      /\ \A e \in Held(w) : outbox[e].status = "PROCESSING"
  BY <1>5 DEF Held
<1>8. \A e \in Events :
        /\ outbox'[e].status = "NONE" <=> outbox[e].status = "NONE"
        /\ outbox'[e].status = "PROCESSED" => outbox[e].status = "PROCESSED"
  BY <1>5, <1>7
<1> HIDE DEF next
<1> QED
  BY <1>1, <1>2, <1>5, <1>6, <1>7, <1>8, RestingIsRow, ClaimsMove, ZenonT(40)

\* A loop that dies leaves its events unanswered.
LEMMA DieKeeps ==
  ASSUME Orderly, NEW w \in Loops, Die(w)
  PROVE  Orderly' /\ Quiet
<1>1. UNCHANGED <<rows, today, batches, overtaken>>
  BY DEF Die
<1>2. /\ w \in Processes /\ outbox \in [Events -> EventRows]
      /\ process' = [process EXCEPT ![w] = Resting]
  BY DEF Orderly, ReadinessTyped, Processes, Die
<1> DEFINE left(e, b) == [outbox[e] EXCEPT !.claim = NoClaim, !.stale = b]
           next(e, b) == IF e \in Held(w) THEN left(e, b) ELSE outbox[e]
<1>3. ASSUME NEW e \in Events, NEW b \in BOOLEAN
      PROVE  /\ left(e, b) \in EventRows /\ left(e, b).status = outbox[e].status
             /\ left(e, b).project = outbox[e].project
             /\ left(e, b).claim = NoClaim
  BY <1>2 DEF EventRows
<1>4. outbox' = [e \in Events |-> next(e, TRUE)]
  BY DEF Die
<1> HIDE DEF left
<1>5. ASSUME NEW e \in Events
      PROVE  /\ left(e, TRUE) \in EventRows /\ left(e, TRUE).status = outbox[e].status
             /\ left(e, TRUE).project = outbox[e].project
             /\ left(e, TRUE).claim = NoClaim
  BY <1>3
<1>6. ASSUME NEW e \in Events
      PROVE  /\ outbox'[e] \in EventRows
             /\ outbox'[e].project = outbox[e].project
             /\ outbox'[e].status = outbox[e].status
             /\ e \in Held(w) => outbox'[e].claim = NoClaim
             /\ e \notin Held(w) => outbox'[e] = outbox[e]
  <2>1. CASE e \in Held(w)
    <3>1. outbox'[e] = left(e, TRUE)
      BY <1>4, <2>1
    <3> QED  BY <1>5, <2>1, <3>1
  <2>2. CASE e \notin Held(w)
    <3>1. outbox'[e] = outbox[e]
      BY <1>4, <2>2
    <3> QED  BY <1>2, <2>2, <3>1
  <2> QED  BY <2>1, <2>2
<1>7. DOMAIN outbox' = Events /\ outbox' = [e \in Events |-> outbox'[e]]
  <2> DEFINE f(e) == next(e, TRUE)
  <2>1. outbox' = [e \in Events |-> f(e)]
    BY <1>4
  <2> HIDE DEF f
  <2> QED  BY <2>1
<1>8. \A x \in Loops : x # NoClaim
  BY ReadinessAssumption
<1>9. /\ Held(w)' = {}
      /\ \A y \in Processes : y # w => Held(y)' \subseteq Held(y)
  <2>1. NoClaim \notin Processes
    BY ReadinessAssumption DEF Processes, Sweep, NoClaim
  <2> QED  BY <1>2, <1>6, <2>1 DEF Held
<1>10. \A e \in Events :
        /\ outbox'[e].status = "NONE" <=> outbox[e].status = "NONE"
        /\ outbox'[e].status = "PROCESSED" => outbox[e].status = "PROCESSED"
  BY <1>6
<1> HIDE DEF next
<1> QED  BY <1>1, <1>2, <1>6, <1>7, <1>9, <1>10, RestingIsRow, ClaimsMove

\* A claim that becomes stale is a claim still.
LEMMA OversleepKeeps ==
  ASSUME Orderly, NEW w \in Loops, Oversleep(w)
  PROVE  Orderly' /\ Quiet
<1>1. UNCHANGED <<rows, today, batches, process, overtaken>>
  BY DEF Oversleep
<1>2. w \in Processes /\ outbox \in [Events -> EventRows] /\ process \in [Processes -> ProcessRows]
  BY DEF Orderly, ReadinessTyped, Processes
<1> DEFINE overslept(e, b) == [outbox[e] EXCEPT !.stale = b]
           next(e, b) == IF e \in Held(w) THEN overslept(e, b) ELSE outbox[e]
           r == process[w]
<1>3. ASSUME NEW e \in Events, NEW b \in BOOLEAN
      PROVE  /\ overslept(e, b) \in EventRows /\ overslept(e, b).status = outbox[e].status
             /\ overslept(e, b).project = outbox[e].project
             /\ overslept(e, b).claim = outbox[e].claim
  BY <1>2 DEF EventRows
<1>4. outbox' = [e \in Events |-> next(e, TRUE)]
  BY DEF Oversleep
<1> HIDE DEF overslept
<1>5. ASSUME NEW e \in Events
      PROVE  /\ overslept(e, TRUE) \in EventRows /\ overslept(e, TRUE).status = outbox[e].status
             /\ overslept(e, TRUE).project = outbox[e].project
             /\ overslept(e, TRUE).claim = outbox[e].claim
  BY <1>3
<1>6. ASSUME NEW e \in Events
      PROVE  /\ outbox'[e] \in EventRows
             /\ outbox'[e].project = outbox[e].project
             /\ outbox'[e].status = outbox[e].status
             /\ outbox'[e].claim = outbox[e].claim
  <2>1. CASE e \in Held(w)
    <3>1. outbox'[e] = overslept(e, TRUE)
      BY <1>4, <2>1
    <3> QED  BY <1>5, <3>1
  <2>2. CASE e \notin Held(w)
    <3>1. outbox'[e] = outbox[e]
      BY <1>4, <2>2
    <3> QED  BY <1>2, <3>1
  <2> QED  BY <2>1, <2>2
<1>7. DOMAIN outbox' = Events /\ outbox' = [e \in Events |-> outbox'[e]]
  <2> DEFINE f(e) == next(e, TRUE)
  <2>1. outbox' = [e \in Events |-> f(e)]
    BY <1>4
  <2> HIDE DEF f
  <2> QED  BY <2>1
<1>8. \A y : Held(y)' = Held(y)
  BY <1>6 DEF Held
<1>9. r \in ProcessRows /\ process' = [process EXCEPT ![w] = r]
  BY <1>1, <1>2
<1>10. /\ r.at # "idle" => r.project \in Projects
       /\ r.at = "idle" => Held(w)' = {}
       /\ \A e \in Held(w)' : outbox[e].project = r.project
  BY <1>2, <1>8 DEF Orderly, Owned
<1>11. \A y \in Processes : y # w => Held(y)' \subseteq Held(y)
  BY <1>8
<1>12. \A e \in Events :
         /\ outbox'[e].status = "NONE" <=> outbox[e].status = "NONE"
         /\ outbox'[e].status = "PROCESSED" => outbox[e].status = "PROCESSED"
  BY <1>6
<1>13. r = process[w]
  OBVIOUS
<1>14. UNCHANGED <<rows, today, batches, overtaken>>
  BY <1>1
<1> HIDE DEF r, next
<1> QED  BY <1>2, <1>6, <1>7, <1>9, <1>10, <1>11, <1>12, <1>13, <1>14, ClaimsMove

\* An event that is not there yet is a row as any other.
LEMMA NoEventIsRow ==
  NoEvent \in EventRows
<1> DEFINE none(b) == [project |-> 0, status |-> "NONE", attempts |-> 0, claim |-> NoClaim,
                       stale |-> b]
<1>1. \A b \in BOOLEAN : none(b) \in EventRows
  BY DEF EventRows
<1>2. NoEvent = none(FALSE)
  BY DEF NoEvent
<1> HIDE DEF none
<1> QED  BY <1>1, <1>2

\* An event that is announced.
LEMMA AnnouncedIsRow ==
  ASSUME NEW p \in Nat
  PROVE  /\ [NoEvent EXCEPT !.project = p, !.status = "PENDING"] \in EventRows
         /\ [NoEvent EXCEPT !.project = p, !.status = "PENDING"].project = p
         /\ [NoEvent EXCEPT !.project = p, !.status = "PENDING"].status = "PENDING"
BY NoEventIsRow DEF EventRows

\* What a change announces nobody has claimed yet.
LEMMA ChangeIsAnnounced ==
  ASSUME Orderly, NEW p \in Projects, NEW tables \in Changing, ChangeRows(p, tables)
  PROVE  \E new \in Unborn :
           /\ outbox' \in [Events -> EventRows]
           /\ \A e \in Events : e # new => outbox'[e] = outbox[e]
           /\ outbox'[new].project = p /\ outbox'[new].status = "PENDING"
           /\ \A q \in Projects : Unanswered(q) \subseteq Unanswered(q)'
           /\ new \in Unanswered(p)'
           /\ \A x \in Processes : process[x].at = "commit" => new \notin process[x].mine
           /\ \A x : Held(x)' = Held(x)
<1> DEFINE new == Min(Unborn)
           event == [NoEvent EXCEPT !.project = p, !.status = "PENDING"]
<1>1. outbox \in [Events -> EventRows] /\ p \in Nat
  BY DEF Orderly, ReadinessTyped, Projects
<1>2. new \in Unborn
  <2>1. Unborn \subseteq Events /\ Unborn # {}
    BY DEF Unborn, ChangeRows
  <2>2. IsFiniteSet(Unborn) /\ Unborn \subseteq Nat
    BY <2>1, FS_Subset, ReadinessAssumption
  <2> QED  BY <2>1, <2>2, LeastOfFinite
<1>3. outbox' = [outbox EXCEPT ![new] = event]
  BY DEF ChangeRows, Enqueue
<1>4. event \in EventRows /\ event.project = p /\ event.status = "PENDING"
  BY <1>1, AnnouncedIsRow
<1>5. new \in Events /\ outbox[new].status = "NONE"
  BY <1>2 DEF Unborn
<1> HIDE DEF event, new
<1>6. /\ outbox' \in [Events -> EventRows] /\ outbox'[new] = event
      /\ \A e \in Events : e # new => outbox'[e] = outbox[e]
  BY <1>1, <1>3, <1>4, <1>5
<1>7. outbox[new].project = 0
  BY <1>5 DEF Orderly, Owned
<1>8. 0 \notin Projects
  BY DEF Orderly, ReadinessTyped, Projects
<1>9. \A q \in Projects : Unanswered(q) \subseteq Unanswered(q)'
  BY <1>6, <1>7, <1>8 DEF Unanswered
<1>10. new \in Unanswered(p)'
  BY <1>4, <1>5, <1>6 DEF Unanswered
<1>11. \A x \in Processes : process[x].at = "commit" => new \notin process[x].mine
  BY <1>5 DEF Orderly, Owned
<1>12. \A x : Held(x)' = Held(x)
  BY <1>4, <1>5, <1>6 DEF Held
<1> QED  BY <1>2, <1>4, <1>6, <1>9, <1>10, <1>11, <1>12

\* A change is news to everybody, and its event is claimed by nobody.
LEMMA ChangeRowsKeeps ==
  ASSUME ReadinessInv, NEW p \in Projects, NEW tables \in Changing, ChangeRows(p, tables)
  PROVE  ReadinessInv'
<1>1. Orderly
  BY DEF ReadinessInv, Orderly
<1>2. /\ UNCHANGED <<today, batches, process, overtaken>>
      /\ rows' = [rows EXCEPT ![p] = Read(tables)]
  BY DEF ChangeRows
<1>3. PICK n \in Nat : rows \in [1..n -> ReadRows]
  BY <1>1 DEF Orderly, ReadinessTyped
<1>4. Read(tables) \in ReadRows
  BY DEF ReadRows, RowSets
<1>5. /\ rows' \in [1..n -> ReadRows] /\ Projects = 1..n /\ Projects' = 1..n
      /\ \A q \in Projects : q # p => rows'[q] = rows[q]
  BY <1>2, <1>3, <1>4 DEF Projects
<1>6. PICK new \in Unborn :
        /\ outbox' \in [Events -> EventRows]
        /\ \A e \in Events : e # new => outbox'[e] = outbox[e]
        /\ outbox'[new].project = p /\ outbox'[new].status = "PENDING"
        /\ \A q \in Projects : Unanswered(q) \subseteq Unanswered(q)'
        /\ new \in Unanswered(p)'
        /\ \A x \in Processes : process[x].at = "commit" => new \notin process[x].mine
        /\ \A x : Held(x)' = Held(x)
  BY <1>1, ChangeIsAnnounced
<1>7. ReadinessTyped'
  BY <1>1, <1>2, <1>5, <1>6 DEF Orderly, ReadinessTyped
<1>8. Owned'
  <2>1. \A e \in Events : IF outbox'[e].status = "NONE" THEN outbox'[e].project = 0
                          ELSE outbox'[e].project \in Projects'
    BY <1>1, <1>5, <1>6 DEF Orderly, Owned
  <2>2. ASSUME NEW x \in Processes
        PROVE  /\ \A e \in Held(x) : e \in Events /\ e # new /\ outbox'[e] = outbox[e]
               /\ \A e \in process[x].mine : process[x].at = "commit" => outbox'[e] = outbox[e]
    <3>1. \A e \in Held(x) : e \in Events /\ e # new
      BY DEF Held, Unborn
    <3>2. process[x].mine \subseteq Events
      BY <1>1 DEF Orderly, ReadinessTyped, ProcessRows
    <3> QED  BY <1>6, <3>1, <3>2
  <2> QED  BY <1>1, <1>2, <1>5, <1>6, <2>1, <2>2 DEF Orderly, Owned
<1>9. ASSUME NEW x \in Processes, process[x].at = "commit"
      PROVE  /\ process[x].project \in Projects
             /\ process[x].project # p => (UpToDate(x)' <=> UpToDate(x))
             /\ Overlapped(x)' <=> Overlapped(x)
             /\ Compare(x)' <=> Compare(x)
  <2>1. process[x].project \in Projects
    BY <1>1, <1>9 DEF Orderly, Owned
  <2>2. process[x].project # p => (UpToDate(x)' <=> UpToDate(x))
    BY <1>2, <1>5, <2>1 DEF UpToDate
  <2> QED  BY <1>2, <2>1, <2>2 DEF Overlapped, Compare, SameAsLatest
<1>10. Informed'
  <2>1. ASSUME NEW x \in Processes, process'[x].at = "commit", ~UpToDate(x)'
        PROVE  Warned(x)'
    <3>1. process'[x] = process[x] /\ process[x].at = "commit"
      BY <1>2, <2>1
    <3>2. CASE process[x].project = p
      BY <1>6, <3>1, <3>2 DEF Warned
    <3>3. CASE process[x].project # p
      <4>1. Warned(x)
        BY <1>9, <2>1, <3>1, <3>3, Zenon DEF ReadinessInv, Informed
      <4>2. Unanswered(process[x].project) \subseteq Unanswered(process[x].project)'
        BY <1>6, <1>9, <3>1
      <4>3. CASE Overlapped(x)
        BY <1>9, <3>1, <4>3 DEF Warned
      <4>4. CASE process[x].passed
        BY <3>1, <4>4 DEF Warned
      <4>5. CASE \E e \in Unanswered(process[x].project) : e \notin process[x].mine
        BY <3>1, <4>2, <4>5 DEF Warned
      <4> QED  BY <4>1, <4>3, <4>4, <4>5 DEF Warned
    <3> QED  BY <3>2, <3>3
  <2> QED  BY <2>1, Zenon DEF Informed
<1>11. DeceivedLackOne'
  <2>1. SUFFICES ASSUME NEW q \in Projects, Deceived(q)' # {}, q \notin overtaken
                 PROVE  \E e \in Unanswered(q)' : \A x \in Deceived(q)' : e \notin process[x].mine
    BY <1>2, <1>5 DEF DeceivedLackOne
  <2>2. CASE q = p
    <3>1. \A x \in Deceived(p)' : x \in Processes /\ process[x].at = "commit"
      BY <1>2 DEF Deceived
    <3> QED  BY <1>6, <2>2, <3>1
  <2>3. CASE q # p
    <3>1. \A x \in Deceived(q)' : x \in Deceived(q)
      BY <1>2, <1>9, <2>3 DEF Deceived
    <3>2. PICK e \in Unanswered(q) : \A x \in Deceived(q) : e \notin process[x].mine
      BY <2>1, <3>1 DEF ReadinessInv, DeceivedLackOne
    <3> QED  BY <1>6, <3>1, <3>2
  <2> QED  BY <2>2, <2>3
<1>12. AnsweredIsTold'
  <2>1. \A q \in Projects : q # p => (LatestIsTold(q)' <=> LatestIsTold(q))
    BY <1>2, <1>5 DEF LatestIsTold, Latest
  <2> QED  BY <1>2, <1>5, <1>6, <2>1 DEF AnsweredIsTold, ReadinessInv
<1> QED  BY <1>7, <1>8, <1>10, <1>11, <1>12 DEF ReadinessInv

\* Who commits answers what it has claimed, and nobody else's.
LEMMA AnswersItsOwn ==
  ASSUME Orderly, NEW x \in Processes, process[x].at = "commit", ~MustRetry(x), CompleteEvents(x)
  PROVE  /\ process[x].project \in Projects
         /\ outbox' \in [Events -> EventRows]
         /\ \A e \in Events :
              /\ outbox'[e].project = outbox[e].project
              /\ outbox'[e].status = "NONE" <=> outbox[e].status = "NONE"
         /\ Held(x)' = {}
         /\ \A y \in Processes : Held(y)' \subseteq Held(y)
         /\ \A q \in Projects : q # process[x].project => Unanswered(q)' = Unanswered(q)
         /\ \A q \in Projects :
              q = process[x].project => Unanswered(q)' = Unanswered(q) \ process[x].mine
<1> DEFINE p == process[x].project
           mine == process[x].mine
           answered(e) == [outbox[e] EXCEPT !.status = "PROCESSED"]
<1>1. outbox \in [Events -> EventRows] /\ p \in Projects
  BY DEF Orderly, ReadinessTyped, Owned
<1>2. mine = Held(x)
  BY DEF MustRetry
<1>3. \A e \in mine : e \in Events /\ outbox[e].project = p /\ outbox[e].status = "PROCESSING"
  BY <1>2 DEF Orderly, Owned, Held
<1>4. outbox' = [e \in Events |-> IF e \in mine THEN answered(e) ELSE outbox[e]]
  BY DEF CompleteEvents
<1>5. \A e \in Events : /\ answered(e) \in EventRows /\ answered(e).status = "PROCESSED"
                        /\ answered(e).project = outbox[e].project
                        /\ answered(e).claim = outbox[e].claim
  BY <1>1 DEF EventRows
<1> HIDE DEF answered, mine, p
<1>6. /\ outbox' \in [Events -> EventRows]
      /\ \A e \in mine : e \in Events /\ outbox'[e] = answered(e)
      /\ \A e \in Events : e \notin mine => outbox'[e] = outbox[e]
  BY <1>1, <1>3, <1>4, <1>5
<1>7. \A e \in Events : /\ outbox'[e].project = outbox[e].project
                        /\ outbox'[e].claim = outbox[e].claim
                        /\ e \in mine => outbox'[e].status = "PROCESSED"
                        /\ e \notin mine => outbox'[e].status = outbox[e].status
  BY <1>5, <1>6
<1>8. \A y \in Processes : Held(y)' \subseteq Held(y)
  BY <1>7 DEF Held
<1>9. Held(x)' = {}
  BY <1>2, <1>7, <1>8 DEF Held
<1>10. \A q \in Projects : q # p => Unanswered(q)' = Unanswered(q)
  BY <1>3, <1>7 DEF Unanswered
<1>11. \A q \in Projects : q = p => Unanswered(q)' = Unanswered(q) \ mine
  BY <1>3, <1>7 DEF Unanswered
<1>12. \A e \in Events : outbox'[e].status = "NONE" <=> outbox[e].status = "NONE"
  BY <1>3, <1>7
<1> QED  BY <1>1, <1>6, <1>7, <1>8, <1>9, <1>10, <1>11, <1>12 DEF p, mine

\* Those who are at the project that is answered are told, and who answered goes on.
LEMMA SkipTells ==
  ASSUME Orderly, NEW x \in Processes, Skip(x)
  PROVE  /\ process' \in [Processes -> ProcessRows]
         /\ process'[x] = After(x)
         /\ \A y \in Processes : y # x =>
              /\ process'[y].at = process[y].at /\ process'[y].project = process[y].project
              /\ process'[y].known = process[y].known /\ process'[y].mine = process[y].mine
              /\ process'[y].rows = process[y].rows /\ process'[y].date = process[y].date
              /\ process[y].at = "commit" /\ process[y].project = process[x].project
                   => process'[y].passed
              /\ ~(process[y].at = "commit" /\ process[y].project = process[x].project)
                   => process'[y] = process[y]
<1> DEFINE p == process[x].project
           told(y, b) == [process[y] EXCEPT !.passed = b]
           next(y) == IF y = x THEN After(x)
                      ELSE IF process[y].at = "commit" /\ process[y].project = p
                      THEN told(y, TRUE) ELSE process[y]
<1>1. process \in [Processes -> ProcessRows] /\ ReadinessTyped
  BY DEF Orderly, ReadinessTyped
<1>2. process' = [y \in Processes |-> next(y)]
  BY DEF Skip
<1>3. ASSUME NEW y \in Processes, NEW b \in BOOLEAN
      PROVE  /\ told(y, b) \in ProcessRows
             /\ told(y, b).at = process[y].at /\ told(y, b).project = process[y].project
             /\ told(y, b).known = process[y].known /\ told(y, b).mine = process[y].mine
             /\ told(y, b).rows = process[y].rows /\ told(y, b).date = process[y].date
             /\ told(y, b).passed = b
  BY <1>1 DEF ProcessRows
<1>4. After(x) \in ProcessRows
  BY <1>1, GoesAfter
<1> HIDE DEF told
<1>5. ASSUME NEW y \in Processes
      PROVE  /\ told(y, TRUE) \in ProcessRows
             /\ told(y, TRUE).at = process[y].at /\ told(y, TRUE).project = process[y].project
             /\ told(y, TRUE).known = process[y].known /\ told(y, TRUE).mine = process[y].mine
             /\ told(y, TRUE).rows = process[y].rows /\ told(y, TRUE).date = process[y].date
             /\ told(y, TRUE).passed
  BY <1>3
<1> DEFINE to(y) == told(y, TRUE)
           n(y) == IF y = x THEN After(x)
                   ELSE IF process[y].at = "commit" /\ process[y].project = p
                   THEN to(y) ELSE process[y]
<1>6. \A y \in Processes :
             /\ to(y) \in ProcessRows
             /\ to(y).at = process[y].at /\ to(y).project = process[y].project
             /\ to(y).known = process[y].known /\ to(y).mine = process[y].mine
             /\ to(y).rows = process[y].rows /\ to(y).date = process[y].date
             /\ to(y).passed
  BY <1>5
<1>7. process' = [y \in Processes |-> n(y)]
  BY <1>2
<1> HIDE DEF to, next
<1>8. process' \in [Processes -> ProcessRows]
  BY <1>1, <1>4, <1>6, <1>7
<1>9. process'[x] = After(x)
  BY <1>7
<1>10. ASSUME NEW y \in Processes, y # x
       PROVE  /\ process'[y].at = process[y].at /\ process'[y].project = process[y].project
              /\ process'[y].known = process[y].known /\ process'[y].mine = process[y].mine
              /\ process'[y].rows = process[y].rows /\ process'[y].date = process[y].date
              /\ process[y].at = "commit" /\ process[y].project = p => process'[y].passed
              /\ ~(process[y].at = "commit" /\ process[y].project = p) => process'[y] = process[y]
  <2>1. CASE process[y].at = "commit" /\ process[y].project = p
    <3>1. process'[y] = to(y)
      BY <1>7, <1>10, <2>1
    <3> QED  BY <1>6, <2>1, <3>1
  <2>2. CASE ~(process[y].at = "commit" /\ process[y].project = p)
    <3>1. process'[y] = process[y]
      BY <1>7, <1>10, <2>2
    <3> QED  BY <2>2, <3>1
  <2> QED  BY <2>1, <2>2
<1> QED  BY <1>8, <1>9, <1>10

\* Nobody comes into disorder by an answer without a batch.
LEMMA SkipIsOrderly ==
  ASSUME Orderly, NEW x \in Processes, Skip(x)
  PROVE  Orderly'
<1>1. /\ process[x].at = "commit" /\ ~MustRetry(x) /\ CompleteEvents(x)
      /\ UNCHANGED <<rows, today, batches>>
  BY DEF Skip
<1>2. /\ outbox' \in [Events -> EventRows]
      /\ \A e \in Events :
           /\ outbox'[e].project = outbox[e].project
           /\ outbox'[e].status = "NONE" <=> outbox[e].status = "NONE"
      /\ Held(x)' = {}
      /\ \A y \in Processes : Held(y)' \subseteq Held(y)
  BY <1>1, AnswersItsOwn
<1>3. /\ process' \in [Processes -> ProcessRows]
      /\ process'[x] = After(x)
      /\ \A y \in Processes : y # x =>
           /\ process'[y].at = process[y].at /\ process'[y].project = process[y].project
           /\ process'[y].known = process[y].known /\ process'[y].mine = process[y].mine
  BY SkipTells
<1>4. /\ After(x).at \in {"idle", "begin"}
      /\ After(x).at # "idle" => After(x).project \in Projects
  BY GoesAfter DEF Orderly
<1>5. Projects' = Projects
  BY <1>1 DEF Projects
<1>6. ReadinessTyped'
  BY <1>1, <1>2, <1>3, <1>5 DEF Orderly, ReadinessTyped
<1>7. \A e \in Events : IF outbox'[e].status = "NONE" THEN outbox'[e].project = 0
                        ELSE outbox'[e].project \in Projects'
  BY <1>2, <1>5 DEF Orderly, Owned
<1>8. ASSUME NEW y \in Processes
      PROVE  /\ process'[y].at # "idle" => process'[y].project \in Projects'
             /\ process'[y].at = "idle" => Held(y)' = {}
             /\ \A e \in Held(y)' : outbox'[e].project = process'[y].project
             /\ process'[y].at = "commit" =>
                  /\ process'[y].known <= Len(batches'[process'[y].project])
                  /\ \A e \in process'[y].mine : outbox'[e].status # "NONE"
  <2>1. CASE y = x
    BY <1>2, <1>3, <1>4, <1>5, <2>1
  <2>2. CASE y # x
    <3>1. /\ process'[y].at = process[y].at /\ process'[y].project = process[y].project
          /\ process'[y].known = process[y].known /\ process'[y].mine = process[y].mine
      BY <1>3, <2>2
    <3>2. Held(y)' \subseteq Held(y) /\ Held(y) \subseteq Events /\ process[y].mine \subseteq Events
      BY <1>2 DEF Held, Orderly, ReadinessTyped, ProcessRows
    <3>3. /\ process[y].at # "idle" => process[y].project \in Projects
          /\ process[y].at = "idle" => Held(y) = {}
          /\ \A e \in Held(y) : outbox[e].project = process[y].project
          /\ process[y].at = "commit" =>
               /\ process[y].known <= Len(batches[process[y].project])
               /\ \A e \in process[y].mine : outbox[e].status # "NONE"
      BY DEF Orderly, Owned
    <3> QED  BY <1>1, <1>2, <1>5, <3>1, <3>2, <3>3
  <2> QED  BY <2>1, <2>2
<1>9. Owned'
  BY <1>7, <1>8 DEF Owned
<1> QED  BY <1>6, <1>9 DEF Orderly

\* Nothing new to tell is nothing new: or somebody lacks an event, or a batch
\* was written meanwhile.
LEMMA SkipKeeps ==
  ASSUME ReadinessInv, NEW x \in Processes, Skip(x)
  PROVE  ReadinessInv'
<1>1. Orderly
  BY DEF ReadinessInv, Orderly
<1>2. /\ process[x].at = "commit" /\ ~MustRetry(x) /\ CompleteEvents(x) /\ Compare(x)
      /\ UNCHANGED <<rows, today, batches>>
      /\ overtaken' = IF Overlapped(x) THEN overtaken \cup {process[x].project} ELSE overtaken
  BY DEF Skip
<1>3. PICK p \in Projects : p = process[x].project
  BY <1>1, <1>2, AnswersItsOwn
<1>4. /\ \A q \in Projects : q # p => Unanswered(q)' = Unanswered(q)
      /\ Unanswered(p)' = Unanswered(p) \ process[x].mine
  BY <1>1, <1>2, <1>3, AnswersItsOwn
<1>5. \A y \in Processes : y # x =>
        /\ process'[y].at = process[y].at /\ process'[y].project = process[y].project
        /\ process'[y].known = process[y].known /\ process'[y].mine = process[y].mine
        /\ process'[y].rows = process[y].rows /\ process'[y].date = process[y].date
        /\ process[y].at = "commit" /\ process[y].project = p => process'[y].passed
        /\ ~(process[y].at = "commit" /\ process[y].project = p) => process'[y] = process[y]
  BY <1>1, <1>3, SkipTells
<1>6. process'[x].at # "commit"
  <2>1. process'[x] = After(x)
    BY <1>1, SkipTells
  <2>2. After(x).at \in {"idle", "begin"}
    BY <1>1, GoesAfter DEF Orderly
  <2> QED  BY <2>1, <2>2
<1>7. Projects' = Projects
  BY <1>2 DEF Projects
<1>8. ASSUME NEW y \in Processes, process'[y].at = "commit"
      PROVE  /\ y # x /\ process[y].at = "commit" /\ process[y].project \in Projects
             /\ process'[y].project = process[y].project /\ process'[y].mine = process[y].mine
             /\ UpToDate(y)' <=> UpToDate(y)
             /\ Overlapped(y)' <=> Overlapped(y)
             /\ Compare(y)' <=> Compare(y)
  <2>1. y # x
    BY <1>6, <1>8
  <2>2. /\ process'[y].at = process[y].at /\ process'[y].project = process[y].project
        /\ process'[y].known = process[y].known /\ process'[y].mine = process[y].mine
        /\ process'[y].rows = process[y].rows /\ process'[y].date = process[y].date
    BY <1>5, <2>1
  <2>3. process[y].at = "commit" /\ process[y].project \in Projects
    BY <1>1, <1>8, <2>2 DEF Orderly, Owned
  <2>4. UpToDate(y)' <=> UpToDate(y)
    BY <1>2, <2>2 DEF UpToDate
  <2>5. Overlapped(y)' <=> Overlapped(y)
    BY <1>2, <2>2 DEF Overlapped
  <2>6. Compare(y)' <=> Compare(y)
    BY <1>2, <2>2 DEF Compare, SameAsLatest
  <2> QED  BY <2>1, <2>2, <2>3, <2>4, <2>5, <2>6
<1>9. Informed'
  <2>1. ASSUME NEW y \in Processes, process'[y].at = "commit", ~UpToDate(y)'
        PROVE  Warned(y)'
    <3>1. y # x /\ process[y].at = "commit" /\ process[y].project \in Projects
      BY <1>8, <2>1
    <3>2. CASE process[y].project = p
      <4>1. process'[y].passed
        BY <1>5, <3>1, <3>2
      <4> QED  BY <4>1 DEF Warned
    <3>3. CASE process[y].project # p
      <4>1. process'[y] = process[y] /\ ~UpToDate(y) /\ (Overlapped(y)' <=> Overlapped(y))
        BY <1>5, <1>8, <2>1, <3>1, <3>3
      <4>2. Warned(y)
        BY <3>1, <4>1, Zenon DEF ReadinessInv, Informed
      <4>3. Unanswered(process[y].project)' = Unanswered(process[y].project)
        <5>1. \A q \in Projects : q = process[y].project => Unanswered(q)' = Unanswered(q)
          BY <1>4, <3>3
        <5> QED  BY <3>1, <4>1, <5>1 DEF Unanswered
      <4>4. CASE Overlapped(y)
        BY <4>1, <4>4 DEF Warned
      <4>5. CASE process[y].passed
        BY <4>1, <4>5 DEF Warned
      <4>6. CASE \E e \in Unanswered(process[y].project) : e \notin process[y].mine
        BY <4>1, <4>3, <4>6 DEF Warned
      <4> QED  BY <4>2, <4>4, <4>5, <4>6 DEF Warned
    <3> QED  BY <3>2, <3>3
  <2> QED  BY <2>1, Zenon DEF Informed
<1>10. \A q \in Projects : \A y \in Deceived(q)' :
          y # x /\ y \in Deceived(q) /\ process'[y].mine = process[y].mine
  BY <1>8 DEF Deceived
<1>11. p \notin overtaken' => ~Overlapped(x) /\ p \notin overtaken
  BY <1>2, <1>3
<1>12. p \notin overtaken' /\ ~UpToDate(x) =>
         \E e \in Unanswered(p)' : \A y \in Deceived(p) : e \notin process[y].mine
  <2>1. SUFFICES ASSUME p \notin overtaken', ~UpToDate(x)
                 PROVE  \E e \in Unanswered(p)' : \A y \in Deceived(p) : e \notin process[y].mine
    OBVIOUS
  <2>2. x \in Deceived(p)
    BY <1>2, <1>3, <1>11, <2>1 DEF Deceived
  <2>3. PICK e \in Unanswered(p) : \A y \in Deceived(p) : e \notin process[y].mine
    BY <1>11, <2>1, <2>2 DEF ReadinessInv, DeceivedLackOne
  <2> QED  BY <1>4, <2>2, <2>3
<1>13. DeceivedLackOne'
  <2>1. SUFFICES ASSUME NEW q \in Projects, Deceived(q)' # {}, q \notin overtaken'
                 PROVE  \E e \in Unanswered(q)' : \A y \in Deceived(q)' : e \notin process'[y].mine
    BY <1>7 DEF DeceivedLackOne
  <2>2. PICK z \in Deceived(q) : TRUE
    BY <1>10, <2>1
  <2>3. CASE q # p
    <3>1. q \notin overtaken
      BY <1>2, <2>1
    <3>2. PICK e \in Unanswered(q) : \A y \in Deceived(q) : e \notin process[y].mine
      BY <2>2, <3>1 DEF ReadinessInv, DeceivedLackOne
    <3> QED  BY <1>4, <1>10, <2>3, <3>2
  <2>4. CASE q = p
    <3>1. z \in Processes /\ ~Overlapped(z) /\ Compare(z) /\ ~UpToDate(z) /\ process[z].project = p
      BY <2>2, <2>4 DEF Deceived
    <3>2. ~Overlapped(x) /\ Compare(x) /\ process[x].project = p
      BY <1>2, <1>3, <1>11, <2>1, <2>4
    <3>3. process[z].rows.source = process[x].rows.source
      BY <3>1, <3>2 DEF Overlapped, Compare, SameAsLatest
    <3>4. ~UpToDate(x)
      BY <3>1, <3>2, <3>3 DEF UpToDate
    <3>5. PICK e \in Unanswered(p)' : \A y \in Deceived(p) : e \notin process[y].mine
      BY <1>12, <2>1, <2>4, <3>4
    <3>6. \A y \in Deceived(p)' : y \in Deceived(p) /\ process'[y].mine = process[y].mine
      BY <1>10
    <3> QED  BY <2>4, <3>5, <3>6
  <2> QED  BY <2>3, <2>4
<1>14. AnsweredIsTold'
  <2>1. SUFFICES ASSUME NEW q \in Projects, Unanswered(q)' = {}, q \notin overtaken'
                 PROVE  LatestIsTold(q)'
    BY <1>7 DEF AnsweredIsTold
  <2>2. LatestIsTold(q)' <=> LatestIsTold(q)
    BY <1>2 DEF LatestIsTold, Latest
  <2>3. CASE q # p
    <3>1. Unanswered(q) = {} /\ q \notin overtaken
      BY <1>2, <1>4, <2>1, <2>3
    <3> QED  BY <2>2, <3>1 DEF ReadinessInv, AnsweredIsTold
  <2>4. CASE q = p
    <3>1. UpToDate(x)
      BY <1>12, <2>1, <2>4
    <3>2. ~Overlapped(x)
      BY <1>11, <2>1, <2>4
    <3>3. Latest(p).source = process[x].rows.source
      BY <1>2, <1>3, <3>2 DEF Latest, Overlapped, Compare, SameAsLatest
    <3>4. Told(Latest(p).source) = Told(rows[p].source)
      BY <1>3, <3>1, <3>3 DEF UpToDate
    <3> QED  BY <2>2, <2>4, <3>4 DEF LatestIsTold
  <2> QED  BY <2>3, <2>4
<1>15. Orderly'
  BY <1>1, SkipIsOrderly
<1> QED  BY <1>9, <1>13, <1>14, <1>15 DEF ReadinessInv, Orderly

\* The sequence of batches grows by the new one.
LEMMA WriteBatchAppends ==
  ASSUME Orderly, NEW x \in Processes, WriteBatch(x),
         NEW p \in Projects, p = process[x].project
  PROVE  /\ DOMAIN batches' = Projects
         /\ \A q \in Projects : \E S : batches'[q] \in Seq(S)
         /\ \A q \in Projects : q # p => batches'[q] = batches[q]
         /\ Len(batches[p]) \in Nat /\ Len(batches'[p]) = Len(batches[p]) + 1
         /\ batches'[p][Len(batches'[p])].source = process[x].rows.source
<1> DEFINE new == Batch(process[x].rows.source, process[x].date)
<1>1. DOMAIN batches = Projects /\ \A q \in Projects : \E S : batches[q] \in Seq(S)
  BY DEF Orderly, ReadinessTyped
<1>2. batches' = [batches EXCEPT ![p] = Append(batches[p], new)]
  BY DEF WriteBatch
<1>3. new.source = process[x].rows.source
  BY DEF Batch
<1> HIDE DEF new
<1>4. DOMAIN batches' = Projects /\ batches'[p] = Append(batches[p], new)
      /\ \A q \in Projects : q # p => batches'[q] = batches[q]
  BY <1>1, <1>2
<1>5. PICK S : batches[p] \in Seq(S)
  BY <1>1
<1>6. /\ Append(batches[p], new) \in Seq(S \cup {new})
      /\ Len(batches[p]) \in Nat
      /\ Len(Append(batches[p], new)) = Len(batches[p]) + 1
      /\ Append(batches[p], new)[Len(batches[p]) + 1] = new
  <2> DEFINE T == S \cup {new}
  <2>1. batches[p] \in Seq(T) /\ new \in T
    BY <1>5
  <2> HIDE DEF T
  <2>2. /\ Append(batches[p], new) \in Seq(T)
        /\ Len(batches[p]) \in Nat
        /\ Len(Append(batches[p], new)) = Len(batches[p]) + 1
        /\ Append(batches[p], new)[Len(batches[p]) + 1] = new
    BY <2>1, AppendProperties
  <2> QED  BY <2>2 DEF T
<1>7. ASSUME NEW q \in Projects PROVE \E U : batches'[q] \in Seq(U)
  BY <1>1, <1>4, <1>6
<1> QED  BY <1>3, <1>4, <1>6, <1>7

\* Nor by a batch and its answer.
LEMMA WriteBatchIsOrderly ==
  ASSUME Orderly, NEW x \in Processes, WriteBatch(x)
  PROVE  Orderly'
<1>1. /\ process[x].at = "commit" /\ ~MustRetry(x) /\ CompleteEvents(x)
      /\ UNCHANGED <<rows, today>> /\ process' = [process EXCEPT ![x] = After(x)]
  BY DEF WriteBatch
<1>2. /\ outbox' \in [Events -> EventRows]
      /\ \A e \in Events :
           /\ outbox'[e].project = outbox[e].project
           /\ outbox'[e].status = "NONE" <=> outbox[e].status = "NONE"
      /\ Held(x)' = {}
      /\ \A y \in Processes : Held(y)' \subseteq Held(y)
  BY <1>1, AnswersItsOwn
<1>3. PICK p \in Projects : p = process[x].project
  BY <1>1, AnswersItsOwn
<1>4. /\ DOMAIN batches' = Projects
      /\ \A q \in Projects : \E S : batches'[q] \in Seq(S)
      /\ \A q \in Projects : q # p => batches'[q] = batches[q]
      /\ Len(batches[p]) \in Nat /\ Len(batches'[p]) = Len(batches[p]) + 1
  BY <1>3, WriteBatchAppends
<1>5. /\ After(x) \in ProcessRows /\ After(x).at \in {"idle", "begin"}
      /\ After(x).at # "idle" => After(x).project \in Projects
  BY GoesAfter DEF Orderly
<1>6. process \in [Processes -> ProcessRows]
  BY DEF Orderly, ReadinessTyped
<1> DEFINE r == After(x)
<1> HIDE DEF r
<1>7. /\ process' \in [Processes -> ProcessRows] /\ process'[x] = r
      /\ \A y \in Processes : y # x => process'[y] = process[y]
  <2>1. r \in ProcessRows /\ process' = [process EXCEPT ![x] = r]
    BY <1>1, <1>5 DEF r
  <2> QED  BY <1>6, <2>1
<1>8. Projects' = Projects
  BY <1>1 DEF Projects
<1>9. ReadinessTyped'
  BY <1>1, <1>2, <1>4, <1>7, <1>8 DEF Orderly, ReadinessTyped
<1>10. \A e \in Events : IF outbox'[e].status = "NONE" THEN outbox'[e].project = 0
                         ELSE outbox'[e].project \in Projects'
  BY <1>2, <1>8 DEF Orderly, Owned
<1>11. ASSUME NEW y \in Processes
       PROVE  /\ process'[y].at # "idle" => process'[y].project \in Projects'
              /\ process'[y].at = "idle" => Held(y)' = {}
              /\ \A e \in Held(y)' : outbox'[e].project = process'[y].project
              /\ process'[y].at = "commit" =>
                   /\ process'[y].known <= Len(batches'[process'[y].project])
                   /\ \A e \in process'[y].mine : outbox'[e].status # "NONE"
  <2>1. CASE y = x
    BY <1>2, <1>5, <1>7, <1>8, <2>1 DEF r
  <2>2. CASE y # x
    <3>1. process'[y] = process[y] /\ process[y].known \in Nat
      BY <1>6, <1>7, <2>2 DEF ProcessRows
    <3>2. Held(y)' \subseteq Held(y) /\ Held(y) \subseteq Events /\ process[y].mine \subseteq Events
      BY <1>2, <1>6 DEF Held, ProcessRows
    <3>3. /\ process[y].at # "idle" => process[y].project \in Projects
          /\ process[y].at = "idle" => Held(y) = {}
          /\ \A e \in Held(y) : outbox[e].project = process[y].project
          /\ process[y].at = "commit" =>
               /\ process[y].known <= Len(batches[process[y].project])
               /\ \A e \in process[y].mine : outbox[e].status # "NONE"
      BY DEF Orderly, Owned
    <3>4. process[y].at = "commit" => process[y].known <= Len(batches'[process[y].project])
      <4>1. \A q \in Projects : process[y].known <= Len(batches[q]) =>
                                  process[y].known <= Len(batches'[q])
        BY <1>4, <3>1
      <4> QED  BY <3>3, <4>1
    <3> QED  BY <1>2, <1>8, <3>1, <3>2, <3>3, <3>4
  <2> QED  BY <2>1, <2>2
<1>12. Owned'
  BY <1>10, <1>11 DEF Owned
<1> QED  BY <1>9, <1>12 DEF Orderly

\* What a batch tells is true, or its writer was warned.
LEMMA WriteBatchKeeps ==
  ASSUME ReadinessInv, NEW x \in Processes, WriteBatch(x)
  PROVE  ReadinessInv'
<1>1. Orderly
  BY DEF ReadinessInv, Orderly
<1>2. /\ process[x].at = "commit" /\ ~MustRetry(x) /\ CompleteEvents(x) /\ ~Compare(x)
      /\ UNCHANGED <<rows, today>> /\ process' = [process EXCEPT ![x] = After(x)]
      /\ overtaken' = IF process[x].passed THEN overtaken \cup {process[x].project}
                      ELSE overtaken \ {process[x].project}
  BY DEF WriteBatch
<1>3. PICK p \in Projects : p = process[x].project
  BY <1>1, <1>2, AnswersItsOwn
<1>4. /\ \A q \in Projects : q # p => Unanswered(q)' = Unanswered(q)
      /\ Unanswered(p)' = Unanswered(p) \ process[x].mine
  BY <1>1, <1>2, <1>3, AnswersItsOwn
<1>5. /\ \A q \in Projects : q # p => batches'[q] = batches[q]
      /\ Len(batches[p]) \in Nat /\ Len(batches'[p]) = Len(batches[p]) + 1
      /\ batches'[p][Len(batches'[p])].source = process[x].rows.source
  BY <1>1, <1>3, WriteBatchAppends
<1>6. /\ \A y \in Processes : y # x => process'[y] = process[y]
      /\ process'[x].at # "commit"
  <2>1. After(x).at \in {"idle", "begin"}
    BY <1>1, GoesAfter DEF Orderly
  <2>2. x \in DOMAIN process
    BY <1>1 DEF Orderly, ReadinessTyped
  <2> QED  BY <1>2, <2>1, <2>2
<1>7. Projects' = Projects
  BY <1>2 DEF Projects
<1>8. ASSUME NEW y \in Processes, process'[y].at = "commit"
      PROVE  /\ y # x /\ process'[y] = process[y] /\ process[y].project \in Projects
             /\ UpToDate(y)' <=> UpToDate(y)
             /\ process[y].project = p => Overlapped(y)'
             /\ process[y].project # p => /\ Overlapped(y)' <=> Overlapped(y)
                                          /\ Compare(y)' <=> Compare(y)
  <2>1. y # x /\ process'[y] = process[y] /\ process[y].at = "commit"
    BY <1>6, <1>8
  <2>2. /\ process[y].project \in Projects /\ process[y].known \in Nat
        /\ process[y].known <= Len(batches[process[y].project])
    BY <1>1, <2>1 DEF Orderly, Owned, ReadinessTyped, ProcessRows
  <2>3. UpToDate(y)' <=> UpToDate(y)
    BY <1>2, <2>1 DEF UpToDate
  <2>4. process[y].project = p => Overlapped(y)'
    BY <1>5, <2>1, <2>2 DEF Overlapped
  <2>5. process[y].project # p => (Overlapped(y)' <=> Overlapped(y))
    BY <1>5, <2>1, <2>2 DEF Overlapped
  <2>6. process[y].project # p => (Compare(y)' <=> Compare(y))
    BY <1>5, <2>1, <2>2 DEF Compare, SameAsLatest
  <2> QED  BY <2>1, <2>2, <2>3, <2>4, <2>5, <2>6
<1>9. Informed'
  <2>1. ASSUME NEW y \in Processes, process'[y].at = "commit", ~UpToDate(y)'
        PROVE  Warned(y)'
    <3>1. process'[y] = process[y] /\ process[y].project \in Projects /\ ~UpToDate(y)
      BY <1>8, <2>1
    <3>2. CASE process[y].project = p
      BY <1>8, <2>1, <3>2 DEF Warned
    <3>3. CASE process[y].project # p
      <4>1. Overlapped(y)' <=> Overlapped(y)
        BY <1>8, <2>1, <3>3
      <4>2. Warned(y)
        BY <2>1, <3>1, Zenon DEF ReadinessInv, Informed
      <4>3. Unanswered(process[y].project)' = Unanswered(process[y].project)
        <5>1. \A q \in Projects : q = process[y].project => Unanswered(q)' = Unanswered(q)
          BY <1>4, <3>3
        <5> QED  BY <3>1, <5>1 DEF Unanswered
      <4>4. CASE Overlapped(y)
        BY <4>1, <4>4 DEF Warned
      <4>5. CASE process[y].passed
        BY <3>1, <4>5 DEF Warned
      <4>6. CASE \E e \in Unanswered(process[y].project) : e \notin process[y].mine
        BY <3>1, <4>3, <4>6 DEF Warned
      <4> QED  BY <4>2, <4>4, <4>5, <4>6 DEF Warned
    <3> QED  BY <3>2, <3>3
  <2> QED  BY <2>1, Zenon DEF Informed
<1>10. DeceivedLackOne'
  <2>1. SUFFICES ASSUME NEW q \in Projects, Deceived(q)' # {}, q \notin overtaken'
                 PROVE  \E e \in Unanswered(q)' : \A y \in Deceived(q)' : e \notin process'[y].mine
    BY <1>7 DEF DeceivedLackOne
  <2>2. PICK z \in Deceived(q)' : TRUE
    BY <2>1
  <2>3. CASE q = p
    <3>1. z \in Processes /\ process'[z].at = "commit" /\ process'[z].project = p /\ ~Overlapped(z)'
      BY <2>2, <2>3 DEF Deceived
    <3> QED  BY <1>8, <3>1
  <2>4. CASE q # p
    <3>1. \A y \in Deceived(q)' : y \in Deceived(q) /\ process'[y] = process[y]
      BY <1>8, <2>4 DEF Deceived
    <3>2. q \notin overtaken
      BY <1>2, <1>3, <2>1, <2>4
    <3>3. PICK e \in Unanswered(q) : \A y \in Deceived(q) : e \notin process[y].mine
      BY <2>2, <3>1, <3>2 DEF ReadinessInv, DeceivedLackOne
    <3> QED  BY <1>4, <2>4, <3>1, <3>3
  <2> QED  BY <2>3, <2>4
<1>11. AnsweredIsTold'
  <2>1. SUFFICES ASSUME NEW q \in Projects, Unanswered(q)' = {}, q \notin overtaken'
                 PROVE  LatestIsTold(q)'
    BY <1>7 DEF AnsweredIsTold
  <2>2. CASE q = p
    <3>1. ~Overlapped(x)
      BY <1>2 DEF MustRetry
    <3>2. ~process[x].passed
      BY <1>2, <1>3, <2>1, <2>2
    <3>3. ~\E e \in Unanswered(process[x].project) : e \notin process[x].mine
      BY <1>3, <1>4, <2>1, <2>2
    <3>4. UpToDate(x)
      BY <1>2, <3>1, <3>2, <3>3, Zenon DEF ReadinessInv, Informed, Warned
    <3>5. Told(batches'[p][Len(batches'[p])].source) = Told(rows'[p].source)
      BY <1>2, <1>3, <1>5, <3>4 DEF UpToDate
    <3> QED  BY <2>2, <3>5 DEF LatestIsTold, Latest
  <2>3. CASE q # p
    <3>1. Unanswered(q) = {} /\ q \notin overtaken
      BY <1>2, <1>3, <1>4, <2>1, <2>3
    <3>2. LatestIsTold(q)
      BY <3>1 DEF ReadinessInv, AnsweredIsTold
    <3> QED  BY <1>2, <1>5, <2>3, <3>2 DEF LatestIsTold, Latest
  <2> QED  BY <2>2, <2>3
<1>12. Orderly'
  BY <1>1, WriteBatchIsOrderly
<1> QED  BY <1>9, <1>10, <1>11, <1>12 DEF ReadinessInv, Orderly

\* Nothing has happened yet: what there are of batches tell of the rows.
LEMMA ReadinessInvInit ==
  ASSUME ReadinessInit
  PROVE  ReadinessInv
<1>1. PICK first \in Initial : rows = [p \in DOMAIN first |-> Read(first[p])]
  BY DEF ReadinessInit
<1>2. Len(first) \in Nat /\ DOMAIN first = 1..Len(first)
  BY ReadinessAssumption
<1>3. rows \in [1..Len(first) -> ReadRows]
  <2>1. \A p \in 1..Len(first) : first[p] \in RowSets
    BY <1>2 DEF RowSets, Range
  <2> DEFINE n == Len(first)
             read(p) == Read(first[p])
  <2>2. \A p \in 1..n : read(p) \in ReadRows
    BY <2>1 DEF ReadRows
  <2>3. rows = [p \in 1..n |-> read(p)]
    BY <1>1, <1>2
  <2> HIDE DEF n, read
  <2>4. rows \in [1..n -> ReadRows]
    BY <2>2, <2>3
  <2> QED  BY <2>4 DEF n
<1>4. /\ \A e \in Events : outbox[e] = NoEvent
      /\ outbox \in [Events -> EventRows]
  BY NoEventIsRow DEF ReadinessInit
<1>5. /\ \A x \in Processes : process[x] = Resting
      /\ process \in [Processes -> ProcessRows]
  BY RestingIsRow DEF ReadinessInit
<1>6. \A e \in Events : outbox[e].status = "NONE" /\ outbox[e].project = 0
  BY <1>4 DEF NoEvent
<1>7. \A x \in Processes : process[x].at = "idle"
  BY <1>5, RestingIsRow
<1>8. \A x : Held(x) = {}
  BY <1>6 DEF Held
<1> DEFINE firstBatch(p) == Batch(rows[p].source, today)
           known(p) == rows[p].tables \in Changing /\ ~rows[p].refused
<1>9. batches = [p \in Projects |-> IF known(p) THEN <<firstBatch(p)>> ELSE <<>>]
  BY DEF ReadinessInit
<1>10. \A p : firstBatch(p).source = rows[p].source
  BY DEF Batch
<1> HIDE DEF firstBatch, known
<1>11. ASSUME NEW p \in Projects
       PROVE  /\ \E S : batches[p] \in Seq(S)
              /\ batches[p] # <<>> => batches[p] = <<firstBatch(p)>>
  <2>1. batches[p] = <<firstBatch(p)>> \/ batches[p] = <<>>
    BY <1>9
  <2>2. <<firstBatch(p)>> \in Seq({firstBatch(p)}) /\ <<>> \in Seq({})
    OBVIOUS
  <2> QED  BY <2>1, <2>2
<1>12. DOMAIN batches = Projects
  BY <1>9
<1>13. ReadinessTyped
  BY <1>2, <1>3, <1>4, <1>5, <1>11, <1>12 DEF ReadinessTyped, ReadinessInit
<1>14. Owned
  BY <1>6, <1>7, <1>8 DEF Owned
<1>15. Informed
  BY <1>7, Zenon DEF Informed
<1>16. DeceivedLackOne
  <2>1. \A p \in Projects : Deceived(p) = {}
    BY <1>7 DEF Deceived
  <2> QED  BY <2>1 DEF DeceivedLackOne
<1>17. AnsweredIsTold
  <2>1. \A p \in Projects : batches[p] # <<>> => Latest(p).source = rows[p].source
    BY <1>10, <1>11 DEF Latest
  <2> QED  BY <2>1 DEF AnsweredIsTold, LatestIsTold
<1> QED  BY <1>13, <1>14, <1>15, <1>16, <1>17 DEF ReadinessInv

\* A quiet step that keeps the records in order keeps the invariant.
LEMMA QuietIsEnough ==
  ASSUME ReadinessInv, Orderly', Quiet
  PROVE  ReadinessInv'
BY QuietKeeps DEF ReadinessInv, Orderly

\* A step of a process.
LEMMA RecalculateKeeps ==
  ASSUME ReadinessInv, NEW x \in Processes, Recalculate(x)
  PROVE  ReadinessInv'
<1>1. Orderly
  BY DEF ReadinessInv, Orderly
<1>2. CASE Begin(x)
  BY <1>1, <1>2, BeginKeeps, QuietIsEnough
<1>3. CASE Skip(x)
  BY <1>3, SkipKeeps
<1>4. CASE WriteBatch(x)
  BY <1>4, WriteBatchKeeps
<1>5. CASE Conflict(x)
  BY <1>1, <1>5, ConflictKeeps, QuietIsEnough
<1>6. CASE Throw(x)
  BY <1>1, <1>6, ThrowKeeps, QuietIsEnough
<1> QED  BY <1>2, <1>3, <1>4, <1>5, <1>6 DEF Recalculate

\* Every step keeps the invariant.
LEMMA ReadinessInvNext ==
  ASSUME ReadinessInv, [ReadinessNext]_readinessVars
  PROVE  ReadinessInv'
<1>1. Orderly /\ Sweep \in Processes /\ Loops \subseteq Processes
  BY DEF ReadinessInv, Orderly, Processes
<1>2. CASE Others
  <2>1. ASSUME NEW p \in Projects, NEW tables \in Changing, ChangeRows(p, tables)
        PROVE  ReadinessInv'
    BY <2>1, ChangeRowsKeeps
  <2>2. ASSUME NEW p \in Projects, NEW tables \in Changing, Rename(p, tables)
        PROVE  ReadinessInv'
    BY <1>1, <2>2, RenameKeeps, QuietIsEnough
  <2>3. CASE NextDay
    BY <1>1, <2>3, NextDayKeeps, QuietIsEnough
  <2> QED  BY <1>2, <2>1, <2>2, <2>3 DEF Others
<1>3. CASE Faults
  <2>1. ASSUME NEW w \in Loops, Oversleep(w) PROVE ReadinessInv'
    BY <1>1, <2>1, OversleepKeeps, QuietIsEnough
  <2>2. ASSUME NEW w \in Loops, Die(w) PROVE ReadinessInv'
    BY <1>1, <2>2, DieKeeps, QuietIsEnough
  <2>3. ASSUME NEW x \in Processes, StatementFails(x) PROVE ReadinessInv'
    BY <1>1, <2>3, StatementFailsKeeps, QuietIsEnough
  <2> QED  BY <1>3, <2>1, <2>2, <2>3 DEF Faults
<1>4. CASE SweepStep
  <2>1. CASE StartSweep
    BY <1>1, <2>1, StartSweepKeeps, QuietIsEnough
  <2>2. CASE Recalculate(Sweep)
    BY <1>1, <2>2, RecalculateKeeps
  <2> QED  BY <1>4, <2>1, <2>2 DEF SweepStep
<1>5. ASSUME NEW w \in Loops, LoopStep(w) PROVE ReadinessInv'
  <2>1. CASE Claim(w)
    BY <1>1, <2>1, ClaimKeeps, QuietIsEnough
  <2>2. CASE Recalculate(w)
    BY <1>1, <2>2, RecalculateKeeps
  <2>3. CASE Fail(w)
    BY <1>1, <2>3, FailKeeps, QuietIsEnough
  <2> QED  BY <1>5, <2>1, <2>2, <2>3 DEF LoopStep
<1>6. CASE UNCHANGED readinessVars
  <2>1. /\ UNCHANGED <<rows, today, outbox, batches, process, overtaken>>
        /\ \A x : Held(x)' = Held(x)
        /\ Projects' = Projects
    BY <1>6 DEF readinessVars, Held, Projects
  <2>2. ReadinessTyped'
    BY <1>1, <2>1 DEF Orderly, ReadinessTyped
  <2>3. Owned'
    BY <1>1, <2>1 DEF Orderly, Owned
  <2>4. Quiet
    BY <2>1 DEF Quiet
  <2> QED  BY <2>2, <2>3, <2>4, QuietIsEnough DEF Orderly
<1> QED  BY <1>2, <1>3, <1>4, <1>5, <1>6 DEF ReadinessNext

\* What the readiness worker keeps true at every step.
THEOREM ReadinessInvariant == ReadinessSpec => []ReadinessInv
<1>1. ReadinessInit => ReadinessInv
  BY ReadinessInvInit
<1>2. ReadinessInv /\ [ReadinessNext]_readinessVars => ReadinessInv'
  BY ReadinessInvNext
<1> QED  BY <1>1, <1>2, PTL DEF ReadinessSpec

\* However many loops there are, whatever they are at when rows change and
\* however they fail: once all events of a project are processed, its latest
\* batch tells of all that was announced, unless a recalculation that found
\* nothing new overlapped one that did.
THEOREM ReadinessIsKnown == ReadinessSpec => []ProcessedMeansKnown
<1>1. ReadinessInv => ProcessedMeansKnown
  <2>1. SUFFICES ASSUME ReadinessInv, NEW p \in Projects, batches[p] # <<>>, p \notin overtaken,
                        \A e \in Events : outbox[e].project = p => outbox[e].status = "PROCESSED"
                 PROVE  /\ Lines(Latest(p).source) = Lines(rows[p].source)
                        /\ Latest(p).source.projectNcrs = rows[p].source.projectNcrs
    BY DEF ProcessedMeansKnown
  <2>2. Unanswered(p) = {}
    BY <2>1 DEF Unanswered
  <2>3. Told(Latest(p).source) = Told(rows[p].source)
    BY <2>1, <2>2 DEF ReadinessInv, AnsweredIsTold, LatestIsTold
  <2> QED  BY <2>3 DEF Told
<1> QED  BY <1>1, ReadinessInvariant, PTL

-----------------------------------------------------------------------------
(***************************************************************************)
(* Good news: what the calculator makes of the rows of a project.          *)
(***************************************************************************)
\* Needs that lie one behind the other share out a range, and no more of it
\* than there is.
LEMMA DisjointShares ==
  ASSUME NEW own, NEW N, IsFiniteSet(N),
         \A n \in N : own[n].from \in Int /\ own[n].to \in Int /\ own[n].from <= own[n].to,
         \A m, n \in N : m # n => own[m].to <= own[n].from \/ own[n].to <= own[m].from,
         NEW from \in Int, NEW to \in Int, from <= to
  PROVE  SumFunctionOnSet([n \in N |-> Share(own[n], from, to)], N) <= to - from
<1> DEFINE share(t) == [n \in N |-> Share(own[n], from, t)]
           Fits(T, t) == SumFunctionOnSet(share(t), T) <= (IF from <= t THEN t - from ELSE 0)
           B == {T \in SUBSET N : \E t \in Int : ~Fits(T, t)}
<1>1. SUFFICES ASSUME B # {} PROVE FALSE
  <2>1. B = {} => Fits(N, to)
    <3> HIDE DEF Fits
    <3> QED  OBVIOUS
  <2> QED  BY <2>1
<1>2. PICK T \in B : \A U \in SUBSET T : U # T => U \notin B
  <2> HIDE DEF B
  <2>1. B \subseteq SUBSET N
    BY DEF B
  <2> QED  BY <1>1, <2>1, SmallestSubset
<1>3. T \subseteq N /\ IsFiniteSet(T)
  BY FS_Subset
<1>4. PICK t \in Int : ~Fits(T, t)
  <2> HIDE DEF Fits
  <2> QED  BY <1>2
<1>5. \A U \in SUBSET T : U # T => \A u \in Int : Fits(U, u)
  <2> HIDE DEF Fits
  <2> QED  BY <1>2
<1>6. \A u \in Int, n \in N : share(u)[n] = Share(own[n], from, u) /\ share(u)[n] \in Int
  BY DEF Share
<1>7. \A U, u : Fits(U, u) <=> SumFunctionOnSet(share(u), U) <= (IF from <= u THEN u - from ELSE 0)
  OBVIOUS
<1> HIDE DEF share, Fits, B
<1>8. T # {}
  <2>1. SUFFICES ASSUME T = {} PROVE FALSE
    OBVIOUS
  <2>2. SumFunctionOnSet(share(t), {}) = 0
    BY SumOfNone
  <2> QED  BY <1>4, <1>7, <2>1, <2>2
<1> DEFINE end == [n \in N |-> own[n].to]
<1>9. PICK z \in T : \A n \in T : own[n].to <= own[z].to
  <2>1. \A n \in T : end[n] = own[n].to /\ end[n] \in Int
    BY <1>3
  <2> HIDE DEF end
  <2>2. PICK z \in T : \A n \in T : end[n] <= end[z]
    BY <1>3, <1>8, <2>1, OneIsGreatest
  <2> QED  BY <2>1, <2>2
<1> DEFINE V == T \ {z}
           u == IF own[z].from <= t THEN own[z].from ELSE t
<1>10. /\ own[z].from \in Int /\ own[z].to \in Int /\ own[z].from <= own[z].to
       /\ u \in Int /\ z \in N
  BY <1>3, <1>9
<1>11. SumFunctionOnSet(share(t), T) = share(t)[z] + SumFunctionOnSet(share(t), V)
  <2>1. \A n \in T : share(t)[n] \in Int
    BY <1>3, <1>6
  <2> QED  BY <1>3, <1>9, <2>1, SumWithout
<1>12. SumFunctionOnSet(share(t), V) = SumFunctionOnSet(share(u), V)
  <2>1. IsFiniteSet(V) /\ V \subseteq N
    BY <1>3, FS_Subset
  <2>2. ASSUME NEW n \in V PROVE share(t)[n] = share(u)[n]
    <3>1. /\ n \in N /\ own[n].from \in Int /\ own[n].to \in Int /\ own[n].from <= own[n].to
          /\ own[n].to <= own[z].to
          /\ own[n].to <= own[z].from \/ own[z].to <= own[n].from
      BY <1>3, <1>9, <1>10, <2>2
    <3>2. Share(own[n], from, t) = Share(own[n], from, u)
      BY <1>10, <3>1 DEF Share
    <3> QED  BY <1>6, <1>10, <3>1, <3>2
  <2> HIDE DEF V, u
  <2> QED  BY <1>6, <1>10, <2>1, <2>2, SumSame
<1>13. Fits(V, u)
  BY <1>5, <1>9, <1>10
<1>14. share(t)[z] = Share(own[z], from, t)
  BY <1>6, <1>10
<1> DEFINE rest == SumFunctionOnSet(share(u), V)
<1>15. rest \in Int
  <2>1. IsFiniteSet(V) /\ \A n \in V : share(u)[n] \in Int
    <3> HIDE DEF u
    <3> QED  BY <1>3, <1>6, <1>10, FS_Subset
  <2> QED  BY <2>1, SumType
<1>16. rest <= (IF from <= u THEN u - from ELSE 0)
  BY <1>7, <1>13
<1>17. ~(Share(own[z], from, t) + rest <= (IF from <= t THEN t - from ELSE 0))
  BY <1>4, <1>7, <1>11, <1>12, <1>14
<1> HIDE DEF rest
<1> QED  BY <1>10, <1>15, <1>16, <1>17 DEF Share

\* The range of a supply line's quantity that is a need's.
OwnRange(line, n) ==
  [from |-> EntitledBefore(line, n), to |-> EntitledBefore(line, n) + Entitled(line, n)]

\* The certified units of a lot that a need gets.
CertifiedShare(line, k, n) ==
  Share(OwnRange(line, n), LotRange(line, k).start, LotRange(line, k).certified)

Positive(line) == \A r \in DOMAIN line.allocations : line.allocations[r].quantity > 0

\* What a need is entitled to of a line is the sum over its rows.
LEMMA EntitlementTyped ==
  ASSUME NEW line, LineTyped(line), Positive(line)
  PROVE  /\ IsFiniteSet(NeedsOf(line)) /\ NeedsOf(line) \subseteq Nat
         /\ \A n : Entitled(line, n) \in Nat /\ EntitledBefore(line, n) \in Nat
         /\ \A n \in NeedsOf(line) : Due(line, n) \in Nat
<1>1. IsFiniteSet(NeedsOf(line)) /\ NeedsOf(line) \subseteq Nat
  <2> DEFINE S == DOMAIN line.allocations
             need(r) == line.allocations[r].need
  <2>1. IsFiniteSet(S) /\ NeedsOf(line) = {need(r) : r \in S} /\ \A r \in S : need(r) \in Nat
    BY DEF LineTyped, NeedsOf
  <2> HIDE DEF S, need
  <2> DEFINE f == [r \in S |-> need(r)]
  <2>2. {f[r] : r \in S} = {need(r) : r \in S}
    OBVIOUS
  <2> HIDE DEF f
  <2>3. IsFiniteSet({f[r] : r \in S})
    BY <2>1, FiniteImage
  <2> QED  BY <2>1, <2>2, <2>3
<1>2. ASSUME NEW n PROVE Entitled(line, n) \in Nat
  <2> DEFINE R == RowsOf(line, n)
             f == [r \in R |-> line.allocations[r].quantity]
  <2>1. R \subseteq DOMAIN line.allocations /\ IsFiniteSet(R)
    BY FS_Subset DEF LineTyped, RowsOf
  <2>2. \A r \in R : f[r] \in Nat
    BY <2>1 DEF LineTyped, Positive
  <2>3. Entitled(line, n) = SumFunctionOnSet(f, R)
    BY DEF Entitled, SumOver
  <2> HIDE DEF f, R
  <2> QED  BY <2>1, <2>2, <2>3, SumOfNat
<1>3. ASSUME NEW n PROVE EntitledBefore(line, n) \in Nat
  <2> DEFINE M == {m \in NeedsOf(line) : \/ Due(line, m) < Due(line, n)
                                         \/ Due(line, m) = Due(line, n) /\ m < n}
             f == [m \in M |-> Entitled(line, m)]
  <2>1. IsFiniteSet(M)
    BY <1>1, FS_Subset
  <2>2. \A m \in M : f[m] \in Nat
    BY <1>2
  <2>3. EntitledBefore(line, n) = SumFunctionOnSet(f, M)
    BY DEF EntitledBefore, SumOver
  <2> HIDE DEF f, M
  <2> QED  BY <2>1, <2>2, <2>3, SumOfNat
<1>4. ASSUME NEW n \in NeedsOf(line) PROVE Due(line, n) \in Nat
  <2> DEFINE R == RowsOf(line, n)
             date(r) == line.allocations[r].date
             D == {date(r) : r \in R}
  <2>1. R \subseteq DOMAIN line.allocations /\ IsFiniteSet(R) /\ R # {}
    BY FS_Subset DEF LineTyped, RowsOf, NeedsOf
  <2>2. \A r \in R : date(r) \in Nat
    BY <2>1 DEF LineTyped
  <2>3. Due(line, n) = Min(D)
    BY DEF Due
  <2> DEFINE f == [r \in R |-> date(r)]
  <2> HIDE DEF R, date
  <2>4. {f[r] : r \in R} = D /\ D \subseteq Nat /\ D # {}
    BY <2>1, <2>2
  <2>6. IsFiniteSet({f[r] : r \in R})
    <3> HIDE DEF f
    <3> QED  BY <2>1, FiniteImage
  <2> HIDE DEF D
  <2>5. Min(D) \in D
    BY <2>4, <2>6, LeastOfFinite
  <2> QED  BY <2>3, <2>4, <2>5
<1> QED  BY <1>1, <1>2, <1>3, <1>4

\* Of two needs of a line the one that is due first lies before the other.
LEMMA OwnRangesAreDisjoint ==
  ASSUME NEW line, LineTyped(line), Positive(line), NEW m \in NeedsOf(line),
         NEW n \in NeedsOf(line), m # n
  PROVE  \/ OwnRange(line, m).to <= OwnRange(line, n).from
         \/ OwnRange(line, n).to <= OwnRange(line, m).from
<1> DEFINE Before(x, y) == Due(line, x) < Due(line, y) \/ (Due(line, x) = Due(line, y) /\ x < y)
           Firsts(y) == {x \in NeedsOf(line) : Before(x, y)}
<1>1. /\ IsFiniteSet(NeedsOf(line)) /\ NeedsOf(line) \subseteq Nat
      /\ \A x : Entitled(line, x) \in Nat /\ EntitledBefore(line, x) \in Nat
      /\ \A x \in NeedsOf(line) : Due(line, x) \in Nat
  BY EntitlementTyped
<1>2. \A y : EntitledBefore(line, y)
               = SumFunctionOnSet([x \in Firsts(y) |-> Entitled(line, x)], Firsts(y))
  BY DEF EntitledBefore, SumOver
<1>3. ASSUME NEW x \in NeedsOf(line), NEW y \in NeedsOf(line), Before(x, y)
      PROVE  EntitledBefore(line, x) + Entitled(line, x) <= EntitledBefore(line, y)
  <2> DEFINE E == [v \in NeedsOf(line) |-> Entitled(line, v)]
             F == Firsts(x)
             G == F \cup {x}
  <2>1. /\ Firsts(x) \subseteq NeedsOf(line) /\ Firsts(y) \subseteq NeedsOf(line)
        /\ x \notin Firsts(x) /\ x \in Firsts(y) /\ Firsts(x) \subseteq Firsts(y)
    <3>1. x \notin Firsts(x) /\ x \in Firsts(y)
      BY <1>1, <1>3
    <3>2. ASSUME NEW z \in Firsts(x) PROVE z \in Firsts(y)
      <4>1. z \in NeedsOf(line) /\ Before(z, x)
        OBVIOUS
      <4>2. z \in Nat /\ x \in Nat /\ y \in Nat /\ Due(line, z) \in Nat /\ Due(line, x) \in Nat
            /\ Due(line, y) \in Nat
        BY <1>1, <4>1
      <4>3. Before(z, y)
        BY <1>3, <4>1, <4>2
      <4> QED  BY <4>1, <4>3
    <3> QED  BY <3>1, <3>2
  <2> HIDE DEF Firsts, Before
  <2>2. IsFiniteSet(Firsts(x)) /\ IsFiniteSet(Firsts(y)) /\ IsFiniteSet(G)
    <3>1. IsFiniteSet(Firsts(x)) /\ IsFiniteSet(Firsts(y))
      BY <1>1, <2>1, FS_Subset
    <3> QED  BY <3>1, FS_AddElement
  <2>3. \A v \in NeedsOf(line) : E[v] = Entitled(line, v) /\ E[v] \in Nat
    BY <1>1
  <2> HIDE DEF E
  <2>4. ASSUME NEW S, S \subseteq NeedsOf(line), IsFiniteSet(S)
        PROVE  SumFunctionOnSet([v \in S |-> Entitled(line, v)], S) = SumFunctionOnSet(E, S)
    <3> DEFINE g == [v \in S |-> Entitled(line, v)]
    <3>1. \A v \in S : g[v] = E[v]
      BY <2>3, <2>4
    <3> HIDE DEF g
    <3> QED  BY <2>4, <3>1, SumSame DEF g
  <2>5. EntitledBefore(line, x) = SumFunctionOnSet(E, F)
    BY <1>2, <2>1, <2>2, <2>4
  <2>6. EntitledBefore(line, y) = SumFunctionOnSet(E, Firsts(y))
    BY <1>2, <2>1, <2>2, <2>4
  <2>7. SumFunctionOnSet(E, G) = E[x] + SumFunctionOnSet(E, F)
    <3>1. \A v \in G : E[v] \in Int
      BY <2>1, <2>3
    <3>2. G \ {x} = F /\ x \in G
      BY <2>1
    <3> HIDE DEF F, G
    <3>3. SumFunctionOnSet(E, G) = E[x] + SumFunctionOnSet(E, G \ {x})
      BY <2>2, <3>1, <3>2, SumWithout
    <3> QED  BY <3>2, <3>3
  <2>8. SumFunctionOnSet(E, G) <= SumFunctionOnSet(E, Firsts(y))
    <3>1. \A v \in Firsts(y) : E[v] \in Nat
      BY <2>1, <2>3
    <3>2. G \in SUBSET Firsts(y)
      BY <2>1
    <3> HIDE DEF G
    <3> QED  BY <2>2, <3>1, <3>2, SumOfPart
  <2>9. E[x] = Entitled(line, x)
    BY <2>3
  <2> QED  BY <1>1, <2>5, <2>6, <2>7, <2>8, <2>9
<1>4. Before(m, n) \/ Before(n, m)
  BY <1>1
<1> HIDE DEF Before
<1>5. \/ EntitledBefore(line, m) + Entitled(line, m) <= EntitledBefore(line, n)
      \/ EntitledBefore(line, n) + Entitled(line, n) <= EntitledBefore(line, m)
  BY <1>3, <1>4
<1> QED  BY <1>5 DEF OwnRange

\* A lot lies somewhere on its line's quantity and its certified units first.
LEMMA LotRangeTyped ==
  ASSUME NEW line, LineTyped(line), ~LineRefused(line), NEW k \in DOMAIN line.lots
  PROVE  /\ LotRange(line, k).start \in Int /\ line.lots[k].certified \in Nat
         /\ LotRange(line, k).certified = LotRange(line, k).start + line.lots[k].certified
<1>1. /\ DOMAIN line.lots = 1..Len(line.lots) /\ Len(line.lots) \in Nat
      /\ \A j \in DOMAIN line.lots :
           /\ line.lots[j].quantity \in Int /\ line.lots[j].adjusted \in Int
           /\ line.lots[j].certified \in Int
  BY DEF LineTyped, LotTyped
<1>2. line.lots[k].certified \in Nat
  <2>1. ~LotRefused(line.lots[k])
    BY <1>1 DEF LineRefused
  <2> QED  BY <1>1, <2>1 DEF LotRefused
<1>3. ReceivedBefore(line, k) \in Int
  <2> DEFINE J == 1..(k - 1)
             f == [j \in J |-> EffectiveReceipt(line.lots[j])]
  <2>0. k \in Nat /\ k - 1 \in Int /\ 1 \in Int /\ k <= Len(line.lots)
    BY <1>1
  <2>1. IsFiniteSet(J) /\ J \subseteq DOMAIN line.lots
    <3>1. IsFiniteSet(J)
      BY <2>0, FS_Interval
    <3> QED  BY <1>1, <2>0, <3>1
  <2>2. \A j \in J : f[j] \in Int
    BY <1>1, <2>1 DEF EffectiveReceipt
  <2>3. ReceivedBefore(line, k) = SumFunctionOnSet(f, J)
    BY DEF ReceivedBefore, SumOver
  <2> HIDE DEF f, J
  <2> QED  BY <2>1, <2>2, <2>3, SumType
<1> QED  BY <1>2, <1>3 DEF LotRange

\* What a line certifies for a need are shares of its lots.
LEMMA CertifiedByLots ==
  ASSUME NEW line, LineTyped(line), ~LineRefused(line), NEW n
  PROVE  /\ \A k \in DOMAIN line.lots : CertifiedShare(line, k, n) \in Nat
         /\ Contribution(line, n).certificateComplete \in Nat
         /\ Contribution(line, n).certificateComplete
              <= SumFunctionOnSet([k \in DOMAIN line.lots |-> CertifiedShare(line, k, n)],
                                  DOMAIN line.lots)
<1> DEFINE K == DOMAIN line.lots
           own == OwnRange(line, n)
           ranges == {<<k, LotRange(line, k)>> : k \in K}
           share(range) == Share(own, range[2].start, range[2].certified)
           f == [k \in K |-> CertifiedShare(line, k, n)]
           place == [range \in ranges |-> range[1]]
           g == [range \in ranges |-> share(range)]
           h == [range \in ranges |-> f[place[range]]]
<1>1. Contribution(line, n).certificateComplete = SumFunctionOnSet(g, ranges)
  BY DEF Contribution, SumOver, OwnRange
<1>2. IsFiniteSet(K)
  <2>1. K = 1..Len(line.lots) /\ Len(line.lots) \in Nat
    BY DEF LineTyped
  <2> QED  BY <2>1, FS_Interval
<1>3. \A k \in K : CertifiedShare(line, k, n) \in Nat
  <2>1. TAKE k \in K
  <2>2. /\ LotRange(line, k).start \in Int /\ line.lots[k].certified \in Nat
        /\ LotRange(line, k).certified = LotRange(line, k).start + line.lots[k].certified
    BY LotRangeTyped
  <2>3. OwnRange(line, n).from \in Int /\ OwnRange(line, n).to \in Int
    <3>1. Positive(line)
      BY DEF LineRefused, LineTyped, Positive
    <3>2. Entitled(line, n) \in Nat /\ EntitledBefore(line, n) \in Nat
      BY <3>1, EntitlementTyped
    <3> QED  BY <3>2 DEF OwnRange
  <2> DEFINE o == OwnRange(line, n)
             from == LotRange(line, k).start
             to == LotRange(line, k).certified
  <2>4. CertifiedShare(line, k, n) = Share(o, from, to)
    BY DEF CertifiedShare
  <2>5. o.from \in Int /\ o.to \in Int /\ from \in Int /\ to \in Int
    BY <2>2, <2>3
  <2> HIDE DEF o, from, to
  <2> QED  BY <2>4, <2>5 DEF Share
<1>4. IsFiniteSet(ranges)
  <2> DEFINE r == [k \in K |-> <<k, LotRange(line, k)>>]
  <2>1. {r[k] : k \in K} = ranges
    OBVIOUS
  <2> HIDE DEF r, K
  <2>2. IsFiniteSet({r[k] : k \in K})
    BY <1>2, FiniteImage
  <2> QED  BY <2>1, <2>2
<1>5. \A range \in ranges : range[1] \in K /\ range = <<range[1], LotRange(line, range[1])>>
  OBVIOUS
<1>6. place \in [ranges -> K] /\ \A i, j \in ranges : place[i] = place[j] => i = j
  <2> HIDE DEF ranges, K
  <2>1. \A i \in ranges : place[i] = i[1]
    OBVIOUS
  <2> QED  BY <1>5, <2>1
<1>7. \A range \in ranges : g[range] = f[place[range]]
  <2>1. TAKE range \in ranges
  <2>2. PICK k \in K : range = <<k, LotRange(line, k)>>
    OBVIOUS
  <2>3. g[range] = Share(own, LotRange(line, k).start, LotRange(line, k).certified)
    BY <2>2
  <2>4. place[range] = k
    BY <2>2
  <2> QED  BY <2>3, <2>4 DEF CertifiedShare
<1>8. \A k \in K : f[k] \in Nat
  BY <1>3
<1> HIDE DEF K, ranges, f, g, place
<1>9. SumFunctionOnSet(h, ranges) <= SumFunctionOnSet(f, K)
  BY <1>2, <1>4, <1>6, <1>8, SumOfList
<1>10. SumFunctionOnSet(g, ranges) = SumFunctionOnSet(h, ranges)
  <2>1. \A range \in ranges : g[range] = h[range]
    BY <1>7
  <2> HIDE DEF h
  <2> QED  BY <1>4, <2>1, SumSame
<1>11. SumFunctionOnSet(g, ranges) \in Nat
  <2>1. \A range \in ranges : g[range] \in Nat
    BY <1>6, <1>7, <1>8
  <2> QED  BY <1>4, <2>1, SumOfNat
<1> QED  BY <1>1, <1>3, <1>9, <1>10, <1>11 DEF K, f

\* However needs share a line, it certifies no more for them than its lots
\* have certified.
LEMMA CertifiedOfLine ==
  ASSUME NEW line, LineTyped(line), ~LineRefused(line), NEW N, N \subseteq NeedsOf(line)
  PROVE  SumFunctionOnSet([n \in N |-> Contribution(line, n).certificateComplete], N)
         <= SumFunctionOnSet([k \in DOMAIN line.lots |-> line.lots[k].certified],
                             DOMAIN line.lots)
<1> DEFINE K == DOMAIN line.lots
           cc == [n \in N |-> Contribution(line, n).certificateComplete]
           certified == [k \in K |-> line.lots[k].certified]
           h == [n \in N |-> [k \in K |-> CertifiedShare(line, k, n)]]
           byNeed == [n \in N |-> SumFunctionOnSet([k \in K |-> h[n][k]], K)]
           byLot == [k \in K |-> SumFunctionOnSet([n \in N |-> h[n][k]], N)]
<1>1. Positive(line)
  BY DEF LineRefused, LineTyped, Positive
<1>2. IsFiniteSet(N) /\ IsFiniteSet(K)
  <2>1. IsFiniteSet(N)
    BY <1>1, EntitlementTyped, FS_Subset
  <2>2. K = 1..Len(line.lots) /\ Len(line.lots) \in Nat
    BY DEF LineTyped
  <2> QED  BY <2>1, <2>2, FS_Interval
<1>3. \A n \in N, k \in K : h[n][k] = CertifiedShare(line, k, n) /\ h[n][k] \in Nat
  BY CertifiedByLots
<1>4. \A n \in N : cc[n] \in Nat /\ cc[n] <= byNeed[n] /\ byNeed[n] \in Nat
  <2>1. TAKE n \in N
  <2> DEFINE f == [k \in K |-> CertifiedShare(line, k, n)]
             g == [k \in K |-> h[n][k]]
  <2>2. cc[n] \in Nat /\ cc[n] <= SumFunctionOnSet(f, K)
    BY CertifiedByLots
  <2>3. f = g /\ byNeed[n] = SumFunctionOnSet(g, K)
    OBVIOUS
  <2>4. \A k \in K : g[k] \in Nat
    BY <1>3
  <2> HIDE DEF f, g, cc, byNeed, K
  <2>5. SumFunctionOnSet(g, K) \in Nat
    BY <1>2, <2>4, SumOfNat
  <2> QED  BY <2>2, <2>3, <2>5
<1>5. \A k \in K : certified[k] \in Nat /\ byLot[k] \in Nat /\ byLot[k] <= certified[k]
  <2>1. TAKE k \in K
  <2> DEFINE own == [n \in N |-> OwnRange(line, n)]
             from == LotRange(line, k).start
             to == LotRange(line, k).certified
             share == [n \in N |-> Share(own[n], from, to)]
             f == [n \in N |-> h[n][k]]
  <2>2. /\ from \in Int /\ certified[k] \in Nat /\ to = from + certified[k]
    BY LotRangeTyped
  <2>3. \A n \in N : own[n].from \in Int /\ own[n].to \in Int /\ own[n].from <= own[n].to
    <3>1. TAKE n \in N
    <3>2. Entitled(line, n) \in Nat /\ EntitledBefore(line, n) \in Nat
      BY <1>1, EntitlementTyped
    <3> QED  BY <3>2 DEF OwnRange
  <2>4. \A m, n \in N : m # n => own[m].to <= own[n].from \/ own[n].to <= own[m].from
    <3>1. ASSUME NEW m \in N, NEW n \in N, m # n
          PROVE  own[m].to <= own[n].from \/ own[n].to <= own[m].from
      <4>1. own[m] = OwnRange(line, m) /\ own[n] = OwnRange(line, n)
        OBVIOUS
      <4> HIDE DEF own
      <4> QED  BY <1>1, <3>1, <4>1, OwnRangesAreDisjoint
    <3> QED  BY <3>1
  <2>5. f = share
    <3>1. \A n \in N : f[n] = share[n]
      BY <1>3 DEF CertifiedShare
    <3> QED  BY <3>1
  <2>6. byLot[k] = SumFunctionOnSet(f, N)
    OBVIOUS
  <2>9. to \in Int /\ from <= to /\ to - from = certified[k]
    <3> HIDE DEF from, to, certified
    <3> QED  BY <2>2
  <2> HIDE DEF own, from, to, certified
  <2>7. SumFunctionOnSet(share, N) <= to - from
    BY <1>2, <2>2, <2>3, <2>4, <2>9, DisjointShares
  <2>8. SumFunctionOnSet(f, N) \in Nat
    <3>1. \A n \in N : f[n] \in Nat
      BY <1>3
    <3> HIDE DEF f
    <3> QED  BY <1>2, <3>1, SumOfNat
  <2> HIDE DEF f, share, byLot
  <2> QED  BY <2>2, <2>5, <2>6, <2>7, <2>8, <2>9
<1> HIDE DEF K, cc, certified, h
<1>6. SumFunctionOnSet(byNeed, N) = SumFunctionOnSet(byLot, K)
  <2>1. \A n \in N, k \in K : h[n][k] \in Int
    BY <1>3
  <2> QED  BY <1>2, <2>1, SumExchange
<1> HIDE DEF byNeed, byLot
<1>7. SumFunctionOnSet(cc, N) <= SumFunctionOnSet(byNeed, N)
  <2>1. \A n \in N : cc[n] \in Int /\ byNeed[n] \in Int /\ cc[n] <= byNeed[n]
    BY <1>4
  <2> QED  BY <1>2, <2>1, SumAtMost
<1>8. SumFunctionOnSet(byLot, K) <= SumFunctionOnSet(certified, K)
  <2>1. \A k \in K : byLot[k] \in Int /\ certified[k] \in Int /\ byLot[k] <= certified[k]
    BY <1>5
  <2> QED  BY <1>2, <2>1, SumAtMost
<1>9. /\ SumFunctionOnSet(cc, N) \in Int /\ SumFunctionOnSet(byNeed, N) \in Int
      /\ SumFunctionOnSet(certified, K) \in Int
  <2>1. \A n \in N : cc[n] \in Int /\ byNeed[n] \in Int
    BY <1>4
  <2>2. \A k \in K : certified[k] \in Int
    BY <1>5
  <2> QED  BY <1>2, <2>1, <2>2, SumType
<1>10. SumFunctionOnSet(cc, N) <= SumFunctionOnSet(certified, K)
  BY <1>6, <1>7, <1>8, <1>9
<1> QED  BY <1>10 DEF cc, certified, K

\* What the order lines certify for a need adds up over them.
LEMMA CertifiedOfNeed ==
  ASSUME NEW t, RowsTyped(t), ~Refuses(t), NEW n \in DOMAIN t.needs
  PROVE  LET h == [s \in Touching(t) |-> IF n \in NeedsOf(t.supply[s])
                                         THEN Contribution(t.supply[s], n).certificateComplete
                                         ELSE 0]
         IN  /\ \A s \in Touching(t) : h[s] \in Nat
             /\ QuantitiesOf(t, n).certificateComplete \in Nat
             /\ QuantitiesOf(t, n).certificateComplete <= SumFunctionOnSet(h, Touching(t))
<1> DEFINE S == Touching(t)
           read == [s \in Touching(t) |-> t.supply[s]]
           L == {s \in DOMAIN read : n \in NeedsOf(read[s])}
           cc(s) == Contribution(t.supply[s], n).certificateComplete
           h == [s \in Touching(t) |-> IF n \in NeedsOf(t.supply[s])
                                       THEN Contribution(t.supply[s], n).certificateComplete
                                       ELSE 0]
           pairs == {<<s, Contribution(read[s], n)>> : s \in L}
           place == [c \in pairs |-> c[1]]
           g == [c \in pairs |-> c[2].certificateComplete]
           k == [c \in pairs |-> h[place[c]]]
<1>1. QuantitiesOf(t, n).certificateComplete = SumFunctionOnSet(g, pairs)
  BY DEF QuantitiesOf, Accumulated, SumOver
<1>2. /\ IsFiniteSet(S) /\ L \subseteq S
      /\ \A s \in S : read[s] = t.supply[s] /\ LineTyped(t.supply[s]) /\ ~LineRefused(t.supply[s])
  <2>1. Touching(t) \subseteq DOMAIN t.supply
    BY DEF Touching
  <2>2. IsFiniteSet(S)
    BY <2>1, FS_Subset DEF RowsTyped
  <2>3. \A s \in S : LineTyped(t.supply[s]) /\ ~LineRefused(t.supply[s])
    BY <2>1 DEF RowsTyped, Refuses
  <2> QED  BY <2>2, <2>3
<1>3. \A s \in S : cc(s) \in Nat
  BY <1>2, CertifiedByLots
<1>4. \A s \in S : h[s] \in Nat
  BY <1>3
<1>5. \A s \in L : h[s] = cc(s)
  BY <1>2
<1>6. IsFiniteSet(pairs)
  <2> DEFINE r == [s \in L |-> <<s, Contribution(read[s], n)>>]
  <2>1. {r[s] : s \in L} = pairs
    OBVIOUS
  <2>2. IsFiniteSet(L)
    BY <1>2, FS_Subset
  <2> HIDE DEF r, L
  <2>3. IsFiniteSet({r[s] : s \in L})
    BY <2>2, FiniteImage
  <2> QED  BY <2>1, <2>3
<1>7. \A c \in pairs : \E s \in L : c = <<s, Contribution(read[s], n)>> /\ place[c] = s
  <2>1. TAKE c \in pairs
  <2>2. PICK s \in L : c = <<s, Contribution(read[s], n)>>
    OBVIOUS
  <2>3. place[c] = c[1]
    OBVIOUS
  <2>4. c[1] = s
    BY <2>2
  <2> HIDE DEF pairs, L, place, g, h, cc
  <2> QED  BY <2>2, <2>3, <2>4
<1>8. \A c \in pairs : g[c] = h[place[c]] /\ g[c] \in Nat
  <2>1. TAKE c \in pairs
  <2>2. PICK s \in L : c = <<s, Contribution(read[s], n)>> /\ place[c] = s
    BY <1>7
  <2>3. g[c] = cc(s)
    BY <1>2, <2>2
  <2> HIDE DEF g, h, place, pairs, L, cc
  <2> QED  BY <1>2, <1>3, <1>5, <2>2, <2>3
<1>9. place \in [pairs -> S] /\ \A b, c \in pairs : place[b] = place[c] => b = c
  <2>1. \A c \in pairs : place[c] \in S
    <3> HIDE DEF place, pairs, L
    <3> QED  BY <1>2, <1>7
  <2>2. \A b, c \in pairs : place[b] = place[c] => b = c
    <3> DEFINE row(s) == <<s, Contribution(read[s], n)>>
    <3>1. \A c \in pairs : c = row(place[c])
      <4> HIDE DEF place, pairs, L
      <4> QED  BY <1>7
    <3> HIDE DEF place, pairs, L, row
    <3> QED  BY <3>1, Zenon
  <2>3. place = [c \in pairs |-> place[c]]
    OBVIOUS
  <2> HIDE DEF place, pairs
  <2> QED  BY <2>1, <2>2, <2>3
<1> HIDE DEF S, h, pairs, place, g
<1>10. SumFunctionOnSet(k, pairs) <= SumFunctionOnSet(h, S)
  BY <1>2, <1>4, <1>6, <1>9, SumOfList
<1>11. SumFunctionOnSet(g, pairs) = SumFunctionOnSet(k, pairs)
  <2>1. \A c \in pairs : g[c] = k[c]
    BY <1>8
  <2> HIDE DEF k
  <2> QED  BY <1>6, <2>1, SumSame
<1>12. SumFunctionOnSet(g, pairs) \in Nat
  BY <1>6, <1>8, SumOfNat
<1>13. /\ \A s \in S : h[s] \in Nat
       /\ QuantitiesOf(t, n).certificateComplete \in Nat
       /\ QuantitiesOf(t, n).certificateComplete <= SumFunctionOnSet(h, S)
  BY <1>1, <1>4, <1>10, <1>11, <1>12
<1> QED  BY <1>13 DEF S, h

\* However the needs of a project share order lines and lots, all of them
\* together have no more certified material than there is.
LEMMA CertifiedOfProject ==
  ASSUME NEW t, RowsTyped(t), ~Refuses(t)
  PROVE  /\ \A n \in DOMAIN t.needs : QuantitiesOf(t, n).certificateComplete \in Nat
         /\ SumFunctionOnSet([n \in DOMAIN t.needs |-> QuantitiesOf(t, n).certificateComplete],
                             DOMAIN t.needs) <= CertifiedStock(t)
<1> DEFINE N == DOMAIN t.needs
           S == Touching(t)
           cc == [n \in N |-> QuantitiesOf(t, n).certificateComplete]
           part(s, n) == Contribution(t.supply[s], n).certificateComplete
           h == [n \in N |-> [s \in S |-> IF n \in NeedsOf(t.supply[s]) THEN part(s, n) ELSE 0]]
           lots(s) == DOMAIN t.supply[s].lots
           certified(s) ==
             SumFunctionOnSet([k \in lots(s) |-> t.supply[s].lots[k].certified], lots(s))
           stock == [s \in S |-> certified(s)]
           byNeed == [n \in N |-> SumFunctionOnSet([s \in S |-> h[n][s]], S)]
           byLine == [s \in S |-> SumFunctionOnSet([n \in N |-> h[n][s]], N)]
<1>1. IsFiniteSet(N)
  BY DEF RowsTyped
<1>2. /\ IsFiniteSet(S)
      /\ \A s \in S : LineTyped(t.supply[s]) /\ ~LineRefused(t.supply[s])
  <2>1. Touching(t) \subseteq DOMAIN t.supply
    BY DEF Touching
  <2>2. IsFiniteSet(S)
    BY <2>1, FS_Subset DEF RowsTyped
  <2> QED  BY <2>1, <2>2 DEF RowsTyped, Refuses
<1>3. CertifiedStock(t) = SumFunctionOnSet(stock, S)
  BY DEF CertifiedStock, SumOver
<1>4. /\ \A n \in N, s \in S : h[n][s] \in Nat
      /\ \A n \in N : cc[n] \in Nat /\ cc[n] <= byNeed[n] /\ byNeed[n] \in Nat
  <2>1. ASSUME NEW n \in N
        PROVE  /\ \A s \in S : h[n][s] \in Nat
               /\ cc[n] \in Nat /\ cc[n] <= byNeed[n] /\ byNeed[n] \in Nat
    <3> DEFINE f == [s \in S |-> IF n \in NeedsOf(t.supply[s]) THEN part(s, n) ELSE 0]
               g == [s \in S |-> h[n][s]]
    <3>1. /\ \A s \in S : f[s] \in Nat
          /\ cc[n] \in Nat /\ cc[n] <= SumFunctionOnSet(f, S)
      BY CertifiedOfNeed
    <3>2. f = g /\ byNeed[n] = SumFunctionOnSet(g, S)
      OBVIOUS
    <3>3. \A s \in S : f[s] = h[n][s]
      OBVIOUS
    <3> HIDE DEF f, g, cc, byNeed, S, h
    <3>4. SumFunctionOnSet(f, S) \in Nat
      BY <1>2, <3>1, SumOfNat
    <3> QED  BY <3>1, <3>2, <3>3, <3>4
  <2> HIDE DEF cc, byNeed, h, S, N
  <2> QED  BY <2>1
<1>5. \A s \in S : byLine[s] \in Nat /\ stock[s] \in Nat /\ byLine[s] <= stock[s]
  <2>1. TAKE s \in S
  <2> DEFINE P == N \cap NeedsOf(t.supply[s])
             f == [n \in N |-> h[n][s]]
             g == [n \in P |-> part(s, n)]
  <2>2. \A n \in N : f[n] \in Nat
    BY <1>4
  <2>3. byLine[s] = SumFunctionOnSet(f, N)
    OBVIOUS
  <2>4. P \subseteq N /\ IsFiniteSet(P)
    BY <1>1, FS_Subset
  <2>5. SumFunctionOnSet(f, P) = SumFunctionOnSet(f, N)
    <3>1. \A n \in N \ P : f[n] = 0
      OBVIOUS
    <3> HIDE DEF f, P, N
    <3> QED  BY <1>1, <2>2, <2>4, <3>1, SumIgnoring
  <2>6. SumFunctionOnSet(g, P) = SumFunctionOnSet(f, P)
    <3>1. \A n \in P : g[n] = f[n]
      OBVIOUS
    <3> HIDE DEF f, P, g
    <3> QED  BY <2>4, <3>1, SumSame
  <2>7. SumFunctionOnSet(g, P) <= certified(s)
    BY <1>2, CertifiedOfLine
  <2>8. certified(s) \in Nat
    <3> DEFINE c == [k \in lots(s) |-> t.supply[s].lots[k].certified]
    <3>1. lots(s) = 1..Len(t.supply[s].lots) /\ Len(t.supply[s].lots) \in Nat
      BY <1>2 DEF LineTyped
    <3>2. IsFiniteSet(lots(s))
      BY <3>1, FS_Interval
    <3>3. \A k \in lots(s) : c[k] \in Nat
      BY <1>2, LotRangeTyped
    <3>4. certified(s) = SumFunctionOnSet(c, lots(s))
      OBVIOUS
    <3> HIDE DEF c, lots, certified
    <3> QED  BY <3>2, <3>3, <3>4, SumOfNat
  <2>9. stock[s] = certified(s)
    OBVIOUS
  <2>10. SumFunctionOnSet(f, N) \in Nat
    <3> HIDE DEF f, N
    <3> QED  BY <1>1, <2>2, SumOfNat
  <2> HIDE DEF f, g, P, N, byLine, stock, certified
  <2> QED  BY <2>3, <2>5, <2>6, <2>7, <2>8, <2>9, <2>10
<1> HIDE DEF N, S, cc, stock, h
<1>6. SumFunctionOnSet(byNeed, N) = SumFunctionOnSet(byLine, S)
  <2>1. \A n \in N, s \in S : h[n][s] \in Int
    BY <1>4
  <2> QED  BY <1>1, <1>2, <2>1, SumExchange
<1> HIDE DEF byNeed, byLine
<1>7. SumFunctionOnSet(cc, N) <= SumFunctionOnSet(byNeed, N)
  <2>1. \A n \in N : cc[n] \in Int /\ byNeed[n] \in Int /\ cc[n] <= byNeed[n]
    BY <1>4
  <2> QED  BY <1>1, <2>1, SumAtMost
<1>8. SumFunctionOnSet(byLine, S) <= SumFunctionOnSet(stock, S)
  <2>1. \A s \in S : byLine[s] \in Int /\ stock[s] \in Int /\ byLine[s] <= stock[s]
    BY <1>5
  <2> QED  BY <1>2, <2>1, SumAtMost
<1>9. /\ SumFunctionOnSet(cc, N) \in Int /\ SumFunctionOnSet(byNeed, N) \in Int
      /\ SumFunctionOnSet(stock, S) \in Int
  <2>1. \A n \in N : cc[n] \in Int /\ byNeed[n] \in Int
    BY <1>4
  <2>2. \A s \in S : stock[s] \in Int
    BY <1>5
  <2> QED  BY <1>1, <1>2, <2>1, <2>2, SumType
<1>10. SumFunctionOnSet(cc, N) <= CertifiedStock(t)
  BY <1>3, <1>6, <1>7, <1>8, <1>9
<1>11. \A n \in N : QuantitiesOf(t, n).certificateComplete \in Nat
  <2>1. TAKE n \in N
  <2>2. cc[n] = QuantitiesOf(t, n).certificateComplete
    BY DEF cc
  <2> QED  BY <1>4, <2>2
<1> QED  BY <1>10, <1>11 DEF cc, N

\* A supply line's latest commitment has a date.
LEMMA CommitmentTyped ==
  ASSUME NEW line, LineTyped(line)
  PROVE  SelectLatestCommitmentDate(line.commitments) \in Nat
<1> DEFINE C == line.commitments
           Latest1(c) == \A d \in C : \/ c.revision > d.revision
                                      \/ c.revision = d.revision /\ c.date >= d.date
           rev == [c \in C |-> c.revision]
           date == [c \in C |-> c.date]
<1>1. IsFiniteSet(C) /\ \A c \in C : c.revision \in Nat /\ c.date \in Nat
  BY DEF LineTyped
<1>2. CASE C = {}
  BY <1>2 DEF SelectLatestCommitmentDate
<1>3. CASE C # {}
  <2>1. \A c \in C : rev[c] = c.revision /\ date[c] = c.date /\ rev[c] \in Int /\ date[c] \in Int
    BY <1>1
  <2> HIDE DEF rev, date, C
  <2>2. PICK a \in C : \A c \in C : rev[c] <= rev[a]
    BY <1>1, <1>3, <2>1, OneIsGreatest
  <2> DEFINE D == {c \in C : rev[c] = rev[a]}
  <2>3. IsFiniteSet(D) /\ D # {} /\ \A c \in D : date[c] \in Int
    BY <1>1, <2>1, <2>2, FS_Subset
  <2>4. PICK b \in D : \A c \in D : date[c] <= date[b]
    <3> HIDE DEF D
    <3> QED  BY <2>3, OneIsGreatest
  <2>5. b \in C /\ Latest1(b)
    <3>1. b \in C /\ rev[b] = rev[a]
      OBVIOUS
    <3>2. ASSUME NEW d \in C
          PROVE  b.revision > d.revision \/ (b.revision = d.revision /\ b.date >= d.date)
      <4>1. /\ rev[d] <= rev[b] /\ rev[d] \in Int /\ rev[b] \in Int
            /\ rev[d] = d.revision /\ rev[b] = b.revision
            /\ date[d] = d.date /\ date[b] = b.date /\ date[d] \in Int /\ date[b] \in Int
        BY <2>1, <2>2, <3>1, <3>2
      <4>2. CASE rev[d] = rev[b]
        <5>1. d \in D
          BY <3>1, <3>2, <4>2
        <5>2. date[d] <= date[b]
          BY <2>4, <5>1
        <5> QED  BY <4>1, <4>2, <5>2
      <4>3. CASE rev[d] # rev[b]
        BY <4>1, <4>3
      <4> QED  BY <4>2, <4>3
    <3> QED  BY <3>1, <3>2
  <2>6. (CHOOSE c \in C : Latest1(c)) \in C
    <3> HIDE DEF Latest1
    <3> QED  BY <2>5
  <2>7. SelectLatestCommitmentDate(C) = (CHOOSE c \in C : Latest1(c)).date
    BY <1>3, Zenon DEF SelectLatestCommitmentDate
  <2> HIDE DEF Latest1
  <2>8. SelectLatestCommitmentDate(C) \in Nat
    BY <1>1, <2>6, <2>7
  <2> QED  BY <2>8 DEF C
<1> QED  BY <1>2, <1>3

\* The operative date is not before any confirmed line's.
LEMMA OperativeIsLatest ==
  ASSUME NEW t, RowsTyped(t), NEW n, NEW s \in LinesFor(t, n), Confirmed(t.supply[s])
  PROVE  /\ OperativeCommitmentDate(n, t.supply) \in Int
         /\ SelectLatestCommitmentDate(t.supply[s].commitments) \in Int
         /\ SelectLatestCommitmentDate(t.supply[s].commitments)
              <= OperativeCommitmentDate(n, t.supply)
<1> DEFINE S == {x \in DOMAIN t.supply : Confirmed(t.supply[x]) /\ n \in NeedsOf(t.supply[x])}
           date(x) == SelectLatestCommitmentDate(t.supply[x].commitments)
           f == [x \in S |-> date(x)]
           dates == {date(x) : x \in S}
           Greatest(d) == \A e \in dates : e <= d
<1>1. /\ IsFiniteSet(S) /\ s \in S
      /\ \A x \in S : f[x] = date(x) /\ date(x) \in Nat
  <2>1. S \subseteq DOMAIN t.supply /\ s \in S
    BY DEF LinesFor
  <2>2. IsFiniteSet(S)
    BY <2>1, FS_Subset DEF RowsTyped
  <2>3. \A x \in S : date(x) \in Nat
    BY <2>1, CommitmentTyped DEF RowsTyped
  <2> QED  BY <2>1, <2>2, <2>3
<1>2. date(s) \in dates /\ dates # {}
  BY <1>1
<1>3. PICK z \in S : \A x \in S : f[x] <= f[z]
  <2> HIDE DEF S, f
  <2> QED  BY <1>1, OneIsGreatest
<1>4. date(z) \in dates /\ Greatest(date(z))
  <2> HIDE DEF f, S, date
  <2> QED  BY <1>1, <1>3
<1>5. OperativeCommitmentDate(n, t.supply) = CHOOSE d \in dates : Greatest(d)
  BY <1>2, Zenon DEF OperativeCommitmentDate
<1> DEFINE last == CHOOSE d \in dates : Greatest(d)
<1>6. last \in dates /\ Greatest(last)
  <2> HIDE DEF Greatest, dates
  <2> QED  BY <1>4
<1> HIDE DEF last
<1>7. last \in Int /\ date(s) <= last
  <2> HIDE DEF S, date
  <2> QED  BY <1>1, <1>2, <1>6
<1>8. OperativeCommitmentDate(n, t.supply) = last
  BY <1>5 DEF last
<1> HIDE DEF S, f, dates, Greatest
<1> QED  BY <1>1, <1>7, <1>8

\* The least of some of the numbers up to eight.
LEMMA LeastOfSteps ==
  ASSUME NEW S, S \subseteq 1..8, S # {}
  PROVE  (CHOOSE n \in S : \A m \in S : n <= m) \in 1..8
<1> DEFINE k == 8
<1>0. k \in Int /\ 1 \in Int /\ k = 8
  OBVIOUS
<1>1. IsFiniteSet(S) /\ S \subseteq Nat
  <2> HIDE DEF k
  <2>1. IsFiniteSet(1..k)
    BY <1>0, FS_Interval
  <2>2. IsFiniteSet(S)
    BY <1>0, <2>1, FS_Subset
  <2> QED  BY <2>2
<1>2. Min(S) \in S
  BY <1>1, LeastOfFinite
<1> QED  BY <1>2 DEF Min

\* What the line of a need tells of the need's rows.
LEMMA LineTells ==
  ASSUME NEW t, RowsTyped(t), ~Refuses(t), NEW n \in DOMAIN t.needs
  PROVE  /\ LineOf(t, n).criticality = t.needs[n].criticality
         /\ LineOf(t, n).due = t.needs[n].due
         /\ LineOf(t, n).shortage \in Nat
         /\ ShortOf(t, n) <=> LineOf(t, n).shortage > 0
         /\ LineOf(t, n).openNcrs \in Nat
         /\ ReportedOpen(t, LinesFor(t, n)) => LineOf(t, n).openNcrs > 0
         /\ SupplierLate(t, n) => Late(LineOf(t, n))
         /\ LineOf(t, n).blocker = "NONE" => LineOf(t, n).shortage = 0
         /\ LineOf(t, n).stage = "COMPLETE"
              => t.needs[n].required <= QuantitiesOf(t, n).certificateComplete
<1> DEFINE acc == QuantitiesOf(t, n)
           line == LineOf(t, n)
           A == {a \in DOMAIN t.allocations :
                   t.allocations[a].need = n /\ t.allocations[a].status # "RELEASED"}
           f == [a \in A |-> t.allocations[a].quantity]
<1>1. /\ acc.required = t.needs[n].required
      /\ acc.allocated = SumFunctionOnSet(f, A)
  BY DEF QuantitiesOf, Accumulated, SumOver
<1>2. acc.allocated \in Nat /\ acc.required \in Nat
  <2>1. IsFiniteSet(A) /\ \A a \in A : f[a] \in Nat
    BY FS_Subset DEF RowsTyped
  <2>2. t.needs[n].required \in Nat
    BY DEF RowsTyped
  <2> HIDE DEF f, A, acc
  <2> QED  BY <1>1, <2>1, <2>2, SumOfNat
<1>3. acc.certificateComplete \in Nat
  BY CertifiedOfNeed
<1>4. ShortOf(t, n) <=> acc.allocated < acc.required
  <2>1. ShortOf(t, n) <=> SumFunctionOnSet(f, A) < t.needs[n].required
    BY DEF ShortOf, SumOver
  <2> HIDE DEF acc, f, A
  <2> QED  BY <1>1, <2>1
<1>5. /\ line.criticality = t.needs[n].criticality /\ line.due = t.needs[n].due
      /\ line.shortage = Shortage(acc) /\ line.stage = CurrentStage(acc)
      /\ line.blocker = BlockerReason(acc) /\ line.openNcrs = OpenNcrs(t, n)
      /\ line.commitment = OperativeCommitmentDate(n, t.supply)
  <2> HIDE DEF acc
  <2>1. line = LineWith(t, n, t.needs[n], acc)
    BY DEF LineOf, acc
  <2> HIDE DEF line
  <2> QED  BY <2>1 DEF LineWith
<1> HIDE DEF acc, A, f, line
<1>6. Shortage(acc) \in Nat /\ (ShortOf(t, n) <=> Shortage(acc) > 0)
  BY <1>2, <1>4 DEF Shortage
<1>7. OpenNcrs(t, n) \in Nat /\ (ReportedOpen(t, LinesFor(t, n)) => OpenNcrs(t, n) > 0)
  <2> DEFINE X == {x \in ActiveNcrs(t) : /\ t.ncrs[x].about \in DOMAIN t.supply
                                         /\ n \in NeedsOf(t.supply[t.ncrs[x].about])}
  <2>1. OpenNcrs(t, n) = Cardinality(X)
    BY DEF OpenNcrs
  <2>2. IsFiniteSet(X)
    <3>1. X \subseteq DOMAIN t.ncrs
      BY DEF ActiveNcrs
    <3> QED  BY <3>1, FS_Subset DEF RowsTyped
  <2>3. ReportedOpen(t, LinesFor(t, n)) => X # {}
    BY DEF ReportedOpen, LinesFor, ActiveNcrs
  <2> HIDE DEF X
  <2>4. Cardinality(X) \in Nat /\ (Cardinality(X) = 0 <=> X = {})
    BY <2>2, FS_CardinalityType, FS_EmptySet
  <2> QED  BY <2>1, <2>3, <2>4
<1>8. SupplierLate(t, n) => Late(line)
  <2>1. SUFFICES ASSUME SupplierLate(t, n) PROVE Late(line)
    OBVIOUS
  <2>2. PICK s \in LinesFor(t, n) :
          /\ Confirmed(t.supply[s])
          /\ SelectLatestCommitmentDate(t.supply[s].commitments) > t.needs[n].due
    BY <2>1 DEF SupplierLate
  <2>3. /\ OperativeCommitmentDate(n, t.supply) \in Int
        /\ SelectLatestCommitmentDate(t.supply[s].commitments) \in Int
        /\ SelectLatestCommitmentDate(t.supply[s].commitments)
             <= OperativeCommitmentDate(n, t.supply)
    BY <2>2, OperativeIsLatest
  <2>4. t.needs[n].due \in Int
    BY DEF RowsTyped
  <2> QED  BY <1>5, <2>2, <2>3, <2>4 DEF Late
<1>9. BlockerReason(acc) = "NONE" => Shortage(acc) = 0
  <2>1. SUFFICES ASSUME BlockerReason(acc) = "NONE", Shortage(acc) # 0 PROVE FALSE
    OBVIOUS
  <2>2. FirstShortfall(acc) = "NONE"
    BY <2>1 DEF BlockerReason
  <2> DEFINE short == {i \in DOMAIN Steps : acc[Steps[i]] < acc.required}
             first == CHOOSE i \in short : \A m \in short : i <= m
  <2>3. 8 \in short
    BY <1>2, <2>1 DEF Steps, Shortage
  <2>4. short \subseteq 1..8
    BY DEF Steps
  <2>5. FirstShortfall(acc) = StepBlockers[first]
    BY <2>3, Zenon DEF FirstShortfall
  <2>6. first \in 1..8
    <3> HIDE DEF short
    <3> QED  BY <2>3, <2>4, LeastOfSteps
  <2> HIDE DEF first
  <2>7. StepBlockers[first] # "NONE"
    BY <2>6 DEF StepBlockers
  <2> QED  BY <2>2, <2>5, <2>7
<1>10. CurrentStage(acc) = "COMPLETE" => acc.required <= acc.certificateComplete
  <2>1. SUFFICES ASSUME CurrentStage(acc) = "COMPLETE",
                        ~(acc.required <= acc.certificateComplete)
                 PROVE  FALSE
    OBVIOUS
  <2> DEFINE reached == {i \in DOMAIN Progress : acc[Progress[i]] > 0}
             first == CHOOSE i \in reached : \A m \in reached : i <= m
  <2>2. ~(acc.allocated >= acc.required /\ acc.certificateComplete >= acc.required)
    BY <1>2, <1>3, <2>1
  <2>3. CurrentStage(acc) = IF reached = {} THEN "NOT_STARTED" ELSE ProgressStages[first]
    BY <2>2, Zenon DEF CurrentStage
  <2>4. reached # {} /\ CurrentStage(acc) = ProgressStages[first]
    <3> HIDE DEF reached, first
    <3> QED  BY <2>1, <2>3
  <2>5. reached \subseteq 1..8
    BY DEF Progress
  <2>6. first \in 1..8
    <3> HIDE DEF reached
    <3> QED  BY <2>4, <2>5, LeastOfSteps
  <2> HIDE DEF first
  <2>7. ProgressStages[first] # "COMPLETE"
    BY <2>6 DEF ProgressStages
  <2> QED  BY <2>1, <2>4, <2>7
<1>11. acc.required = t.needs[n].required
  BY <1>1
<1> QED  BY <1>5, <1>6, <1>7, <1>8, <1>9, <1>10, <1>11 DEF line, acc

\* Where nothing is counted, no line is blocked.
LEMMA NothingBlocks ==
  ASSUME NEW scope, scope.projectNcrs \in Nat, IsFiniteSet(scope.lines),
         ~(BlockerCount(scope) > 0)
  PROVE  scope.projectNcrs = 0 /\ \A line \in scope.lines : LineBlockers(line) = {}
<1> DEFINE L == scope.lines
           f == [line \in L |-> Cardinality(LineBlockers(line))]
           one == IF scope.projectNcrs > 0 THEN 1 ELSE 0
<1>1. ASSUME NEW line \in L PROVE IsFiniteSet(LineBlockers(line))
  <2> DEFINE a == IF line.blocker # "NONE" THEN {line.blocker} ELSE {}
             b == IF line.openNcrs > 0 THEN {"OPEN_NCR"} ELSE {}
             c == IF Late(line) THEN {"LATE_COMMITMENT"} ELSE {}
             d == IF Critical(line) /\ CertificateMissing(line)
                  THEN {"CERTIFICATE_INCOMPLETE"} ELSE {}
  <2>1. \A x : IsFiniteSet({x}) /\ IsFiniteSet({})
    BY FS_Singleton, FS_EmptySet
  <2>2. IsFiniteSet(a) /\ IsFiniteSet(b) /\ IsFiniteSet(c) /\ IsFiniteSet(d)
    BY <2>1
  <2>3. LineBlockers(line) = a \cup b \cup c \cup d
    BY DEF LineBlockers
  <2> HIDE DEF a, b, c, d
  <2>4. IsFiniteSet(a \cup b)
    BY <2>2, FS_Union
  <2>5. IsFiniteSet(a \cup b \cup c)
    BY <2>2, <2>4, FS_Union
  <2>6. IsFiniteSet(a \cup b \cup c \cup d)
    BY <2>2, <2>5, FS_Union
  <2> QED  BY <2>3, <2>6
<1>2. \A line \in L : f[line] \in Nat /\ (f[line] = 0 <=> LineBlockers(line) = {})
  <2>1. TAKE line \in L
  <2>2. f[line] = Cardinality(LineBlockers(line))
    OBVIOUS
  <2> QED  BY <1>1, <2>2, FS_CardinalityType, FS_EmptySet
<1>3. BlockerCount(scope) = one + SumFunctionOnSet(f, L)
  BY DEF BlockerCount, SumOver
<1>4. one \in Nat /\ (one = 0 <=> scope.projectNcrs = 0)
  OBVIOUS
<1> HIDE DEF one, f
<1>5. SumFunctionOnSet(f, L) \in Nat
  BY <1>2, SumOfNat
<1>6. one = 0 /\ SumFunctionOnSet(f, L) = 0
  BY <1>3, <1>4, <1>5
<1>7. ASSUME NEW line \in L PROVE f[line] = 0
  <2>1. SumFunctionOnSet(f, L) = f[line] + SumFunctionOnSet(f, L \ {line})
    <3>1. \A x \in L : f[x] \in Int
      BY <1>2
    <3> QED  BY <3>1, SumWithout
  <2>2. SumFunctionOnSet(f, L \ {line}) \in Nat
    <3>1. IsFiniteSet(L \ {line}) /\ \A x \in L \ {line} : f[x] \in Nat
      BY <1>2, FS_Subset
    <3> HIDE DEF L
    <3> QED  BY <3>1, SumOfNat
  <2> QED  BY <1>2, <1>6, <2>1, <2>2
<1> QED  BY <1>2, <1>4, <1>6, <1>7

\* Each status is the outcome of its own test.
LEMMA StatusTells ==
  ASSUME NEW scope, scope.projectNcrs \in Nat, IsFiniteSet(scope.lines)
  PROVE  LET status == CalculateReadiness(scope).status IN
         /\ status # "RED" => scope.lines # {} /\ (AllComplete(scope) \/ ~Gated(scope))
         /\ status = "COMPLETE" => AllComplete(scope)
         /\ status = "GREEN" =>
              \/ OnlyFutureLowPriorityShortage(scope)
              \/ scope.projectNcrs = 0 /\ \A line \in scope.lines : LineBlockers(line) = {}
<1> DEFINE status == CalculateReadiness(scope).status
           score == Score(scope.lines)
<1>1. CASE scope.lines = {}
  <2>1. status = "RED"
    BY <1>1 DEF CalculateReadiness, NoRequirements
  <2> QED  BY <2>1
<1>2. CASE scope.lines # {}
  <2>1. status = Status(scope, score)
    BY <1>2 DEF CalculateReadiness
  <2> HIDE DEF status, score
  <2>2. CASE AllComplete(scope)
    <3>1. status = "COMPLETE"
      BY <2>1, <2>2 DEF Status
    <3> QED  BY <1>2, <2>2, <3>1 DEF status
  <2>3. CASE ~AllComplete(scope)
    <3>1. CASE Gated(scope) \/ score < 6000
      <4>1. status = "RED"
        BY <2>1, <2>3, <3>1 DEF Status
      <4> QED  BY <4>1 DEF status
    <3>2. CASE ~(Gated(scope) \/ score < 6000)
      <4>1. CASE OnlyFutureLowPriorityShortage(scope) /\ score >= 8500
        <5>1. status = "GREEN"
          BY <2>1, <2>3, <3>2, <4>1 DEF Status
        <5> QED  BY <1>2, <3>2, <4>1, <5>1 DEF status
      <4>2. CASE /\ ~(OnlyFutureLowPriorityShortage(scope) /\ score >= 8500)
                 /\ score < 8500 \/ BlockerCount(scope) > 0
        <5>1. status = "AMBER"
          BY <2>1, <2>3, <3>2, <4>2 DEF Status
        <5> QED  BY <1>2, <3>2, <5>1 DEF status
      <4>3. CASE /\ ~(OnlyFutureLowPriorityShortage(scope) /\ score >= 8500)
                 /\ ~(score < 8500 \/ BlockerCount(scope) > 0)
        <5>1. status = "GREEN"
          BY <2>1, <2>3, <3>2, <4>3 DEF Status
        <5>2. scope.projectNcrs = 0 /\ \A line \in scope.lines : LineBlockers(line) = {}
          BY <4>3, NothingBlocks
        <5> QED  BY <1>2, <3>2, <5>1, <5>2 DEF status
      <4> QED  BY <4>1, <4>2, <4>3
    <3> QED  BY <3>1, <3>2
  <2> QED  BY <2>2, <2>3
<1> QED  BY <1>1, <1>2

\* What the calculator says of rows it does not refuse is true of them.
LEMMA CalculatedGoodNews ==
  ASSUME NEW t, RowsTyped(t), ~Refuses(t), NEW date \in Nat
  PROVE  GoodNews(t, date, CalculateReadiness(ProjectScope(Load(t), date)).status)
<1> DEFINE N == DOMAIN t.needs
           line(n) == LineOf(t, n)
           scope == ProjectScope(Load(t), date)
           status == CalculateReadiness(scope).status
           cc(n) == QuantitiesOf(t, n).certificateComplete
<1>1. /\ scope.lines = {line(n) : n \in N} /\ scope.projectNcrs = ProjectNcrs(t)
      /\ scope.date = date
  BY DEF ProjectScope, Load
<1>2. /\ IsFiniteSet(N)
      /\ \A n \in N : t.needs[n].required \in Nat /\ t.needs[n].due \in Nat
  BY DEF RowsTyped
<1>3. IsFiniteSet({line(n) : n \in N})
  <2> DEFINE f == [n \in N |-> line(n)]
  <2>1. {f[n] : n \in N} = {line(n) : n \in N}
    OBVIOUS
  <2> HIDE DEF f, N, line
  <2>2. IsFiniteSet({f[n] : n \in N})
    BY <1>2, FiniteImage
  <2> QED  BY <2>1, <2>2
<1>4. ProjectNcrs(t) \in Nat /\ (ProjectNcrs(t) = 0 => ~ReportedOpen(t, {0}))
  <2> DEFINE X == {x \in ActiveNcrs(t) : t.ncrs[x].about = 0}
  <2>1. ProjectNcrs(t) = Cardinality(X) /\ X \subseteq DOMAIN t.ncrs
    BY DEF ProjectNcrs, ActiveNcrs
  <2>2. IsFiniteSet(X)
    BY <2>1, FS_Subset DEF RowsTyped
  <2>3. X = {} => ~ReportedOpen(t, {0})
    BY DEF ReportedOpen, ActiveNcrs
  <2> HIDE DEF X
  <2> QED  BY <2>1, <2>2, <2>3, FS_CardinalityType, FS_EmptySet
<1>5. \A n \in N :
        /\ line(n).criticality = t.needs[n].criticality
        /\ line(n).due = t.needs[n].due
        /\ line(n).shortage \in Nat
        /\ ShortOf(t, n) <=> line(n).shortage > 0
        /\ line(n).openNcrs \in Nat
        /\ ReportedOpen(t, LinesFor(t, n)) => line(n).openNcrs > 0
        /\ SupplierLate(t, n) => Late(line(n))
        /\ line(n).blocker = "NONE" => line(n).shortage = 0
        /\ line(n).stage = "COMPLETE" => t.needs[n].required <= cc(n)
  BY LineTells
<1>6. /\ \A n \in N : cc(n) \in Nat
      /\ SumFunctionOnSet([n \in N |-> cc(n)], N) <= CertifiedStock(t)
  BY CertifiedOfProject
<1>7. RequiredStock(t) = SumFunctionOnSet([n \in N |-> t.needs[n].required], N)
  BY DEF RequiredStock, SumOver
<1>8. ASSUME \A n \in N : ~ReportedOpen(t, LinesFor(t, n)), ~ReportedOpen(t, {0})
      PROVE  ~ReportedOpen(t, Touching(t) \cup {0})
  <2>1. \A s \in Touching(t) : \E n \in N : s \in LinesFor(t, n)
    BY DEF Touching, LinesFor
  <2> QED  BY <1>8, <2>1 DEF ReportedOpen
<1>9. CertifiedStock(t) \in Int
  <2> DEFINE S == Touching(t)
             lots(s) == DOMAIN t.supply[s].lots
             certified(s) ==
               SumFunctionOnSet([k \in lots(s) |-> t.supply[s].lots[k].certified], lots(s))
             stock == [s \in S |-> certified(s)]
  <2>1. CertifiedStock(t) = SumFunctionOnSet(stock, S)
    BY DEF CertifiedStock, SumOver
  <2>2. S \subseteq DOMAIN t.supply /\ IsFiniteSet(S)
    BY FS_Subset DEF Touching, RowsTyped
  <2>3. ASSUME NEW s \in S PROVE certified(s) \in Int
    <3> DEFINE c == [k \in lots(s) |-> t.supply[s].lots[k].certified]
    <3>1. LineTyped(t.supply[s]) /\ ~LineRefused(t.supply[s])
      BY <2>2 DEF RowsTyped, Refuses
    <3>2. lots(s) = 1..Len(t.supply[s].lots) /\ Len(t.supply[s].lots) \in Nat
      BY <3>1 DEF LineTyped
    <3>3. IsFiniteSet(lots(s))
      BY <3>2, FS_Interval
    <3>4. \A k \in lots(s) : c[k] \in Int
      BY <3>1, LotRangeTyped
    <3>5. certified(s) = SumFunctionOnSet(c, lots(s))
      OBVIOUS
    <3> HIDE DEF c, lots, certified
    <3> QED  BY <3>3, <3>4, <3>5, SumType
  <2>4. \A s \in S : stock[s] \in Int
    BY <2>3
  <2> HIDE DEF stock, S
  <2> QED  BY <2>1, <2>2, <2>4, SumType
<1> HIDE DEF line, scope, cc, N
<1>10. /\ status # "RED" => scope.lines # {} /\ (AllComplete(scope) \/ ~Gated(scope))
       /\ status = "COMPLETE" => AllComplete(scope)
       /\ status = "GREEN" =>
            \/ OnlyFutureLowPriorityShortage(scope)
            \/ scope.projectNcrs = 0 /\ \A l \in scope.lines : LineBlockers(l) = {}
  BY <1>1, <1>3, <1>4, StatusTells
<1> HIDE DEF status
\* What each of the tests says of the needs.
<1>11. \A n \in N : line(n) \in scope.lines
  BY <1>1
<1> DEFINE Fine(n) == /\ ~SupplierLate(t, n) /\ ~ReportedOpen(t, LinesFor(t, n))
                      /\ ShortOf(t, n) => t.needs[n].criticality = "LOW"
                                          /\ t.needs[n].due - date > 30
<1>12. ASSUME AllComplete(scope)
       PROVE  /\ ~ReportedOpen(t, {0})
              /\ \A n \in N : /\ Fine(n) /\ ~ShortOf(t, n)
                              /\ t.needs[n].required <= cc(n)
  <2>1. ~ReportedOpen(t, {0})
    BY <1>1, <1>4, <1>12 DEF AllComplete
  <2>2. ASSUME NEW n \in N
        PROVE  Fine(n) /\ ~ShortOf(t, n) /\ t.needs[n].required <= cc(n)
    <3>1. /\ line(n).stage = "COMPLETE" /\ line(n).shortage = 0 /\ line(n).openNcrs = 0
          /\ ~Late(line(n))
      BY <1>11, <1>12 DEF AllComplete, Complete
    <3> QED  BY <1>5, <3>1
  <2> HIDE DEF Fine
  <2> QED  BY <2>1, <2>2
<1>13. ASSUME OnlyFutureLowPriorityShortage(scope)
       PROVE  ~ReportedOpen(t, {0}) /\ \A n \in N : Fine(n)
  <2>1. ~ReportedOpen(t, {0})
    BY <1>1, <1>4, <1>13 DEF OnlyFutureLowPriorityShortage
  <2>2. ASSUME NEW n \in N PROVE Fine(n)
    <3>1. /\ line(n).openNcrs = 0 /\ ~Late(line(n))
          /\ line(n).shortage > 0 => /\ line(n).criticality = "LOW"
                                     /\ ~(line(n).due - date <= 30)
      BY <1>1, <1>11, <1>13 DEF OnlyFutureLowPriorityShortage, DueWithin
    <3>2. t.needs[n].due \in Nat
      BY <1>2
    <3> QED  BY <1>5, <3>1, <3>2
  <2> HIDE DEF Fine
  <2> QED  BY <2>1, <2>2
<1>14. ASSUME scope.projectNcrs = 0, \A l \in scope.lines : LineBlockers(l) = {}
       PROVE  ~ReportedOpen(t, {0}) /\ \A n \in N : Fine(n)
  <2>1. ~ReportedOpen(t, {0})
    BY <1>1, <1>4, <1>14
  <2>2. ASSUME NEW n \in N PROVE Fine(n)
    <3>1. LineBlockers(line(n)) = {}
      BY <1>11, <1>14
    <3>2. line(n).blocker = "NONE" /\ ~(line(n).openNcrs > 0) /\ ~Late(line(n))
      BY <3>1, Zenon DEF LineBlockers
    <3> QED  BY <1>5, <3>2
  <2> HIDE DEF Fine
  <2> QED  BY <2>1, <2>2
<1>15. status \in {"GREEN", "COMPLETE"} =>
         /\ ~ReportedOpen(t, Touching(t) \cup {0})
         /\ \A n \in N : /\ ~SupplierLate(t, n)
                         /\ ShortOf(t, n) => t.needs[n].criticality = "LOW"
                                             /\ t.needs[n].due - date > 30
  <2>1. SUFFICES ASSUME status \in {"GREEN", "COMPLETE"}
                 PROVE  ~ReportedOpen(t, {0}) /\ \A n \in N : Fine(n)
    BY <1>8
  <2> HIDE DEF Fine
  <2> QED  BY <1>10, <1>12, <1>13, <1>14, <2>1
<1>16. status = "COMPLETE" => N # {} /\ CertifiedStock(t) >= RequiredStock(t)
  <2>1. SUFFICES ASSUME status = "COMPLETE"
                 PROVE  N # {} /\ CertifiedStock(t) >= RequiredStock(t)
    OBVIOUS
  <2>2. N # {}
    BY <1>1, <1>10, <2>1
  <2> DEFINE r == [n \in N |-> t.needs[n].required]
             c == [n \in N |-> cc(n)]
  <2>3. \A n \in N : r[n] \in Nat /\ c[n] \in Nat /\ r[n] <= c[n]
    BY <1>2, <1>6, <1>10, <1>12, <2>1
  <2>4. RequiredStock(t) = SumFunctionOnSet(r, N) /\ SumFunctionOnSet(c, N) <= CertifiedStock(t)
    BY <1>6, <1>7
  <2> HIDE DEF r, c
  <2>5. SumFunctionOnSet(r, N) <= SumFunctionOnSet(c, N)
    BY <1>2, <2>3, SumAtMost
  <2>6. SumFunctionOnSet(r, N) \in Int /\ SumFunctionOnSet(c, N) \in Int
    BY <1>2, <2>3, SumType
  <2> QED  BY <1>9, <2>2, <2>4, <2>5, <2>6
<1>17. status # "RED" =>
         \A n \in N : t.needs[n].criticality = "CRITICAL" =>
           /\ ~SupplierLate(t, n) /\ ~ReportedOpen(t, LinesFor(t, n))
           /\ ShortOf(t, n) => t.needs[n].due > date
  <2>1. SUFFICES ASSUME status # "RED", NEW n \in N, t.needs[n].criticality = "CRITICAL"
                 PROVE  /\ ~SupplierLate(t, n) /\ ~ReportedOpen(t, LinesFor(t, n))
                        /\ ShortOf(t, n) => t.needs[n].due > date
    OBVIOUS
  <2>2. CASE AllComplete(scope)
    BY <1>12, <2>1, <2>2
  <2>3. CASE ~Gated(scope)
    <3>1. ~RedGate(line(n), date) /\ Critical(line(n))
      BY <1>1, <1>5, <1>11, <2>1, <2>3 DEF Gated, Critical
    <3>2. /\ ~(line(n).openNcrs > 0) /\ ~Late(line(n))
          /\ line(n).shortage > 0 => ~(line(n).due - date <= 0)
      BY <3>1, Zenon DEF RedGate, DueWithin
    <3>3. t.needs[n].due \in Nat
      BY <1>2
    <3> QED  BY <1>5, <3>2, <3>3
  <2> QED  BY <1>10, <2>1, <2>2, <2>3
<1> HIDE DEF Fine
<1>18. GoodNews(t, date, status)
  BY <1>15, <1>16, <1>17, Zenon DEF GoodNews, N
<1> QED  BY <1>18 DEF status, scope

\* Who is about to commit has read the rows there are, unless commands still
\* change them.
ReadsStand ==
  \A x \in Processes :
    process[x].at = "commit" /\ rows[process[x].project].tables \notin Changing
      => process[x].rows = rows[process[x].project]

\* A process that is about to commit was so before the step, with the same
\* rows of the same project.
Carried(x) ==
  /\ process[x].at = "commit" /\ process'[x].project = process[x].project
  /\ process'[x].rows = process[x].rows

\* Rows that no command changes stay as they are.
SettledRowsStay ==
  \A p \in Projects : rows'[p].tables \notin Changing => rows'[p] = rows[p]

\* Rows have been read of what is in the tables.
LEMMA ReadOf ==
  ASSUME NEW t
  PROVE  /\ Read(t).tables = t
         /\ ~Read(t).refused => ~Refuses(t) /\ Read(t).source = Load(t)
<1>1. CASE Refuses(t)
  BY <1>1 DEF Read
<1>2. CASE ~Refuses(t)
  <2>1. Read(t) = Result(t, Load(t))
    BY <1>2 DEF Read
  <2>2. CASE \E line \in Load(t).lines : LineRejected(line)
    BY <2>1, <2>2 DEF Result
  <2>3. CASE ~ \E line \in Load(t).lines : LineRejected(line)
    BY <1>2, <2>1, <2>3 DEF Result
  <2> QED  BY <2>2, <2>3
<1> QED  BY <1>1, <1>2

\* Where the rows stay and nobody begins, what is read stands.
LEMMA CarriedReadsStand ==
  ASSUME Orderly, ReadsStand, SettledRowsStay,
         \A x \in Processes : process'[x].at = "commit" => Carried(x)
  PROVE  ReadsStand'
<1>1. SUFFICES ASSUME NEW x \in Processes, process'[x].at = "commit",
                      rows'[process'[x].project].tables \notin Changing
               PROVE  process'[x].rows = rows'[process'[x].project]
  BY DEF ReadsStand
<1>2. /\ process[x].at = "commit" /\ process'[x].project = process[x].project
      /\ process'[x].rows = process[x].rows
  BY <1>1 DEF Carried
<1>3. process[x].project \in Projects
  BY <1>2 DEF Orderly, Owned
<1>4. rows'[process[x].project] = rows[process[x].project]
  BY <1>1, <1>2, <1>3 DEF SettledRowsStay
<1> QED  BY <1>1, <1>2, <1>4 DEF ReadsStand

\* A process that is sent elsewhere carries nothing on; the others do.
LEMMA OneLeaves ==
  ASSUME Orderly, NEW x \in Processes, NEW r, r.at # "commit",
         process' = [process EXCEPT ![x] = r]
  PROVE  \A y \in Processes : process'[y].at = "commit" => Carried(y)
<1>1. process \in [Processes -> ProcessRows]
  BY DEF Orderly, ReadinessTyped
<1>2. process'[x] = r /\ \A y \in Processes : y # x => process'[y] = process[y]
  BY <1>1
<1>3. ASSUME NEW y \in Processes, process'[y].at = "commit" PROVE Carried(y)
  <2>1. y # x
    BY <1>2, <1>3
  <2>2. process'[y] = process[y]
    BY <1>2, <2>1
  <2> QED  BY <1>3, <2>2 DEF Carried
<1> QED  BY <1>3

\* A command leaves rows that commands may change.
LEMMA OnlyChangingChange ==
  ASSUME Orderly, NEW p \in Projects, NEW tables \in Changing,
         rows' = [rows EXCEPT ![p] = Read(tables)]
  PROVE  SettledRowsStay
<1>1. \E n \in Nat : rows \in [1..n -> ReadRows]
  BY DEF Orderly, ReadinessTyped
<1>2. /\ rows'[p] = Read(tables) /\ \A q \in Projects : q # p => rows'[q] = rows[q]
  BY <1>1 DEF Projects
<1>3. rows'[p].tables \in Changing
  BY <1>2, ReadOf
<1> QED  BY <1>2, <1>3 DEF SettledRowsStay

\* A step of a recalculation.
LEMMA RecalculateReadsStand ==
  ASSUME ReadinessInv, ReadsStand, NEW x \in Processes, Recalculate(x)
  PROVE  ReadsStand'
<1>1. Orderly /\ ReadinessTyped /\ process \in [Processes -> ProcessRows]
  BY DEF ReadinessInv, Orderly, ReadinessTyped
<1>2. SettledRowsStay
  <2>1. UNCHANGED rows
    BY DEF Recalculate, Begin, Skip, WriteBatch, Conflict, Throw
  <2> QED  BY <2>1 DEF SettledRowsStay
<1>3. CASE Begin(x)
  <2> DEFINE old == process[x]
             new == [at |-> "commit", project |-> old.project, attempts |-> old.attempts,
                     tries |-> old.tries + 1, date |-> old.date, rows |-> rows[old.project],
                     known |-> Len(batches[old.project]), mine |-> Held(x), passed |-> FALSE]
  <2>1. process' = [process EXCEPT ![x] = new] /\ UNCHANGED rows
    BY <1>3 DEF Begin
  <2>2. new.project = process[x].project /\ new.rows = rows[process[x].project]
    OBVIOUS
  <2> HIDE DEF new
  <2>3. process'[x] = new /\ \A y \in Processes : y # x => process'[y] = process[y]
    BY <1>1, <2>1
  <2>4. ASSUME NEW y \in Processes, process'[y].at = "commit",
               rows'[process'[y].project].tables \notin Changing
        PROVE  process'[y].rows = rows'[process'[y].project]
    <3>1. CASE y = x
      BY <2>1, <2>2, <2>3, <3>1
    <3>2. CASE y # x
      <4>1. process'[y] = process[y]
        BY <2>3, <3>2
      <4> QED  BY <2>1, <2>4, <4>1 DEF ReadsStand
    <3> QED  BY <3>1, <3>2
  <2> QED  BY <2>4 DEF ReadsStand
<1>4. CASE Skip(x)
  <2>1. ASSUME NEW y \in Processes, process'[y].at = "commit" PROVE Carried(y)
    <3>1. PICK p \in Projects : p = process[x].project
      BY <1>1, <1>4, AnswersItsOwn DEF Skip
    <3>2. y # x
      <4>1. process'[x] = After(x)
        BY <1>1, <1>4, <3>1, SkipTells
      <4>2. After(x).at # "commit"
        BY <1>1, GoesAfter
      <4> QED  BY <2>1, <4>1, <4>2
    <3>3. /\ process'[y].at = process[y].at /\ process'[y].project = process[y].project
          /\ process'[y].rows = process[y].rows
      BY <1>1, <1>4, <3>1, <3>2, SkipTells
    <3> QED  BY <2>1, <3>3 DEF Carried
  <2> QED  BY <1>1, <1>2, <2>1, CarriedReadsStand
<1> DEFINE Leaves(r) == r.at # "commit" /\ process' = [process EXCEPT ![x] = r]
<1>5. CASE WriteBatch(x) \/ Conflict(x) \/ Throw(x)
  <2>1. /\ After(x).at # "commit" /\ AfterError(x).at # "commit"
        /\ [process[x] EXCEPT !.at = "begin"].at # "commit"
    <3>1. After(x).at # "commit"
      BY <1>1, GoesAfter
    <3>2. AfterError(x).at # "commit"
      BY <1>1, GoesAfterError
    <3>3. [process[x] EXCEPT !.at = "begin"].at # "commit"
      <4>1. process[x] \in ProcessRows
        BY <1>1
      <4> QED  BY <4>1 DEF ProcessRows
    <3> QED  BY <3>1, <3>2, <3>3
  <2>2. CASE WriteBatch(x)
    <3>1. process' = [process EXCEPT ![x] = After(x)]
      BY <2>2 DEF WriteBatch
    <3>2. \A y \in Processes : process'[y].at = "commit" => Carried(y)
      BY <1>1, <2>1, <3>1, OneLeaves
    <3> QED  BY <1>1, <1>2, <3>2, CarriedReadsStand
  <2>3. CASE Throw(x)
    <3>1. process' = [process EXCEPT ![x] = AfterError(x)]
      BY <2>3 DEF Throw
    <3>2. \A y \in Processes : process'[y].at = "commit" => Carried(y)
      BY <1>1, <2>1, <3>1, OneLeaves
    <3> QED  BY <1>1, <1>2, <3>2, CarriedReadsStand
  <2>4. CASE Conflict(x)
    <3> DEFINE r == IF process[x].tries < MaxTries THEN [process[x] EXCEPT !.at = "begin"]
                    ELSE AfterError(x)
    <3>1. process' = [process EXCEPT ![x] = r]
      BY <2>4 DEF Conflict
    <3>2. r.at # "commit"
      BY <2>1
    <3> HIDE DEF r
    <3>3. \A y \in Processes : process'[y].at = "commit" => Carried(y)
      BY <1>1, <3>1, <3>2, OneLeaves
    <3> QED  BY <1>1, <1>2, <3>3, CarriedReadsStand
  <2> QED  BY <1>5, <2>2, <2>3, <2>4
<1> QED  BY <1>3, <1>4, <1>5 DEF Recalculate

\* Every step leaves what is read standing.
LEMMA ReadsStandNext ==
  ASSUME ReadinessInv, ReadsStand, [ReadinessNext]_readinessVars
  PROVE  ReadsStand'
<1>1. /\ Orderly /\ ReadinessTyped /\ process \in [Processes -> ProcessRows]
      /\ Sweep \in Processes /\ Loops \subseteq Processes
  BY DEF ReadinessInv, Orderly, ReadinessTyped, Processes
<1>2. UNCHANGED rows => SettledRowsStay
  BY DEF SettledRowsStay
<1>3. ASSUME UNCHANGED process
      PROVE  \A x \in Processes : process'[x].at = "commit" => Carried(x)
  BY <1>3 DEF Carried
<1>4. ASSUME NEW x \in Processes, NEW r, r.at # "commit", UNCHANGED rows,
             process' = [process EXCEPT ![x] = r]
      PROVE  ReadsStand'
  <2>1. \A y \in Processes : process'[y].at = "commit" => Carried(y)
    BY <1>1, <1>4, OneLeaves
  <2> QED  BY <1>1, <1>2, <1>4, <2>1, CarriedReadsStand
<1>5. Resting.at # "commit" /\ \A p, attempts : Starting(p, attempts).at # "commit"
  BY DEF Resting, Starting
<1>6. CASE Others
  <2>1. ASSUME NEW p \in Projects, NEW tables \in Changing,
               ChangeRows(p, tables) \/ Rename(p, tables)
        PROVE  ReadsStand'
    <3>1. rows' = [rows EXCEPT ![p] = Read(tables)] /\ UNCHANGED process
      BY <2>1 DEF ChangeRows, Rename
    <3>2. SettledRowsStay
      BY <1>1, <3>1, OnlyChangingChange
    <3> QED  BY <1>1, <1>3, <3>1, <3>2, CarriedReadsStand
  <2>2. CASE NextDay
    <3>1. UNCHANGED <<rows, process>>
      BY <2>2 DEF NextDay
    <3> QED  BY <1>1, <1>2, <1>3, <3>1, CarriedReadsStand
  <2> QED  BY <1>6, <2>1, <2>2 DEF Others
<1>7. CASE Faults
  <2>1. ASSUME NEW w \in Loops, Oversleep(w) PROVE ReadsStand'
    <3>1. UNCHANGED <<rows, process>>
      BY <2>1 DEF Oversleep
    <3> QED  BY <1>1, <1>2, <1>3, <3>1, CarriedReadsStand
  <2>2. ASSUME NEW w \in Loops, Die(w) PROVE ReadsStand'
    <3>1. UNCHANGED rows /\ process' = [process EXCEPT ![w] = Resting] /\ w \in Processes
      BY <1>1, <2>2 DEF Die
    <3> QED  BY <1>4, <1>5, <3>1
  <2>3. ASSUME NEW x \in Processes, StatementFails(x) PROVE ReadsStand'
    <3>1. UNCHANGED rows /\ process' = [process EXCEPT ![x] = AfterError(x)]
      BY <2>3 DEF StatementFails
    <3>2. AfterError(x).at # "commit"
      BY <1>1, GoesAfterError
    <3> QED  BY <1>4, <3>1, <3>2
  <2> QED  BY <1>7, <2>1, <2>2, <2>3 DEF Faults
<1>8. CASE SweepStep
  <2>1. CASE StartSweep
    <3>1. UNCHANGED rows /\ process' = [process EXCEPT ![Sweep] = SweepFrom(1)]
      BY <2>1 DEF StartSweep
    <3>2. SweepFrom(1).at # "commit"
      BY <1>1, SweepGoesOn
    <3> QED  BY <1>1, <1>4, <3>1, <3>2
  <2>2. CASE Recalculate(Sweep)
    BY <1>1, <2>2, RecalculateReadsStand
  <2> QED  BY <1>8, <2>1, <2>2 DEF SweepStep
<1>9. ASSUME NEW w \in Loops, LoopStep(w) PROVE ReadsStand'
  <2>1. CASE Claim(w)
    <3>1. PICK candidate \in Candidates :
            process' = [process EXCEPT ![w] = Starting(outbox[candidate].project,
                                                       outbox[candidate].attempts + 1)]
      BY <2>1 DEF Claim
    <3> DEFINE r == Starting(outbox[candidate].project, outbox[candidate].attempts + 1)
    <3>2. r.at # "commit" /\ UNCHANGED rows /\ w \in Processes
      BY <1>1, <1>5, <2>1 DEF Claim
    <3> HIDE DEF r
    <3> QED  BY <1>4, <3>1, <3>2 DEF r
  <2>2. CASE Recalculate(w)
    BY <1>1, <2>2, RecalculateReadsStand
  <2>3. CASE Fail(w)
    <3>1. UNCHANGED rows /\ process' = [process EXCEPT ![w] = Resting] /\ w \in Processes
      BY <1>1, <2>3 DEF Fail
    <3> QED  BY <1>4, <1>5, <3>1
  <2> QED  BY <1>9, <2>1, <2>2, <2>3 DEF LoopStep
<1>10. CASE UNCHANGED readinessVars
  <2>1. UNCHANGED <<rows, process>>
    BY <1>10 DEF readinessVars
  <2> QED  BY <1>1, <1>2, <1>3, <2>1, CarriedReadsStand
<1> QED  BY <1>6, <1>7, <1>8, <1>9, <1>10 DEF ReadinessNext

\* What a batch says of settled rows is true.
LEMMA WrittenGoodNews ==
  ASSUME ReadinessInv, ReadsStand, NEW x \in Processes, WriteBatch(x), NEW p \in Projects,
         batches'[p] # batches[p], rows[p].tables \notin Changing
  PROVE  GoodNews(rows[p].tables, batches'[p][Len(batches'[p])].date,
                  batches'[p][Len(batches'[p])].project.status)
<1>1. /\ process[x].at = "commit" /\ ~process[x].rows.refused
      /\ batches' = [batches EXCEPT ![process[x].project] =
           Append(@, Batch(process[x].rows.source, process[x].date))]
  BY DEF WriteBatch
<1>2. /\ process[x] \in ProcessRows /\ DOMAIN batches = Projects
      /\ process[x].project \in Projects
      /\ \E n \in Nat : rows \in [1..n -> ReadRows]
  BY <1>1 DEF ReadinessInv, ReadinessTyped, Owned
<1>3. p = process[x].project
  BY <1>1, <1>2
<1>4. process[x].rows = rows[p]
  BY <1>1, <1>3 DEF ReadsStand
<1>5. PICK t \in RowSets : rows[p] = Read(t)
  <2>1. rows[p] \in ReadRows
    BY <1>2 DEF Projects
  <2> QED  BY <2>1 DEF ReadRows
<1>6. /\ rows[p].tables = t /\ ~Refuses(t) /\ rows[p].source = Load(t)
  BY <1>1, <1>4, <1>5, ReadOf
<1>7. RowsTyped(t)
  BY <1>5, ReadinessAssumption DEF RowSets
<1> DEFINE date == process[x].date
           new == Batch(Load(t), date)
<1>8. batches'[p][Len(batches'[p])] = new
  <2> HIDE DEF new
  <2>1. \E S : batches[p] \in Seq(S)
    BY DEF ReadinessInv, ReadinessTyped
  <2>2. batches'[p] = Append(batches[p], new)
    BY <1>1, <1>2, <1>3, <1>4, <1>6 DEF new
  <2> QED  BY <2>1, <2>2
<1>9. date \in Nat
  BY <1>2 DEF ProcessRows
<1>10. /\ new.date = date
       /\ new.project.status = CalculateReadiness(ProjectScope(Load(t), date)).status
  BY DEF Batch
<1> HIDE DEF date, new
<1>11. GoodNews(t, date, CalculateReadiness(ProjectScope(Load(t), date)).status)
  BY <1>6, <1>7, <1>9, CalculatedGoodNews
<1> QED  BY <1>6, <1>8, <1>10, <1>11

\* Whatever the rows of a project, and whoever calculates it when: what a new
\* batch promises is true of the rows, once commands have left them alone.
THEOREM ReadinessTellsTheTruth == ReadinessSpec => GoodNewsIsTrue
<1> DEFINE Truth == \A p \in Projects :
             batches'[p] # batches[p] /\ rows[p].tables \notin Changing =>
               LET latest == batches'[p][Len(batches'[p])]
               IN GoodNews(rows[p].tables, latest.date, latest.project.status)
<1>1. ReadinessInit => ReadsStand
  <2>1. SUFFICES ASSUME ReadinessInit PROVE ReadsStand
    OBVIOUS
  <2>2. \A x \in Processes : process[x].at # "commit"
    BY <2>1, RestingIsRow DEF ReadinessInit
  <2> QED  BY <2>2 DEF ReadsStand
<1>2. ReadinessInv /\ ReadsStand /\ [ReadinessNext]_readinessVars => ReadsStand'
  BY ReadsStandNext
<1>3. ReadinessInv /\ ReadsStand /\ [ReadinessNext]_readinessVars => [Truth]_readinessVars
  <2>1. SUFFICES ASSUME ReadinessInv, ReadsStand, ReadinessNext, NEW p \in Projects,
                        batches'[p] # batches[p], rows[p].tables \notin Changing
                 PROVE  GoodNews(rows[p].tables, batches'[p][Len(batches'[p])].date,
                                 batches'[p][Len(batches'[p])].project.status)
    OBVIOUS
  <2>2. PICK x \in Processes : WriteBatch(x)
    <3>1. batches' # batches
      BY <2>1
    <3> QED  BY <2>1, <3>1
          DEF ReadinessNext, Others, ChangeRows, Rename, NextDay, Faults, Oversleep,
              Die, StatementFails, SweepStep, StartSweep, LoopStep, Claim, Recalculate, Begin,
              Skip, Conflict, Throw, Fail, Processes
  <2> QED  BY <2>1, <2>2, WrittenGoodNews
<1>4. ReadinessSpec => [][Truth]_readinessVars
  <2> HIDE DEF Truth
  <2> QED  BY <1>1, <1>2, <1>3, ReadinessInvariant, PTL DEF ReadinessSpec
<1> QED  BY <1>4 DEF GoodNewsIsTrue

=============================================================================
