----------------------------- MODULE MCReadiness -----------------------------
(***************************************************************************)
(* Finite instance of ReadinessWorker for TLC.  Two needs share a supply   *)
(* line: need 1 takes two units and is served last, need 2 takes one.      *)
(* Many rows are only swept, once each; a few also change.                 *)
(***************************************************************************)
EXTENDS ReadinessWorker, TLC

CONSTANTS ToNew, ToChange   \* which rows a cfg wants: BOOLEAN

Lot(quantity, accepted, certified, rejected, quarantined) ==
  [quantity |-> quantity, adjusted |-> 0, accepted |-> accepted, certified |-> certified,
   rejected |-> rejected, quarantined |-> quarantined]

Good == Lot(3, 3, 3, 0, 0)

\* Corrected to zero.
Emptied == [Lot(1, 0, 0, 0, 0) EXCEPT !.adjusted = -1]

Receipts ==
  {<<Good>>, <<Lot(3, 3, 2, 0, 0)>>, <<Lot(3, 0, 0, 0, 0)>>, <<Lot(3, 2, 2, 1, 0)>>,
   <<Lot(1, 1, 1, 0, 0), Lot(2, 1, 1, 0, 1)>>, <<Lot(2, 2, 2, 0, 0), Emptied>>}

Order(status, commitments, shipped, lots) ==
  [allocations |-> <<[need |-> 1, quantity |-> 2, date |-> 9],
                     [need |-> 2, quantity |-> 1, date |-> 5]>>,
   commitments |-> commitments, current |-> TRUE, status |-> status,
   shipments |-> IF shipped = 0 THEN <<>> ELSE <<[quantity |-> shipped, status |-> "ARRIVED"]>>,
   lots |-> lots]

\* The second revision of the supplier's commitments counts.
InTime == {[revision |-> 1, date |-> 50], [revision |-> 2, date |-> 1]}
TooLate == {[revision |-> 1, date |-> 1], [revision |-> 2, date |-> 50]}

Acknowledged(lots) == Order("ACKNOWLEDGED", InTime, 3, lots)

Supplies ==
  {<<>>, <<Order("DRAFT", {}, 0, <<>>)>>, <<Order("SENT", {}, 0, <<>>)>>,
   <<Order("ACKNOWLEDGED", TooLate, 2, <<>>)>>}
    \cup {<<Acknowledged(lots)>> : lots \in Receipts}
    \cup {<<Order("ACKNOWLEDGED", TooLate, 3, <<Good>>)>>}

Allocated(first, second) ==
  <<[need |-> 1, quantity |-> first, status |-> "ACTIVE"],
    [need |-> 2, quantity |-> second, status |-> "ACTIVE"],
    [need |-> 2, quantity |-> 1, status |-> "RELEASED"]>>

Need(required, criticality, package, due) ==
  [required |-> required, criticality |-> criticality, item |-> "steel",
   workPackage |-> package, due |-> due]

Needs(criticalities, due) ==
  <<Need(2, criticalities[1], "hull", due[1]), Need(1, criticalities[2], "NONE", due[2])>>

Requisitioned ==
  <<[need |-> 1, quantity |-> 2, status |-> "APPROVED"],
    [need |-> 2, quantity |-> 1, status |-> "DRAFT"]>>

Ncrs == {<<>>, <<[about |-> 1, status |-> "ISSUED"]>>, <<[about |-> 1, status |-> "CLOSED"]>>,
         <<[about |-> 0, status |-> "SUPPLIER_RESPONDED"]>>}

Called(name) == [item \in {"steel"} |-> name]

RowSet(supply, allocations, criticalities, due, ncrs, certificates) ==
  [needs |-> Needs(criticalities, due), requisitions |-> Requisitioned, supply |-> supply,
   allocations |-> allocations, certificates |-> certificates, names |-> Called("plate"),
   ncrs |-> ncrs]

Accepting(supply) == Len(supply) = 1 /\ Len(supply[1].lots) > 0

Swept ==
  {RowSet(supply, allocations, criticalities, due, ncrs, certificates) :
     supply \in Supplies,
     allocations \in {Allocated(0, 0), Allocated(2, 0), Allocated(2, 1)},
     criticalities \in {<<"CRITICAL", "LOW">>, <<"HIGH", "CRITICAL">>, <<"LOW", "NORMAL">>},
     due \in {<<1, 40>>, <<20, 20>>, <<40, 0>>},
     ncrs \in Ncrs,
     certificates \in {{}, {"steel"}}}

\* A certificate is asked for, or no longer; the item gets another name; the
\* receipt is corrected away; the released revision becomes obsolete.
Waiting == RowSet(<<Acknowledged(<<Lot(3, 0, 0, 0, 0)>>)>>, Allocated(0, 0),
                  <<"CRITICAL", "LOW">>, <<9, 9>>, <<>>, {})
Certified == [Waiting EXCEPT !.certificates = {"steel"}]
Renamed == [Waiting EXCEPT !.names = Called("sheet")]
Stopped == [Waiting EXCEPT !.supply = <<Acknowledged(<<Emptied>>)>>]

Withdrawn == [Waiting EXCEPT !.needs = <<>>]

SomeChanging == {Waiting, Certified, Renamed, Stopped, Withdrawn}

\* Only rows that could be: what is allocated has been accepted.
SomeSwept ==
  {s \in Swept : s.allocations = Allocated(0, 0) \/ Accepting(s.supply)}

\* Before a project that changes: the sweep never gets past it.
Blocking == [Stopped EXCEPT !.requisitions = <<>>]

SomeInitial ==
  (IF ToNew THEN {<<r>> : r \in SomeSwept} ELSE {})
    \cup (IF ToChange THEN {<<Waiting>>, <<Blocking, Waiting>>} ELSE {})

=============================================================================
