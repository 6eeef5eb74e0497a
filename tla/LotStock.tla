------------------------------ MODULE LotStock ------------------------------
(***************************************************************************)
(* What MecoFlow promises about the stock of one inventory lot, whatever   *)
(* commands run concurrently: the lot is born awaiting inspection by one   *)
(* receipt, corrections move its quantity only until an inspection         *)
(* dispositions it, the disposition splits exactly the corrected quantity, *)
(* and then the lot is frozen.                                             *)
(*                                                                         *)
(* MaterialFlow (commands as atomic steps over the tables) and             *)
(* LotTransactions (the same commands as concurrent transactions that take *)
(* row locks) both implement this specification.                           *)
(***************************************************************************)
EXTENDS MaterialRules

CONSTANT Limit   \* the most that can be received into one lot

VARIABLES
  status,      \* LotStatuses
  effective,   \* original quantity plus every correction
  accepted, rejected, quarantined

vars == <<status, effective, accepted, rejected, quarantined>>

TypeOK ==
  /\ status \in LotStatuses
  /\ effective \in 0..Limit
  /\ accepted \in Nat
  /\ rejected \in Nat
  /\ quarantined \in Nat

Init ==
  /\ status = "NONE"
  /\ effective = 0
  /\ accepted = 0
  /\ rejected = 0
  /\ quarantined = 0

\* An original receipt is posted.
Receive ==
  /\ status = "NONE"
  /\ status' = "AWAITING_INSPECTION"
  /\ effective' \in 1..Limit
  /\ UNCHANGED <<accepted, rejected, quarantined>>

\* A correction of that receipt is posted.
Correct ==
  /\ status = "AWAITING_INSPECTION"
  /\ effective' \in 0..Limit
  /\ UNCHANGED <<status, accepted, rejected, quarantined>>

\* The inspection of the lot is finalized.
Dispose ==
  /\ status = "AWAITING_INSPECTION"
  /\ status' \in Dispositions
  /\ accepted' \in 0..effective
  /\ rejected' \in 0..effective
  /\ ValidDecision(effective, status', accepted', rejected')
  /\ quarantined' = Quarantined(effective, accepted', rejected')
  /\ UNCHANGED effective

Next == Receive \/ Correct \/ Dispose

Spec == Init /\ [][Next]_vars

-----------------------------------------------------------------------------
\* The three buckets of a dispositioned lot partition the quantity that was
\* received and corrected, and only an accepted lot has stock to allocate.
BucketsPartitionStock ==
  /\ status \in Dispositions => accepted + rejected + quarantined = effective
  /\ accepted > 0 => status \in AllocatableStatuses \cup {"QUARANTINED"}
  /\ status \notin Dispositions => accepted = 0 /\ rejected = 0 /\ quarantined = 0

\* A dispositioned lot never changes again: no correction, no second
\* finalization, no way back to the inspection queue.
DispositionIsFinal == [][status \notin Dispositions]_vars

=============================================================================
