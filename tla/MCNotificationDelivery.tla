----------------------- MODULE MCNotificationDelivery ------------------------
(***************************************************************************)
(* Instances of NotificationDelivery for TLC.                              *)
(***************************************************************************)
EXTENDS NotificationDelivery, TLC

Interchangeable == Permutations(Workers) \cup Permutations(Deliveries)

=============================================================================
