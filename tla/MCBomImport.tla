----------------------------- MODULE MCBomImport ------------------------------
(***************************************************************************)
(* Instances of BomImport for TLC.  Liveness is checked, so the workers    *)
(* are not made interchangeable.                                           *)
(***************************************************************************)
EXTENDS BomImport

=============================================================================
