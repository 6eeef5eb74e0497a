------------------------------ MODULE MCAccess ------------------------------
(***************************************************************************)
(* An administrator and another user, who works for MECO and for a         *)
(* supplier; two callbacks and two requests in flight.                      *)
(***************************************************************************)
EXTENDS Access, TLC

CONSTANTS admin, user, meco, alpha, adm, int, sup

MCTypeOf == meco :> "INTERNAL" @@ alpha :> "SUPPLIER"
MCUserOf == adm :> admin @@ int :> user @@ sup :> user
MCOrganizationOf == adm :> meco @@ int :> meco @@ sup :> alpha
MCInitialRoles == adm :> {"SYSTEM_ADMIN"} @@ int :> {} @@ sup :> {}
MCInterchangeable ==
    Permutations(Logins) \cup Permutations(Callbacks) \cup Permutations(Requests)
MCRoleChoices == {{role} : role \in RoleCodes} \cup {{"PURCHASING", "QA_QC"}}
=============================================================================
