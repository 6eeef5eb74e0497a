------------------------------ MODULE Policies ------------------------------
(***************************************************************************)
(* The authorization policies of the API.  A policy method is the set of   *)
(* demands it makes on the principal of a request, all of which must be    *)
(* met; Meets says when one is.  A principal is the set of the user's      *)
(* memberships as they were read at authentication:                        *)
(* [id, organization, type, roles].  A project is the record               *)
(* [organization, assigned], where assigned is the set of memberships with *)
(* an active assignment to it.                                             *)
(*                                                                         *)
(* Two demands may be met by two memberships of one principal: the policies *)
(* look for the permission and for the project separately.                 *)
(***************************************************************************)
-----------------------------------------------------------------------------
(***************************************************************************)
(* The roles the first seed installs and what each of them may do.  The    *)
(* seed owns this matrix: it removes every permission of a role that is    *)
(* not listed here and adds those that are missing, so a database it ran   *)
(* on holds exactly PermissionsOf.                                         *)
(***************************************************************************)
\* What every internal role starts from: the records of the material flow.
Viewing == {"project.read", "item.read", "bom.read", "readiness.read",
            "report.read", "document.read", "requisition.read",
            "purchase-order.read", "shipment.read", "receiving.read",
            "inspection.read", "ncr.read", "allocation.read"}

Administration == {"administration.access", "organization.read",
                   "organization.write", "user.read", "membership.read",
                   "membership.write", "role.read", "role.assign",
                   "audit.read"}

InternalWork ==
    {"project.write", "project.membership.manage", "item.write",
     "item.export", "bom.import", "bom.write", "bom.review", "bom.release",
     "document.upload", "document.review", "document.approve",
     "report.export", "scorecard.read",
     "requisition.write", "requisition.submit", "requisition.approve",
     "requisition.cancel", "requisition.override",
     "purchase-order.write", "purchase-order.send", "purchase-order.cancel",
     "purchase-order.override", "purchase-order.exception.read",
     "shipment.arrive", "receiving.write", "receiving.post",
     "receiving.correct", "inspection.configure", "inspection.create",
     "inspection.write", "inspection.finalize",
     "inspection.conditional-accept", "ncr.create", "ncr.issue", "ncr.close",
     "allocation.create", "allocation.release", "allocation.consume",
     "allocation.conditional-use"}

SupplierWork ==
    {"supplier.organization.read", "supplier.asn.read", "supplier.asn.write",
     "supplier.asn.transition", "supplier.commitment.write",
     "supplier.purchase-order.read", "supplier.purchase-order.acknowledge",
     "supplier.document.read", "supplier.document.upload",
     "supplier.ncr.read", "supplier.ncr.respond", "supplier.scorecard.read",
     "supplier.scorecard.export"}

SupplierAdministration ==
    {"supplier.membership.read", "supplier.membership.write"}

Permissions == Viewing \cup Administration \cup InternalWork
                 \cup SupplierWork \cup SupplierAdministration

RoleScope ==
    [role \in {"SYSTEM_ADMIN", "MECO_MANAGEMENT", "PROJECT_MANAGER",
               "ENGINEERING", "PPIC", "PURCHASING", "WAREHOUSE", "QA_QC",
               "PRODUCTION", "FINANCE_READONLY", "AUDITOR_READONLY",
               "SUPPLIER_ADMIN", "SUPPLIER_USER", "CUSTOMER_VIEWER"} |->
        IF role = "CUSTOMER_VIEWER" THEN "ANY"
        ELSE IF role \in {"SUPPLIER_ADMIN", "SUPPLIER_USER"} THEN "SUPPLIER"
        ELSE "INTERNAL"]

RoleCodes == DOMAIN RoleScope

Reporting == {"report.export", "scorecard.read"}

Quality == {"ncr.create", "ncr.issue", "ncr.close"}

OfficeRoles ==
    [SYSTEM_ADMIN |-> Permissions,
     MECO_MANAGEMENT |->
        Viewing \cup Reporting
          \cup {"organization.read", "user.read", "audit.read",
                "item.export", "purchase-order.exception.read"},
     PROJECT_MANAGER |->
        Viewing \cup (InternalWork \ {"item.write", "item.export",
                "inspection.configure", "inspection.conditional-accept",
                "allocation.conditional-use"}),
     ENGINEERING |->
        (Viewing \ {"receiving.read", "inspection.read"})
          \cup {"project.write", "item.write", "item.export", "bom.import",
                "bom.write", "bom.review", "document.upload",
                "document.review"},
     PPIC |->
        (Viewing \ {"inspection.read"})
          \cup {"project.write", "item.export", "bom.review",
                "document.review", "purchase-order.exception.read",
                "allocation.create", "allocation.release"},
     PURCHASING |->
        (Viewing \ {"receiving.read"}) \cup Reporting \cup Quality
          \cup {"project.write", "item.export", "document.upload",
                "requisition.write", "requisition.submit",
                "requisition.cancel", "purchase-order.write",
                "purchase-order.send", "purchase-order.cancel",
                "purchase-order.exception.read"}]

SiteAndOutsideRoles ==
    [WAREHOUSE |->
        (Viewing \ {"requisition.read", "purchase-order.read"})
          \cup {"project.write", "document.upload", "shipment.arrive",
                "receiving.write", "receiving.post", "receiving.correct",
                "inspection.create", "allocation.create",
                "allocation.release"},
     QA_QC |->
        Viewing \cup Reporting \cup Quality
          \cup {"project.write", "item.export", "document.upload",
                "document.review", "document.approve",
                "purchase-order.exception.read", "inspection.configure",
                "inspection.create", "inspection.write",
                "inspection.finalize", "inspection.conditional-accept",
                "allocation.create", "allocation.release",
                "allocation.consume", "allocation.conditional-use"},
     PRODUCTION |->
        (Viewing \ {"requisition.read", "purchase-order.read"})
          \cup {"allocation.consume"},
     FINANCE_READONLY |-> Viewing \cup Reporting,
     AUDITOR_READONLY |->
        Viewing \cup Reporting \cup {"audit.read", "item.export"},
     SUPPLIER_ADMIN |->
        SupplierWork \cup SupplierAdministration \cup {"project.read"},
     SUPPLIER_USER |-> SupplierWork \cup {"project.read"},
     CUSTOMER_VIEWER |-> {}]

\* Two tables as one.
Both(f, g) ==
    [k \in DOMAIN f \cup DOMAIN g |-> IF k \in DOMAIN f THEN f[k] ELSE g[k]]

PermissionsOf == Both(OfficeRoles, SiteAndOutsideRoles)

\* A membership holds what its roles hold together.
Granted(roles) == UNION {PermissionsOf[role] : role \in roles}

\* Slip: the scope of a role is not compared.
AssignableAnywhere(roles, orgType) == TRUE

\* Only a role of the organization's own kind, or of any kind, can be given.
Assignable(roles, orgType) ==
    \A role \in roles : RoleScope[role] \in {"ANY", orgType}

-----------------------------------------------------------------------------
(***************************************************************************)
(* Demands, and what meets them.                                           *)
(***************************************************************************)
Demand(scope, permissions) == [scope |-> scope, permissions |-> permissions]

AnyWith(permission) == {Demand("ANY", {permission})}
InternalWith(permission) == {Demand("INTERNAL", {permission})}
SupplierWith(permission) == {Demand("SUPPLIER", {permission})}

\* Some membership of the given kinds holds all the permissions at once.
Holds(principal, types, permissions) ==
    \E m \in principal : /\ m.type \in types
                         /\ permissions \subseteq Granted(m.roles)

SystemAdministrator(m) == m.type = "INTERNAL" /\ "SYSTEM_ADMIN" \in m.roles

\* hasPermission, requirePermission and requireInternalAdministration of the
\* shared policy; the organization is the one the command names.
HasPermission(principal, permission, organization) ==
    \E m \in principal :
        /\ m.organization = organization \/ SystemAdministrator(m)
        /\ permission \in Granted(m.roles)

CanAccessProject(principal, project) ==
    \E m \in principal :
        /\ "project.read" \in Granted(m.roles)
        /\ \/ SystemAdministrator(m)
           \/ /\ m.type = "INTERNAL" /\ "MECO_MANAGEMENT" \in m.roles
              /\ m.organization = project.organization
           \/ m.id \in project.assigned

CanWriteProject(principal, project) ==
    \E m \in principal :
        /\ "project.write" \in Granted(m.roles)
        /\ SystemAdministrator(m) \/ m.id \in project.assigned

CanUploadDocument(principal, project) ==
    \/ /\ Holds(principal, {"INTERNAL"}, {"document.upload"})
       /\ Holds(principal, {"INTERNAL", "SUPPLIER"}, {"project.write"})
       /\ CanWriteProject(principal, project)
    \/ /\ Holds(principal, {"SUPPLIER"}, {"supplier.document.upload"})
       /\ Holds(principal, {"INTERNAL", "SUPPLIER"}, {"project.read"})
       /\ CanAccessProject(principal, project)

Meets(principal, demand, project) ==
    LET perms == demand.permissions
    IN CASE demand.scope = "ANY" ->
                Holds(principal, {"INTERNAL", "SUPPLIER"}, perms)
         [] demand.scope \in {"INTERNAL", "SUPPLIER"} ->
                Holds(principal, {demand.scope}, perms)
         [] demand.scope = "ORGANIZATION" ->
                \A p \in perms :
                    HasPermission(principal, p, project.organization)
         [] demand.scope = "OWN_INTERNAL" ->
                \E m \in principal :
                    /\ m.type = "INTERNAL"
                    /\ m.organization = project.organization
                    /\ perms \subseteq Granted(m.roles)
         [] demand.scope = "DOCUMENT_READER" ->
                \/ Holds(principal, {"INTERNAL"}, {"document.read"})
                \/ Holds(principal, {"SUPPLIER"}, {"supplier.document.read"})
         [] demand.scope = "READ" -> CanAccessProject(principal, project)
         [] demand.scope = "WRITE" -> CanWriteProject(principal, project)
         [] demand.scope = "UPLOAD" -> CanUploadDocument(principal, project)

Permits(policy, principal, project) ==
    \A demand \in policy : Meets(principal, demand, project)

ProjectAuthorization ==
    [requireList |-> AnyWith("project.read"),
     requireCategoryWrite |-> InternalWith("project.write"),
     requireCreate |-> {Demand("OWN_INTERNAL", {"project.write"})},
     requireProjectRead |->
        AnyWith("project.read") \cup {Demand("READ", {})},
     requireProjectWrite |->
        AnyWith("project.write") \cup {Demand("WRITE", {})},
     requireMemberManagement |->
        AnyWith("project.membership.manage") \cup {Demand("WRITE", {})}]

ProjectRead(permission) ==
    InternalWith(permission) \cup ProjectAuthorization.requireProjectRead

ProjectWrite(permission) ==
    InternalWith(permission) \cup ProjectAuthorization.requireProjectWrite

\* requireInternalAdministration, then requirePermission.
AdministrationWith(permission) ==
    InternalWith("administration.access") \cup AnyWith(permission)

OrganizationAdministrationWith(permission) ==
    InternalWith("administration.access")
      \cup {Demand("ORGANIZATION", {permission})}

AllocationAuthorization(permission, write) ==
    IF write THEN ProjectWrite(permission) ELSE ProjectRead(permission)

InspectionAuthorization(permission, write) ==
    IF write THEN ProjectWrite(permission) ELSE ProjectRead(permission)

NcrAuthorization(permission, write) ==
    IF write THEN ProjectWrite(permission) ELSE ProjectRead(permission)

BomAuthorization ==
    [requireRead |-> ProjectRead("bom.read"),
     requireWrite |-> ProjectWrite("bom.write"),
     requireImport |-> ProjectWrite("bom.import"),
     requireReview |-> ProjectWrite("bom.review"),
     requireRelease |-> ProjectWrite("bom.release")]

ItemAuthorization ==
    [requireRead |-> InternalWith("item.read"),
     requireWrite |-> InternalWith("item.write"),
     requireExport |-> InternalWith("item.export")]

PurchaseOrderAuthorization ==
    [requireRead |-> ProjectRead("purchase-order.read"),
     requireWrite |-> ProjectWrite("purchase-order.write"),
     requireSend |-> ProjectWrite("purchase-order.send"),
     requireCancel |-> ProjectWrite("purchase-order.cancel"),
     requireExceptions |-> ProjectRead("purchase-order.exception.read")]

\* Slip: whoever may submit a requisition may approve it.
RequisitionAuthorizationLax ==
    [requireRead |-> ProjectRead("requisition.read"),
     requireWrite |-> ProjectWrite("requisition.write"),
     requireSubmit |-> ProjectWrite("requisition.submit"),
     requireApprove |-> ProjectWrite("requisition.submit"),
     requireCancel |-> ProjectWrite("requisition.cancel")]

RequisitionAuthorization ==
    [requireRead |-> ProjectRead("requisition.read"),
     requireWrite |-> ProjectWrite("requisition.write"),
     requireSubmit |-> ProjectWrite("requisition.submit"),
     requireApprove |-> ProjectWrite("requisition.approve"),
     requireCancel |-> ProjectWrite("requisition.cancel")]

ReceivingAuthorization ==
    [requireShipmentRead |-> ProjectRead("shipment.read"),
     requireArrival |-> ProjectWrite("shipment.arrive"),
     requireReceiptRead |-> ProjectRead("receiving.read"),
     requireReceiptWrite |-> ProjectWrite("receiving.write"),
     requireReceiptPost |-> ProjectWrite("receiving.post"),
     requireReceiptCorrection |-> ProjectWrite("receiving.correct")]

\* An uploader acts for one membership: internal ones need to write the
\* project, suppliers only to read it.
DocumentAuthorization ==
    [requireRead |-> {Demand("DOCUMENT_READER", {})}
                       \cup ProjectAuthorization.requireProjectRead,
     requireUpload |-> {Demand("UPLOAD", {})},
     requireReview |-> ProjectWrite("document.review"),
     requireApprove |-> ProjectWrite("document.approve")]

ReadinessAuthorization ==
    LET management == {Demand("INTERNAL", {"readiness.read", "project.read"})}
    IN [requireManagement |-> management,
        requireProject |->
            management \cup ProjectAuthorization.requireProjectRead]

ReportsAuthorization ==
    LET sources == {"project.read", "readiness.read", "bom.read"}
        suppliers == {"purchase-order.read", "shipment.read",
                      "inspection.read", "ncr.read"}
        internal(perms) == {Demand("INTERNAL", sources \cup perms)}
        own(permission) == {Demand("SUPPLIER", {permission, "project.read"})}
    IN [requireInternalReportRead |-> internal({"report.read"}),
        requireInternalReportExport |-> internal({"report.export"}),
        requireInternalScorecard |->
            internal({"report.read"})
              \cup internal({"scorecard.read"} \cup suppliers),
        requireInternalScorecardExport |->
            internal({"scorecard.read"})
              \cup internal({"report.export"} \cup suppliers),
        requireSupplierScorecard |-> own("supplier.scorecard.read"),
        requireSupplierScorecardExport |-> own("supplier.scorecard.export")]
=============================================================================
