------------------------------ MODULE Commands ------------------------------
(***************************************************************************)
(* The commands of the API: for every service method a route reaches, the  *)
(* policy it asks for before it touches the repository, and which routes    *)
(* are unsafe, that is, demand the session's CSRF token.                    *)
(***************************************************************************)
EXTENDS Policies

Routes(gets, unsafe) ==
    [c \in gets \cup unsafe |-> IF c \in unsafe THEN "UNSAFE" ELSE "GET"]

AdministrationService ==
    [listOrganizations |-> AdministrationWith("organization.read"),
     listRoles |-> AdministrationWith("role.read"),
     listUsers |-> AdministrationWith("user.read"),
     listMemberships |-> OrganizationAdministrationWith("membership.read"),
     createOrganization |-> AdministrationWith("organization.write"),
     createMembership |-> OrganizationAdministrationWith("membership.write"),
     updateMembershipStatus |->
        OrganizationAdministrationWith("membership.write"),
     assignRoles |-> OrganizationAdministrationWith("role.assign")]

AdministrationRoutes ==
    Routes({"listOrganizations", "listRoles", "listUsers", "listMemberships"},
           {"createOrganization", "createMembership",
            "updateMembershipStatus", "assignRoles"})

AllocationsService ==
    LET require(permission, write) == AllocationAuthorization(permission, write)
    IN [list |-> require("allocation.read", FALSE),
        detail |-> require("allocation.read", FALSE),
        options |-> require("allocation.read", FALSE),
        create |-> require("allocation.create", TRUE),
        \* create, of a lot that was conditionally accepted when it was read
        createConditional |->
            require("allocation.create", TRUE)
              \cup require("allocation.conditional-use", TRUE),
        release |-> require("allocation.release", TRUE),
        consume |-> require("allocation.consume", TRUE)]

AllocationsRoutes ==
    Routes({"list", "detail", "options"},
           {"create", "createConditional", "release", "consume"})

BomImportsService ==
    LET policy == BomAuthorization
    IN [listProject |-> policy.requireRead,
        template |-> policy.requireImport,
        createImport |-> policy.requireImport,
        importDetail |-> policy.requireRead,
        confirmImport |-> policy.requireImport]

BomRevisionsService ==
    LET policy == BomAuthorization
    IN [revisionDetail |-> policy.requireRead,
        updateLine |-> policy.requireWrite,
        review |-> policy.requireReview,
        release |-> policy.requireRelease,
        supersede |-> policy.requireRelease,
        cancel |-> policy.requireReview,
        comparison |-> policy.requireRead]

BomImportRoutes ==
    Routes({"listProject", "template", "importDetail"},
           {"createImport", "confirmImport"})

BomRevisionRoutes ==
    Routes({"revisionDetail", "comparison"},
           {"updateLine", "review", "release", "supersede", "cancel"})

DocumentUploadsService ==
    LET policy == DocumentAuthorization
    IN [list |-> policy.requireRead,
        detail |-> policy.requireRead,
        initiate |-> policy.requireUpload,
        supersede |-> policy.requireUpload,
        complete |-> policy.requireUpload]

DocumentReviewsService ==
    LET policy == DocumentAuthorization
    IN [submit |-> policy.requireUpload,
        approve |-> policy.requireApprove,
        reject |-> policy.requireApprove,
        download |-> policy.requireRead,
        \* download, of a version in review
        downloadInReview |->
            {Demand("DOCUMENT_READER", {})} \cup policy.requireReview]

DocumentsRoutes ==
    Routes({"list", "detail"},
           {"initiate", "supersede", "complete", "submit", "approve",
            "reject", "download", "downloadInReview"})

InspectionsService ==
    LET configuration == InternalWith("inspection.configure")
        require(permission, write) == InspectionAuthorization(permission, write)
    IN [listDefinitions |-> configuration,
        createDefinition |-> configuration,
        updateDefinition |-> configuration,
        list |-> require("inspection.read", FALSE),
        detail |-> require("inspection.read", FALSE),
        createExplicit |-> require("inspection.create", TRUE)]

InspectionRecordsService ==
    LET require(permission, write) == InspectionAuthorization(permission, write)
    IN [saveResults |-> require("inspection.write", TRUE),
        finalize |-> require("inspection.finalize", TRUE),
        \* finalize, with the disposition CONDITIONALLY_ACCEPTED
        finalizeConditional |->
            require("inspection.finalize", TRUE)
              \cup require("inspection.conditional-accept", TRUE)]

InspectionsRoutes ==
    Routes({"listDefinitions", "list", "detail"},
           {"createDefinition", "updateDefinition", "createExplicit",
            "saveResults", "finalize", "finalizeConditional"})

ItemSettingsService ==
    LET policy == ItemAuthorization
    IN [listItemCategories |-> policy.requireRead,
        createItemCategory |-> policy.requireWrite,
        updateItemCategory |-> policy.requireWrite,
        listUnitsOfMeasure |-> policy.requireRead,
        createUnitOfMeasure |-> policy.requireWrite,
        updateUnitOfMeasure |-> policy.requireWrite]

ItemAttributesService ==
    [c \in {"createSpecificationAttribute", "updateSpecificationAttribute"} |->
        ItemAuthorization.requireWrite]

ItemsService ==
    LET policy == ItemAuthorization
    IN [listItems |-> policy.requireRead,
        itemDetail |-> policy.requireRead,
        createItem |-> policy.requireWrite,
        updateItem |-> policy.requireWrite,
        deactivateItem |-> policy.requireWrite,
        exportItems |-> policy.requireExport]

ItemSettingsRoutes ==
    Routes({"listItemCategories", "listUnitsOfMeasure"},
           {"createItemCategory", "updateItemCategory",
            "createUnitOfMeasure", "updateUnitOfMeasure",
            "createSpecificationAttribute", "updateSpecificationAttribute"})

ItemsRoutes ==
    Routes({"listItems", "itemDetail", "exportItems"},
           {"createItem", "updateItem", "deactivateItem"})

NcrsService ==
    [listInternal |-> NcrAuthorization("ncr.read", FALSE),
     detailInternal |-> NcrAuthorization("ncr.read", FALSE),
     create |-> NcrAuthorization("ncr.create", TRUE),
     issue |-> NcrAuthorization("ncr.issue", TRUE),
     close |-> NcrAuthorization("ncr.close", TRUE),
     cancel |-> NcrAuthorization("ncr.close", TRUE)]

SupplierNcrsService ==
    [listSupplier |-> SupplierWith("supplier.ncr.read"),
     detailSupplier |-> SupplierWith("supplier.ncr.read"),
     submitSupplierResponse |-> SupplierWith("supplier.ncr.respond")]

NcrsRoutes ==
    Routes({"listInternal", "detailInternal", "listSupplier", "detailSupplier"},
           {"create", "issue", "close", "cancel", "submitSupplierResponse"})

\* A user's own inbox and preferences: being signed in is enough.
NotificationsService ==
    [c \in {"list", "markRead", "preferences", "updatePreference"} |-> {}]

NotificationsRoutes ==
    Routes({"list", "preferences"}, {"markRead", "updatePreference"})

ProjectsService ==
    LET policy == ProjectAuthorization
    IN [listProductCategories |-> policy.requireList,
        createProductCategory |-> policy.requireCategoryWrite,
        updateProductCategory |-> policy.requireCategoryWrite,
        listProjects |-> policy.requireList,
        createProject |-> policy.requireCreate,
        projectOverview |-> policy.requireProjectRead]

ProjectPlanService ==
    LET policy == ProjectAuthorization
    IN [updateProject |-> policy.requireProjectWrite,
        transitionProject |-> policy.requireProjectWrite,
        memberCandidates |-> policy.requireMemberManagement,
        addProjectMember |-> policy.requireMemberManagement,
        updateProjectMember |-> policy.requireMemberManagement]

ProjectScheduleService ==
    [c \in {"createMilestone", "updateMilestone", "createWorkPackage",
            "updateWorkPackage"} |-> ProjectAuthorization.requireProjectWrite]

ProjectsRoutes ==
    Routes({"listProductCategories", "listProjects", "projectOverview"},
           {"createProductCategory", "updateProductCategory",
            "createProject", "updateProject"})

ProjectPlanRoutes ==
    Routes({"memberCandidates"},
           {"transitionProject", "addProjectMember", "updateProjectMember",
            "createMilestone", "updateMilestone", "createWorkPackage",
            "updateWorkPackage"})

PurchaseOrdersService ==
    LET policy == PurchaseOrderAuthorization
    IN [requirements |-> policy.requireRead,
        list |-> policy.requireRead,
        create |-> policy.requireWrite,
        detail |-> policy.requireRead,
        revise |-> policy.requireWrite,
        send |-> policy.requireSend,
        cancel |-> policy.requireCancel,
        exceptions |-> policy.requireExceptions]

SupplierOrdersService ==
    [supplierList |-> SupplierWith("supplier.purchase-order.read"),
     supplierDetail |-> SupplierWith("supplier.purchase-order.read"),
     acknowledge |-> SupplierWith("supplier.purchase-order.acknowledge"),
     appendCommitment |-> SupplierWith("supplier.commitment.write")]

PurchaseOrdersRoutes ==
    Routes({"requirements", "list", "detail"},
           {"create", "revise", "send", "cancel"})

SupplierOrdersRoutes ==
    Routes({"exceptions", "supplierList", "supplierDetail"},
           {"acknowledge", "appendCommitment"})

ReadinessService ==
    [c \in {"management", "overview", "materials", "history"} |->
        IF c = "management" THEN ReadinessAuthorization.requireManagement
        ELSE ReadinessAuthorization.requireProject]

ReadinessRoutes ==
    Routes({"management", "overview", "materials", "history"}, {})

SupplierShipmentsService ==
    [supplierList |-> SupplierWith("supplier.asn.read"),
     supplierDetail |-> SupplierWith("supplier.asn.read"),
     createAsn |-> SupplierWith("supplier.asn.write"),
     submitAsn |-> SupplierWith("supplier.asn.transition"),
     dispatchAsn |-> SupplierWith("supplier.asn.transition"),
     cancelAsn |-> SupplierWith("supplier.asn.transition")]

ReceivingService ==
    LET policy == ReceivingAuthorization
    IN [listAsns |-> policy.requireShipmentRead,
        asnDetail |-> policy.requireShipmentRead,
        arriveAsn |-> policy.requireArrival,
        listReceipts |-> policy.requireReceiptRead,
        createReceipt |-> policy.requireReceiptWrite,
        receiptDetail |-> policy.requireReceiptRead,
        createCorrection |-> policy.requireReceiptCorrection,
        postReceipt |-> policy.requireReceiptPost]

SupplierShipmentsRoutes ==
    Routes({"supplierList", "supplierDetail"},
           {"createAsn", "submitAsn", "dispatchAsn", "cancelAsn"})

ReceivingRoutes ==
    Routes({"listAsns", "asnDetail", "listReceipts", "receiptDetail"},
           {"arriveAsn", "createReceipt", "createCorrection", "postReceipt"})

ReportsService ==
    LET policy == ReportsAuthorization
    IN [projectReadiness |-> policy.requireInternalReportRead,
        materialExceptions |-> policy.requireInternalReportRead,
        supplierPerformance |-> policy.requireInternalScorecard,
        ownSupplierScorecard |-> policy.requireSupplierScorecard]

ReportExportsService ==
    LET policy == ReportsAuthorization
    IN [exportProjectReadiness |-> policy.requireInternalReportExport,
        exportMaterialExceptions |-> policy.requireInternalReportExport,
        exportSupplierPerformance |-> policy.requireInternalScorecardExport,
        exportOwnSupplierScorecard |-> policy.requireSupplierScorecardExport]

ReportsRoutes ==
    Routes(DOMAIN ReportsService \cup DOMAIN ReportExportsService, {})

RequirementStatusService == [projectStatus |-> BomAuthorization.requireRead]

RequirementStatusRoutes == Routes({"projectStatus"}, {})

RequisitionsService ==
    LET policy == RequisitionAuthorization
    IN [requirements |-> policy.requireRead,
        list |-> policy.requireRead,
        create |-> policy.requireWrite,
        detail |-> policy.requireRead,
        submit |-> policy.requireSubmit,
        approve |-> policy.requireApprove,
        reject |-> policy.requireApprove,
        cancel |-> policy.requireCancel]

RequisitionsRoutes ==
    Routes({"requirements", "list", "detail"},
           {"create", "submit", "approve", "reject", "cancel"})

-----------------------------------------------------------------------------

\* Every component of the API: what its methods demand and how they are
\* reached.
Services ==
    [administration |-> AdministrationService,
     allocations |-> AllocationsService,
     boms |-> Both(BomImportsService, BomRevisionsService),
     documents |-> Both(DocumentUploadsService, DocumentReviewsService),
     inspections |-> Both(InspectionsService, InspectionRecordsService),
     items |-> Both(Both(ItemSettingsService, ItemAttributesService), ItemsService),
     ncrs |-> Both(NcrsService, SupplierNcrsService),
     notifications |-> NotificationsService,
     projects |->
        Both(Both(ProjectsService, ProjectPlanService), ProjectScheduleService),
     purchaseOrders |-> Both(PurchaseOrdersService, SupplierOrdersService),
     readiness |-> ReadinessService,
     receiving |-> Both(SupplierShipmentsService, ReceivingService),
     reports |-> Both(ReportsService, ReportExportsService),
     requirementStatus |-> RequirementStatusService,
     requisitions |-> RequisitionsService]

RouteTable ==
    [administration |-> AdministrationRoutes,
     allocations |-> AllocationsRoutes,
     boms |-> Both(BomImportRoutes, BomRevisionRoutes),
     documents |-> DocumentsRoutes,
     inspections |-> InspectionsRoutes,
     items |-> Both(ItemSettingsRoutes, ItemsRoutes),
     ncrs |-> NcrsRoutes,
     notifications |-> NotificationsRoutes,
     projects |-> Both(ProjectsRoutes, ProjectPlanRoutes),
     purchaseOrders |-> Both(PurchaseOrdersRoutes, SupplierOrdersRoutes),
     readiness |-> ReadinessRoutes,
     receiving |-> Both(SupplierShipmentsRoutes, ReceivingRoutes),
     reports |-> ReportsRoutes,
     requirementStatus |-> RequirementStatusRoutes,
     requisitions |-> RequisitionsRoutes]

Commands == UNION {{<<part, method>> : method \in DOMAIN Services[part]} :
                       part \in DOMAIN Services}

PolicyOf(command) == Services[command[1]][command[2]]
Unsafe(command) == RouteTable[command[1]][command[2]] = "UNSAFE"

\* Every route reaches a method with a policy, and every such method has a
\* route.
ASSUME RoutesReachServices ==
    \A part \in DOMAIN Services : DOMAIN RouteTable[part] = DOMAIN Services[part]
=============================================================================
