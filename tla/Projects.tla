------------------------------ MODULE Projects ------------------------------
(***************************************************************************)
(* Projects, their members and their plan: the commands of                 *)
(* projects.repository.ts.  None of them locks a row before it decides.    *)
(***************************************************************************)
EXTENDS EngineeringTables

States == {"DRAFT", "PLANNED", "ACTIVE", "ON_HOLD", "COMPLETED", "CANCELLED"}

\* project-state.ts, transitions.
CanTransitionProject(source, target) ==
    target \in CASE source = "DRAFT" -> {"PLANNED", "CANCELLED"}
                 [] source = "PLANNED" -> {"ACTIVE", "ON_HOLD", "CANCELLED"}
                 [] source = "ACTIVE" -> {"ON_HOLD", "COMPLETED", "CANCELLED"}
                 [] source = "ON_HOLD" -> {"ACTIVE", "CANCELLED"}
                 [] OTHER -> {}

MemberRoles == {"PROJECT_MANAGER", "CONTRIBUTOR", "VIEWER", "SUPPLIER"}

ProjectOperations ==
    {"createProductCategory", "updateProductCategory", "createProject", "updateProject",
     "transitionProject", "addProjectMember", "updateProjectMember", "createMilestone",
     "updateMilestone", "createWorkPackage", "updateWorkPackage"}

ProjectCommands ==
    [op : {"createProductCategory"}, category : ProductCategories]
    \cup [op : {"updateProductCategory"}, category : ProductCategories, active : BOOLEAN]
    \cup [op : {"createProject"}, project : Projects, category : ProductCategories,
          creator : Memberships \ Suppliers, window : Windows]
    \cup [op : {"updateProject"}, project : Projects, category : ProductCategories,
          window : Windows]
    \cup [op : {"transitionProject"}, project : Projects, target : States]
    \cup [op : {"addProjectMember"}, project : Projects, member : Memberships,
          role : MemberRoles]
    \cup [op : {"updateProjectMember"}, project : Projects, member : Memberships,
          role : MemberRoles, status : {"ACTIVE", "INACTIVE"}]
    \cup [op : {"createMilestone", "updateMilestone"}, project : Projects,
          milestone : Milestones, date : Dates]
    \cup [op : {"createWorkPackage", "updateWorkPackage"}, project : Projects,
          package : Packages, milestone : Milestones \cup {None}, window : Windows]

-----------------------------------------------------------------------------
(* What each handler requires of what it reads. *)

CreateProductCategoryAllowed(c) ==
    c.op = "createProductCategory" /\ ~Exists(productCategory[c.category])

UpdateProductCategoryAllowed(c) ==
    c.op = "updateProductCategory" /\ Exists(productCategory[c.category])

CreateProjectAllowed(c) ==
    /\ c.op = "createProject"
    /\ ~Exists(project[c.project])
    /\ productCategory[c.category].active

\* Slip: the work packages are forgotten.
MilestonesOnlyFit(p, w) ==
    \A m \in Milestones : milestone[m].project = p =>
        Within(w, milestone[m].date, milestone[m].date)

PlanFits(p, w) ==
    /\ \A m \in Milestones : milestone[m].project = p =>
          Within(w, milestone[m].date, milestone[m].date)
    /\ \A k \in Packages : package[k].project = p =>
          Within(w, package[k].from, package[k].to)

UpdateProjectAllowed(c) ==
    /\ c.op = "updateProject"
    /\ Exists(project[c.project]) /\ Open(c.project)
    /\ productCategory[c.category].active
    /\ PlanFits(c.project, c.window)

TransitionProjectAllowed(c) ==
    /\ c.op = "transitionProject"
    /\ Exists(project[c.project])
    /\ CanTransitionProject(project[c.project].state, c.target)

\* Suppliers are members as suppliers, and only they are.
MemberScope(c) == (c.member \in Suppliers) <=> (c.role = "SUPPLIER")

AddProjectMemberAllowed(c) ==
    /\ c.op = "addProjectMember"
    /\ Exists(project[c.project]) /\ Open(c.project)
    /\ MemberScope(c)
    /\ ~Exists(member[c.project][c.member])

ActiveManagers(p) ==
    {m \in Memberships : /\ member[p][m].role = "PROJECT_MANAGER"
                         /\ member[p][m].status = "ACTIVE"}

UpdateProjectMemberAllowed(c) ==
    /\ c.op = "updateProjectMember"
    /\ Exists(member[c.project][c.member]) /\ Open(c.project)
    /\ MemberScope(c)
    /\ c.member \in ActiveManagers(c.project)
         /\ (c.status # "ACTIVE" \/ c.role # "PROJECT_MANAGER")
       => Cardinality(ActiveManagers(c.project)) > 1

MilestoneAllowed(c, version) ==
    /\ Exists(project[c.project]) /\ Open(c.project)
    /\ Within(project[c.project], c.date, c.date)
    /\ IF version = 0 THEN ~Exists(milestone[c.milestone])
       ELSE milestone[c.milestone].project = c.project

WorkPackageAllowed(c, version) ==
    /\ Exists(project[c.project]) /\ Open(c.project)
    /\ c.milestone # None => milestone[c.milestone].project = c.project
    /\ Within(project[c.project], c.window.from, c.window.to)
    /\ IF version = 0 THEN ~Exists(package[c.package])
       ELSE package[c.package].project = c.project

ProjectCommandAllowed(c) ==
    \/ CreateProductCategoryAllowed(c) \/ UpdateProductCategoryAllowed(c)
    \/ CreateProjectAllowed(c) \/ UpdateProjectAllowed(c)
    \/ TransitionProjectAllowed(c)
    \/ AddProjectMemberAllowed(c) \/ UpdateProjectMemberAllowed(c)
    \/ c.op = "createMilestone" /\ MilestoneAllowed(c, 0)
    \/ c.op = "updateMilestone" /\ MilestoneAllowed(c, 1)
    \/ c.op = "createWorkPackage" /\ WorkPackageAllowed(c, 0)
    \/ c.op = "updateWorkPackage" /\ WorkPackageAllowed(c, 1)

\* The row whose version the handler's update is conditional on.
ProjectRow(c) ==
    CASE c.op \in {"updateProductCategory", "createProductCategory"} ->
            productCategory[c.category]
      [] c.op \in {"updateProject", "transitionProject", "createProject"} ->
            project[c.project]
      [] c.op \in {"updateProjectMember", "addProjectMember"} ->
            member[c.project][c.member]
      [] c.op \in {"updateMilestone", "createMilestone"} -> milestone[c.milestone]
      [] OTHER -> package[c.package]

\* The lock of its UPDATE matters where others lock the project.
ProjectPlan(c) ==
    IF c.op \in {"updateProject", "transitionProject"}
    THEN <<Lock("projects", c.project, "UPDATE")>> ELSE <<>>

-----------------------------------------------------------------------------
(* What each handler writes, when the row still has the version it read. *)

WriteProductCategory(c) ==
    /\ c.op \in {"createProductCategory", "updateProductCategory"}
    /\ productCategory' = [productCategory EXCEPT ![c.category] =
           [active |-> IF c.op = "createProductCategory" THEN TRUE ELSE c.active,
            version |-> Next1(@)]]
    /\ UNCHANGED <<project, member, milestone, package, history>>

CreateProject(c) ==
    /\ c.op = "createProject"
    /\ project' = [project EXCEPT ![c.project] =
           [state |-> "DRAFT", from |-> c.window.from, to |-> c.window.to, version |-> 1]]
    /\ member' = [member EXCEPT ![c.project][c.creator] =
           [role |-> "PROJECT_MANAGER", status |-> "ACTIVE", version |-> 1]]
    /\ UNCHANGED <<productCategory, milestone, package, history>>

UpdateProject(c) ==
    /\ c.op = "updateProject"
    /\ project' = [project EXCEPT ![c.project] =
           Updated([@ EXCEPT !.from = c.window.from, !.to = c.window.to])]
    /\ UNCHANGED <<productCategory, member, milestone, package, history>>

TransitionProject(c, seen) ==
    /\ c.op = "transitionProject"
    /\ project' = [project EXCEPT ![c.project] =
           Updated([@ EXCEPT !.state = c.target])]
    /\ history' = [history EXCEPT ![c.project] =
           Append(@, [source |-> seen.state, target |-> c.target])]
    /\ UNCHANGED <<productCategory, member, milestone, package>>

WriteProjectMember(c) ==
    /\ c.op \in {"addProjectMember", "updateProjectMember"}
    /\ member' = [member EXCEPT ![c.project][c.member] =
           [role |-> c.role,
            status |-> IF c.op = "addProjectMember" THEN "ACTIVE" ELSE c.status,
            version |-> Next1(@)]]
    /\ UNCHANGED <<productCategory, project, milestone, package, history>>

WriteMilestone(c) ==
    /\ c.op \in {"createMilestone", "updateMilestone"}
    /\ milestone' = [milestone EXCEPT ![c.milestone] =
           [project |-> c.project, date |-> c.date, version |-> Next1(@)]]
    /\ UNCHANGED <<productCategory, project, member, package, history>>

WriteWorkPackage(c) ==
    /\ c.op \in {"createWorkPackage", "updateWorkPackage"}
    /\ package' = [package EXCEPT ![c.package] =
           [project |-> c.project, from |-> c.window.from, to |-> c.window.to,
            milestone |-> c.milestone, version |-> Next1(@)]]
    /\ UNCHANGED <<productCategory, project, member, milestone, history>>

-----------------------------------------------------------------------------
(* What a plan promises. *)

PlanWithinProject ==
    /\ \A m \in Milestones : Exists(milestone[m]) =>
          Within(project[milestone[m].project], milestone[m].date, milestone[m].date)
    /\ \A k \in Packages : Exists(package[k]) =>
          Within(project[package[k].project], package[k].from, package[k].to)

ManagerRemains ==
    \A p \in Projects : Exists(project[p]) => ActiveManagers(p) # {}
=============================================================================
