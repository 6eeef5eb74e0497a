---------------------------- MODULE Engineering -----------------------------
(***************************************************************************)
(* Projects, the item master and bills of materials together, under        *)
(* concurrent transactions.                                                *)
(***************************************************************************)
EXTENDS Projects, Items, Boms

ProjectRows == [state : States, from : Dates, to : Dates, version : Nat]
MemberRows ==
    [role : MemberRoles \cup {None}, status : {"ACTIVE", "INACTIVE", None}, version : Nat]
MilestoneRows == [project : Projects \cup {None}, date : Dates, version : Nat]
PackageRows ==
    [project : Projects \cup {None}, from : Dates, to : Dates,
     milestone : Milestones \cup {None}, version : Nat]
ActiveRows == [active : BOOLEAN, version : Nat]
UnitRows == [active : BOOLEAN, precision : Precisions, version : Nat]
AttributeRows == [active : BOOLEAN, required : BOOLEAN, shape : Shapes, version : Nat]
ItemRows == [active : BOOLEAN, unit : Units, values : Values, version : Nat]
RevisionRows ==
    [status : {"DRAFT", "IN_REVIEW", "RELEASED", "SUPERSEDED", "CANCELLED"},
     number : Nat, version : Nat]

ImportStates == {"QUEUED", "PARSING", "READY", "FAILED", "CONFIRMED", None}

\* The tables hold what the commands could have left: a row of version 0 says
\* nothing yet, what belongs to a project belongs to one there is, and what is
\* active uses what is active.
PlanInOrder(d) ==
    /\ d.productCategory \in [ProductCategories -> ActiveRows]
    /\ d.project \in [Projects -> ProjectRows]
    /\ d.member \in [Projects -> [Memberships -> MemberRows]]
    /\ d.milestone \in [Milestones -> MilestoneRows]
    /\ d.package \in [Packages -> PackageRows]
    /\ \A p \in Projects : Exists(d.project[p]) \/ d.project[p].state = "DRAFT"
    /\ \A p \in Projects, m \in Memberships :
          Exists(d.member[p][m]) \/ d.member[p][m].role = None
    /\ \A part \in Range(d.milestone) \cup Range(d.package) :
          IF part.project = None THEN ~Exists(part)
          ELSE Exists(part) /\ Exists(d.project[part.project])

ItemsInOrder(d) ==
    /\ d.itemCategory \in [ItemCategories -> ActiveRows]
    /\ d.unit \in [Units -> UnitRows]
    /\ d.attribute \in [Attributes -> AttributeRows]
    /\ d.item \in [Items -> ItemRows]
    /\ \A u \in Units : d.unit[u].active => Exists(d.unit[u])
    /\ \A a \in Attributes : d.attribute[a].active /\ d.attribute[a].shape.unit # None
          => d.unit[d.attribute[a].shape.unit].active
    /\ \A i \in Items :
          /\ \A a \in DOMAIN d.item[i].values : Exists(d.attribute[a])
          /\ d.item[i].active =>
                /\ d.itemCategory[ItemCategoryOf[i]].active /\ d.unit[d.item[i].unit].active
                /\ \A a \in Attributes :
                      /\ ItemCategoryOf[a] = ItemCategoryOf[i] /\ Exists(d.attribute[a])
                      /\ d.attribute[a].active /\ d.attribute[a].required
                      => a \in DOMAIN d.item[i].values

BomsInOrder(d) ==
    /\ d.import \in [Revisions -> ImportStates] /\ d.revision \in [Revisions -> RevisionRows]
    /\ \A r \in Revisions : IF Exists(d.revision[r]) THEN d.import[r] # "READY"
                            ELSE d.revision[r].status = "DRAFT"

ASSUME DatabaseAssumption ==
    \A d \in Databases : PlanInOrder(d) /\ ItemsInOrder(d) /\ BomsInOrder(d)

Commands == ProjectCommands \cup ItemCommands \cup BomCommands

Init ==
    /\ \E d \in Databases :
          /\ productCategory = d.productCategory /\ project = d.project
          /\ member = d.member /\ milestone = d.milestone /\ package = d.package
          /\ itemCategory = d.itemCategory /\ unit = d.unit
          /\ attribute = d.attribute /\ item = d.item
          /\ imports = d.import /\ revision = d.revision /\ line = d.line
    /\ history = [x \in Projects \cup Revisions |-> <<>>]
    /\ tx = [t \in Tx |-> Idle]
    /\ agenda \in Agendas
    /\ begun = 0

-----------------------------------------------------------------------------
(* Transactions. *)

Plan(c) ==
    IF c.op \in ProjectOperations THEN ProjectPlan(c)
    ELSE IF c.op \in ItemOperations THEN ItemPlan(c)
    ELSE IF c.op = None THEN <<>> ELSE BomPlan(c)

RowOf(c) ==
    IF c.op \in ProjectOperations THEN ProjectRow(c)
    ELSE IF c.op \in ItemOperations THEN ItemRow(c) ELSE BomRow(c)

Begins(c) == ProjectCommandAllowed(c) \/ ItemCommandBegins(c) \/ BomCommandBegins(c)

Begin(t, c) ==
    /\ ~Running(t) /\ begun < agenda.most
    /\ Begins(c)
    /\ tx' = [tx EXCEPT ![t] =
           [command |-> c, pos |-> 0, seen |-> RowOf(c), overtaken |-> FALSE]]
    /\ begun' = begun + 1
    /\ UNCHANGED <<planRows, itemRows, bomRows, history, agenda>>

Held(t) ==
    {Plan(tx[t].command)[n] : n \in 1..tx[t].pos} \ {Check}

Waiting(t) == tx[t].pos < Len(Plan(tx[t].command))

Wanted(t) == Plan(tx[t].command)[tx[t].pos + 1]

WaitsFor(t, u) ==
    /\ t # u /\ Waiting(t) /\ Wanted(t) # Check
    /\ \E held \in Held(u) : Conflict(Wanted(t), held)

Advance(t) ==
    /\ tx' = [tx EXCEPT ![t].pos = @ + 1]
    /\ UNCHANGED <<planRows, itemRows, bomRows, history, agenda, begun>>

TakeLock(t) ==
    /\ Waiting(t) /\ Wanted(t) # Check
    /\ \A u \in Tx : ~WaitsFor(t, u)
    /\ Advance(t)

\* Slip: the update is not conditional on the version.
UpdatedByIdOnly(t) == TRUE

\* The version the client expects is that of the row when the command began:
\* handlers compare it with what they read, and again in the update.  For a
\* row that is created the unique key plays this part.
StillAsRead(t) == RowOf(tx[t].command).version = tx[t].seen.version

CheckUnderLocks(t) ==
    LET c == tx[t].command
    IN /\ Waiting(t) /\ Wanted(t) = Check
       /\ StillAsRead(t)
       /\ ItemCommandAllowed(c) \/ BomCommandAllowed(c)
       /\ Advance(t)

\* A refusal, a conflict, a victim of deadlock detection or a lost connection:
\* the transaction leaves nothing behind.
Abort(t) ==
    /\ Running(t)
    /\ Done(t, FALSE)
    /\ UNCHANGED <<planRows, itemRows, bomRows, history, agenda, begun>>

WriteProjects(c, seen) ==
    /\ \/ WriteProductCategory(c) \/ CreateProject(c) \/ UpdateProject(c)
       \/ TransitionProject(c, seen) \/ WriteProjectMember(c)
       \/ WriteMilestone(c) \/ WriteWorkPackage(c)
    /\ UNCHANGED <<itemRows, bomRows>>

WriteItems(c) ==
    /\ \/ WriteItemCategory(c) \/ WriteUnitOfMeasure(c) \/ WriteAttribute(c)
       \/ WriteItem(c) \/ DeactivateItem(c)
    /\ UNCHANGED <<planRows, bomRows, history>>

WriteBoms(c, seen) ==
    /\ \/ ConfirmImport(c) \/ TransitionRevision(c, seen)
       \/ ReleaseRevision(c) \/ UpdateLine(c)
    /\ UNCHANGED <<planRows, itemRows>>

Commit(t) ==
    /\ Running(t) /\ ~Waiting(t)
    /\ StillAsRead(t)
    /\ \/ WriteProjects(tx[t].command, tx[t].seen)
       \/ WriteItems(tx[t].command)
       \/ WriteBoms(tx[t].command, tx[t].seen)
    /\ Done(t, TRUE)
    /\ UNCHANGED <<agenda, begun>>

Next ==
    \E t \in Tx :
        \/ \E c \in {d \in Commands : d.op \in agenda.commands} : Begin(t, c)
        \/ TakeLock(t) \/ CheckUnderLocks(t) \/ Commit(t) \/ Abort(t)

Spec == Init /\ [][Next]_vars

-----------------------------------------------------------------------------
(* Properties. *)

Chains(rows, current, Can(_, _)) ==
    /\ \A n \in 1..Len(rows) : Can(rows[n].source, rows[n].target)
    /\ \A n \in 1..Len(rows) - 1 : rows[n].target = rows[n + 1].source
    /\ rows # <<>> => Last(rows).target = current

\* The transition rows of a project and of a BOM revision tell its whole life:
\* each step is one its lifecycle knows, each begins where the one before
\* ended, and the last ends at the state the row has, whoever else changes it.
HistoriesChain ==
    /\ \A p \in Projects : Chains(history[p], project[p].state, CanTransitionProject)
    /\ \A r \in Revisions : Chains(history[r], revision[r].status, CanTransitionBom)

\* An active item has an active category, an active unit and a value for every
\* attribute its category requires, and an active attribute an active unit,
\* although categories, units, attributes and items change at the same time.
ItemMasterHolds == ActiveRecordsUseActive /\ RequiredValuesPresent

\* A revision is released only while its project is open, whatever happens to
\* the project meanwhile, and the release of another revision ends in the same
\* step: a BOM has one released revision at most.
ReleaseReplaces ==
    [][\A r \in Revisions :
          revision[r].status # "RELEASED" /\ revision'[r].status = "RELEASED"
          => /\ Open(ProjectOf[r])
             /\ \A s \in Revisions \ {r} : ProjectOf[s] = ProjectOf[r]
                   => revision'[s].status # "RELEASED"]_vars

\* What a project consists of, but for the lines of its bill of materials.
PlanOf(p) ==
    <<member[p], {m \in Milestones : milestone[m].project = p},
      {k \in Packages : package[k].project = p},
      [r \in {s \in Revisions : ProjectOf[s] = p} |-> revision[r]]>>

Rules == PlanWithinProject /\ ManagerRemains /\ PrecisionsFit

\* A transaction that no other one overtakes keeps the rules no lock protects:
\* the plan lies within its project's dates, a project keeps an active
\* manager, values and definitions respect precision, and a released revision
\* has only active items and units.  The members, milestones, work packages
\* and revisions of a completed or cancelled project stay as they are, and so
\* do the lines of a revision that is no draft.  The lines of a draft do not:
\* updateLine corrects them also in a closed project.
UndisturbedCommitsKeepRules ==
    [][\A t \in Tx :
          Running(t) /\ ~Running(t)' /\ ~tx[t].overtaken =>
          /\ Rules => Rules'
          /\ \A p \in Projects : ~Open(p) => PlanOf(p)' = PlanOf(p)
          /\ \A r \in Revisions : revision[r].status # "DRAFT" => line'[r] = line[r]
          /\ \A r \in Revisions :
                revision[r].status # "RELEASED" /\ revision'[r].status = "RELEASED"
                => \A i \in DOMAIN line[r] :
                      item[i].active /\ unit[line[r][i].unit].active]_vars

\* Transactions that wait for one another in a circle: one of them releases a
\* revision.  It takes the BOM, the revisions and the project in this order;
\* the others that take two of them take them in another.
WaitCyclesInvolveRelease ==
    \A S \in SUBSET Tx :
        S # {} /\ (\A t \in S : \E u \in S : WaitsFor(t, u))
        => \E t \in S : tx[t].command.op = "release"
=============================================================================
