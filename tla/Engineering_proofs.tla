-------------------------- MODULE Engineering_proofs --------------------------
(***************************************************************************)
(* Projects, the item master and bills of materials under any number of    *)
(* concurrent transactions: the histories of projects and revisions tell   *)
(* their whole lives, active records use active records, a release         *)
(* replaces the released revision in an open project, a transaction that   *)
(* none overtakes keeps the rules no lock protects, and transactions wait  *)
(* for one another in a circle only if one of them releases.               *)
(*                                                                         *)
(* The locks of a plan depend on the rows there are: a release locks every *)
(* revision of the BOM, an item every attribute of its category.  That     *)
(* locks exclude each other therefore rests on what they protect: whoever  *)
(* adds such a row holds a lock that the plan begins with.                 *)
(***************************************************************************)
EXTENDS Engineering, BomImport, SumTheorems, TLAPS

Stati == States \cup {"IN_REVIEW", "RELEASED", "SUPERSEDED"}

Steps == [source : Stati, target : Stati]

ProjectsTyped ==
  /\ productCategory \in [ProductCategories -> ActiveRows]
  /\ project \in [Projects -> ProjectRows]
  /\ member \in [Projects -> [Memberships -> MemberRows]]
  /\ milestone \in [Milestones -> MilestoneRows]
  /\ package \in [Packages -> PackageRows]

ItemsTyped ==
  /\ itemCategory \in [ItemCategories -> ActiveRows]
  /\ unit \in [Units -> UnitRows]
  /\ attribute \in [Attributes -> AttributeRows]
  /\ item \in [Items -> ItemRows]

\* The lines of a revision and what a transaction has seen of a row are left
\* open here.
BomsTyped ==
  /\ imports \in [Revisions -> ImportStates]
  /\ revision \in [Revisions -> RevisionRows]
  /\ history \in [Projects \cup Revisions -> Seq(Steps)]

Shaped(row) ==
  /\ row = [command |-> row.command, pos |-> row.pos, seen |-> row.seen,
            overtaken |-> row.overtaken]
  /\ row.command \in Commands \cup {Idle.command}
  /\ row.pos \in Nat
  /\ row.overtaken \in BOOLEAN

Typed ==
  /\ ProjectsTyped /\ ItemsTyped /\ BomsTyped
  /\ tx = [t \in Tx |-> tx[t]]
  /\ \A t \in Tx : Shaped(tx[t])

Transitions == {"review", "cancel", "supersede"}

AttributeOperations == {"createSpecificationAttribute", "updateSpecificationAttribute"}

-----------------------------------------------------------------------------
(* Commands. *)

\* What the commands on projects are given.
LEMMA ProjectCommandFields ==
  ASSUME NEW c \in ProjectCommands
  PROVE  /\ c.op \in ProjectOperations
         /\ c.op \in {"createProductCategory", "updateProductCategory"} =>
              c.category \in ProductCategories
         /\ c.op = "updateProductCategory" => c.active \in BOOLEAN
         /\ c.op \notin {"createProductCategory", "updateProductCategory"} =>
              c.project \in Projects
         /\ c.op \in {"createProject", "updateProject", "createWorkPackage",
                      "updateWorkPackage"} => c.window \in Windows
         /\ c.op = "createProject" => c.creator \in Memberships
         /\ c.op = "transitionProject" => c.target \in States
         /\ c.op \in {"addProjectMember", "updateProjectMember"} =>
              c.member \in Memberships /\ c.role \in MemberRoles
         /\ c.op = "updateProjectMember" => c.status \in {"ACTIVE", "INACTIVE"}
         /\ c.op \in {"createMilestone", "updateMilestone"} =>
              c.milestone \in Milestones /\ c.date \in Dates
         /\ c.op \in {"createWorkPackage", "updateWorkPackage"} =>
              c.package \in Packages /\ c.milestone \in Milestones \cup {None}
<1>1. CASE c \in [op : {"createProductCategory"}, category : ProductCategories]
  BY <1>1 DEF ProjectOperations
<1>2. CASE c \in [op : {"updateProductCategory"}, category : ProductCategories,
                  active : BOOLEAN]
  BY <1>2 DEF ProjectOperations
<1>3. CASE c \in [op : {"createProject"}, project : Projects, category : ProductCategories,
                  creator : Memberships \ Suppliers, window : Windows]
  BY <1>3 DEF ProjectOperations
<1>4. CASE c \in [op : {"updateProject"}, project : Projects, category : ProductCategories,
                  window : Windows]
  BY <1>4 DEF ProjectOperations
<1>5. CASE c \in [op : {"transitionProject"}, project : Projects, target : States]
  BY <1>5 DEF ProjectOperations
<1>6. CASE c \in [op : {"addProjectMember"}, project : Projects, member : Memberships,
                  role : MemberRoles]
  BY <1>6 DEF ProjectOperations
<1>7. CASE c \in [op : {"updateProjectMember"}, project : Projects, member : Memberships,
                  role : MemberRoles, status : {"ACTIVE", "INACTIVE"}]
  BY <1>7 DEF ProjectOperations
<1>8. CASE c \in [op : {"createMilestone", "updateMilestone"}, project : Projects,
                  milestone : Milestones, date : Dates]
  BY <1>8 DEF ProjectOperations
<1>9. CASE c \in [op : {"createWorkPackage", "updateWorkPackage"}, project : Projects,
                  package : Packages, milestone : Milestones \cup {None}, window : Windows]
  BY <1>9 DEF ProjectOperations
<1> QED
  BY <1>1, <1>2, <1>3, <1>4, <1>5, <1>6, <1>7, <1>8, <1>9 DEF ProjectCommands

\* What the commands on the item master are given.
LEMMA ItemCommandFields ==
  ASSUME NEW c \in ItemCommands
  PROVE  /\ c.op \in ItemOperations
         /\ c.op \in {"createItemCategory", "updateItemCategory"} =>
              c.category \in ItemCategories
         /\ c.op \in {"updateItemCategory", "updateUnitOfMeasure",
                      "updateSpecificationAttribute"} => c.active \in BOOLEAN
         /\ c.op \in {"createUnitOfMeasure", "updateUnitOfMeasure"} =>
              c.unit \in Units /\ c.precision \in Precisions
         /\ c.op \in AttributeOperations =>
              c.attribute \in Attributes /\ c.shape \in Shapes /\ c.required \in BOOLEAN
         /\ c.op \in {"createItem", "updateItem", "deactivateItem"} => c.item \in Items
         /\ c.op \in {"createItem", "updateItem"} => c.unit \in Units /\ c.values \in Values
<1> USE DEF ItemOperations, AttributeOperations
<1>1. CASE c \in [op : {"createItemCategory"}, category : ItemCategories]
  BY <1>1
<1>2. CASE c \in [op : {"updateItemCategory"}, category : ItemCategories, active : BOOLEAN]
  BY <1>2
<1>3. CASE c \in [op : {"createUnitOfMeasure"}, unit : Units, precision : Precisions]
  BY <1>3
<1>4. CASE c \in [op : {"updateUnitOfMeasure"}, unit : Units, precision : Precisions,
                  active : BOOLEAN]
  BY <1>4
<1>5. CASE c \in [op : {"createSpecificationAttribute"}, attribute : Attributes,
                  shape : Shapes, required : BOOLEAN]
  BY <1>5
<1>6. CASE c \in [op : {"updateSpecificationAttribute"}, attribute : Attributes,
                  shape : Shapes, required : BOOLEAN, active : BOOLEAN]
  BY <1>6
<1>7. CASE c \in [op : {"createItem", "updateItem"}, item : Items, unit : Units,
                  values : Values]
  BY <1>7
<1>8. CASE c \in [op : {"deactivateItem"}, item : Items]
  BY <1>8
<1> QED
  BY <1>1, <1>2, <1>3, <1>4, <1>5, <1>6, <1>7, <1>8 DEF ItemCommands

BomOperations == {"confirmImport", "review", "cancel", "supersede", "release", "updateLine"}

\* What the commands on bills of materials are given.
LEMMA BomCommandFields ==
  ASSUME NEW c \in BomCommands
  PROVE  /\ c.op \in BomOperations
         /\ c.revision \in Revisions
<1>1. CASE c \in [op : {"confirmImport", "review", "cancel", "supersede", "release"},
                  revision : Revisions]
  BY <1>1 DEF BomOperations
<1>2. ASSUME NEW r \in Revisions,
             c \in [op : {"updateLine"}, revision : {r}, item : DOMAIN RowsOf[r],
                    unit : Units, places : 0..MaxPrecision]
      PROVE  c.op \in BomOperations /\ c.revision \in Revisions
  BY <1>2 DEF BomOperations
<1> QED
  BY <1>1, <1>2 DEF BomCommands

\* A command is of the kind its operation is of.
LEMMA CommandKinds ==
  ASSUME NEW c \in Commands
  PROVE  /\ c.op # None
         /\ c.op \in ProjectOperations => c \in ProjectCommands
         /\ c.op \in ItemOperations => c \in ItemCommands
         /\ c.op \in BomOperations => c \in BomCommands
         /\ c.op \in ProjectOperations \cup ItemOperations \cup BomOperations
<1>1. CASE c \in ProjectCommands
  BY <1>1, ProjectCommandFields DEF ProjectOperations, ItemOperations, BomOperations, None
<1>2. CASE c \in ItemCommands
  BY <1>2, ItemCommandFields DEF ProjectOperations, ItemOperations, BomOperations, None
<1>3. CASE c \in BomCommands
  BY <1>3, BomCommandFields DEF ProjectOperations, ItemOperations, BomOperations, None
<1> QED
  BY <1>1, <1>2, <1>3 DEF Commands

-----------------------------------------------------------------------------
(* The invariant. *)

Checked(t) == \E n \in 1..tx[t].pos : Plan(tx[t].command)[n] = Check

\* No transaction is beyond its plan, and no two hold locks that conflict.
Exclusive ==
  /\ \A t \in Tx : tx[t].pos <= Len(Plan(tx[t].command))
  /\ \A t, u \in Tx : t # u => \A a \in Held(t), b \in Held(u) : ~Conflict(a, b)

\* What is written down of projects.
ProjectsLinked ==
  /\ \A p \in Projects :
        Exists(project[p]) \/ (project[p].state = "DRAFT" /\ history[p] = <<>>)
  /\ \A p \in Projects, m \in Memberships : Exists(member[p][m]) \/ member[p][m].role = None
  /\ \A m \in Milestones : IF milestone[m].project = None THEN ~Exists(milestone[m])
                           ELSE Exists(milestone[m]) /\ Exists(project[milestone[m].project])
  /\ \A k \in Packages : IF package[k].project = None THEN ~Exists(package[k])
                         ELSE Exists(package[k]) /\ Exists(project[package[k].project])

ItemsLinked ==
  /\ \A u \in Units : unit[u].active => Exists(unit[u])
  /\ \A i \in Items : \A a \in DOMAIN item[i].values : Exists(attribute[a])

BomsLinked ==
  \A r \in Revisions :
     IF Exists(revision[r]) THEN imports[r] # "READY"
     ELSE revision[r].status = "DRAFT" /\ history[r] = <<>>

\* A row is as it was seen, or has a later version.
Past(row, seen) ==
  seen.version \in 0..row.version /\ (seen.version = row.version => seen = row)

\* What a running transaction knows since it began.
ProjectsSeen(c, seen) ==
  /\ c.op = "createProject" => seen.version = 0
  /\ c.op = "transitionProject" =>
       /\ Exists(project[c.project]) /\ Past(project[c.project], seen)
       /\ CanTransitionProject(seen.state, c.target)
  /\ c.op \in {"createMilestone", "updateMilestone", "createWorkPackage",
               "updateWorkPackage"} => Exists(project[c.project])

ItemsSeen(c, seen) ==
  /\ c.op = "updateSpecificationAttribute" => Exists(attribute[c.attribute])
  /\ c.op = "updateItem" => seen.active /\ Past(item[c.item], seen)

BomsSeen(c, seen) ==
  c.op \in Transitions \cup {"release"} =>
     Exists(revision[c.revision]) /\ Past(revision[c.revision], seen)

\* What its check has found and its locks keep true.
ItemsDecided(c) ==
  /\ c.op = "updateItemCategory" /\ ~c.active => ActiveItemsOf(c.category) = {}
  /\ c.op = "updateUnitOfMeasure" /\ ~c.active =>
       /\ \A i \in Items : item[i].active => item[i].unit # c.unit
       /\ \A a \in Attributes : attribute[a].active => attribute[a].shape.unit # c.unit
  /\ c.op \in AttributeOperations =>
       /\ c.shape.unit # None => unit[c.shape.unit].active
       /\ c.required /\ (c.op = "updateSpecificationAttribute" => c.active) =>
            ActiveItemsOf(ItemCategoryOf[c.attribute]) \subseteq Holders(c.attribute)
  /\ ItemAllowed(c) \/ c.op \notin {"createItem", "updateItem"}

BomsDecided(c, seen) ==
  /\ c.op = "confirmImport" => imports[c.revision] = "READY"
  /\ c.op \in Transitions => CanTransitionBom(seen.status, Target(c.op))
  /\ c.op = "release" => seen.status = "IN_REVIEW" /\ Open(ProjectOf[c.revision])

\* Until another transaction commits, everything is as it was read.
Fresh(t) ==
  Running(t) /\ ~tx[t].overtaken =>
     /\ Begins(tx[t].command) /\ tx[t].seen = RowOf(tx[t].command)
     /\ Checked(t) => ItemCommandAllowed(tx[t].command) \/ BomCommandAllowed(tx[t].command)

Linked == ProjectsLinked /\ ItemsLinked /\ BomsLinked

Seen(t) ==
  /\ ProjectsSeen(tx[t].command, tx[t].seen) /\ ItemsSeen(tx[t].command, tx[t].seen)
  /\ BomsSeen(tx[t].command, tx[t].seen)

Decided(t) ==
  Checked(t) => ItemsDecided(tx[t].command) /\ BomsDecided(tx[t].command, tx[t].seen)

Inv ==
  /\ Typed /\ Exclusive /\ Linked /\ HistoriesChain /\ ItemMasterHolds
  /\ \A t \in Tx : Seen(t) /\ Decided(t) /\ Fresh(t)

-----------------------------------------------------------------------------
(* Plans. *)

\* The rows of a finite set are locked one after the other.
LEMMA LocksOfAll ==
  ASSUME NEW S, IsFiniteSet(S), NEW table, NEW mode
  PROVE  LockAll(table, S, mode) \in Seq({Lock(table, x, mode) : x \in S})
<1> DEFINE order == SetToSeq(S)
<1>1. Cardinality(S) \in Nat /\ ExistsBijection(1..Cardinality(S), S)
  BY FS_CardinalityType
<1>2. \E f \in [1..Cardinality(S) -> S] : IsInjective(f)
  <2>1. PICK f : f \in Bijection(1..Cardinality(S), S)
    BY <1>1, Zenon DEF ExistsBijection
  <2>2. f \in [1..Cardinality(S) -> S] /\ IsInjective(f)
    BY <2>1 DEF Bijection, Injection, IsInjective
  <2> QED  BY <2>2
<1>3. order \in [1..Cardinality(S) -> S]
  BY <1>2, Zenon DEF SetToSeq
<1>4. order \in Seq(S) /\ Len(order) \in Nat /\ \A n \in 1..Len(order) : order[n] \in S
  BY <1>1, <1>3
<1> QED
  BY <1>4 DEF LockAll

\* What is neither an item that is written nor an attribute locks one row or
\* none before it checks.
LEMMA PlanOfMaster ==
  ASSUME NEW c \in ItemCommands
  PROVE  /\ c.op = "updateItemCategory" =>
              Plan(c) = <<Lock("item_categories", c.category, "UPDATE"), Check>>
         /\ c.op = "updateUnitOfMeasure" =>
              Plan(c) = <<Lock("units", c.unit, "UPDATE"), Check>>
         /\ c.op \in {"createItemCategory", "createUnitOfMeasure", "deactivateItem"} =>
              Plan(c) = <<>>
<1>1. Plan(c) = ItemPlan(c)
  BY ItemCommandFields DEF Plan, ItemOperations, ProjectOperations
<1> QED
  BY <1>1 DEF ItemPlan

\* What is appended stands behind.
LEMMA Ahead ==
  ASSUME NEW S, NEW s \in Seq(S), NEW rest \in Seq(S), NEW k \in 1..Len(s)
  PROVE  (s \o rest)[k] = s[k]
OBVIOUS

\* What is put together is as long as its two parts.
LEMMA LengthOfBoth ==
  ASSUME NEW S, NEW s \in Seq(S), NEW rest \in Seq(S)
  PROVE  Len(s \o rest) = Len(s) + Len(rest)
OBVIOUS

\* An attribute locks its category, itself when it exists, its unit when it
\* has one, and checks.
LEMMA PlanOfAttribute ==
  ASSUME NEW c \in ItemCommands, c.op \in AttributeOperations
  PROVE  /\ Len(Plan(c)) \in Nat /\ Len(Plan(c)) >= 2
         /\ Plan(c)[1] = Lock("item_categories", ItemCategoryOf[c.attribute], "UPDATE")
         /\ Plan(c)[Len(Plan(c))] = Check
         /\ c.shape.unit # None =>
              /\ Len(Plan(c)) >= 3
              /\ Plan(c)[Len(Plan(c)) - 1] = Lock("units", c.shape.unit, "SHARE")
              /\ \A k \in 2..Len(Plan(c)) - 2 :
                    Plan(c)[k] = Lock("attributes", c.attribute, "UPDATE")
         /\ c.shape.unit = None =>
              \A k \in 2..Len(Plan(c)) - 1 :
                 Plan(c)[k] = Lock("attributes", c.attribute, "UPDATE")
<1> DEFINE category == Lock("item_categories", ItemCategoryOf[c.attribute], "UPDATE")
           itself == Lock("attributes", c.attribute, "UPDATE")
           used == Lock("units", c.shape.unit, "SHARE")
<1>1. Plan(c) = AttributePlan(c)
  BY DEF Plan, ItemPlan, AttributeOperations, ItemOperations, ProjectOperations
<1>2. CASE c.op = "updateSpecificationAttribute" /\ c.shape.unit # None
  <2>1. Plan(c) = <<category>> \o <<itself>> \o <<used>> \o <<Check>>
    BY <1>1, <1>2 DEF AttributePlan
  <2> HIDE DEF category, itself, used
  <2>2. \A k \in 2..2 : k = 2
    OBVIOUS
  <2>3. /\ Len(Plan(c)) = 4 /\ Plan(c)[1] = category /\ Plan(c)[2] = itself
        /\ Plan(c)[3] = used /\ Plan(c)[4] = Check
    <3>1. Len(Plan(c)) = 4
      BY <2>1
    <3>2. Plan(c)[1] = category
      BY <2>1
    <3>3. Plan(c)[2] = itself
      <4> DEFINE two == <<category>> \o <<itself>>
                 three == two \o <<used>>
      <4>1. two \in Seq({category, itself, used}) /\ Len(two) = 2 /\ two[2] = itself
        OBVIOUS
      <4> HIDE DEF two
      <4>2. three \in Seq({category, itself, used})
        BY <4>1
      <4>3. three[2] = itself
        <5>1. <<used>> \in Seq({category, itself, used})
          OBVIOUS
        <5>2. three[2] = two[2]
          BY <4>1, <5>1, Ahead
        <5> QED  BY <4>1, <5>2
      <4>4. Plan(c) = three \o <<Check>>
        BY <2>1 DEF two
      <4>5. Len(three) = 3
        <5>1. <<used>> \in Seq({category, itself, used}) /\ Len(<<used>>) = 1
          OBVIOUS
        <5>2. Len(three) = Len(two) + Len(<<used>>)
          BY <4>1, <5>1, LengthOfBoth
        <5> QED  BY <4>1, <5>1, <5>2
      <4> HIDE DEF three
      <4> QED  BY <4>2, <4>3, <4>4, <4>5
    <3>4. Plan(c)[3] = used
      BY <2>1
    <3>5. Plan(c)[4] = Check
      BY <2>1
    <3> QED  BY <3>1, <3>2, <3>3, <3>4, <3>5
  <2>4. Len(Plan(c)) - 1 = 3 /\ \A k \in 2..Len(Plan(c)) - 2 : Plan(c)[k] = itself
    BY <2>2, <2>3
  <2> QED  BY <1>2, <2>3, <2>4 DEF category, itself, used
<1>3. CASE c.op = "updateSpecificationAttribute" /\ c.shape.unit = None
  <2>1. Plan(c) = <<category>> \o <<itself>> \o <<>> \o <<Check>>
    BY <1>1, <1>3 DEF AttributePlan
  <2> HIDE DEF category, itself
  <2>2. \A k \in 2..2 : k = 2
    OBVIOUS
  <2>3. Len(Plan(c)) = 3 /\ Plan(c)[1] = category /\ Plan(c)[2] = itself /\ Plan(c)[3] = Check
    BY <2>1
  <2>4. \A k \in 2..Len(Plan(c)) - 1 : Plan(c)[k] = itself
    BY <2>2, <2>3
  <2> QED  BY <1>3, <2>3, <2>4 DEF category, itself
<1>4. CASE c.op = "createSpecificationAttribute" /\ c.shape.unit # None
  <2>1. Plan(c) = <<category>> \o <<>> \o <<used>> \o <<Check>>
    BY <1>1, <1>4 DEF AttributePlan
  <2> HIDE DEF category, used
  <2>2. Len(Plan(c)) = 3 /\ Plan(c)[1] = category /\ Plan(c)[2] = used /\ Plan(c)[3] = Check
    BY <2>1
  <2>3. Len(Plan(c)) - 1 = 2 /\ 2..Len(Plan(c)) - 2 = {}
    BY <2>2
  <2> QED  BY <1>4, <2>2, <2>3 DEF category, used
<1>5. CASE c.op = "createSpecificationAttribute" /\ c.shape.unit = None
  <2>1. Plan(c) = <<category>> \o <<>> \o <<>> \o <<Check>>
    BY <1>1, <1>5 DEF AttributePlan
  <2> HIDE DEF category
  <2>2. Len(Plan(c)) = 2 /\ Plan(c)[1] = category /\ Plan(c)[2] = Check
    BY <2>1
  <2>3. 2..Len(Plan(c)) - 1 = {}
    BY <2>2
  <2> QED  BY <1>5, <2>2, <2>3 DEF category
<1> QED
  BY <1>2, <1>3, <1>4, <1>5 DEF AttributeOperations

\* An item locks its category, its unit and the attributes of the category,
\* and checks.
LEMMA PlanOfItem ==
  ASSUME NEW c \in ItemCommands, c.op \in {"createItem", "updateItem"}
  PROVE  /\ Len(Plan(c)) \in Nat /\ Len(Plan(c)) >= 3
         /\ Plan(c)[1] = Lock("item_categories", ItemCategoryOf[c.item], "SHARE")
         /\ Plan(c)[2] = Lock("units", c.unit, "SHARE")
         /\ Plan(c)[Len(Plan(c))] = Check
         /\ \A k \in 3..Len(Plan(c)) - 1 :
               \E a \in Attributes : /\ ItemCategoryOf[a] = ItemCategoryOf[c.item]
                                     /\ Plan(c)[k] = Lock("attributes", a, "SHARE")
<1> DEFINE A == AttributesOf(ItemCategoryOf[c.item])
           T == {Lock("attributes", x, "SHARE") : x \in A}
           category == Lock("item_categories", ItemCategoryOf[c.item], "SHARE")
           used == Lock("units", c.unit, "SHARE")
           all == LockAll("attributes", A, "SHARE")
<1>1. Plan(c) = <<category, used>> \o all \o <<Check>>
  BY DEF Plan, ItemPlan, ItemWritePlan, ItemOperations, ProjectOperations, AttributeOperations
<1>2. IsFiniteSet(A)
  BY EngineeringAssumption, FS_Subset DEF AttributesOf
<1>3. \A x \in T : \E a \in Attributes : /\ ItemCategoryOf[a] = ItemCategoryOf[c.item]
                                         /\ x = Lock("attributes", a, "SHARE")
  BY DEF AttributesOf
<1>4. all \in Seq(T)
  <2> HIDE DEF A
  <2> QED  BY <1>2, LocksOfAll
<1> HIDE DEF T, all, category, used
<1>5. Len(all) \in Nat /\ \A k \in 1..Len(all) : all[k] \in T
  BY <1>4
<1>6. /\ Len(Plan(c)) = Len(all) + 3
      /\ Plan(c)[1] = category /\ Plan(c)[2] = used /\ Plan(c)[Len(all) + 3] = Check
      /\ \A k \in 3..Len(all) + 2 : Plan(c)[k] = all[k - 2]
  BY <1>1, <1>4, <1>5
<1>7. \A k \in 3..Len(Plan(c)) - 1 : Plan(c)[k] \in T
  BY <1>5, <1>6
<1> QED
  BY <1>3, <1>5, <1>6, <1>7 DEF category, used

\* A command on a project locks it where others lock it.
LEMMA PlanOfProject ==
  ASSUME NEW c \in ProjectCommands
  PROVE  Plan(c) = IF c.op \in {"updateProject", "transitionProject"}
                   THEN <<Lock("projects", c.project, "UPDATE")>> ELSE <<>>
BY ProjectCommandFields DEF Plan, ProjectPlan

\* A confirmed import locks itself and the project, checks, and locks the bill
\* of materials when there is one.
LEMMA PlanOfConfirm ==
  ASSUME NEW c \in BomCommands, c.op = "confirmImport"
  PROVE  /\ Len(Plan(c)) = IF RevisionsOf(ProjectOf[c.revision]) = {} THEN 3 ELSE 4
         /\ Plan(c)[1] = Lock("imports", c.revision, "UPDATE")
         /\ Plan(c)[2] = Lock("projects", ProjectOf[c.revision], "UPDATE")
         /\ Plan(c)[3] = Check
         /\ Len(Plan(c)) = 4 => Plan(c)[4] = Lock("boms", ProjectOf[c.revision], "UPDATE")
<1> DEFINE itself == Lock("imports", c.revision, "UPDATE")
           open == Lock("projects", ProjectOf[c.revision], "UPDATE")
           bom == Lock("boms", ProjectOf[c.revision], "UPDATE")
<1>1. Plan(c) = ConfirmPlan(c)
  BY DEF Plan, BomPlan, ItemOperations, ProjectOperations, None
<1>2. CASE RevisionsOf(ProjectOf[c.revision]) = {}
  <2>1. Plan(c) = <<itself, open, Check>> \o <<>>
    BY <1>1, <1>2 DEF ConfirmPlan
  <2> HIDE DEF itself, open
  <2>2. Len(Plan(c)) = 3 /\ Plan(c)[1] = itself /\ Plan(c)[2] = open /\ Plan(c)[3] = Check
    BY <2>1
  <2> QED  BY <1>2, <2>2 DEF itself, open
<1>3. CASE RevisionsOf(ProjectOf[c.revision]) # {}
  <2>1. Plan(c) = <<itself, open, Check>> \o <<bom>>
    BY <1>1, <1>3 DEF ConfirmPlan
  <2> HIDE DEF itself, open, bom
  <2>2. /\ Len(Plan(c)) = 4 /\ Plan(c)[1] = itself /\ Plan(c)[2] = open
        /\ Plan(c)[3] = Check /\ Plan(c)[4] = bom
    BY <2>1
  <2> QED  BY <1>3, <2>2 DEF itself, open, bom
<1> QED  BY <1>2, <1>3

\* A transition locks the revision, checks, and locks the bill of materials; a
\* line locks itself.
LEMMA PlanOfTransition ==
  ASSUME NEW c \in BomCommands
  PROVE  /\ c.op \in Transitions =>
              Plan(c) = <<Lock("revisions", c.revision, "UPDATE"), Check,
                          Lock("boms", ProjectOf[c.revision], "UPDATE")>>
         /\ c.op = "updateLine" =>
              Plan(c) = <<Lock("lines", <<c.revision, c.item>>, "UPDATE"), Check>>
<1>1. c.op \in Transitions \cup {"updateLine"} => Plan(c) = BomPlan(c)
  BY DEF Plan, Transitions, ItemOperations, ProjectOperations, None
<1> QED
  BY <1>1 DEF BomPlan, TransitionPlan, UpdateLinePlan, Transitions

\* A release locks the bill of materials, its revisions and the project, and
\* checks.
LEMMA PlanOfRelease ==
  ASSUME NEW c \in BomCommands, c.op = "release"
  PROVE  /\ Len(Plan(c)) \in Nat /\ Len(Plan(c)) >= 3
         /\ Plan(c)[1] = Lock("boms", ProjectOf[c.revision], "UPDATE")
         /\ Plan(c)[Len(Plan(c)) - 1] = Lock("projects", ProjectOf[c.revision], "UPDATE")
         /\ Plan(c)[Len(Plan(c))] = Check
         /\ \A k \in 2..Len(Plan(c)) - 2 : Plan(c)[k].table = "revisions"
<1> DEFINE p == ProjectOf[c.revision]
           R == RevisionsOf(p)
           T == {Lock("revisions", x, "UPDATE") : x \in R}
           bom == Lock("boms", p, "UPDATE")
           open == Lock("projects", p, "UPDATE")
           all == LockAll("revisions", R, "UPDATE")
<1>1. Plan(c) = <<bom>> \o all \o <<open, Check>>
  BY DEF Plan, BomPlan, ReleasePlan, ItemOperations, ProjectOperations, None
<1>2. IsFiniteSet(R)
  BY EngineeringAssumption, FS_Subset DEF RevisionsOf
<1>3. \A x \in T : x.table = "revisions"
  BY DEF Lock
<1>4. all \in Seq(T)
  <2> HIDE DEF R
  <2> QED  BY <1>2, LocksOfAll
<1> HIDE DEF T, all, bom, open
<1>5. Len(all) \in Nat /\ \A k \in 1..Len(all) : all[k] \in T
  BY <1>4
<1>6. /\ Len(Plan(c)) = Len(all) + 3
      /\ Plan(c)[1] = bom /\ Plan(c)[Len(all) + 2] = open /\ Plan(c)[Len(all) + 3] = Check
      /\ \A k \in 2..Len(all) + 1 : Plan(c)[k] = all[k - 1]
  BY <1>1, <1>4, <1>5
<1>7. \A k \in 2..Len(Plan(c)) - 2 : Plan(c)[k] \in T
  BY <1>5, <1>6
<1> QED
  BY <1>3, <1>5, <1>6, <1>7 DEF bom, open

\* A plan ends, and whoever decides anything checks before it ends.
LEMMA PlansCheck ==
  ASSUME NEW c \in Commands
  PROVE  /\ Len(Plan(c)) \in Nat
         /\ c.op \in BomOperations \cup AttributeOperations
                     \cup {"updateItemCategory", "updateUnitOfMeasure", "createItem", "updateItem"}
              => \E n \in 1..Len(Plan(c)) : Plan(c)[n] = Check
<1> USE DEF BomOperations, AttributeOperations
<1>1. CASE c \in ProjectCommands
  <2>1. Plan(c) = <<>> \/ Plan(c) = <<Lock("projects", c.project, "UPDATE")>>
    BY <1>1, PlanOfProject
  <2>2. Len(Plan(c)) \in {0, 1}
    BY <2>1
  <2> QED  BY <1>1, <2>2, ProjectCommandFields DEF ProjectOperations
<1>2. CASE c \in ItemCommands
  <2>1. CASE c.op \in AttributeOperations
    BY <1>2, <2>1, PlanOfAttribute
  <2>2. CASE c.op \in {"createItem", "updateItem"}
    BY <1>2, <2>2, PlanOfItem
  <2>3. CASE c.op \in {"updateItemCategory", "updateUnitOfMeasure"}
    <3>1. Len(Plan(c)) = 2 /\ Plan(c)[2] = Check
      BY <1>2, <2>3, PlanOfMaster
    <3> QED  BY <3>1
  <2>4. CASE c.op \in {"createItemCategory", "createUnitOfMeasure", "deactivateItem"}
    <3>1. Len(Plan(c)) = 0
      BY <1>2, <2>4, PlanOfMaster
    <3> QED  BY <2>4, <3>1
  <2> QED  BY <1>2, <2>1, <2>2, <2>3, <2>4, ItemCommandFields DEF ItemOperations
<1>3. CASE c \in BomCommands
  <2>1. CASE c.op = "confirmImport"
    <3>1. Len(Plan(c)) \in {3, 4} /\ Plan(c)[3] = Check
      BY <1>3, <2>1, PlanOfConfirm
    <3> QED  BY <3>1
  <2>2. CASE c.op \in Transitions
    <3>1. Plan(c) = <<Lock("revisions", c.revision, "UPDATE"), Check,
                      Lock("boms", ProjectOf[c.revision], "UPDATE")>>
      BY <1>3, <2>2, PlanOfTransition
    <3>2. Len(Plan(c)) = 3 /\ Plan(c)[2] = Check
      BY <3>1
    <3> QED  BY <3>2
  <2>3. CASE c.op = "updateLine"
    <3>1. Plan(c) = <<Lock("lines", <<c.revision, c.item>>, "UPDATE"), Check>>
      BY <1>3, <2>3, PlanOfTransition
    <3>2. Len(Plan(c)) = 2 /\ Plan(c)[2] = Check
      BY <3>1
    <3> QED  BY <3>2
  <2>4. CASE c.op = "release"
    BY <1>3, <2>4, PlanOfRelease
  <2> QED  BY <1>3, <2>1, <2>2, <2>3, <2>4, BomCommandFields DEF Transitions
<1> QED
  BY <1>1, <1>2, <1>3 DEF Commands

-----------------------------------------------------------------------------
(* While the rows stay. *)

rows == <<planRows, itemRows, bomRows, history>>

\* A plan depends on the command and on the rows.
LEMMA PlanStays ==
  ASSUME UNCHANGED <<attribute, revision>>, NEW u, NEW c, tx'[u].command = c
  PROVE  Plan(tx[u].command)' = Plan(c)
<1>1. ItemPlan(tx[u].command)' = ItemPlan(c)
  BY DEF ItemPlan, AttributePlan, ItemWritePlan, AttributesOf, Exists
<1>2. BomPlan(tx[u].command)' = BomPlan(c)
  BY DEF BomPlan, ConfirmPlan, TransitionPlan, ReleasePlan, UpdateLinePlan, RevisionsOf, Exists
<1>3. ProjectPlan(tx[u].command)' = ProjectPlan(c)
  BY DEF ProjectPlan
<1> QED  BY <1>1, <1>2, <1>3 DEF Plan

\* So does the row a command is about,
LEMMA RowStays ==
  ASSUME UNCHANGED rows, NEW u, NEW c, tx'[u].command = c
  PROVE  RowOf(tx[u].command)' = RowOf(c)
<1> USE DEF rows, planRows, itemRows, bomRows
<1> QED  BY DEF RowOf, ProjectRow, ItemRow, BomRow

\* what is required of what it reads,
LEMMA ChecksStay ==
  ASSUME UNCHANGED rows, NEW u, NEW c, tx'[u].command = c
  PROVE  /\ ItemCommandAllowed(tx[u].command)' = ItemCommandAllowed(c)
         /\ BomCommandAllowed(tx[u].command)' = BomCommandAllowed(c)
         /\ Begins(tx[u].command)' = Begins(c)
<1> USE DEF rows, planRows, itemRows, bomRows
<1>1. ItemCommandAllowed(tx[u].command)' = ItemCommandAllowed(c)
  BY DEF ItemCommandAllowed, UpdateItemCategoryAllowed, UpdateUnitAllowed,
         CreateAttributeAllowed, UpdateAttributeAllowed, ItemAllowed, ActiveItemsOf,
         Holders, Covers, AttributesOf, Exists
<1>2. BomCommandAllowed(tx[u].command)' = BomCommandAllowed(c)
  BY DEF BomCommandAllowed, ConfirmAllowed, TransitionAllowed, ReleaseAllowed, LineGuard,
         Open, UnitOfItem, LinesAvailable
<1>3. ProjectCommandAllowed(tx[u].command)' = ProjectCommandAllowed(c)
  BY DEF ProjectCommandAllowed, CreateProductCategoryAllowed, UpdateProductCategoryAllowed,
         CreateProjectAllowed, UpdateProjectAllowed, TransitionProjectAllowed,
         AddProjectMemberAllowed, UpdateProjectMemberAllowed, MilestoneAllowed,
         WorkPackageAllowed, PlanFits, Open, Exists, ActiveManagers, MemberScope, Within
<1>4. ItemCommandBegins(tx[u].command)' = ItemCommandBegins(c)
  BY DEF ItemCommandBegins, DefinitionValid, ValuesValid, ValueFits, Covers, AttributesOf, Exists
<1>5. BomCommandBegins(tx[u].command)' = BomCommandBegins(c)
  BY DEF BomCommandBegins, UpdateLineBegins, UnitOfItem, Exists
<1> QED  BY <1>1, <1>2, <1>3, <1>4, <1>5 DEF Begins

\* and what it knows and has decided.
LEMMA KnownStays ==
  ASSUME UNCHANGED rows, NEW u, NEW c, tx'[u].command = c,
         NEW seen, tx'[u].seen = seen
  PROVE  /\ Seen(u)' = (ProjectsSeen(c, seen) /\ ItemsSeen(c, seen) /\ BomsSeen(c, seen))
         /\ ItemsDecided(tx[u].command)' = ItemsDecided(c)
         /\ BomsDecided(tx[u].command, tx[u].seen)' = BomsDecided(c, seen)
<1> USE DEF rows, planRows, itemRows, bomRows
<1>1. Seen(u)' = (ProjectsSeen(c, seen) /\ ItemsSeen(c, seen) /\ BomsSeen(c, seen))
  BY DEF Seen, ProjectsSeen, ItemsSeen, BomsSeen, Exists, Past
<1>2. ItemsDecided(tx[u].command)' = ItemsDecided(c)
  BY DEF ItemsDecided, ItemAllowed, ActiveItemsOf, Holders, Covers, AttributesOf, Exists
<1>3. BomsDecided(tx[u].command, tx[u].seen)' = BomsDecided(c, seen)
  BY DEF BomsDecided, Open
<1> QED  BY <1>1, <1>2, <1>3

-----------------------------------------------------------------------------
(* Steps that leave the rows alone. *)

\* A transaction that neither moves nor ends beside rows that stay.
LEMMA OthersStay ==
  ASSUME UNCHANGED rows, NEW u, tx'[u] = tx[u]
  PROVE  /\ Held(u)' = Held(u) /\ Plan(tx[u].command)' = Plan(tx[u].command)
         /\ Seen(u)' = Seen(u) /\ Decided(u)' = Decided(u) /\ Fresh(u)' = Fresh(u)
<1>1. tx'[u].command = tx[u].command /\ tx'[u].seen = tx[u].seen
  OBVIOUS
<1>2. Plan(tx[u].command)' = Plan(tx[u].command)
  BY <1>1, PlanStays DEF rows, itemRows, bomRows
<1>3. RowOf(tx[u].command)' = RowOf(tx[u].command)
  BY <1>1, RowStays
<1>4. /\ ItemCommandAllowed(tx[u].command)' = ItemCommandAllowed(tx[u].command)
      /\ BomCommandAllowed(tx[u].command)' = BomCommandAllowed(tx[u].command)
      /\ Begins(tx[u].command)' = Begins(tx[u].command)
  BY <1>1, ChecksStay
<1>5. /\ Seen(u)' = Seen(u)
      /\ ItemsDecided(tx[u].command)' = ItemsDecided(tx[u].command)
      /\ BomsDecided(tx[u].command, tx[u].seen)' = BomsDecided(tx[u].command, tx[u].seen)
  BY <1>1, KnownStays DEF Seen
<1>6. Held(u)' = Held(u) /\ Checked(u)' = Checked(u)
  BY <1>2 DEF Held, Checked
<1>7. Decided(u)' = Decided(u)
  BY <1>5, <1>6 DEF Decided
<1>8. Fresh(u)' = Fresh(u)
  BY <1>3, <1>4, <1>6 DEF Fresh, Running
<1> QED
  BY <1>2, <1>5, <1>6, <1>7, <1>8

\* What is said of the rows alone.
LEMMA LinksStay ==
  ASSUME Linked, HistoriesChain, ItemMasterHolds, UNCHANGED rows
  PROVE  Linked' /\ HistoriesChain' /\ ItemMasterHolds'
<1> USE DEF rows, planRows, itemRows, bomRows
<1>1. Linked'
  BY DEF Linked, ProjectsLinked, ItemsLinked, BomsLinked, Exists
<1>2. HistoriesChain'
  BY DEF HistoriesChain
<1>3. ItemMasterHolds'
  BY DEF ItemMasterHolds, ActiveRecordsUseActive, RequiredValuesPresent, AttributesOf, Exists
<1> QED  BY <1>1, <1>2, <1>3

\* The one transaction that moves has to be in order where it goes.
LEMMA QuietStep ==
  ASSUME Inv, UNCHANGED rows, NEW t \in Tx, \A u \in Tx \ {t} : tx'[u] = tx[u],
         tx' = [u \in Tx |-> tx'[u]], Shaped(tx'[t]),
         tx'[t].pos <= Len(Plan(tx[t].command)'),
         \A u \in Tx \ {t} : \A a \in Held(t)', b \in Held(u) : ~Conflict(a, b) /\ ~Conflict(b, a),
         Seen(t)', Decided(t)', Fresh(t)'
  PROVE  Inv'
<1>1. ASSUME NEW u \in Tx \ {t}
      PROVE  /\ Held(u)' = Held(u) /\ Plan(tx[u].command)' = Plan(tx[u].command)
             /\ Seen(u)' /\ Decided(u)' /\ Fresh(u)' /\ Shaped(tx'[u])
  BY OthersStay DEF Inv, Typed
<1>2. Typed'
  <2>1. \A u \in Tx : Shaped(tx'[u])
    BY <1>1
  <2>2. (\A u \in Tx : Shaped(tx[u]))'
    BY <2>1 DEF Shaped
  <2> QED
    BY <2>2 DEF Inv, Typed, ProjectsTyped, ItemsTyped, BomsTyped, rows, planRows, itemRows, bomRows
<1>3. Exclusive'
  <2>1. ASSUME NEW u \in Tx PROVE (tx[u].pos <= Len(Plan(tx[u].command)))'
    BY <1>1 DEF Inv, Exclusive
  <2>2. ASSUME NEW u \in Tx, NEW v \in Tx, u # v
        PROVE  (\A a \in Held(u), b \in Held(v) : ~Conflict(a, b))'
    <3>1. CASE u = t
      BY <1>1, <2>2, <3>1
    <3>2. CASE v = t
      BY <1>1, <2>2, <3>2
    <3>3. CASE u # t /\ v # t
      BY <1>1, <2>2, <3>3 DEF Inv, Exclusive
    <3> QED  BY <3>1, <3>2, <3>3
  <2> QED  BY <2>1, <2>2 DEF Exclusive
<1>4. Linked' /\ HistoriesChain' /\ ItemMasterHolds'
  BY LinksStay DEF Inv
<1>5. (\A u \in Tx : Seen(u) /\ Decided(u) /\ Fresh(u))'
  BY <1>1
<1> QED
  BY <1>2, <1>3, <1>4, <1>5 DEF Inv

\* A command begins by the rules of its kind.
LEMMA BeginsByKind ==
  ASSUME NEW c \in Commands, Begins(c)
  PROVE  /\ c.op \in ProjectOperations => ProjectCommandAllowed(c)
         /\ c.op \in ItemOperations => ItemCommandBegins(c)
         /\ c.op \in BomOperations => BomCommandBegins(c)
<1>1. ASSUME ProjectCommandAllowed(c) PROVE c.op \in ProjectOperations
  BY <1>1 DEF ProjectCommandAllowed, CreateProductCategoryAllowed, UpdateProductCategoryAllowed,
     CreateProjectAllowed, UpdateProjectAllowed, TransitionProjectAllowed,
     AddProjectMemberAllowed, UpdateProjectMemberAllowed, ProjectOperations
<1>2. ASSUME ItemCommandBegins(c) PROVE c.op \in ItemOperations
  BY <1>2 DEF ItemCommandBegins, ItemOperations
<1>3. ASSUME BomCommandBegins(c) PROVE c.op \in BomOperations
  BY <1>3 DEF BomCommandBegins, UpdateLineBegins, BomOperations
<1> QED
  BY <1>1, <1>2, <1>3 DEF Begins, ProjectOperations, ItemOperations, BomOperations

\* What a command reads when it begins is what it has seen.
LEMMA SeenAtBegin ==
  ASSUME Typed, NEW c \in Commands, Begins(c)
  PROVE  ProjectsSeen(c, RowOf(c)) /\ ItemsSeen(c, RowOf(c)) /\ BomsSeen(c, RowOf(c))
<1>1. ProjectsSeen(c, RowOf(c))
  <2>1. CASE c.op = "createProject"
    <3>1. RowOf(c) = project[c.project] /\ c.project \in Projects /\ ~Exists(project[c.project])
      BY <2>1, BeginsByKind, CommandKinds, ProjectCommandFields
         DEF RowOf, ProjectRow, ProjectOperations, ProjectCommandAllowed,
             CreateProductCategoryAllowed, UpdateProductCategoryAllowed,
             CreateProjectAllowed, UpdateProjectAllowed, TransitionProjectAllowed,
             AddProjectMemberAllowed, UpdateProjectMemberAllowed
    <3>2. project[c.project].version \in Nat
      BY <3>1 DEF Typed, ProjectsTyped, ProjectRows
    <3> QED  BY <2>1, <3>1, <3>2 DEF ProjectsSeen, Exists
  <2>2. CASE c.op = "transitionProject"
    <3>1. /\ RowOf(c) = project[c.project] /\ c.project \in Projects
          /\ TransitionProjectAllowed(c)
      BY <2>2, BeginsByKind, CommandKinds, ProjectCommandFields
         DEF RowOf, ProjectRow, ProjectOperations, ProjectCommandAllowed,
             CreateProductCategoryAllowed, UpdateProductCategoryAllowed,
             CreateProjectAllowed, UpdateProjectAllowed,
             AddProjectMemberAllowed, UpdateProjectMemberAllowed
    <3>2. project[c.project].version \in Nat
      BY <3>1 DEF Typed, ProjectsTyped, ProjectRows
    <3> QED  BY <2>2, <3>1, <3>2 DEF ProjectsSeen, TransitionProjectAllowed, Past
  <2>3. CASE c.op \in {"createMilestone", "updateMilestone", "createWorkPackage",
                       "updateWorkPackage"}
    <3>1. Exists(project[c.project])
      BY <2>3, BeginsByKind
         DEF ProjectOperations, ProjectCommandAllowed,
             CreateProductCategoryAllowed, UpdateProductCategoryAllowed,
             CreateProjectAllowed, UpdateProjectAllowed, TransitionProjectAllowed,
             AddProjectMemberAllowed, UpdateProjectMemberAllowed, MilestoneAllowed,
             WorkPackageAllowed
    <3> QED  BY <2>3, <3>1 DEF ProjectsSeen
  <2>4. CASE c.op \notin {"createProject", "transitionProject", "createMilestone",
                          "updateMilestone", "createWorkPackage", "updateWorkPackage"}
    BY <2>4 DEF ProjectsSeen
  <2> QED  BY <2>1, <2>2, <2>3, <2>4
<1>2. ItemsSeen(c, RowOf(c))
  <2>1. CASE c.op = "updateSpecificationAttribute"
    <3>1. Exists(attribute[c.attribute])
      BY <2>1, BeginsByKind DEF ItemOperations, ItemCommandBegins
    <3> QED  BY <2>1, <3>1 DEF ItemsSeen
  <2>2. CASE c.op = "updateItem"
    <3>1. RowOf(c) = item[c.item] /\ c.item \in Items /\ item[c.item].active
      BY <2>2, BeginsByKind, CommandKinds, ItemCommandFields
         DEF RowOf, ItemRow, ItemOperations, ProjectOperations, ItemCommandBegins
    <3>2. item[c.item].version \in Nat
      BY <3>1 DEF Typed, ItemsTyped, ItemRows
    <3> QED  BY <2>2, <3>1, <3>2 DEF ItemsSeen, Past
  <2>3. CASE c.op \notin {"updateSpecificationAttribute", "updateItem"}
    BY <2>3 DEF ItemsSeen
  <2> QED  BY <2>1, <2>2, <2>3
<1>3. BomsSeen(c, RowOf(c))
  <2>1. CASE c.op \in Transitions \cup {"release"}
    <3>1. /\ RowOf(c) = revision[c.revision] /\ c.revision \in Revisions
          /\ Exists(revision[c.revision])
      BY <2>1, BeginsByKind, CommandKinds, BomCommandFields
         DEF RowOf, BomRow, ItemOperations, ProjectOperations, BomOperations, BomCommandBegins,
             Transitions, UpdateLineBegins
    <3>2. revision[c.revision].version \in Nat
      BY <3>1 DEF Typed, BomsTyped, RevisionRows
    <3> QED  BY <2>1, <3>1, <3>2 DEF BomsSeen, Past
  <2>2. CASE c.op \notin Transitions \cup {"release"}
    BY <2>2 DEF BomsSeen
  <2> QED  BY <2>1, <2>2
<1> QED  BY <1>1, <1>2, <1>3

\* A command that begins finds the rows as it has seen them and holds no lock.
LEMMA BeginStep ==
  ASSUME Inv, NEW t \in Tx, NEW c \in Commands, Begin(t, c)
  PROVE  Inv'
<1>1. UNCHANGED rows
  BY DEF Begin, rows
<1>2. /\ tx' = [u \in Tx |-> tx'[u]] /\ \A u \in Tx \ {t} : tx'[u] = tx[u]
      /\ tx'[t] = [command |-> c, pos |-> 0, seen |-> RowOf(c), overtaken |-> FALSE]
  BY DEF Begin, Inv, Typed
<1>3. tx'[t].command = c /\ tx'[t].pos = 0 /\ tx'[t].seen = RowOf(c) /\ tx'[t].overtaken = FALSE
  BY <1>2
<1>4. Shaped(tx'[t])
  BY <1>2, <1>3 DEF Shaped
<1>5. Held(t)' = {} /\ ~Checked(t)'
  BY <1>3 DEF Held, Checked
<1>6. tx'[t].pos <= Len(Plan(tx[t].command)')
  <2>1. Plan(tx[t].command)' = Plan(c)
    BY <1>1, <1>3, PlanStays DEF rows, itemRows, bomRows
  <2> QED  BY <1>3, <2>1, PlansCheck
<1>7. Begins(c)
  BY DEF Begin
<1>8. Seen(t)'
  BY <1>1, <1>3, <1>7, SeenAtBegin, KnownStays DEF Inv
<1>9. Fresh(t)'
  <2>1. Begins(tx[t].command)' = Begins(c)
    BY <1>1, <1>3, ChecksStay
  <2>2. RowOf(tx[t].command)' = RowOf(c)
    BY <1>1, <1>3, RowStays
  <2> QED  BY <1>3, <1>5, <1>7, <2>1, <2>2 DEF Fresh
<1>10. Decided(t)'
  BY <1>5 DEF Decided
<1> QED
  BY <1>1, <1>2, <1>4, <1>5, <1>6, <1>8, <1>9, <1>10, QuietStep

\* A transaction that goes on keeps what it knows.
LEMMA AdvanceStep ==
  ASSUME Inv, NEW t \in Tx, Waiting(t), Advance(t)
  PROVE  /\ UNCHANGED rows /\ tx' = [u \in Tx |-> tx'[u]] /\ Shaped(tx'[t])
         /\ \A u \in Tx \ {t} : tx'[u] = tx[u]
         /\ tx'[t].command = tx[t].command /\ tx'[t].seen = tx[t].seen
         /\ tx'[t].pos = tx[t].pos + 1 /\ tx'[t].overtaken = tx[t].overtaken
         /\ Plan(tx[t].command)' = Plan(tx[t].command)
         /\ tx'[t].pos <= Len(Plan(tx[t].command)')
         /\ Held(t)' = (Held(t) \cup {Wanted(t)}) \ {Check}
         /\ Checked(t)' <=> Checked(t) \/ Wanted(t) = Check
         /\ Seen(t)'
<1>1. UNCHANGED rows
  BY DEF Advance, rows
<1>2. Shaped(tx[t])
  BY DEF Inv, Typed
<1>3. tx' = [u \in Tx |-> tx'[u]] /\ \A u \in Tx \ {t} : tx'[u] = tx[u]
  BY DEF Advance, Inv, Typed
<1>4. tx'[t] = [tx[t] EXCEPT !.pos = @ + 1]
  BY DEF Advance, Inv, Typed
<1>5. /\ tx'[t].command = tx[t].command /\ tx'[t].seen = tx[t].seen
      /\ tx'[t].pos = tx[t].pos + 1 /\ tx'[t].overtaken = tx[t].overtaken
      /\ Shaped(tx'[t])
  BY <1>2, <1>4 DEF Shaped
<1>6. Plan(tx[t].command)' = Plan(tx[t].command)
  BY <1>1, <1>5, PlanStays DEF rows, itemRows, bomRows
<1>7. tx[t].pos \in Nat /\ Len(Plan(tx[t].command)) \in Nat
  <2>1. Len(Plan(Idle.command)) = 0
    BY DEF Plan, Idle, None, ProjectOperations, ItemOperations
  <2> QED  BY <1>2, <2>1, PlansCheck DEF Shaped
<1>8. tx'[t].pos <= Len(Plan(tx[t].command)')
  BY <1>5, <1>6, <1>7 DEF Waiting
<1>9. 1..tx'[t].pos = 1..tx[t].pos \cup {tx[t].pos + 1}
  BY <1>5, <1>7
<1>10. Held(t)' = (Held(t) \cup {Wanted(t)}) \ {Check}
  BY <1>6, <1>9 DEF Held, Wanted
<1>11. Checked(t)' <=> Checked(t) \/ Wanted(t) = Check
  BY <1>6, <1>9 DEF Checked, Wanted
<1>12. Seen(t)'
  BY <1>1, <1>5, KnownStays DEF Inv, Seen
<1> QED
  BY <1>1, <1>3, <1>5, <1>6, <1>8, <1>10, <1>11, <1>12

\* A lock is taken when nobody holds one it conflicts with.
LEMMA TakeLockStep ==
  ASSUME Inv, NEW t \in Tx, TakeLock(t)
  PROVE  Inv'
<1>1. Waiting(t) /\ Wanted(t) # Check /\ Advance(t) /\ \A u \in Tx : ~WaitsFor(t, u)
  BY DEF TakeLock
<1>2. /\ UNCHANGED rows /\ tx' = [u \in Tx |-> tx'[u]] /\ Shaped(tx'[t])
      /\ \A u \in Tx \ {t} : tx'[u] = tx[u]
      /\ tx'[t].command = tx[t].command /\ tx'[t].seen = tx[t].seen
      /\ tx'[t].overtaken = tx[t].overtaken
      /\ tx'[t].pos <= Len(Plan(tx[t].command)')
      /\ Held(t)' = (Held(t) \cup {Wanted(t)}) \ {Check}
      /\ Checked(t)' <=> Checked(t)
      /\ Seen(t)'
  BY <1>1, AdvanceStep
<1>3. ASSUME NEW u \in Tx \ {t}, NEW a \in Held(t)', NEW b \in Held(u)
      PROVE  ~Conflict(a, b) /\ ~Conflict(b, a)
  <2>1. CASE a \in Held(t)
    BY <1>3, <2>1 DEF Inv, Exclusive
  <2>2. CASE a = Wanted(t)
    <3>1. ~Conflict(a, b)
      BY <1>1, <1>3, <2>2 DEF WaitsFor
    <3> QED  BY <3>1 DEF Conflict
  <2> QED  BY <1>2, <1>3, <2>1, <2>2
<1>4. Decided(t)'
  BY <1>2, KnownStays DEF Inv, Decided
<1>5. Fresh(t)'
  <2>1. RowOf(tx[t].command)' = RowOf(tx[t].command)
    BY <1>2, RowStays
  <2>2. /\ ItemCommandAllowed(tx[t].command)' = ItemCommandAllowed(tx[t].command)
        /\ BomCommandAllowed(tx[t].command)' = BomCommandAllowed(tx[t].command)
        /\ Begins(tx[t].command)' = Begins(tx[t].command)
    BY <1>2, ChecksStay
  <2> QED  BY <1>2, <2>1, <2>2 DEF Inv, Fresh, Running
<1> QED
  BY <1>2, <1>3, <1>4, <1>5, QuietStep

\* A transaction that ends without a word leaves the others as they are.
LEMMA AbortStep ==
  ASSUME Inv, NEW t \in Tx, Abort(t)
  PROVE  Inv'
<1>1. UNCHANGED rows
  BY DEF Abort, rows
<1>2. tx' = [u \in Tx |-> tx'[u]] /\ \A u \in Tx \ {t} : tx'[u] = tx[u]
  BY DEF Abort, Done, Inv, Typed
<1>3. tx'[t] = Idle
  BY DEF Abort, Done
<1>4. tx'[t].command = Idle.command /\ tx'[t].pos = 0 /\ tx'[t].command.op = None
  BY <1>3 DEF Idle
<1>5. Shaped(tx'[t])
  BY <1>3 DEF Shaped, Idle
<1>6. Held(t)' = {} /\ ~Checked(t)'
  BY <1>4 DEF Held, Checked
<1>7. tx'[t].pos <= Len(Plan(tx[t].command)')
  <2>1. Plan(tx[t].command)' = <<>>
    BY <1>4 DEF Plan, None, ProjectOperations, ItemOperations
  <2> QED  BY <1>4, <2>1
<1>8. Seen(t)' /\ Fresh(t)' /\ Decided(t)'
  BY <1>4, <1>6 DEF Seen, ProjectsSeen, ItemsSeen, BomsSeen, Fresh, Running, Decided, None,
     Transitions
<1> QED
  BY <1>1, <1>2, <1>5, <1>6, <1>7, <1>8, QuietStep

\* What is still as it was read is what was seen.
LEMMA SeenNow ==
  ASSUME Typed, NEW t \in Tx, Running(t), Seen(t), StillAsRead(t)
  PROVE  LET c == tx[t].command
             seen == tx[t].seen
         IN /\ c \in Commands
            /\ c.op = "createProject" =>
                 c.project \in Projects /\ project[c.project].version = 0
            /\ c.op = "transitionProject" =>
                 c.project \in Projects /\ seen = project[c.project]
            /\ c.op = "updateItem" => c.item \in Items /\ item[c.item].active
            /\ c.op \in Transitions \cup {"release"} =>
                 c.revision \in Revisions /\ seen = revision[c.revision]
<1> DEFINE c == tx[t].command
           seen == tx[t].seen
<1>1. c \in Commands
  BY DEF Typed, Shaped, Running, Idle
<1>2. RowOf(c).version = seen.version
  BY DEF StillAsRead
<1>3. ProjectsSeen(c, seen) /\ ItemsSeen(c, seen) /\ BomsSeen(c, seen)
  BY DEF Seen
<1> HIDE DEF c, seen
<1>4. c.op = "createProject" => c.project \in Projects /\ project[c.project].version = 0
  BY <1>1, <1>2, <1>3, CommandKinds, ProjectCommandFields
     DEF RowOf, ProjectRow, ProjectOperations, ProjectsSeen
<1>5. c.op = "transitionProject" => c.project \in Projects /\ seen = project[c.project]
  BY <1>1, <1>2, <1>3, CommandKinds, ProjectCommandFields
     DEF RowOf, ProjectRow, ProjectOperations, ProjectsSeen, Past
<1>6. c.op = "updateItem" => c.item \in Items /\ item[c.item].active
  BY <1>1, <1>2, <1>3, CommandKinds, ItemCommandFields
     DEF RowOf, ItemRow, ItemOperations, ProjectOperations, ItemsSeen, Past
<1>7. c.op \in Transitions \cup {"release"} =>
        c.revision \in Revisions /\ seen = revision[c.revision]
  BY <1>1, <1>2, <1>3, CommandKinds, BomCommandFields
     DEF RowOf, BomRow, ItemOperations, ProjectOperations, BomOperations, BomsSeen, Past,
         Transitions
<1> QED
  BY <1>1, <1>4, <1>5, <1>6, <1>7 DEF c, seen

\* What a check allows, by the operation.
LEMMA AllowedByKind ==
  ASSUME NEW c, ItemCommandAllowed(c) \/ BomCommandAllowed(c)
  PROVE  /\ c.op = "updateItemCategory" => UpdateItemCategoryAllowed(c)
         /\ c.op = "updateUnitOfMeasure" => UpdateUnitAllowed(c)
         /\ c.op = "createSpecificationAttribute" => CreateAttributeAllowed(c)
         /\ c.op = "updateSpecificationAttribute" => UpdateAttributeAllowed(c)
         /\ c.op \in {"createItem", "updateItem"} => ItemAllowed(c)
         /\ c.op = "confirmImport" => ConfirmAllowed(c)
         /\ c.op \in Transitions => TransitionAllowed(c)
         /\ c.op = "release" => ReleaseAllowed(c)
         /\ c.op = "updateLine" => LineGuard(c)
BY DEF ItemCommandAllowed, BomCommandAllowed, UpdateItemCategoryAllowed, UpdateUnitAllowed,
       CreateAttributeAllowed, UpdateAttributeAllowed, ItemAllowed, ConfirmAllowed,
       TransitionAllowed, ReleaseAllowed, LineGuard, Transitions

\* A check under locks decides what is decided.
LEMMA CheckDecidesItems ==
  ASSUME Typed, ItemMasterHolds, NEW c \in Commands, NEW seen, ItemsSeen(c, seen),
         ItemCommandAllowed(c) \/ BomCommandAllowed(c)
  PROVE  ItemsDecided(c)
<1>1. CASE c.op = "updateItemCategory"
  <2>1. UpdateItemCategoryAllowed(c)
    BY <1>1, AllowedByKind
  <2>2. ~itemCategory[c.category].active => ActiveItemsOf(c.category) = {}
    BY DEF ItemMasterHolds, ActiveRecordsUseActive, ActiveItemsOf
  <2> QED
    BY <1>1, <2>1, <2>2 DEF ItemsDecided, UpdateItemCategoryAllowed, AttributeOperations
<1>2. CASE c.op = "updateUnitOfMeasure"
  <2>1. UpdateUnitAllowed(c)
    BY <1>2, AllowedByKind
  <2>2. c.unit \in Units
    BY <1>2, CommandKinds, ItemCommandFields DEF ItemOperations
  <2>3. c.unit # None
    BY <2>2, EngineeringAssumption DEF None
  <2>4. ~unit[c.unit].active =>
          /\ \A i \in Items : item[i].active => item[i].unit # c.unit
          /\ \A a \in Attributes : attribute[a].active => attribute[a].shape.unit # c.unit
    BY <2>3 DEF ItemMasterHolds, ActiveRecordsUseActive
  <2> QED
    BY <1>2, <2>1, <2>4 DEF ItemsDecided, UpdateUnitAllowed, AttributeOperations
<1>3. CASE c.op = "createSpecificationAttribute"
  BY <1>3, AllowedByKind DEF ItemsDecided, CreateAttributeAllowed, AttributeOperations
<1>4. CASE c.op = "updateSpecificationAttribute"
  <2> DEFINE category == ItemCategoryOf[c.attribute]
             current == attribute[c.attribute]
  <2>1. UpdateAttributeAllowed(c)
    BY <1>4, AllowedByKind
  <2>2. c.attribute \in Attributes /\ Exists(current)
    BY <1>4, CommandKinds, ItemCommandFields DEF ItemOperations, AttributeOperations, ItemsSeen
  <2>3. current.active /\ current.required => ActiveItemsOf(category) \subseteq Holders(c.attribute)
    BY <2>2 DEF ItemMasterHolds, RequiredValuesPresent, AttributesOf, ActiveItemsOf, Holders
  <2> QED
    BY <1>4, <2>1, <2>3 DEF ItemsDecided, UpdateAttributeAllowed, AttributeOperations
<1>5. CASE c.op \in {"createItem", "updateItem"}
  BY <1>5, AllowedByKind DEF ItemsDecided, AttributeOperations
<1>6. CASE c.op \notin {"updateItemCategory", "updateUnitOfMeasure", "createItem", "updateItem",
                        "createSpecificationAttribute", "updateSpecificationAttribute"}
  BY <1>6 DEF ItemsDecided, AttributeOperations
<1> QED
  BY <1>1, <1>2, <1>3, <1>4, <1>5, <1>6

\* What a check finds of revisions and imports is what was seen of them.
LEMMA CheckDecidesBoms ==
  ASSUME NEW c, NEW seen, ItemCommandAllowed(c) \/ BomCommandAllowed(c),
         c.op \in Transitions \cup {"release"} => seen = revision[c.revision]
  PROVE  BomsDecided(c, seen)
BY AllowedByKind DEF BomsDecided, ConfirmAllowed, TransitionAllowed, ReleaseAllowed, Transitions

\* A transaction that waits for anything has a command.
LEMMA WaitingRuns ==
  ASSUME Typed, NEW t \in Tx, Waiting(t)
  PROVE  Running(t) /\ tx[t].command \in Commands
<1>1. Shaped(tx[t])
  BY DEF Typed
<1>2. CASE tx[t].command = Idle.command
  <2>1. Plan(tx[t].command) = <<>>
    BY <1>2 DEF Plan, Idle, None, ProjectOperations, ItemOperations
  <2> QED  BY <1>1, <2>1 DEF Waiting, Shaped
<1>3. CASE tx[t].command \in Commands
  BY <1>3, CommandKinds DEF Running
<1> QED  BY <1>1, <1>2, <1>3 DEF Shaped

\* A check under locks keeps the invariant: it decides on what it reads.
LEMMA CheckStep ==
  ASSUME Inv, NEW t \in Tx, CheckUnderLocks(t)
  PROVE  Inv'
<1> DEFINE c == tx[t].command
           seen == tx[t].seen
<1>1. /\ Waiting(t) /\ Wanted(t) = Check /\ Advance(t) /\ StillAsRead(t)
      /\ ItemCommandAllowed(c) \/ BomCommandAllowed(c)
  BY DEF CheckUnderLocks
<1>2. Running(t) /\ c \in Commands
  BY <1>1, WaitingRuns DEF Inv
<1>3. Seen(t) /\ Fresh(t)
  BY DEF Inv
<1>4. ItemsDecided(c)
  BY <1>1, <1>2, <1>3, CheckDecidesItems DEF Inv, Seen
<1>5. BomsDecided(c, seen)
  <2>1. c.op \in Transitions \cup {"release"} => seen = revision[c.revision]
    BY <1>1, <1>2, <1>3, SeenNow DEF Inv
  <2> HIDE DEF c, seen
  <2> QED  BY <1>1, <2>1, CheckDecidesBoms
<1>6. /\ UNCHANGED rows /\ tx' = [u \in Tx |-> tx'[u]] /\ Shaped(tx'[t])
      /\ \A u \in Tx \ {t} : tx'[u] = tx[u]
      /\ tx'[t].command = c /\ tx'[t].seen = seen
      /\ tx'[t].overtaken = tx[t].overtaken
      /\ tx'[t].pos <= Len(Plan(tx[t].command)')
      /\ Held(t)' = (Held(t) \cup {Check}) \ {Check}
      /\ Seen(t)'
  BY <1>1, AdvanceStep
<1>7. ASSUME NEW u \in Tx \ {t}, NEW a \in Held(t)', NEW b \in Held(u)
      PROVE  ~Conflict(a, b) /\ ~Conflict(b, a)
  BY <1>6, <1>7 DEF Inv, Exclusive
<1>8. Decided(t)'
  <2>1. ItemsDecided(tx[t].command)' = ItemsDecided(c)
    BY <1>6, KnownStays
  <2>2. BomsDecided(tx[t].command, tx[t].seen)' = BomsDecided(c, seen)
    BY <1>6, KnownStays
  <2> QED  BY <1>4, <1>5, <2>1, <2>2 DEF Decided
<1>9. Fresh(t)'
  <2>1. RowOf(tx[t].command)' = RowOf(c)
    BY <1>6, RowStays
  <2>2. /\ ItemCommandAllowed(tx[t].command)' = ItemCommandAllowed(c)
        /\ BomCommandAllowed(tx[t].command)' = BomCommandAllowed(c)
        /\ Begins(tx[t].command)' = Begins(c)
    BY <1>6, ChecksStay
  <2> QED  BY <1>1, <1>3, <1>6, <2>1, <2>2 DEF Fresh, Running
<1> QED
  BY <1>6, <1>7, <1>8, <1>9, QuietStep

-----------------------------------------------------------------------------
(* Commits of commands on projects. *)

\* A history goes on from where it ended.
LEMMA ProjectChainGrows ==
  ASSUME NEW steps \in Seq(Steps), NEW current, NEW target,
         Chains(steps, current, CanTransitionProject), CanTransitionProject(current, target)
  PROVE  Chains(Append(steps, [source |-> current, target |-> target]), target,
                CanTransitionProject)
<1> DEFINE step == [source |-> current, target |-> target]
           longer == Append(steps, step)
<1>1. Len(steps) \in Nat /\ Len(longer) = Len(steps) + 1
  OBVIOUS
<1>2. /\ \A n \in 1..Len(steps) : longer[n] = steps[n]
      /\ longer[Len(steps) + 1] = step
  OBVIOUS
<1>3. step.source = current /\ step.target = target /\ longer # <<>>
  BY <1>1
<1> HIDE DEF longer, step
<1>4. \A n \in 1..Len(longer) : CanTransitionProject(longer[n].source, longer[n].target)
  BY <1>1, <1>2, <1>3 DEF Chains
<1>5. ASSUME NEW n \in 1..Len(longer) - 1 PROVE longer[n].target = longer[n + 1].source
  <2>1. CASE n = Len(steps)
    <3>1. steps # <<>>
      BY <1>1, <1>5, <2>1
    <3> QED  BY <1>1, <1>2, <1>3, <1>5, <2>1, <3>1 DEF Chains, Last
  <2>2. CASE n # Len(steps)
    BY <1>1, <1>2, <1>5, <2>2 DEF Chains
  <2> QED  BY <2>1, <2>2
<1>6. Last(longer).target = target
  BY <1>1, <1>2, <1>3 DEF Last
<1> QED
  BY <1>4, <1>5, <1>6 DEF Chains, longer, step

\* The history of a revision grows by a step of its lifecycle.
LEMMA RevisionChainGrows ==
  ASSUME NEW steps \in Seq(Steps), NEW current, NEW target,
         Chains(steps, current, CanTransitionBom), CanTransitionBom(current, target)
  PROVE  Chains(Append(steps, [source |-> current, target |-> target]), target,
                CanTransitionBom)
<1> DEFINE step == [source |-> current, target |-> target]
           longer == Append(steps, step)
<1>1. Len(steps) \in Nat /\ Len(longer) = Len(steps) + 1
  OBVIOUS
<1>2. /\ \A n \in 1..Len(steps) : longer[n] = steps[n]
      /\ longer[Len(steps) + 1] = step
  OBVIOUS
<1>3. step.source = current /\ step.target = target /\ longer # <<>>
  BY <1>1
<1> HIDE DEF longer, step
<1>4. \A n \in 1..Len(longer) : CanTransitionBom(longer[n].source, longer[n].target)
  BY <1>1, <1>2, <1>3 DEF Chains
<1>5. ASSUME NEW n \in 1..Len(longer) - 1 PROVE longer[n].target = longer[n + 1].source
  <2>1. CASE n = Len(steps)
    <3>1. steps # <<>>
      BY <1>1, <1>5, <2>1
    <3> QED  BY <1>1, <1>2, <1>3, <1>5, <2>1, <3>1 DEF Chains, Last
  <2>2. CASE n # Len(steps)
    BY <1>1, <1>2, <1>5, <2>2 DEF Chains
  <2> QED  BY <2>1, <2>2
<1>6. Last(longer).target = target
  BY <1>1, <1>2, <1>3 DEF Last
<1> QED
  BY <1>4, <1>5, <1>6 DEF Chains, longer, step

ProjectChain(p) == Chains(history[p], project[p].state, CanTransitionProject)

RevisionChain(r) == Chains(history[r], revision[r].status, CanTransitionBom)

\* Nothing has happened yet to what has no history.
LEMMA EmptyChain ==
  ASSUME NEW current
  PROVE  Chains(<<>>, current, CanTransitionProject) /\ Chains(<<>>, current, CanTransitionBom)
<1>1. Len(<<>>) = 0 /\ 1..0 = {} /\ 1..(0 - 1) = {}
  OBVIOUS
<1> QED  BY <1>1 DEF Chains

\* What a commit on projects does to them.
ProjectsStep(c) ==
  /\ ProjectsTyped' /\ history' \in [Projects \cup Revisions -> Seq(Steps)]
  /\ \A p \in Projects : ProjectChain(p)'
  /\ \A r \in Revisions : history'[r] = history[r]
  /\ \A p \in Projects : project'[p] = project[p] \/ project'[p].version = project[p].version + 1
  /\ \A p \in Projects : project'[p] = project[p] => history'[p] = history[p]
  /\ \A p \in Projects : Open(p) => Open(p)' \/ (c.op = "transitionProject" /\ c.project = p)

\* Where no state changes, no history has to.
LEMMA StatesStay ==
  ASSUME \A p \in Projects : ProjectChain(p), UNCHANGED history,
         \A p \in Projects : project'[p].state = project[p].state
  PROVE  \A p \in Projects : ProjectChain(p)' /\ (Open(p) => Open(p)')
BY DEF ProjectChain, Open

\* A project that is created begins its history.
LEMMA CreateProjectKeeps ==
  ASSUME Typed, ProjectsLinked, \A p \in Projects : ProjectChain(p),
         NEW c \in ProjectCommands, CreateProject(c), project[c.project].version = 0
  PROVE  ProjectsStep(c)
<1> DEFINE row == [state |-> "DRAFT", from |-> c.window.from, to |-> c.window.to, version |-> 1]
<1>1. c.project \in Projects /\ c.window \in Windows /\ c.creator \in Memberships
  BY ProjectCommandFields DEF CreateProject
<1>2. row \in ProjectRows
  BY <1>1 DEF ProjectRows, Windows, States
<1>3. project' = [project EXCEPT ![c.project] = row] /\ UNCHANGED history
  BY DEF CreateProject
<1>4. history[c.project] = <<>>
  BY <1>1 DEF ProjectsLinked, Exists
<1>5. member' \in [Projects -> [Memberships -> MemberRows]]
  <2>1. member \in [Projects -> [Memberships -> MemberRows]]
    BY DEF Typed, ProjectsTyped
  <2>2. [role |-> "PROJECT_MANAGER", status |-> "ACTIVE", version |-> 1] \in MemberRows
    BY DEF MemberRows, MemberRoles
  <2> QED  BY <1>1, <2>1, <2>2 DEF CreateProject
<1> HIDE DEF row
<1>6. project \in [Projects -> ProjectRows]
  BY DEF Typed, ProjectsTyped
<1>7. ProjectsTyped'
  BY <1>1, <1>2, <1>3, <1>5, <1>6 DEF CreateProject, Typed, ProjectsTyped
<1>8. \A p \in Projects : ProjectChain(p)'
  <2>1. ASSUME NEW p \in Projects, p # c.project PROVE ProjectChain(p)'
    BY <1>3, <1>6, <2>1 DEF ProjectChain
  <2>2. ProjectChain(c.project)'
    <3>1. Chains(<<>>, project'[c.project].state, CanTransitionProject)
      BY EmptyChain
    <3> QED  BY <1>3, <1>4, <3>1 DEF ProjectChain, CreateProject
  <2> QED  BY <1>1, <2>1, <2>2
<1> QED  BY <1>1, <1>3, <1>6, <1>7, <1>8 DEF ProjectsStep, Typed, BomsTyped, Open, row, Terminal,
         CreateProject

\* New dates leave the state of a project alone.
LEMMA UpdateProjectKeeps ==
  ASSUME Typed, \A p \in Projects : ProjectChain(p), NEW c \in ProjectCommands,
         UpdateProject(c)
  PROVE  ProjectsStep(c)
<1>1. c.project \in Projects /\ c.window \in Windows
  BY ProjectCommandFields DEF UpdateProject
<1>2. project \in [Projects -> ProjectRows]
  BY DEF Typed, ProjectsTyped
<1>3. UNCHANGED history /\ \A p \in Projects \ {c.project} : project'[p] = project[p]
  BY <1>2 DEF UpdateProject
<1>4. /\ project' \in [Projects -> ProjectRows]
      /\ project'[c.project].state = project[c.project].state
      /\ project'[c.project].version = project[c.project].version + 1
  <2> DEFINE old == project[c.project]
             first == [old EXCEPT !.from = c.window.from]
             second == [first EXCEPT !.to = c.window.to]
             row == Updated([old EXCEPT !.from = c.window.from, !.to = c.window.to])
  <2>1. /\ row \in ProjectRows /\ row.state = project[c.project].state
        /\ row.version = project[c.project].version + 1
    <3>1. row = Updated(second)
      <4>1. [old EXCEPT !.from = c.window.from, !.to = c.window.to] = second
        OBVIOUS
      <4> HIDE DEF first, second
      <4> QED  BY <4>1
    <3>2. first \in ProjectRows /\ first.state = old.state /\ first.version = old.version
      BY <1>1, <1>2 DEF ProjectRows, Windows
    <3> HIDE DEF first
    <3>3. second \in ProjectRows /\ second.state = old.state /\ second.version = old.version
      BY <1>1, <3>2 DEF ProjectRows, Windows
    <3> HIDE DEF second
    <3>4. /\ Updated(second) \in ProjectRows /\ Updated(second).state = old.state
          /\ Updated(second).version = old.version + 1
      BY <3>3 DEF ProjectRows, Updated
    <3> HIDE DEF row
    <3> QED  BY <3>1, <3>4
  <2>2. project' = [project EXCEPT ![c.project] = row]
    BY DEF UpdateProject
  <2> HIDE DEF row
  <2> QED  BY <1>1, <1>2, <2>1, <2>2
<1>5. ProjectsTyped'
  BY <1>4 DEF UpdateProject, Typed, ProjectsTyped
<1>6. \A p \in Projects : ProjectChain(p)' /\ (Open(p) => Open(p)')
  BY <1>3, <1>4, StatesStay
<1> QED  BY <1>3, <1>4, <1>5, <1>6 DEF ProjectsStep, Typed, BomsTyped

\* A transition is written down.
LEMMA TransitionProjectKeeps ==
  ASSUME Typed, \A p \in Projects : ProjectChain(p), NEW c \in ProjectCommands, NEW seen,
         TransitionProject(c, seen), seen = project[c.project],
         CanTransitionProject(seen.state, c.target)
  PROVE  ProjectsStep(c)
<1> DEFINE p == c.project
<1>1. p \in Projects /\ c.target \in States /\ c.op = "transitionProject"
  BY ProjectCommandFields DEF TransitionProject
<1>2. project \in [Projects -> ProjectRows]
  BY DEF Typed, ProjectsTyped
<1>3. /\ history \in [Projects \cup Revisions -> Seq(Steps)]
      /\ history' = [history EXCEPT ![p] =
             Append(@, [source |-> project[p].state, target |-> c.target])]
  BY DEF Typed, BomsTyped, TransitionProject
<1>4. /\ project' \in [Projects -> ProjectRows]
      /\ project'[p].state = c.target
      /\ project'[p].version = project[p].version + 1
      /\ \A q \in Projects \ {p} : project'[q] = project[q]
  <2> DEFINE old == project[p]
             moved == [old EXCEPT !.state = c.target]
             row == Updated(moved)
  <2>1. /\ row \in ProjectRows /\ row.state = c.target
        /\ row.version = project[p].version + 1
    <3>1. moved \in ProjectRows /\ moved.state = c.target /\ moved.version = old.version
      BY <1>1, <1>2 DEF ProjectRows
    <3> HIDE DEF moved
    <3> QED  BY <3>1 DEF ProjectRows, Updated
  <2>2. project' = [project EXCEPT ![p] = row]
    BY DEF TransitionProject
  <2> HIDE DEF row
  <2> QED  BY <1>1, <1>2, <2>1, <2>2
<1>5. ProjectsTyped'
  BY <1>4 DEF TransitionProject, Typed, ProjectsTyped
<1>6. [source |-> project[p].state, target |-> c.target] \in Steps
  BY <1>1, <1>2 DEF Steps, Stati, ProjectRows
<1>7. /\ history' \in [Projects \cup Revisions -> Seq(Steps)]
      /\ history'[p] = Append(history[p], [source |-> project[p].state, target |-> c.target])
      /\ \A x \in (Projects \cup Revisions) \ {p} : history'[x] = history[x]
  BY <1>1, <1>3, <1>6
<1>8. ProjectChain(p)'
  <2>1. history[p] \in Seq(Steps)
    BY <1>1, <1>3
  <2>2. Chains(history[p], project[p].state, CanTransitionProject)
    BY <1>1 DEF ProjectChain
  <2>3. Chains(Append(history[p], [source |-> project[p].state, target |-> c.target]),
               c.target, CanTransitionProject)
    BY <2>1, <2>2, ProjectChainGrows
  <2> QED  BY <1>4, <1>7, <2>3 DEF ProjectChain
<1>9. ASSUME NEW q \in Projects \ {p} PROVE ProjectChain(q)' /\ (Open(q) => Open(q)')
  BY <1>4, <1>7 DEF ProjectChain, Open
<1>10. \A r \in Revisions : history'[r] = history[r]
  BY <1>1, <1>7, EngineeringAssumption
<1>11. project'[p] # project[p]
  <2>1. project[p].version \in Nat
    BY <1>1, <1>2 DEF ProjectRows
  <2> QED  BY <1>4, <2>1
<1>12. ASSUME NEW q \in Projects
       PROVE  /\ ProjectChain(q)'
              /\ project'[q] = project[q] \/ project'[q].version = project[q].version + 1
              /\ project'[q] = project[q] => history'[q] = history[q]
              /\ Open(q) => Open(q)' \/ (c.op = "transitionProject" /\ c.project = q)
  BY <1>1, <1>4, <1>7, <1>8, <1>9, <1>11
<1> HIDE DEF p
<1> QED
  BY <1>5, <1>7, <1>10, <1>12 DEF ProjectsStep

\* The other commands leave the projects themselves alone.
LEMMA PartsKeep ==
  ASSUME Typed, \A p \in Projects : ProjectChain(p), NEW c \in ProjectCommands,
         WriteProductCategory(c) \/ WriteProjectMember(c) \/ WriteMilestone(c) \/ WriteWorkPackage(c)
  PROVE  ProjectsStep(c)
<1>1. UNCHANGED <<project, history>>
  BY DEF WriteProductCategory, WriteProjectMember, WriteMilestone, WriteWorkPackage
<1>2. ProjectsTyped'
  <2>1. CASE WriteProductCategory(c)
    <3>1. c.op = "updateProductCategory" => c.active \in BOOLEAN
      BY ProjectCommandFields
    <3> DEFINE active == IF c.op = "createProductCategory" THEN TRUE ELSE c.active
    <3>2. active \in BOOLEAN
      BY <2>1, <3>1 DEF WriteProductCategory
    <3>3. c.category \in ProductCategories
      BY <2>1, ProjectCommandFields DEF WriteProductCategory
    <3>4. productCategory' = [productCategory EXCEPT ![c.category] =
             [active |-> active, version |-> Next1(productCategory[c.category])]]
      BY <2>1 DEF WriteProductCategory
    <3> HIDE DEF active
    <3>5. productCategory' \in [ProductCategories -> ActiveRows]
      BY <3>2, <3>3, <3>4 DEF Typed, ProjectsTyped, ActiveRows, Next1
    <3> QED
      BY <2>1, <3>5 DEF WriteProductCategory, Typed, ProjectsTyped
  <2>2. CASE WriteProjectMember(c)
    <3>1. /\ c.project \in Projects /\ c.member \in Memberships /\ c.role \in MemberRoles
          /\ c.op = "updateProjectMember" => c.status \in {"ACTIVE", "INACTIVE"}
          /\ c.op \in {"addProjectMember", "updateProjectMember"}
      BY <2>2, ProjectCommandFields DEF WriteProjectMember
    <3>2. member \in [Projects -> [Memberships -> MemberRows]]
      BY DEF Typed, ProjectsTyped
    <3>3. [role |-> c.role, status |-> IF c.op = "addProjectMember" THEN "ACTIVE" ELSE c.status,
           version |-> Next1(member[c.project][c.member])] \in MemberRows
      BY <3>1, <3>2 DEF MemberRows, Next1
    <3>4. member' \in [Projects -> [Memberships -> MemberRows]]
      BY <2>2, <3>1, <3>2, <3>3 DEF WriteProjectMember
    <3> QED
      BY <2>2, <3>4 DEF WriteProjectMember, Typed, ProjectsTyped
  <2>3. CASE WriteMilestone(c)
    <3>1. c.project \in Projects /\ c.milestone \in Milestones /\ c.date \in Dates
      BY <2>3, ProjectCommandFields DEF WriteMilestone
    <3> QED
      BY <2>3, <3>1 DEF WriteMilestone, Typed, ProjectsTyped, MilestoneRows, Next1
  <2>4. CASE WriteWorkPackage(c)
    <3>1. /\ c.project \in Projects /\ c.package \in Packages /\ c.window \in Windows
          /\ c.milestone \in Milestones \cup {None}
      BY <2>4, ProjectCommandFields DEF WriteWorkPackage
    <3> QED
      BY <2>4, <3>1 DEF WriteWorkPackage, Typed, ProjectsTyped, PackageRows, Next1, Windows
  <2> QED  BY <2>1, <2>2, <2>3, <2>4
<1>3. \A p \in Projects : ProjectChain(p)' /\ (Open(p) => Open(p)')
  BY <1>1, StatesStay
<1> QED
  BY <1>1, <1>2, <1>3 DEF ProjectsStep, Typed, BomsTyped

\* A project there is stays.
LEMMA ProjectsRemain ==
  ASSUME Typed, NEW c, ProjectsStep(c)
  PROVE  \A p \in Projects : /\ project[p].version \in Nat
                             /\ Exists(project[p]) => Exists(project[p])'
                             /\ project'[p] # project[p] => Exists(project[p])'
BY DEF Typed, ProjectsTyped, ProjectRows, ProjectsStep, Exists

\* What belongs to a project belongs to one there is.
LEMMA ProjectsStayLinked ==
  ASSUME Typed, ProjectsLinked, NEW c \in ProjectCommands, NEW seen, ProjectsSeen(c, seen),
         ProjectsStep(c),
         \/ WriteProductCategory(c) \/ CreateProject(c) \/ UpdateProject(c)
         \/ TransitionProject(c, seen) \/ WriteProjectMember(c)
         \/ WriteMilestone(c) \/ WriteWorkPackage(c)
  PROVE  ProjectsLinked'
<1>1. \A p \in Projects : /\ project[p].version \in Nat
                          /\ Exists(project[p]) => Exists(project[p])'
                          /\ project'[p] # project[p] => Exists(project[p])'
  BY ProjectsRemain
<1>2. ASSUME NEW p \in Projects
      PROVE  (Exists(project[p]) \/ (project[p].state = "DRAFT" /\ history[p] = <<>>))'
  <2>1. CASE project'[p] # project[p]
    BY <1>1, <2>1
  <2>2. CASE project'[p] = project[p]
    BY <2>2 DEF ProjectsStep, ProjectsLinked, Exists
  <2> QED  BY <2>1, <2>2
<1>3. ASSUME NEW p \in Projects, NEW m \in Memberships
      PROVE  (Exists(member[p][m]) \/ member[p][m].role = None)'
  <2>1. member \in [Projects -> [Memberships -> MemberRows]]
    BY DEF Typed, ProjectsTyped
  <2>2. CASE member'[p][m] = member[p][m]
    BY <2>2 DEF ProjectsLinked, Exists
  <2>3. CASE CreateProject(c) /\ member'[p][m] # member[p][m]
    <3>1. member'[p][m].version = 1
      BY <2>1, <2>3 DEF CreateProject
    <3> QED  BY <3>1 DEF Exists
  <2>4. CASE WriteProjectMember(c) /\ member'[p][m] # member[p][m]
    <3>1. member'[p][m].version = member[p][m].version + 1
      BY <2>1, <2>4 DEF WriteProjectMember, Next1
    <3>2. member[p][m].version \in Nat
      BY <2>1 DEF MemberRows
    <3> QED  BY <3>1, <3>2 DEF Exists
  <2> QED
    BY <2>2, <2>3, <2>4 DEF WriteProductCategory, UpdateProject, TransitionProject,
       WriteMilestone, WriteWorkPackage
<1>4. ASSUME NEW m \in Milestones
      PROVE  (IF milestone[m].project = None THEN ~Exists(milestone[m])
              ELSE Exists(milestone[m]) /\ Exists(project[milestone[m].project]))'
  <2>1. milestone \in [Milestones -> MilestoneRows]
    BY DEF Typed, ProjectsTyped
  <2>2. CASE milestone'[m] = milestone[m]
    <3>1. milestone[m].project # None => milestone[m].project \in Projects
      BY <2>1 DEF MilestoneRows
    <3> QED  BY <1>1, <2>2, <3>1 DEF ProjectsLinked, Exists
  <2>3. CASE WriteMilestone(c) /\ milestone'[m] # milestone[m]
    <3>1. /\ milestone'[m].project = c.project
          /\ milestone'[m].version = milestone[m].version + 1
      BY <2>1, <2>3 DEF WriteMilestone, Next1
    <3>2. c.project \in Projects /\ c.project # None /\ Exists(project[c.project])
      BY <2>3, ProjectCommandFields, EngineeringAssumption DEF WriteMilestone, ProjectsSeen, None
    <3>3. milestone[m].version \in Nat
      BY <2>1 DEF MilestoneRows
    <3> QED  BY <1>1, <3>1, <3>2, <3>3 DEF Exists
  <2> QED
    BY <2>2, <2>3 DEF WriteProductCategory, CreateProject, UpdateProject, TransitionProject,
       WriteProjectMember, WriteWorkPackage
<1>5. ASSUME NEW k \in Packages
      PROVE  (IF package[k].project = None THEN ~Exists(package[k])
              ELSE Exists(package[k]) /\ Exists(project[package[k].project]))'
  <2>1. package \in [Packages -> PackageRows]
    BY DEF Typed, ProjectsTyped
  <2>2. CASE package'[k] = package[k]
    <3>1. package[k].project # None => package[k].project \in Projects
      BY <2>1 DEF PackageRows
    <3> QED  BY <1>1, <2>2, <3>1 DEF ProjectsLinked, Exists
  <2>3. CASE WriteWorkPackage(c) /\ package'[k] # package[k]
    <3>1. /\ package'[k].project = c.project
          /\ package'[k].version = package[k].version + 1
      BY <2>1, <2>3 DEF WriteWorkPackage, Next1
    <3>2. c.project \in Projects /\ c.project # None /\ Exists(project[c.project])
      BY <2>3, ProjectCommandFields, EngineeringAssumption DEF WriteWorkPackage, ProjectsSeen, None
    <3>3. package[k].version \in Nat
      BY <2>1 DEF PackageRows
    <3> QED  BY <1>1, <3>1, <3>2, <3>3 DEF Exists
  <2> QED
    BY <2>2, <2>3 DEF WriteProductCategory, CreateProject, UpdateProject, TransitionProject,
       WriteProjectMember, WriteMilestone
<1> QED
  BY <1>2, <1>3, <1>4, <1>5 DEF ProjectsLinked

\* A commit on projects keeps what is said of projects.
LEMMA ProjectsKept ==
  ASSUME Typed, ProjectsLinked, \A p \in Projects : ProjectChain(p), NEW t \in Tx,
         Running(t), Seen(t), StillAsRead(t), WriteProjects(tx[t].command, tx[t].seen)
  PROVE  /\ tx[t].command \in ProjectCommands
         /\ ProjectsStep(tx[t].command) /\ ProjectsLinked'
<1> DEFINE c == tx[t].command
           seen == tx[t].seen
<1>1. /\ c \in Commands
      /\ c.op = "createProject" => project[c.project].version = 0
      /\ c.op = "transitionProject" => seen = project[c.project]
  BY SeenNow
<1>2. ProjectsSeen(c, seen)
  BY DEF Seen
<1>3. \/ WriteProductCategory(c) \/ CreateProject(c) \/ UpdateProject(c)
      \/ TransitionProject(c, seen) \/ WriteProjectMember(c)
      \/ WriteMilestone(c) \/ WriteWorkPackage(c)
  BY DEF WriteProjects
<1> HIDE DEF c, seen
<1>4. c.op \in ProjectOperations
  BY <1>3 DEF WriteProductCategory, CreateProject, UpdateProject, TransitionProject,
     WriteProjectMember, WriteMilestone, WriteWorkPackage, ProjectOperations
<1>5. c \in ProjectCommands
  BY <1>1, <1>4, CommandKinds
<1>6. ProjectsStep(c)
  <2>1. CASE CreateProject(c)
    <3>1. project[c.project].version = 0
      BY <1>1, <2>1 DEF CreateProject
    <3> QED  BY <1>5, <2>1, <3>1, CreateProjectKeeps
  <2>2. CASE UpdateProject(c)
    BY <1>5, <2>2, UpdateProjectKeeps
  <2>3. CASE TransitionProject(c, seen)
    <3>1. seen = project[c.project] /\ CanTransitionProject(seen.state, c.target)
      BY <1>1, <1>2, <2>3 DEF TransitionProject, ProjectsSeen
    <3> QED  BY <1>5, <2>3, <3>1, TransitionProjectKeeps
  <2>4. CASE WriteProductCategory(c) \/ WriteProjectMember(c) \/ WriteMilestone(c)
               \/ WriteWorkPackage(c)
    BY <1>5, <2>4, PartsKeep
  <2> QED  BY <1>3, <2>1, <2>2, <2>3, <2>4
<1>7. ProjectsLinked'
  BY <1>2, <1>3, <1>5, <1>6, ProjectsStayLinked
<1> QED  BY <1>5, <1>6, <1>7 DEF c

-----------------------------------------------------------------------------
(* Commits and the other transactions. *)

\* What a commit does to the transactions.
LEMMA CommitOthers ==
  ASSUME Inv, NEW t \in Tx, Commit(t)
  PROVE  /\ tx[t].command \in Commands /\ tx[t].pos = Len(Plan(tx[t].command))
         /\ tx' = [u \in Tx |-> tx'[u]] /\ tx'[t] = Idle
         /\ \A u \in Tx \ {t} :
               /\ tx'[u].command = tx[u].command /\ tx'[u].pos = tx[u].pos
               /\ tx'[u].seen = tx[u].seen
               /\ Shaped(tx'[u])
               /\ Running(u) => tx'[u].overtaken
<1>1. tx' = [u \in Tx |-> IF u = t THEN Idle
                          ELSE IF Running(u) /\ TRUE
                               THEN [tx[u] EXCEPT !.overtaken = TRUE]
                               ELSE tx[u]]
  BY DEF Commit, Done
<1>2. \A u \in Tx : Shaped(tx[u])
  BY DEF Inv, Typed
<1>3. ASSUME NEW u \in Tx \ {t}
      PROVE  /\ tx'[u].command = tx[u].command /\ tx'[u].pos = tx[u].pos
             /\ tx'[u].seen = tx[u].seen
             /\ Shaped(tx'[u])
             /\ Running(u) => tx'[u].overtaken
  <2>1. CASE Running(u)
    <3>1. tx'[u] = [tx[u] EXCEPT !.overtaken = TRUE]
      BY <1>1, <2>1
    <3>2. Shaped(tx[u])
      BY <1>2
    <3> QED  BY <3>1, <3>2 DEF Shaped
  <2>2. CASE ~Running(u)
    <3>1. tx'[u] = tx[u]
      BY <1>1, <2>2
    <3> QED  BY <1>2, <2>2, <3>1
  <2> QED  BY <2>1, <2>2
<1>4. tx'[t] = Idle
  BY <1>1
<1>5. tx' = [u \in Tx |-> tx'[u]]
  BY <1>1
<1>6. tx[t].command \in Commands
  <2>1. Running(t) /\ Shaped(tx[t])
    BY <1>2 DEF Commit
  <2> QED  BY <2>1 DEF Running, Shaped, Idle
<1>7. tx[t].pos = Len(Plan(tx[t].command))
  <2>1. Len(Plan(tx[t].command)) \in Nat
    BY <1>6, PlansCheck
  <2>2. tx[t].pos \in Nat /\ tx[t].pos <= Len(Plan(tx[t].command))
    BY <1>2 DEF Inv, Exclusive, Shaped
  <2>3. ~(tx[t].pos < Len(Plan(tx[t].command)))
    BY DEF Commit, Waiting
  <2> QED  BY <2>1, <2>2, <2>3
<1> QED  BY <1>3, <1>4, <1>5, <1>6, <1>7

\* A commit keeps the invariant when the rows it leaves do, and the other
\* transactions keep their place, what they know and what they have decided.
LEMMA CommitKeeps ==
  ASSUME Inv, NEW t \in Tx, Commit(t),
         ProjectsTyped', ItemsTyped', BomsTyped', Linked', HistoriesChain', ItemMasterHolds',
         \A u \in Tx \ {t} : Running(u) =>
            /\ tx[u].pos <= Len(Plan(tx[u].command)')
            /\ \A n \in 1..tx[u].pos : Plan(tx[u].command)'[n] = Plan(tx[u].command)[n]
            /\ Seen(u)'
            /\ Checked(u) => ItemsDecided(tx[u].command)' /\ BomsDecided(tx[u].command, tx[u].seen)'
  PROVE  Inv'
<1>1. /\ tx' = [u \in Tx |-> tx'[u]] /\ tx'[t] = Idle
      /\ \A u \in Tx \ {t} :
            /\ tx'[u].command = tx[u].command /\ tx'[u].pos = tx[u].pos
            /\ tx'[u].seen = tx[u].seen
            /\ Shaped(tx'[u])
            /\ Running(u) => tx'[u].overtaken
  BY CommitOthers
<1>2. ASSUME NEW u \in Tx, tx'[u].command = Idle.command, tx'[u].pos = 0
      PROVE  /\ Held(u)' = {} /\ (tx[u].pos <= Len(Plan(tx[u].command)))'
             /\ Seen(u)' /\ Decided(u)' /\ Fresh(u)'
  <2>1. Plan(tx[u].command)' = <<>>
    BY <1>2 DEF Plan, Idle, None, ProjectOperations, ItemOperations
  <2>2. Held(u)' = {} /\ ~Checked(u)'
    BY <1>2 DEF Held, Checked
  <2>3. Seen(u)' /\ Decided(u)' /\ Fresh(u)'
    BY <1>2, <2>2 DEF Seen, ProjectsSeen, ItemsSeen, BomsSeen, Fresh, Running, Decided, None,
       Transitions, Idle
  <2> QED  BY <1>2, <2>1, <2>2, <2>3
<1>3. ASSUME NEW u \in Tx \ {t}, Running(u)
      PROVE  /\ Held(u)' = Held(u) /\ (tx[u].pos <= Len(Plan(tx[u].command)))'
             /\ Seen(u)' /\ Decided(u)' /\ Fresh(u)'
  <2>1. Held(u)' = Held(u)
    BY <1>1, <1>3 DEF Held
  <2>2. Checked(u)' => Checked(u)
    BY <1>1, <1>3 DEF Checked
  <2>3. Decided(u)'
    BY <1>3, <2>2 DEF Decided
  <2>4. Fresh(u)'
    BY <1>1, <1>3 DEF Fresh
  <2> QED  BY <1>1, <1>3, <2>1, <2>3, <2>4
<1>4. ASSUME NEW u \in Tx \ {t}, ~Running(u)
      PROVE  /\ tx[u].command = Idle.command /\ tx[u].pos = 0
             /\ tx'[u].command = Idle.command /\ tx'[u].pos = 0
  <2>1. Shaped(tx[u])
    BY DEF Inv, Typed
  <2>2. tx[u].command = Idle.command
    BY <1>4, <2>1, CommandKinds DEF Running, Shaped
  <2>3. Plan(tx[u].command) = <<>>
    BY <2>2 DEF Plan, Idle, None, ProjectOperations, ItemOperations
  <2>4. tx[u].pos = 0
    BY <2>1, <2>3 DEF Inv, Exclusive, Shaped
  <2> QED  BY <1>1, <2>2, <2>4
<1>5. tx'[t].command = Idle.command /\ tx'[t].pos = 0
  BY <1>1 DEF Idle
<1>6. \A u \in Tx : /\ (tx[u].pos <= Len(Plan(tx[u].command)))'
                    /\ Seen(u)' /\ Decided(u)' /\ Fresh(u)'
                    /\ Held(u)' = {} \/ (u # t /\ Held(u)' = Held(u))
  BY <1>2, <1>3, <1>4, <1>5
<1>7. Exclusive'
  <2>1. ASSUME NEW u \in Tx, NEW v \in Tx, u # v
        PROVE  (\A a \in Held(u), b \in Held(v) : ~Conflict(a, b))'
    BY <1>6, <2>1 DEF Inv, Exclusive
  <2> QED  BY <1>6, <2>1 DEF Exclusive
<1>8. Typed'
  <2>1. \A u \in Tx : Shaped(tx'[u])
    <3>1. Shaped(Idle)
      BY DEF Shaped, Idle
    <3> QED  BY <1>1, <3>1
  <2>2. (\A u \in Tx : Shaped(tx[u]))'
    BY <2>1 DEF Shaped
  <2> QED  BY <1>1, <2>2 DEF Typed
<1>9. (\A u \in Tx : Seen(u) /\ Decided(u) /\ Fresh(u))'
  BY <1>6
<1> QED  BY <1>7, <1>8, <1>9 DEF Inv

\* No two transactions hold the same row when one of them is to change it.
LEMMA UpdateExcludes ==
  ASSUME Exclusive, NEW t \in Tx, NEW u \in Tx, t # u, NEW table, NEW id, NEW mode,
         Lock(table, id, "UPDATE") \in Held(t), Lock(table, id, mode) \in Held(u)
  PROVE  FALSE
BY DEF Exclusive, Conflict, Lock

\* A lock of the plan that has been passed is held.
LEMMA PassedIsHeld ==
  ASSUME NEW u \in Tx, NEW n \in 1..tx[u].pos, NEW table, NEW id, NEW mode,
         Plan(tx[u].command)[n] = Lock(table, id, mode)
  PROVE  Lock(table, id, mode) \in Held(u)
BY DEF Held, Lock, Check

\* What a transaction holds when it has checked.
LEMMA CheckedHolds ==
  ASSUME Inv, NEW u \in Tx, NEW c \in Commands, tx[u].command = c, Checked(u)
  PROVE  /\ c.op = "updateItemCategory" => Lock("item_categories", c.category, "UPDATE") \in Held(u)
         /\ c.op = "updateUnitOfMeasure" => Lock("units", c.unit, "UPDATE") \in Held(u)
         /\ c.op \in AttributeOperations =>
              /\ Lock("item_categories", ItemCategoryOf[c.attribute], "UPDATE") \in Held(u)
              /\ c.shape.unit # None => Lock("units", c.shape.unit, "SHARE") \in Held(u)
         /\ c.op \in {"createItem", "updateItem"} =>
              /\ Lock("item_categories", ItemCategoryOf[c.item], "SHARE") \in Held(u)
              /\ Lock("units", c.unit, "SHARE") \in Held(u)
         /\ c.op = "confirmImport" => Lock("imports", c.revision, "UPDATE") \in Held(u)
         /\ c.op = "release" => Lock("projects", ProjectOf[c.revision], "UPDATE") \in Held(u)
<1>1. PICK n \in 1..tx[u].pos : Plan(c)[n] = Check
  BY DEF Checked
<1>2. tx[u].pos \in Nat /\ tx[u].pos <= Len(Plan(c)) /\ Len(Plan(c)) \in Nat
  BY PlansCheck DEF Inv, Exclusive, Typed, Shaped
<1>3. \A table, id, mode : Lock(table, id, mode) # Check /\ Lock(table, id, mode).table = table
  <2>1. \A table, id, mode : Lock(table, id, mode).mode = mode /\ "mode" \in DOMAIN Lock(table, id, mode)
    BY DEF Lock
  <2>2. "mode" \notin DOMAIN Check
    BY DEF Check
  <2> QED  BY <2>1, <2>2 DEF Lock
<1>4. c.op = "updateItemCategory" => Lock("item_categories", c.category, "UPDATE") \in Held(u)
  <2>1. HAVE c.op = "updateItemCategory"
  <2>2. Plan(c) = <<Lock("item_categories", c.category, "UPDATE"), Check>>
    BY <2>1, PlanOfMaster, CommandKinds DEF ItemOperations
  <2>3. Plan(c)[1] = Lock("item_categories", c.category, "UPDATE") /\ 1 \in 1..tx[u].pos
    BY <1>1, <1>2, <2>2
  <2> QED  BY <2>3, PassedIsHeld
<1>5. c.op = "updateUnitOfMeasure" => Lock("units", c.unit, "UPDATE") \in Held(u)
  <2>1. HAVE c.op = "updateUnitOfMeasure"
  <2>2. Plan(c) = <<Lock("units", c.unit, "UPDATE"), Check>>
    BY <2>1, PlanOfMaster, CommandKinds DEF ItemOperations
  <2>3. Plan(c)[1] = Lock("units", c.unit, "UPDATE") /\ 1 \in 1..tx[u].pos
    BY <1>1, <1>2, <2>2
  <2> QED  BY <2>3, PassedIsHeld
<1>6. ASSUME c.op \in AttributeOperations
      PROVE  /\ Lock("item_categories", ItemCategoryOf[c.attribute], "UPDATE") \in Held(u)
             /\ c.shape.unit # None => Lock("units", c.shape.unit, "SHARE") \in Held(u)
  <2>1. c \in ItemCommands
    BY <1>6, CommandKinds DEF ItemOperations, AttributeOperations
  <2>2. /\ Len(Plan(c)) >= 2
        /\ Plan(c)[1] = Lock("item_categories", ItemCategoryOf[c.attribute], "UPDATE")
        /\ c.shape.unit # None =>
              /\ Len(Plan(c)) >= 3
              /\ Plan(c)[Len(Plan(c)) - 1] = Lock("units", c.shape.unit, "SHARE")
              /\ \A k \in 2..Len(Plan(c)) - 2 : Plan(c)[k] = Lock("attributes", c.attribute, "UPDATE")
    BY <1>6, <2>1, PlanOfAttribute
  <2>3. 1 \in 1..tx[u].pos
    BY <1>1, <1>2
  <2>4. ASSUME c.shape.unit # None PROVE Lock("units", c.shape.unit, "SHARE") \in Held(u)
    <3>1. n # 1 /\ n # Len(Plan(c)) - 1 /\ n \notin 2..Len(Plan(c)) - 2
      BY <1>1, <1>3, <2>2, <2>4
    <3>2. Len(Plan(c)) - 1 \in 1..tx[u].pos
      BY <1>1, <1>2, <2>2, <2>4, <3>1
    <3> QED  BY <2>2, <2>4, <3>2, PassedIsHeld
  <2> QED  BY <2>2, <2>3, <2>4, PassedIsHeld
<1>7. ASSUME c.op \in {"createItem", "updateItem"}
      PROVE  /\ Lock("item_categories", ItemCategoryOf[c.item], "SHARE") \in Held(u)
             /\ Lock("units", c.unit, "SHARE") \in Held(u)
  <2>1. c \in ItemCommands
    BY <1>7, CommandKinds DEF ItemOperations
  <2>2. /\ Plan(c)[1] = Lock("item_categories", ItemCategoryOf[c.item], "SHARE")
        /\ Plan(c)[2] = Lock("units", c.unit, "SHARE")
    BY <1>7, <2>1, PlanOfItem
  <2>3. n # 1 /\ n # 2
    BY <1>1, <1>3, <2>2
  <2>4. 1 \in 1..tx[u].pos /\ 2 \in 1..tx[u].pos
    BY <1>1, <1>2, <2>3
  <2> QED  BY <2>2, <2>4, PassedIsHeld
<1>8. c.op = "confirmImport" => Lock("imports", c.revision, "UPDATE") \in Held(u)
  <2>1. HAVE c.op = "confirmImport"
  <2>2. Plan(c)[1] = Lock("imports", c.revision, "UPDATE") /\ 1 \in 1..tx[u].pos
    BY <1>1, <1>2, <2>1, PlanOfConfirm, CommandKinds DEF BomOperations
  <2> QED  BY <2>2, PassedIsHeld
<1>9. c.op = "release" => Lock("projects", ProjectOf[c.revision], "UPDATE") \in Held(u)
  <2>1. HAVE c.op = "release"
  <2>2. /\ Len(Plan(c)) >= 3
        /\ Plan(c)[1] = Lock("boms", ProjectOf[c.revision], "UPDATE")
        /\ Plan(c)[Len(Plan(c)) - 1] = Lock("projects", ProjectOf[c.revision], "UPDATE")
        /\ \A k \in 2..Len(Plan(c)) - 2 : Plan(c)[k].table = "revisions"
    BY <2>1, PlanOfRelease, CommandKinds DEF BomOperations
  <2>3. n # 1 /\ n # Len(Plan(c)) - 1
    BY <1>1, <1>3, <2>2
  <2>4. n \notin 2..Len(Plan(c)) - 2
    <3>1. Check.table = "check"
      BY DEF Check
    <3> QED  BY <1>1, <2>2, <3>1
  <2>5. Len(Plan(c)) - 1 \in 1..tx[u].pos
    BY <1>1, <1>2, <2>2, <2>3, <2>4
  <2> QED  BY <2>2, <2>5, PassedIsHeld
<1> QED  BY <1>4, <1>5, <1>6, <1>7, <1>8, <1>9

\* What is known of rows that stay.
LEMMA StillKnown ==
  ASSUME NEW u, NEW c, tx'[u].command = c, NEW seen, tx'[u].seen = seen
  PROVE  /\ UNCHANGED project =>
              ProjectsSeen(tx[u].command, tx[u].seen)' = ProjectsSeen(c, seen)
         /\ UNCHANGED itemRows =>
              /\ ItemsSeen(tx[u].command, tx[u].seen)' = ItemsSeen(c, seen)
              /\ ItemsDecided(tx[u].command)' = ItemsDecided(c)
         /\ UNCHANGED revision =>
              BomsSeen(tx[u].command, tx[u].seen)' = BomsSeen(c, seen)
<1>1. UNCHANGED project =>
        ProjectsSeen(tx[u].command, tx[u].seen)' = ProjectsSeen(c, seen)
  BY DEF ProjectsSeen, Exists, Past
<1>2. UNCHANGED itemRows => ItemsSeen(tx[u].command, tx[u].seen)' = ItemsSeen(c, seen)
  BY DEF ItemsSeen, Exists, Past, itemRows
<1>3. UNCHANGED itemRows => ItemsDecided(tx[u].command)' = ItemsDecided(c)
  BY DEF ItemsDecided, ItemAllowed, ActiveItemsOf, Holders, Covers, AttributesOf, Exists, itemRows
<1>4. UNCHANGED revision => BomsSeen(tx[u].command, tx[u].seen)' = BomsSeen(c, seen)
  BY DEF BomsSeen, Exists, Past
<1> QED  BY <1>1, <1>2, <1>3, <1>4

\* A row that stays or counts its version up is past what was seen.
LEMMA PastStays ==
  ASSUME NEW seen, NEW row, NEW next, Past(row, seen), row.version \in Nat,
         next = row \/ next.version = row.version + 1
  PROVE  Past(next, seen)
BY DEF Past

\* A commit on projects leaves the other transactions what they know.
LEMMA ProjectsCommitBeside ==
  ASSUME Inv, NEW t \in Tx, NEW u \in Tx, u # t, Running(u), Commit(t),
         ProjectsStep(tx[t].command), UNCHANGED <<itemRows, bomRows>>
  PROVE  /\ Plan(tx[u].command)' = Plan(tx[u].command)
         /\ Seen(u)'
         /\ Checked(u) => ItemsDecided(tx[u].command)' /\ BomsDecided(tx[u].command, tx[u].seen)'
<1> DEFINE c == tx[u].command
           seen == tx[u].seen
           d == tx[t].command
<1>1. tx'[u].command = c /\ tx'[u].seen = seen
  BY CommitOthers
<1>2. c \in Commands
  BY DEF Inv, Typed, Shaped, Running, Idle
<1>3. Seen(u) /\ Decided(u)
  BY DEF Inv
<1>4. UNCHANGED <<attribute, revision>>
  BY DEF itemRows, bomRows
<1>5. Plan(tx[u].command)' = Plan(tx[u].command)
  BY <1>1, <1>4, PlanStays
<1>6. ProjectsSeen(tx[u].command, tx[u].seen)'
  <2>1. ProjectsSeen(c, seen)
    BY <1>3 DEF Seen
  <2>2. c.op \in {"transitionProject", "createMilestone", "updateMilestone",
                  "createWorkPackage", "updateWorkPackage"} => c.project \in Projects
    BY <1>2, CommandKinds, ProjectCommandFields DEF ProjectOperations
  <2>3. \A p \in Projects : /\ project[p].version \in Nat
                            /\ Exists(project[p]) => Exists(project[p])'
    BY ProjectsRemain DEF Inv
  <2>4. \A p \in Projects : project'[p] = project[p] \/ project'[p].version = project[p].version + 1
    BY DEF ProjectsStep
  <2>5. c.op = "transitionProject" => Past(project'[c.project], seen)
    <3>1. HAVE c.op = "transitionProject"
    <3>2. Past(project[c.project], seen) /\ c.project \in Projects
      BY <2>1, <2>2, <3>1 DEF ProjectsSeen
    <3> HIDE DEF c, seen
    <3> QED  BY <2>3, <2>4, <3>2, PastStays
  <2> HIDE DEF c, seen
  <2> QED  BY <1>1, <2>1, <2>2, <2>3, <2>5 DEF ProjectsSeen, Exists
<1>7. ItemsSeen(tx[u].command, tx[u].seen)' /\ BomsSeen(tx[u].command, tx[u].seen)'
  BY <1>1, <1>3, <1>4, StillKnown DEF Seen
<1>8. Checked(u) => ItemsDecided(tx[u].command)'
  BY <1>1, <1>3, StillKnown DEF Decided
<1>9. ASSUME Checked(u) PROVE BomsDecided(tx[u].command, tx[u].seen)'
  <2>1. BomsDecided(c, seen)
    BY <1>3, <1>9 DEF Decided
  <2>2. ASSUME c.op = "release" PROVE project'[ProjectOf[c.revision]].state \notin Terminal
    <3>1. ProjectOf[c.revision] \in Projects
      BY <1>2, <2>2, CommandKinds, BomCommandFields, EngineeringAssumption DEF BomOperations
    <3>2. Open(ProjectOf[c.revision])
      BY <2>1, <2>2 DEF BomsDecided
    <3>3. CASE d.op = "transitionProject" /\ d.project = ProjectOf[c.revision]
      <4>1. d \in ProjectCommands /\ tx[t].pos = Len(Plan(d))
        BY <3>3, CommitOthers, CommandKinds DEF ProjectOperations
      <4>2. Plan(d) = <<Lock("projects", d.project, "UPDATE")>>
        BY <3>3, <4>1, PlanOfProject
      <4>3. 1 \in 1..tx[t].pos /\ Plan(d)[1] = Lock("projects", d.project, "UPDATE")
        BY <4>1, <4>2
      <4>4. Lock("projects", d.project, "UPDATE") \in Held(t)
        BY <4>3, PassedIsHeld
      <4>5. Lock("projects", d.project, "UPDATE") \in Held(u)
        BY <1>2, <1>9, <2>2, <3>3, CheckedHolds
      <4> QED  BY <4>4, <4>5, UpdateExcludes DEF Inv
    <3>4. CASE ~(d.op = "transitionProject" /\ d.project = ProjectOf[c.revision])
      <4>1. \A p \in Projects : Open(p) => Open(p)' \/ (d.op = "transitionProject" /\ d.project = p)
        BY DEF ProjectsStep
      <4> HIDE DEF c, d
      <4> QED  BY <3>1, <3>2, <3>4, <4>1 DEF Open
    <3> QED  BY <3>3, <3>4
  <2>3. UNCHANGED imports
    BY DEF bomRows
  <2> HIDE DEF c, seen
  <2> QED  BY <1>1, <2>1, <2>2, <2>3 DEF BomsDecided, Open
<1> QED  BY <1>5, <1>6, <1>7, <1>8, <1>9 DEF Seen

\* A commit on projects keeps the invariant.
LEMMA ProjectsCommit ==
  ASSUME Inv, NEW t \in Tx, Commit(t), WriteProjects(tx[t].command, tx[t].seen)
  PROVE  Inv'
<1>1. Running(t) /\ StillAsRead(t) /\ Seen(t)
  BY DEF Commit, Inv
<1>2. \A p \in Projects : ProjectChain(p)
  BY DEF Inv, HistoriesChain, ProjectChain
<1>3. ProjectsStep(tx[t].command) /\ ProjectsLinked'
  BY <1>1, <1>2, ProjectsKept DEF Inv, Linked
<1>4. UNCHANGED <<itemRows, bomRows>>
  BY DEF WriteProjects
<1>5. ProjectsTyped' /\ ItemsTyped' /\ BomsTyped'
  BY <1>3, <1>4 DEF ProjectsStep, Inv, Typed, ItemsTyped, BomsTyped, itemRows, bomRows
<1>6. Linked'
  <2>1. ItemsLinked'
    BY <1>4 DEF Inv, Linked, ItemsLinked, Exists, itemRows
  <2>2. BomsLinked'
    BY <1>3, <1>4 DEF Inv, Linked, BomsLinked, Exists, bomRows, ProjectsStep
  <2> QED  BY <1>3, <2>1, <2>2 DEF Linked
<1>7. HistoriesChain'
  <2>1. \A r \in Revisions : RevisionChain(r)'
    BY <1>3, <1>4 DEF Inv, HistoriesChain, RevisionChain, ProjectsStep, bomRows
  <2>2. \A p \in Projects : ProjectChain(p)'
    BY <1>3 DEF ProjectsStep
  <2> QED  BY <2>1, <2>2 DEF HistoriesChain, ProjectChain, RevisionChain
<1>8. ItemMasterHolds'
  BY <1>4 DEF Inv, ItemMasterHolds, ActiveRecordsUseActive, RequiredValuesPresent, AttributesOf,
     Exists, itemRows
<1>9. ASSUME NEW u \in Tx \ {t}, Running(u)
      PROVE  /\ tx[u].pos <= Len(Plan(tx[u].command)')
             /\ \A n \in 1..tx[u].pos : Plan(tx[u].command)'[n] = Plan(tx[u].command)[n]
             /\ Seen(u)'
             /\ Checked(u) => ItemsDecided(tx[u].command)' /\ BomsDecided(tx[u].command, tx[u].seen)'
  BY <1>3, <1>4, <1>9, ProjectsCommitBeside DEF Inv, Exclusive
<1> QED  BY <1>5, <1>6, <1>7, <1>8, <1>9, CommitKeeps

-----------------------------------------------------------------------------
(* Commits of commands on the item master. *)

\* What a commit on the item master does to it.
ItemsStep(c) ==
  /\ ItemsTyped'
  /\ \A k \in ItemCategories : itemCategory'[k] = itemCategory[k] \/
        /\ c.op \in {"createItemCategory", "updateItemCategory"} /\ c.category = k
        /\ itemCategory'[k].active <=> c.op = "createItemCategory" \/ c.active
  /\ \A v \in Units : unit'[v] = unit[v] \/
        /\ c.op \in {"createUnitOfMeasure", "updateUnitOfMeasure"} /\ c.unit = v
        /\ unit'[v].active <=> c.op = "createUnitOfMeasure" \/ c.active
        /\ unit'[v].version = unit[v].version + 1 /\ unit'[v].precision = c.precision
  /\ \A a \in Attributes : attribute'[a] = attribute[a] \/
        /\ c.op \in AttributeOperations /\ c.attribute = a
        /\ attribute'[a].active <=> c.op = "createSpecificationAttribute" \/ c.active
        /\ attribute'[a].required = c.required /\ attribute'[a].shape = c.shape
        /\ attribute'[a].version = attribute[a].version + 1
  /\ \A i \in Items : item'[i] = item[i] \/
        /\ c.op \in {"createItem", "updateItem", "deactivateItem"} /\ c.item = i
        /\ item'[i].version = item[i].version + 1
        /\ IF c.op = "deactivateItem" THEN ~item'[i].active /\ item'[i].values = item[i].values
           ELSE item'[i].unit = c.unit /\ item'[i].values = c.values

\* What a write of a category does to the item master.
LEMMA ItemCategoryKept ==
  ASSUME Typed, NEW c \in ItemCommands, WriteItemCategory(c)
  PROVE  ItemsStep(c)
<1> DEFINE active == IF c.op = "createItemCategory" THEN TRUE ELSE c.active
           row == [active |-> active, version |-> Next1(itemCategory[c.category])]
<1>1. /\ c.op \in {"createItemCategory", "updateItemCategory"}
      /\ itemCategory' = [itemCategory EXCEPT ![c.category] = row]
      /\ UNCHANGED <<unit, attribute, item>>
  BY DEF WriteItemCategory
<1>2. c.category \in ItemCategories /\ itemCategory \in [ItemCategories -> ActiveRows]
  BY <1>1, ItemCommandFields DEF Typed, ItemsTyped
<1>3. active \in BOOLEAN /\ (active <=> c.op = "createItemCategory" \/ c.active)
  BY <1>1, ItemCommandFields
<1> HIDE DEF active
<1>4. row \in ActiveRows /\ row.active = active
  BY <1>2, <1>3 DEF ActiveRows, Next1
<1> HIDE DEF row
<1>5. /\ itemCategory' \in [ItemCategories -> ActiveRows] /\ itemCategory'[c.category] = row
      /\ \A k \in ItemCategories \ {c.category} : itemCategory'[k] = itemCategory[k]
  BY <1>1, <1>2, <1>4
<1>6. ItemsTyped'
  BY <1>1, <1>5 DEF Typed, ItemsTyped
<1> QED  BY <1>1, <1>3, <1>4, <1>5, <1>6 DEF ItemsStep

\* What a write of a unit does to it.
LEMMA UnitKept ==
  ASSUME Typed, NEW c \in ItemCommands, WriteUnitOfMeasure(c)
  PROVE  ItemsStep(c)
<1> DEFINE active == IF c.op = "createUnitOfMeasure" THEN TRUE ELSE c.active
           row == [active |-> active, precision |-> c.precision, version |-> Next1(unit[c.unit])]
<1>1. /\ c.op \in {"createUnitOfMeasure", "updateUnitOfMeasure"}
      /\ unit' = [unit EXCEPT ![c.unit] = row]
      /\ UNCHANGED <<itemCategory, attribute, item>>
  BY DEF WriteUnitOfMeasure
<1>2. c.unit \in Units /\ c.precision \in Precisions /\ unit \in [Units -> UnitRows]
  BY <1>1, ItemCommandFields DEF Typed, ItemsTyped
<1>3. active \in BOOLEAN /\ (active <=> c.op = "createUnitOfMeasure" \/ c.active)
  BY <1>1, ItemCommandFields
<1> HIDE DEF active
<1>4. /\ row \in UnitRows /\ row.active = active /\ row.precision = c.precision
      /\ row.version = unit[c.unit].version + 1
  BY <1>2, <1>3 DEF UnitRows, Next1
<1> HIDE DEF row
<1>5. /\ unit' \in [Units -> UnitRows] /\ unit'[c.unit] = row
      /\ \A v \in Units \ {c.unit} : unit'[v] = unit[v]
  BY <1>1, <1>2, <1>4
<1>6. ItemsTyped'
  BY <1>1, <1>5 DEF Typed, ItemsTyped
<1> QED  BY <1>1, <1>3, <1>4, <1>5, <1>6 DEF ItemsStep

\* What a write of an attribute does to it.
LEMMA AttributeKept ==
  ASSUME Typed, NEW c \in ItemCommands, WriteAttribute(c)
  PROVE  ItemsStep(c)
<1> DEFINE active == IF c.op = "createSpecificationAttribute" THEN TRUE ELSE c.active
           row == [active |-> active, required |-> c.required, shape |-> c.shape,
                   version |-> Next1(attribute[c.attribute])]
<1>1. /\ c.op \in AttributeOperations
      /\ attribute' = [attribute EXCEPT ![c.attribute] = row]
      /\ UNCHANGED <<itemCategory, unit, item>>
  BY DEF WriteAttribute, AttributeOperations
<1>2. /\ c.attribute \in Attributes /\ c.shape \in Shapes /\ c.required \in BOOLEAN
      /\ attribute \in [Attributes -> AttributeRows]
  BY <1>1, ItemCommandFields DEF Typed, ItemsTyped
<1>3. active \in BOOLEAN /\ (active <=> c.op = "createSpecificationAttribute" \/ c.active)
  BY <1>1, ItemCommandFields DEF AttributeOperations
<1> HIDE DEF active
<1>4. /\ row \in AttributeRows /\ row.active = active /\ row.required = c.required
      /\ row.shape = c.shape /\ row.version = attribute[c.attribute].version + 1
  BY <1>2, <1>3 DEF AttributeRows, Next1
<1> HIDE DEF row
<1>5. /\ attribute' \in [Attributes -> AttributeRows] /\ attribute'[c.attribute] = row
      /\ \A a \in Attributes \ {c.attribute} : attribute'[a] = attribute[a]
  BY <1>1, <1>2, <1>4
<1>6. ItemsTyped'
  BY <1>1, <1>5 DEF Typed, ItemsTyped
<1> QED  BY <1>1, <1>3, <1>4, <1>5, <1>6 DEF ItemsStep

\* What a write of an item, or its end, does to it.
LEMMA ItemKept ==
  ASSUME Typed, NEW c \in ItemCommands, WriteItem(c) \/ DeactivateItem(c)
  PROVE  ItemsStep(c)
<1>1. item \in [Items -> ItemRows] /\ UNCHANGED <<itemCategory, unit, attribute>>
  BY DEF Typed, ItemsTyped, WriteItem, DeactivateItem
<1>2. /\ c.op \in {"createItem", "updateItem", "deactivateItem"} /\ c.item \in Items
      /\ c.op # "deactivateItem" => c.unit \in Units /\ c.values \in Values
  BY ItemCommandFields DEF WriteItem, DeactivateItem
<1>3. PICK row \in ItemRows :
         /\ item' = [item EXCEPT ![c.item] = row]
         /\ row.version = item[c.item].version + 1
         /\ IF c.op = "deactivateItem" THEN ~row.active /\ row.values = item[c.item].values
            ELSE row.unit = c.unit /\ row.values = c.values
  <2>1. CASE WriteItem(c)
    <3> DEFINE row == [active |-> TRUE, unit |-> c.unit, values |-> c.values,
                       version |-> Next1(item[c.item])]
    <3>1. item' = [item EXCEPT ![c.item] = row] /\ c.op # "deactivateItem"
      BY <2>1 DEF WriteItem
    <3>2. /\ row \in ItemRows /\ row.version = item[c.item].version + 1
          /\ row.unit = c.unit /\ row.values = c.values
      BY <1>1, <1>2, <3>1 DEF ItemRows, Next1
    <3> HIDE DEF row
    <3> QED  BY <3>1, <3>2
  <2>2. CASE DeactivateItem(c)
    <3> DEFINE old == item[c.item]
               idle == [old EXCEPT !.active = FALSE]
               row == Updated(idle)
    <3>1. item' = [item EXCEPT ![c.item] = row] /\ c.op = "deactivateItem"
      BY <2>2 DEF DeactivateItem
    <3>2. /\ idle \in ItemRows /\ ~idle.active /\ idle.values = old.values
          /\ idle.version = old.version
      BY <1>1, <1>2 DEF ItemRows
    <3> HIDE DEF idle
    <3>3. /\ row \in ItemRows /\ row.version = old.version + 1
          /\ ~row.active /\ row.values = old.values
      BY <3>2 DEF ItemRows, Updated
    <3> HIDE DEF row
    <3> QED  BY <3>1, <3>3
  <2> QED  BY <2>1, <2>2
<1>4. /\ item' \in [Items -> ItemRows] /\ item'[c.item] = row
      /\ \A i \in Items \ {c.item} : item'[i] = item[i]
  BY <1>1, <1>2, <1>3
<1>5. ItemsTyped'
  BY <1>1, <1>4 DEF Typed, ItemsTyped
<1> QED  BY <1>1, <1>2, <1>3, <1>4, <1>5 DEF ItemsStep

\* What a commit decides has been checked.
LEMMA CommitDecided ==
  ASSUME Inv, NEW t \in Tx, Commit(t)
  PROVE  LET c == tx[t].command
         IN /\ c \in Commands /\ Seen(t) /\ Running(t) /\ StillAsRead(t)
            /\ ItemsDecided(c) /\ BomsDecided(c, tx[t].seen)
            /\ c.op \in BomOperations \cup AttributeOperations
                        \cup {"updateItemCategory", "updateUnitOfMeasure", "createItem", "updateItem"}
                 => Checked(t)
<1> DEFINE c == tx[t].command
<1>1. c \in Commands /\ tx[t].pos = Len(Plan(c)) /\ Seen(t) /\ Decided(t)
  BY CommitOthers DEF Inv
<1>2. Running(t) /\ StillAsRead(t)
  BY DEF Commit
<1>3. c.op \in BomOperations \cup AttributeOperations
               \cup {"updateItemCategory", "updateUnitOfMeasure", "createItem", "updateItem"}
        => Checked(t)
  BY <1>1, PlansCheck DEF Checked
<1>4. CASE Checked(t)
  BY <1>1, <1>2, <1>3, <1>4 DEF Decided
<1>5. CASE ~Checked(t)
  <2>1. ItemsDecided(c) /\ BomsDecided(c, tx[t].seen)
    BY <1>3, <1>5 DEF ItemsDecided, BomsDecided, AttributeOperations, BomOperations, Transitions
  <2> QED  BY <1>1, <1>2, <1>5, <1>3, <2>1
<1> QED  BY <1>4, <1>5

\* Records that are active go on to use active ones, and to have the values
\* they have to.
LEMMA MasterKept ==
  ASSUME Typed, ItemsLinked, ItemMasterHolds, NEW c \in ItemCommands, ItemsStep(c),
         ItemsDecided(c), c.op = "updateItem" => item[c.item].active
  PROVE  ItemsLinked' /\ ItemMasterHolds'
<1>1. /\ \A v \in Units : unit[v].version \in Nat
      /\ \A a \in Attributes : attribute[a].version \in Nat
      /\ \A i \in Items : item[i].unit \in Units /\ item'[i].unit \in Units
      /\ \A a \in Attributes : /\ attribute[a].shape.unit \in Units \cup {None}
                               /\ attribute'[a].shape.unit \in Units \cup {None}
  BY DEF Typed, ItemsTyped, UnitRows, AttributeRows, ItemRows, Shapes, ItemsStep
<1>2. \A a \in Attributes : Exists(attribute[a]) => Exists(attribute[a])'
  BY <1>1 DEF ItemsStep, Exists
<1>3. ASSUME c.op \in {"createItem", "updateItem"}
      PROVE  /\ ItemAllowed(c) /\ c.item \in Items /\ c.unit \in Units
             /\ itemCategory[ItemCategoryOf[c.item]].active
             /\ \A k \in ItemCategories : itemCategory'[k] = itemCategory[k]
             /\ \A v \in Units : unit'[v] = unit[v]
             /\ \A a \in Attributes : attribute'[a] = attribute[a]
  <2>1. ItemAllowed(c) /\ c.item \in Items /\ c.unit \in Units
    BY <1>3, ItemCommandFields DEF ItemsDecided
  <2>2. itemCategory[ItemCategoryOf[c.item]].active
    BY <1>3, <2>1 DEF ItemAllowed, ItemMasterHolds, ActiveRecordsUseActive
  <2> QED  BY <1>3, <2>1, <2>2 DEF ItemsStep, AttributeOperations
<1>4. ItemsLinked'
  <2>1. ASSUME NEW v \in Units, unit'[v].active PROVE Exists(unit[v])'
    BY <1>1, <2>1 DEF ItemsStep, ItemsLinked, Exists
  <2>2. ASSUME NEW i \in Items, NEW a \in DOMAIN item'[i].values PROVE Exists(attribute[a])'
    <3>1. CASE item'[i].values = item[i].values
      <4>1. a \in Attributes
        BY DEF ItemsStep, ItemsTyped, ItemRows, Values
      <4> QED  BY <1>2, <2>2, <3>1, <4>1 DEF ItemsLinked
    <3>2. CASE item'[i].values # item[i].values
      <4>1. c.op \in {"createItem", "updateItem"} /\ item'[i].values = c.values
        BY <3>2 DEF ItemsStep
      <4> QED  BY <1>2, <1>3, <2>2, <4>1 DEF ItemAllowed, Covers, AttributesOf
    <3> QED  BY <3>1, <3>2
  <2> QED  BY <2>1, <2>2 DEF ItemsLinked
<1>5. ASSUME NEW i \in Items, item'[i].active
      PROVE  itemCategory'[ItemCategoryOf[i]].active /\ unit'[item'[i].unit].active
  <2>1. ItemCategoryOf[i] \in ItemCategories
    BY EngineeringAssumption
  <2>2. CASE item'[i] = item[i]
    <3>1. itemCategory[ItemCategoryOf[i]].active /\ unit[item[i].unit].active
      BY <1>5, <2>2 DEF ItemMasterHolds, ActiveRecordsUseActive
    <3>2. itemCategory'[ItemCategoryOf[i]].active
      BY <1>5, <2>1, <2>2, <3>1 DEF ItemsStep, ItemsDecided, ActiveItemsOf
    <3>3. unit'[item[i].unit].active
      BY <1>1, <1>5, <2>2, <3>1 DEF ItemsStep, ItemsDecided
    <3> QED  BY <2>2, <3>2, <3>3
  <2>3. CASE item'[i] # item[i]
    <3>1. c.op \in {"createItem", "updateItem"} /\ c.item = i /\ item'[i].unit = c.unit
      BY <1>5, <2>3 DEF ItemsStep
    <3> QED  BY <1>3, <2>1, <3>1 DEF ItemAllowed
  <2> QED  BY <2>2, <2>3
<1>6. ASSUME NEW a \in Attributes, attribute'[a].active, attribute'[a].shape.unit # None
      PROVE  unit'[attribute'[a].shape.unit].active
  <2>1. CASE attribute'[a] = attribute[a]
    <3>1. unit[attribute[a].shape.unit].active /\ attribute[a].shape.unit \in Units
      BY <1>1, <1>6, <2>1 DEF ItemMasterHolds, ActiveRecordsUseActive
    <3>2. unit'[attribute[a].shape.unit].active
      BY <1>6, <2>1, <3>1 DEF ItemsStep, ItemsDecided
    <3> QED  BY <2>1, <3>2
  <2>2. CASE attribute'[a] # attribute[a]
    <3>1. c.op \in AttributeOperations /\ attribute'[a].shape = c.shape
      BY <2>2 DEF ItemsStep
    <3>2. unit[c.shape.unit].active /\ c.shape.unit \in Units
      BY <1>1, <1>6, <3>1 DEF ItemsDecided
    <3>3. unit'[c.shape.unit] = unit[c.shape.unit]
      BY <3>1, <3>2 DEF ItemsStep, AttributeOperations
    <3> QED  BY <3>1, <3>2, <3>3
  <2> QED  BY <2>1, <2>2
<1>7. ASSUME NEW i \in Items, item'[i].active, NEW a \in Attributes, Exists(attribute[a])',
             ItemCategoryOf[a] = ItemCategoryOf[i], attribute'[a].active, attribute'[a].required
      PROVE  a \in DOMAIN item'[i].values
  <2>1. CASE item'[i] # item[i]
    <3>1. c.op \in {"createItem", "updateItem"} /\ c.item = i /\ item'[i].values = c.values
      BY <1>7, <2>1 DEF ItemsStep
    <3> QED  BY <1>3, <1>7, <3>1 DEF ItemAllowed, Covers, AttributesOf, Exists
  <2>2. CASE item'[i] = item[i] /\ attribute'[a] = attribute[a]
    BY <1>7, <2>2 DEF ItemMasterHolds, RequiredValuesPresent, AttributesOf, Exists
  <2>3. CASE item'[i] = item[i] /\ attribute'[a] # attribute[a]
    <3>1. /\ c.op \in AttributeOperations /\ c.attribute = a /\ c.required
          /\ c.op = "updateSpecificationAttribute" => c.active
      BY <1>7, <2>3 DEF ItemsStep
    <3>2. ActiveItemsOf(ItemCategoryOf[a]) \subseteq Holders(a)
      BY <3>1 DEF ItemsDecided
    <3> QED  BY <1>7, <2>3, <3>2 DEF ActiveItemsOf, Holders
  <2> QED  BY <2>1, <2>2, <2>3
<1>8. ActiveRecordsUseActive'
  BY <1>5, <1>6 DEF ActiveRecordsUseActive
<1>9. RequiredValuesPresent'
  BY <1>7 DEF RequiredValuesPresent, AttributesOf
<1> QED  BY <1>4, <1>8, <1>9 DEF ItemMasterHolds

\* Two commands on the item master whose checks both hold are about different
\* rows.
Apart(c, d) ==
  /\ c.op = "updateItemCategory" /\ d.op \in {"createItem", "updateItem"} =>
       ItemCategoryOf[d.item] # c.category
  /\ c.op = "updateUnitOfMeasure" =>
       /\ d.op \in {"createItem", "updateItem"} => d.unit # c.unit
       /\ d.op \in AttributeOperations => d.shape.unit # c.unit
  /\ c.op \in AttributeOperations =>
       /\ d.op = "updateUnitOfMeasure" => d.unit # c.shape.unit
       /\ d.op \in {"createItem", "updateItem"} =>
            ItemCategoryOf[d.item] # ItemCategoryOf[c.attribute]
  /\ c.op \in {"createItem", "updateItem"} =>
       /\ d.op = "updateItemCategory" => d.category # ItemCategoryOf[c.item]
       /\ d.op = "updateUnitOfMeasure" => d.unit # c.unit
       /\ d.op \in AttributeOperations => ItemCategoryOf[d.attribute] # ItemCategoryOf[c.item]

\* What a transaction decides of the item master before it commits has been
\* checked.
Decides(d) ==
  d.op \in AttributeOperations
           \cup {"updateItemCategory", "updateUnitOfMeasure", "createItem", "updateItem"}

\* Locks keep such commands apart.
LEMMA LocksKeepApart ==
  ASSUME Inv, NEW t \in Tx, NEW u \in Tx, t # u, NEW c \in Commands, tx[u].command = c,
         Checked(u), NEW d \in Commands, tx[t].command = d, Decides(d) => Checked(t)
  PROVE  Apart(c, d)
<1> USE DEF Decides
<1>1. Exclusive
  BY DEF Inv
<1>2. ASSUME c.op = "updateItemCategory", d.op \in {"createItem", "updateItem"}
      PROVE  ItemCategoryOf[d.item] # c.category
  <2>1. Lock("item_categories", c.category, "UPDATE") \in Held(u)
    BY <1>2, CheckedHolds
  <2>2. Lock("item_categories", ItemCategoryOf[d.item], "SHARE") \in Held(t)
    BY <1>2, CheckedHolds
  <2> QED  BY <1>1, <2>1, <2>2, UpdateExcludes
<1>3. ASSUME c.op = "updateUnitOfMeasure", d.op \in {"createItem", "updateItem"}
      PROVE  d.unit # c.unit
  <2>1. Lock("units", c.unit, "UPDATE") \in Held(u)
    BY <1>3, CheckedHolds
  <2>2. Lock("units", d.unit, "SHARE") \in Held(t)
    BY <1>3, CheckedHolds
  <2> QED  BY <1>1, <2>1, <2>2, UpdateExcludes
<1>4. ASSUME c.op = "updateUnitOfMeasure", d.op \in AttributeOperations
      PROVE  d.shape.unit # c.unit
  <2>1. c.unit # None
    BY <1>4, CommandKinds, ItemCommandFields, EngineeringAssumption DEF ItemOperations, None
  <2>2. Lock("units", c.unit, "UPDATE") \in Held(u)
    BY <1>4, CheckedHolds
  <2>3. d.shape.unit # None => Lock("units", d.shape.unit, "SHARE") \in Held(t)
    BY <1>4, CheckedHolds
  <2> QED  BY <1>1, <2>1, <2>2, <2>3, UpdateExcludes
<1>5. ASSUME c.op \in AttributeOperations, d.op = "updateUnitOfMeasure"
      PROVE  d.unit # c.shape.unit
  <2>1. d.unit # None
    BY <1>5, CommandKinds, ItemCommandFields, EngineeringAssumption DEF ItemOperations, None
  <2>2. Lock("units", d.unit, "UPDATE") \in Held(t)
    BY <1>5, CheckedHolds
  <2>3. c.shape.unit # None => Lock("units", c.shape.unit, "SHARE") \in Held(u)
    BY <1>5, CheckedHolds
  <2> QED  BY <1>1, <2>1, <2>2, <2>3, UpdateExcludes
<1>6. ASSUME c.op \in AttributeOperations, d.op \in {"createItem", "updateItem"}
      PROVE  ItemCategoryOf[d.item] # ItemCategoryOf[c.attribute]
  <2>1. Lock("item_categories", ItemCategoryOf[c.attribute], "UPDATE") \in Held(u)
    BY <1>6, CheckedHolds
  <2>2. Lock("item_categories", ItemCategoryOf[d.item], "SHARE") \in Held(t)
    BY <1>6, CheckedHolds
  <2> QED  BY <1>1, <2>1, <2>2, UpdateExcludes
<1>7. ASSUME c.op \in {"createItem", "updateItem"}
      PROVE  /\ d.op = "updateItemCategory" => d.category # ItemCategoryOf[c.item]
             /\ d.op = "updateUnitOfMeasure" => d.unit # c.unit
             /\ d.op \in AttributeOperations =>
                  ItemCategoryOf[d.attribute] # ItemCategoryOf[c.item]
  <2>1. /\ Lock("item_categories", ItemCategoryOf[c.item], "SHARE") \in Held(u)
        /\ Lock("units", c.unit, "SHARE") \in Held(u)
    BY <1>7, CheckedHolds
  <2>2. /\ d.op = "updateItemCategory" => Lock("item_categories", d.category, "UPDATE") \in Held(t)
        /\ d.op = "updateUnitOfMeasure" => Lock("units", d.unit, "UPDATE") \in Held(t)
        /\ d.op \in AttributeOperations =>
             Lock("item_categories", ItemCategoryOf[d.attribute], "UPDATE") \in Held(t)
    BY CheckedHolds
  <2> QED  BY <1>1, <2>1, <2>2, UpdateExcludes
<1> QED  BY <1>2, <1>3, <1>4, <1>5, <1>6, <1>7 DEF Apart

\* What has been decided stays decided beside a commit about other rows.
LEMMA ItemsStayDecided ==
  ASSUME Typed, NEW u, NEW c \in Commands, tx'[u].command = c, ItemsDecided(c),
         NEW d \in ItemCommands, ItemsStep(d), Apart(c, d)
  PROVE  ItemsDecided(tx[u].command)'
<1>1. \A i \in Items : item'[i] = item[i] \/
         /\ d.op \in {"createItem", "updateItem", "deactivateItem"} /\ d.item = i
         /\ IF d.op = "deactivateItem" THEN ~item'[i].active /\ item'[i].values = item[i].values
            ELSE item'[i].unit = d.unit /\ item'[i].values = d.values
  BY DEF ItemsStep
<1>2. \A a \in Attributes : attribute'[a] = attribute[a] \/
         (d.op \in AttributeOperations /\ d.attribute = a /\ attribute'[a].shape = d.shape)
  BY DEF ItemsStep
<1>3. CASE c.op = "updateItemCategory"
  <2>1. ASSUME ~c.active PROVE \A i \in Items : item'[i].active => ItemCategoryOf[i] # c.category
    BY <1>1, <1>3, <2>1 DEF ItemsDecided, ActiveItemsOf, Apart
  <2> QED  BY <1>3, <2>1 DEF ItemsDecided, ActiveItemsOf, AttributeOperations
<1>4. CASE c.op = "updateUnitOfMeasure"
  <2>1. ASSUME ~c.active
        PROVE  /\ \A i \in Items : item'[i].active => item'[i].unit # c.unit
               /\ \A a \in Attributes : attribute'[a].active => attribute'[a].shape.unit # c.unit
    BY <1>1, <1>2, <1>4, <2>1 DEF ItemsDecided, Apart
  <2> QED  BY <1>4, <2>1 DEF ItemsDecided, AttributeOperations
<1>5. CASE c.op \in AttributeOperations
  <2>0. c.shape.unit \in Units \cup {None}
    BY <1>5, CommandKinds, ItemCommandFields DEF ItemOperations, AttributeOperations, Shapes
  <2>1. c.shape.unit # None => unit'[c.shape.unit].active
    <3>1. \A v \in Units : unit'[v] = unit[v] \/ unit'[v].active
             \/ (d.op = "updateUnitOfMeasure" /\ d.unit = v)
      BY DEF ItemsStep
    <3>2. c.shape.unit # None => unit[c.shape.unit].active
      BY <1>5 DEF ItemsDecided
    <3> QED  BY <1>5, <2>0, <3>1, <3>2 DEF Apart
  <2>2. ASSUME c.required, c.op = "updateSpecificationAttribute" => c.active,
               NEW i \in Items, item'[i].active, ItemCategoryOf[i] = ItemCategoryOf[c.attribute]
        PROVE  c.attribute \in DOMAIN item'[i].values
    <3>1. item'[i] = item[i]
      BY <1>1, <1>5, <2>2 DEF Apart
    <3> QED  BY <1>5, <2>2, <3>1 DEF ItemsDecided, ActiveItemsOf, Holders
  <2>3. ASSUME c.required, c.op = "updateSpecificationAttribute" => c.active
        PROVE  {i \in Items : item'[i].active /\ ItemCategoryOf[i] = ItemCategoryOf[c.attribute]}
                 \subseteq {i \in Items : c.attribute \in DOMAIN item'[i].values}
    BY <2>2, <2>3
  <2> QED
    BY <1>5, <2>1, <2>3 DEF ItemsDecided, ActiveItemsOf, Holders, AttributeOperations
<1>6. CASE c.op \in {"createItem", "updateItem"}
  <2>1. c.item \in Items /\ c.unit \in Units /\ ItemCategoryOf[c.item] \in ItemCategories
    BY <1>6, CommandKinds, ItemCommandFields, EngineeringAssumption DEF ItemOperations
  <2>2. ItemAllowed(c)
    BY <1>6 DEF ItemsDecided
  <2>3. c.op = "createItem" => itemCategory'[ItemCategoryOf[c.item]].active
    BY <1>6, <2>1, <2>2 DEF ItemsStep, ItemAllowed, Apart
  <2>4. unit'[c.unit].active
    BY <1>6, <2>1, <2>2 DEF ItemsStep, ItemAllowed, Apart
  <2>5. \A a \in Attributes : ItemCategoryOf[a] = ItemCategoryOf[c.item] => attribute'[a] = attribute[a]
    BY <1>2, <1>6 DEF Apart
  <2>6. /\ \A a \in DOMAIN c.values : /\ a \in Attributes /\ attribute'[a].version > 0
                                      /\ ItemCategoryOf[a] = ItemCategoryOf[c.item]
                                      /\ attribute'[a].active
        /\ \A a \in Attributes : /\ attribute'[a].version > 0
                                 /\ ItemCategoryOf[a] = ItemCategoryOf[c.item]
                                 /\ attribute'[a].active /\ attribute'[a].required
                                 => a \in DOMAIN c.values
    BY <2>2, <2>5 DEF ItemAllowed, Covers, AttributesOf, Exists
  <2>7. ItemAllowed(tx[u].command)'
    BY <1>6, <2>3, <2>4, <2>6 DEF ItemAllowed, Covers, AttributesOf, Exists
  <2> QED  BY <1>6, <2>7 DEF ItemsDecided, AttributeOperations
<1>7. CASE c.op \notin AttributeOperations \cup {"updateItemCategory", "updateUnitOfMeasure",
                                                 "createItem", "updateItem"}
  BY <1>7 DEF ItemsDecided
<1> QED  BY <1>3, <1>4, <1>5, <1>6, <1>7

\* A plan ends, whatever the rows are then.
LEMMA PlansEnd ==
  ASSUME NEW u
  PROVE  (tx[u].command \in Commands => Len(Plan(tx[u].command)) \in Nat)'
<1>1. tx[u].command \in Commands => Len(Plan(tx[u].command)) \in Nat
  BY PlansCheck
<1> QED  BY <1>1, PTL

\* A plan of an item goes by the attributes of its category.
LEMMA PlanBesideItems ==
  ASSUME UNCHANGED revision, NEW u, NEW c, tx'[u].command = c,
         c.op \in {"createItem", "updateItem"} =>
            {a \in Attributes : Exists(attribute'[a]) /\ ItemCategoryOf[a] = ItemCategoryOf[c.item]}
              = AttributesOf(ItemCategoryOf[c.item])
  PROVE  Plan(tx[u].command)' = Plan(c)
<1>1. CASE c.op \in {"createItem", "updateItem"}
  <2>1. ItemWritePlan(tx[u].command)' = ItemWritePlan(c)
    BY <1>1 DEF ItemWritePlan, AttributesOf, Exists
  <2> QED  BY <1>1, <2>1 DEF Plan, ItemPlan, ProjectOperations, ItemOperations
<1>2. CASE c.op \notin {"createItem", "updateItem"}
  <2>1. ItemPlan(tx[u].command)' = ItemPlan(c)
    BY <1>2 DEF ItemPlan, AttributePlan
  <2>2. BomPlan(tx[u].command)' = BomPlan(c)
    BY DEF BomPlan, ConfirmPlan, TransitionPlan, ReleasePlan, UpdateLinePlan, RevisionsOf, Exists
  <2>3. ProjectPlan(tx[u].command)' = ProjectPlan(c)
    BY DEF ProjectPlan
  <2> QED  BY <2>1, <2>2, <2>3 DEF Plan
<1> QED  BY <1>1, <1>2

\* A commit on the item master leaves the other transactions their place and
\* what they know.
LEMMA ItemsCommitBeside ==
  ASSUME Inv, NEW t \in Tx, NEW u \in Tx, u # t, Running(u), Commit(t),
         tx[t].command \in ItemCommands, ItemsStep(tx[t].command),
         UNCHANGED <<planRows, bomRows>>
  PROVE  /\ tx[u].pos <= Len(Plan(tx[u].command)')
         /\ \A n \in 1..tx[u].pos : Plan(tx[u].command)'[n] = Plan(tx[u].command)[n]
         /\ Seen(u)'
         /\ Checked(u) => ItemsDecided(tx[u].command)' /\ BomsDecided(tx[u].command, tx[u].seen)'
<1> DEFINE c == tx[u].command
           seen == tx[u].seen
           d == tx[t].command
<1>1. tx'[u].command = c /\ tx'[u].seen = seen
  BY CommitOthers
<1>2. c \in Commands /\ tx[u].pos \in Nat /\ tx[u].pos <= Len(Plan(c))
  BY DEF Inv, Typed, Shaped, Running, Idle, Exclusive
<1>3. Seen(u) /\ Decided(u) /\ UNCHANGED <<project, revision, imports>>
  BY DEF Inv, planRows, bomRows
<1>4. d \in Commands /\ (Decides(d) => Checked(t))
  BY CommitDecided DEF Decides
<1>5. /\ tx[u].pos <= Len(Plan(tx[u].command)')
      /\ \A n \in 1..tx[u].pos : Plan(tx[u].command)'[n] = Plan(tx[u].command)[n]
  <2>1. CASE tx[u].pos = 0
    <3>1. Len(Plan(tx[u].command)') \in Nat
      BY <1>1, <1>2, PlansEnd
    <3>2. 1..tx[u].pos = {}
      BY <2>1
    <3> QED  BY <2>1, <3>1, <3>2
  <2>2. CASE tx[u].pos # 0
    <3>1. ASSUME c.op \in {"createItem", "updateItem"}, d.op \in AttributeOperations
          PROVE  ItemCategoryOf[d.attribute] # ItemCategoryOf[c.item]
      <4>1. Plan(c)[1] = Lock("item_categories", ItemCategoryOf[c.item], "SHARE")
        BY <1>2, <3>1, PlanOfItem, CommandKinds DEF ItemOperations
      <4>2. 1 \in 1..tx[u].pos
        BY <1>2, <2>2
      <4>3. Lock("item_categories", ItemCategoryOf[c.item], "SHARE") \in Held(u)
        BY <4>1, <4>2, PassedIsHeld
      <4>4. Lock("item_categories", ItemCategoryOf[d.attribute], "UPDATE") \in Held(t)
        BY <1>4, <3>1, CheckedHolds DEF Decides
      <4> QED  BY <4>3, <4>4, UpdateExcludes DEF Inv
    <3>2. c.op \in {"createItem", "updateItem"} =>
            {a \in Attributes : Exists(attribute'[a]) /\ ItemCategoryOf[a] = ItemCategoryOf[c.item]}
              = AttributesOf(ItemCategoryOf[c.item])
      <4>1. ASSUME c.op \in {"createItem", "updateItem"}, NEW a \in Attributes,
                   ItemCategoryOf[a] = ItemCategoryOf[c.item]
            PROVE  attribute'[a] = attribute[a]
        BY <3>1, <4>1 DEF ItemsStep
      <4> HIDE DEF c
      <4> QED  BY <4>1 DEF AttributesOf
    <3>3. Plan(tx[u].command)' = Plan(c)
      BY <1>1, <1>3, <3>2, PlanBesideItems
    <3> QED  BY <1>2, <3>3
  <2> QED  BY <2>1, <2>2
<1>6. ItemsSeen(tx[u].command, tx[u].seen)'
  <2>1. ItemsSeen(c, seen)
    BY <1>3 DEF Seen
  <2>2. /\ c.op = "updateSpecificationAttribute" => c.attribute \in Attributes
        /\ c.op = "updateItem" => c.item \in Items
    BY <1>2, CommandKinds, ItemCommandFields DEF ItemOperations, AttributeOperations
  <2>3. /\ \A a \in Attributes : attribute[a].version \in Nat
        /\ \A a \in Attributes : attribute'[a] = attribute[a]
                                 \/ attribute'[a].version = attribute[a].version + 1
        /\ \A i \in Items : item[i].version \in Nat
        /\ \A i \in Items : item'[i] = item[i] \/ item'[i].version = item[i].version + 1
    BY DEF ItemsStep, Inv, Typed, ItemsTyped, AttributeRows, ItemRows
  <2> HIDE DEF c, seen, d
  <2>4. c.op = "updateItem" => Past(item'[c.item], seen)
    BY <2>1, <2>2, <2>3, PastStays DEF ItemsSeen
  <2>5. c.op = "updateSpecificationAttribute" => attribute'[c.attribute].version > 0
    BY <2>1, <2>2, <2>3 DEF ItemsSeen, Exists
  <2> QED  BY <1>1, <2>1, <2>4, <2>5 DEF ItemsSeen, Exists
<1>7. ProjectsSeen(tx[u].command, tx[u].seen)' /\ BomsSeen(tx[u].command, tx[u].seen)'
  BY <1>1, <1>3, StillKnown DEF Seen
<1>8. ASSUME Checked(u) PROVE ItemsDecided(tx[u].command)'
  <2>1. Apart(c, d)
    BY <1>2, <1>4, <1>8, LocksKeepApart
  <2>2. ItemsDecided(c)
    BY <1>3, <1>8 DEF Decided
  <2>3. Typed
    BY DEF Inv
  <2> HIDE DEF c, d
  <2> QED  BY <1>1, <1>2, <2>1, <2>2, <2>3, ItemsStayDecided DEF d
<1>9. ASSUME Checked(u) PROVE BomsDecided(tx[u].command, tx[u].seen)'
  <2>1. BomsDecided(c, seen)
    BY <1>3, <1>9 DEF Decided
  <2> HIDE DEF c, seen
  <2> QED  BY <1>1, <1>3, <2>1 DEF BomsDecided, Open
<1> QED  BY <1>5, <1>6, <1>7, <1>8, <1>9 DEF Seen

\* A commit on the item master keeps the invariant.
LEMMA ItemsCommit ==
  ASSUME Inv, NEW t \in Tx, Commit(t), WriteItems(tx[t].command)
  PROVE  Inv'
<1> DEFINE c == tx[t].command
<1>1. c \in Commands /\ Seen(t) /\ Running(t) /\ StillAsRead(t) /\ ItemsDecided(c)
  BY CommitDecided
<1>2. Typed
  BY DEF Inv
<1>3. c.op = "updateItem" => item[c.item].active
  BY <1>1, <1>2, SeenNow
<1>4. /\ WriteItemCategory(c) \/ WriteUnitOfMeasure(c) \/ WriteAttribute(c) \/ WriteItem(c)
         \/ DeactivateItem(c)
      /\ UNCHANGED <<planRows, bomRows, history>>
  BY DEF WriteItems
<1>5. c \in ItemCommands /\ ItemsStep(c)
  <2> HIDE DEF c
  <2>1. c \in ItemCommands
    BY <1>1, <1>4, CommandKinds DEF WriteItemCategory, WriteUnitOfMeasure, WriteAttribute,
       WriteItem, DeactivateItem, ItemOperations
  <2> QED
    BY <1>2, <1>4, <2>1, ItemCategoryKept, UnitKept, AttributeKept, ItemKept
<1>6. ItemsLinked' /\ ItemMasterHolds'
  <2> HIDE DEF c
  <2> QED  BY <1>1, <1>2, <1>3, <1>5, MasterKept DEF Inv, Linked
<1>7. ProjectsTyped' /\ ItemsTyped' /\ BomsTyped'
  BY <1>4, <1>5 DEF ItemsStep, Inv, Typed, ProjectsTyped, BomsTyped, planRows, bomRows
<1>8. Linked'
  <2>1. ProjectsLinked' /\ BomsLinked'
    BY <1>4 DEF Inv, Linked, ProjectsLinked, BomsLinked, Exists, planRows, bomRows
  <2> QED  BY <1>6, <2>1 DEF Linked
<1>9. HistoriesChain'
  BY <1>4 DEF Inv, HistoriesChain, planRows, bomRows
<1>10. ASSUME NEW u \in Tx \ {t}, Running(u)
       PROVE  /\ tx[u].pos <= Len(Plan(tx[u].command)')
              /\ \A n \in 1..tx[u].pos : Plan(tx[u].command)'[n] = Plan(tx[u].command)[n]
              /\ Seen(u)'
              /\ Checked(u) => ItemsDecided(tx[u].command)' /\ BomsDecided(tx[u].command, tx[u].seen)'
  BY <1>4, <1>5, <1>10, ItemsCommitBeside
<1> QED  BY <1>6, <1>7, <1>8, <1>9, <1>10, CommitKeeps

-----------------------------------------------------------------------------
(* Commits of commands on bills of materials. *)

\* A finite set of numbers has a greatest one.
LEMMA GreatestOf ==
  ASSUME NEW S, IsFiniteSet(S), S \subseteq Nat, S # {}
  PROVE  Max(S) \in S
<1> DEFINE Topless == {T \in SUBSET S : T # {} /\ ~\E x \in T : \A y \in T : x >= y}
<1>1. Topless = {}
  <2>1. SUFFICES ASSUME Topless # {} PROVE FALSE
    OBVIOUS
  <2>2. PICK T \in Topless : \A U \in SUBSET T : U # T => U \notin Topless
    <3>1. Topless \subseteq SUBSET S
      OBVIOUS
    <3> HIDE DEF Topless
    <3> QED  BY <2>1, <3>1, SmallestSubset
  <2>3. PICK x \in T : T \subseteq Nat
    OBVIOUS
  <2>4. T \ {x} \notin Topless
    <3>1. T \ {x} \in SUBSET T /\ T \ {x} # T
      OBVIOUS
    <3> HIDE DEF Topless
    <3> QED  BY <2>2, <3>1
  <2>5. CASE T \ {x} = {}
    <3>1. T = {x} /\ x \in Nat
      BY <2>3, <2>5
    <3> QED  BY <2>2, <3>1
  <2>6. CASE T \ {x} # {}
    <3>1. PICK z \in T \ {x} : \A y \in T \ {x} : z >= y
      BY <2>4, <2>6
    <3>2. x \in Nat /\ z \in Nat /\ \A y \in T : y \in Nat
      BY <2>3
    <3>3. CASE z >= x
      BY <2>2, <3>1, <3>3
    <3>4. CASE x > z
      <4>1. \A y \in T : x >= y
        BY <3>1, <3>2, <3>4
      <4> QED  BY <2>2, <4>1
    <3> QED  BY <3>2, <3>3, <3>4
  <2> QED  BY <2>5, <2>6
<1>2. \E x \in S : \A y \in S : x >= y
  BY <1>1
<1> QED  BY <1>2, Zenon DEF Max

\* What a commit on bills of materials does to them.
BomsStep(c) ==
  /\ BomsTyped' /\ BomsLinked'
  /\ \A p \in Projects : history'[p] = history[p]
  /\ \A r \in Revisions : RevisionChain(r)'
  /\ \A r \in Revisions : revision'[r] = revision[r] \/ revision'[r].version = revision[r].version + 1
  /\ \A r \in Revisions : /\ imports'[r] = imports[r] \/ (c.op = "confirmImport" /\ c.revision = r)
                          /\ Exists(revision[r])' <=>
                               Exists(revision[r]) \/ (c.op = "confirmImport" /\ c.revision = r)

\* A revision that is confirmed is a draft with no history yet.
LEMMA ConfirmKeeps ==
  ASSUME Typed, BomsLinked, \A r \in Revisions : RevisionChain(r), NEW c \in BomCommands,
         ConfirmImport(c), imports[c.revision] = "READY"
  PROVE  BomsStep(c)
<1> DEFINE r == c.revision
           numbers == {revision[s].number : s \in RevisionsOf(ProjectOf[r])}
           number == Max(numbers \cup {0}) + 1
           row == [status |-> "DRAFT", number |-> number, version |-> 1]
<1>1. r \in Revisions /\ c.op = "confirmImport"
  BY BomCommandFields DEF ConfirmImport
<1>2. /\ revision' = [revision EXCEPT ![r] = row] /\ UNCHANGED history
      /\ imports' = [imports EXCEPT ![r] = "CONFIRMED"]
  BY DEF ConfirmImport
<1>3. /\ imports \in [Revisions -> ImportStates] /\ revision \in [Revisions -> RevisionRows]
      /\ history \in [Projects \cup Revisions -> Seq(Steps)]
  BY DEF Typed, BomsTyped
<1>4. number \in Nat
  <2> DEFINE all == numbers \cup {0}
  <2>1. IsFiniteSet(RevisionsOf(ProjectOf[r]))
    BY EngineeringAssumption, FS_Subset DEF RevisionsOf
  <2>2. numbers \subseteq Nat
    BY <1>3 DEF RevisionRows, RevisionsOf
  <2>3. IsFiniteSet(numbers)
    <3> DEFINE R == RevisionsOf(ProjectOf[r])
               f == [s \in R |-> revision[s].number]
    <3>1. f \in Surjection(R, numbers)
      BY DEF Surjection
    <3> HIDE DEF R, f, numbers
    <3> QED  BY <2>1, <3>1, FS_Surjection DEF R
  <2>4. IsFiniteSet(all)
    <3> HIDE DEF numbers
    <3> QED  BY <2>3, FS_AddElement
  <2>5. all \subseteq Nat /\ all # {}
    BY <2>2
  <2>6. Max(all) \in Nat
    <3> HIDE DEF all
    <3> QED  BY <2>4, <2>5, GreatestOf
  <2> HIDE DEF all
  <2> QED  BY <2>6 DEF all
<1> HIDE DEF number
<1>5. row \in RevisionRows /\ row.version = 1 /\ row.status = "DRAFT"
  BY <1>4 DEF RevisionRows
<1>6. ~Exists(revision[r]) /\ history[r] = <<>> /\ revision[r].version = 0
  BY <1>1, <1>3 DEF BomsLinked, Exists, RevisionRows
<1> HIDE DEF row
<1>7. /\ revision' \in [Revisions -> RevisionRows] /\ revision'[r] = row
      /\ \A s \in Revisions \ {r} : revision'[s] = revision[s]
  BY <1>1, <1>2, <1>3, <1>5
<1>8. \A s \in Revisions : imports'[s] = imports[s] \/ s = r
  BY <1>2, <1>3
<1>9. imports'[r] # "READY"
  BY <1>1, <1>2, <1>3
<1>10. BomsLinked'
  BY <1>5, <1>7, <1>8, <1>9, <1>2 DEF BomsLinked, Exists
<1>11. \A s \in Revisions : RevisionChain(s)'
  <2>1. ASSUME NEW s \in Revisions, s # r PROVE RevisionChain(s)'
    BY <1>2, <1>7, <2>1 DEF RevisionChain
  <2>2. RevisionChain(r)'
    <3>1. Chains(<<>>, revision'[r].status, CanTransitionBom)
      BY EmptyChain
    <3> QED  BY <1>2, <1>6, <3>1 DEF RevisionChain
  <2> QED  BY <1>1, <2>1, <2>2
<1>12. BomsTyped'
  <2>1. imports' \in [Revisions -> ImportStates]
    BY <1>1, <1>2, <1>3 DEF ImportStates
  <2> QED  BY <1>2, <1>3, <1>7, <2>1 DEF BomsTyped
<1>13. \A s \in Revisions : revision'[s] = revision[s] \/ revision'[s].version = revision[s].version + 1
  BY <1>5, <1>6, <1>7
<1>14. \A s \in Revisions : Exists(revision[s])' <=> Exists(revision[s]) \/ s = r
  BY <1>5, <1>7 DEF Exists
<1> QED  BY <1>1, <1>2, <1>8, <1>10, <1>11, <1>12, <1>13, <1>14 DEF BomsStep

\* A revision that moves on adds to its history.
LEMMA MovedOn ==
  ASSUME Typed, BomsLinked, \A r \in Revisions : RevisionChain(r), NEW c \in BomCommands,
         c.op # "confirmImport", UNCHANGED imports,
         NEW M \in SUBSET Revisions, NEW next \in [M -> Stati],
         \A r \in M : /\ Exists(revision[r]) /\ CanTransitionBom(revision[r].status, next[r])
                      /\ revision'[r].status = next[r]
                      /\ history'[r] = Append(history[r], [source |-> revision[r].status,
                                                           target |-> next[r]])
                      /\ revision'[r].version = revision[r].version + 1
                      /\ revision'[r] \in RevisionRows,
         \A r \in Revisions \ M : revision'[r] = revision[r] /\ history'[r] = history[r],
         revision' = [r \in Revisions |-> revision'[r]],
         history' = [x \in Projects \cup Revisions |-> history'[x]],
         \A p \in Projects : history'[p] = history[p]
  PROVE  BomsStep(c)
<1>1. /\ revision \in [Revisions -> RevisionRows]
      /\ history \in [Projects \cup Revisions -> Seq(Steps)]
  BY DEF Typed, BomsTyped
<1>2. \A r \in Revisions : revision[r].version \in Nat /\ revision[r].status \in Stati
  BY <1>1 DEF RevisionRows, Stati, States
<1>3. ASSUME NEW r \in M
      PROVE  RevisionChain(r)' /\ history'[r] \in Seq(Steps) /\ Exists(revision[r])'
  <2>1. history[r] \in Seq(Steps) /\ RevisionChain(r)
    BY <1>1
  <2>2. Chains(Append(history[r], [source |-> revision[r].status, target |-> next[r]]), next[r],
               CanTransitionBom)
    BY <2>1, RevisionChainGrows DEF RevisionChain
  <2>3. [source |-> revision[r].status, target |-> next[r]] \in Steps
    BY <1>2 DEF Steps
  <2>4. history'[r] \in Seq(Steps)
    BY <2>1, <2>3
  <2>5. Exists(revision[r])'
    <3>1. revision'[r].version = revision[r].version + 1 /\ revision[r].version \in Nat
      BY <1>2
    <3> QED  BY <3>1 DEF Exists
  <2> QED  BY <2>2, <2>4, <2>5 DEF RevisionChain
<1>4. \A r \in Revisions : RevisionChain(r)'
  BY <1>3 DEF RevisionChain
<1>5. revision' \in [Revisions -> RevisionRows]
  BY <1>1
<1>6. \A x \in Projects \cup Revisions : history'[x] \in Seq(Steps)
  BY <1>1, <1>3
<1>7. history' \in [Projects \cup Revisions -> Seq(Steps)]
  BY <1>6
<1>8. \A r \in Revisions : Exists(revision[r])' <=> Exists(revision[r])
  BY <1>3 DEF Exists
<1>10. BomsTyped'
  BY <1>5, <1>7 DEF Typed, BomsTyped
<1>9. BomsLinked'
  <2>1. ASSUME NEW r \in Revisions, Exists(revision[r])' PROVE imports'[r] # "READY"
    BY <1>8, <2>1 DEF BomsLinked
  <2>2. ASSUME NEW r \in Revisions, ~Exists(revision[r])'
        PROVE  revision'[r].status = "DRAFT" /\ history'[r] = <<>>
    BY <1>3, <1>8, <2>2 DEF BomsLinked
  <2> QED  BY <2>1, <2>2 DEF BomsLinked
<1> QED  BY <1>4, <1>8, <1>9, <1>10 DEF BomsStep

\* A revision that is given a status counts its version up.
LEMMA RevisionMoved ==
  ASSUME NEW row \in RevisionRows, NEW status \in {"IN_REVIEW", "RELEASED", "SUPERSEDED", "CANCELLED"}
  PROVE  /\ Updated([row EXCEPT !.status = status]) \in RevisionRows
         /\ Updated([row EXCEPT !.status = status]).status = status
         /\ Updated([row EXCEPT !.status = status]).version = row.version + 1
<1> DEFINE moved == [row EXCEPT !.status = status]
<1>1. moved \in RevisionRows /\ moved.status = status /\ moved.version = row.version
  BY DEF RevisionRows
<1> HIDE DEF moved
<1>2. /\ Updated(moved) \in RevisionRows /\ Updated(moved).status = status
      /\ Updated(moved).version = row.version + 1
  BY <1>1 DEF RevisionRows, Updated
<1> QED  BY <1>2 DEF moved

\* A transition moves its revision on.
LEMMA TransitionKeeps ==
  ASSUME Typed, BomsLinked, \A r \in Revisions : RevisionChain(r), NEW c \in BomCommands,
         NEW seen, TransitionRevision(c, seen), Exists(revision[c.revision]),
         seen = revision[c.revision], CanTransitionBom(seen.status, Target(c.op))
  PROVE  BomsStep(c)
<1> DEFINE r == c.revision
           M == {r}
           next == [s \in M |-> Target(c.op)]
<1>1. r \in Revisions /\ c.op \in Transitions /\ c.op # "confirmImport"
  BY BomCommandFields DEF TransitionRevision, Transitions
<1>2. /\ imports \in [Revisions -> ImportStates] /\ revision \in [Revisions -> RevisionRows]
      /\ history \in [Projects \cup Revisions -> Seq(Steps)]
  BY DEF Typed, BomsTyped
<1>3. /\ revision' = [revision EXCEPT ![r] = Updated([revision[r] EXCEPT !.status = Target(c.op)])]
      /\ history' = [history EXCEPT ![r] =
             Append(history[r], [source |-> seen.status, target |-> Target(c.op)])]
      /\ UNCHANGED imports
  BY <1>1, <1>2 DEF TransitionRevision
<1>4. Target(c.op) \in {"IN_REVIEW", "SUPERSEDED", "CANCELLED"}
  BY <1>1 DEF Target, Transitions
<1> DEFINE moved == Updated([revision[r] EXCEPT !.status = Target(c.op)])
<1>5. /\ moved \in RevisionRows /\ moved.status = Target(c.op)
      /\ moved.version = revision[r].version + 1
  <2> DEFINE status == Target(c.op)
             row == revision[r]
  <2>1. row \in RevisionRows /\ status \in {"IN_REVIEW", "RELEASED", "SUPERSEDED", "CANCELLED"}
    BY <1>1, <1>2, <1>4
  <2> HIDE DEF status, row
  <2>2. /\ Updated([row EXCEPT !.status = status]) \in RevisionRows
        /\ Updated([row EXCEPT !.status = status]).status = status
        /\ Updated([row EXCEPT !.status = status]).version = row.version + 1
    BY <2>1, RevisionMoved
  <2> QED  BY <2>2 DEF status, row
<1>6. revision'[r] = moved /\ \A s \in Revisions \ M : revision'[s] = revision[s]
  BY <1>1, <1>2, <1>3
<1>7. /\ history'[r] = Append(history[r], [source |-> revision[r].status, target |-> Target(c.op)])
      /\ \A x \in Projects \cup Revisions : x # r => history'[x] = history[x]
  BY <1>1, <1>2, <1>3
<1>8. \A p \in Projects : p # r
  BY <1>1, EngineeringAssumption
<1>9. /\ revision' = [s \in Revisions |-> revision'[s]]
      /\ history' = [x \in Projects \cup Revisions |-> history'[x]]
  BY <1>2, <1>3
<1>10. next \in [M -> Stati] /\ M \in SUBSET Revisions
  BY <1>1, <1>4 DEF Stati, States
<1> HIDE DEF moved
<1>11. \A s \in M :
         /\ Exists(revision[s]) /\ CanTransitionBom(revision[s].status, next[s])
         /\ revision'[s].status = next[s]
         /\ history'[s] = Append(history[s], [source |-> revision[s].status, target |-> next[s]])
         /\ revision'[s].version = revision[s].version + 1
         /\ revision'[s] \in RevisionRows
  BY <1>5, <1>6, <1>7
<1>12. /\ \A s \in Revisions \ M : revision'[s] = revision[s] /\ history'[s] = history[s]
       /\ \A p \in Projects : history'[p] = history[p]
  BY <1>6, <1>7, <1>8
<1>13. UNCHANGED imports /\ c.op # "confirmImport"
  BY <1>1, <1>3
<1> HIDE DEF next, M
<1> QED  BY <1>9, <1>10, <1>11, <1>12, <1>13, MovedOn, Zenon

\* A release moves its revision and the one released before on.
LEMMA ReleaseKeeps ==
  ASSUME Typed, BomsLinked, \A r \in Revisions : RevisionChain(r), NEW c \in BomCommands,
         ReleaseRevision(c), Exists(revision[c.revision]),
         revision[c.revision].status = "IN_REVIEW"
  PROVE  BomsStep(c)
<1> DEFINE r == c.revision
           previous == {s \in RevisionsOf(ProjectOf[r]) \ {r} : revision[s].status = "RELEASED"}
           Moves(s) == IF s = r THEN "RELEASED" ELSE "SUPERSEDED"
           M == previous \cup {r}
           next == [s \in M |-> Moves(s)]
<1>1. r \in Revisions /\ c.op = "release"
  BY BomCommandFields DEF ReleaseRevision
<1>2. /\ imports \in [Revisions -> ImportStates] /\ revision \in [Revisions -> RevisionRows]
      /\ history \in [Projects \cup Revisions -> Seq(Steps)]
  BY DEF Typed, BomsTyped
<1>3. /\ revision' = [s \in Revisions |->
             IF s \in M THEN Updated([revision[s] EXCEPT !.status = Moves(s)]) ELSE revision[s]]
      /\ history' = [x \in DOMAIN history |->
             IF x \in M
             THEN Append(history[x], [source |-> revision[x].status, target |-> Moves(x)])
             ELSE history[x]]
      /\ UNCHANGED imports
  BY DEF ReleaseRevision
<1>4. /\ M \in SUBSET Revisions /\ next \in [M -> Stati]
      /\ \A s \in M : /\ Exists(revision[s]) /\ next[s] = Moves(s)
                      /\ CanTransitionBom(revision[s].status, next[s])
  BY <1>1 DEF RevisionsOf, Stati, States, CanTransitionBom
<1> HIDE DEF M
<1>5. ASSUME NEW s \in M
      PROVE  /\ revision'[s] \in RevisionRows /\ revision'[s].status = Moves(s)
             /\ revision'[s].version = revision[s].version + 1
             /\ history'[s] = Append(history[s], [source |-> revision[s].status, target |-> Moves(s)])
  <2>1. /\ revision'[s] = Updated([revision[s] EXCEPT !.status = Moves(s)])
        /\ history'[s] = Append(history[s], [source |-> revision[s].status, target |-> Moves(s)])
    BY <1>2, <1>3, <1>4
  <2> DEFINE status == Moves(s)
             row == revision[s]
  <2>2. row \in RevisionRows /\ status \in {"IN_REVIEW", "RELEASED", "SUPERSEDED", "CANCELLED"}
    BY <1>2, <1>4
  <2>3. revision'[s] = Updated([row EXCEPT !.status = status])
    BY <2>1
  <2> HIDE DEF status, row
  <2>4. /\ Updated([row EXCEPT !.status = status]) \in RevisionRows
        /\ Updated([row EXCEPT !.status = status]).status = status
        /\ Updated([row EXCEPT !.status = status]).version = row.version + 1
    BY <2>2, RevisionMoved
  <2> QED  BY <2>1, <2>3, <2>4 DEF status, row
<1>6. \A p \in Projects : p \notin M
  BY <1>4, EngineeringAssumption
<1>7. /\ \A s \in Revisions \ M : revision'[s] = revision[s] /\ history'[s] = history[s]
      /\ \A p \in Projects : history'[p] = history[p]
  BY <1>2, <1>3, <1>6
<1>8. /\ revision' = [s \in Revisions |-> revision'[s]]
      /\ history' = [x \in Projects \cup Revisions |-> history'[x]]
  BY <1>2, <1>3
<1>9. c.op # "confirmImport"
  BY <1>1
<1>10. \A s \in M :
         /\ Exists(revision[s]) /\ CanTransitionBom(revision[s].status, next[s])
         /\ revision'[s].status = next[s]
         /\ history'[s] = Append(history[s], [source |-> revision[s].status, target |-> next[s]])
         /\ revision'[s].version = revision[s].version + 1
         /\ revision'[s] \in RevisionRows
  <2> HIDE DEF next, Moves
  <2> QED  BY <1>4, <1>5
<1> HIDE DEF next, Moves
<1> QED  BY <1>3, <1>4, <1>7, <1>8, <1>9, <1>10, MovedOn, Zenon

\* A line that is changed moves no revision.
LEMMA LineKeeps ==
  ASSUME Typed, BomsLinked, \A r \in Revisions : RevisionChain(r), NEW c \in BomCommands,
         UpdateLine(c)
  PROVE  BomsStep(c)
<1>1. UNCHANGED <<imports, revision, history>> /\ c.op # "confirmImport"
  BY DEF UpdateLine
<1>2. BomsTyped' /\ BomsLinked'
  BY <1>1 DEF Typed, BomsTyped, BomsLinked, Exists
<1>3. \A r \in Revisions : RevisionChain(r)'
  BY <1>1 DEF RevisionChain
<1> QED  BY <1>1, <1>2, <1>3 DEF BomsStep, Exists

\* A commit on bills of materials keeps what is said of them.
LEMMA BomsKept ==
  ASSUME Inv, NEW t \in Tx, Commit(t), WriteBoms(tx[t].command, tx[t].seen)
  PROVE  tx[t].command \in BomCommands /\ BomsStep(tx[t].command)
<1> DEFINE c == tx[t].command
           seen == tx[t].seen
<1>1. c \in Commands /\ Seen(t) /\ Running(t) /\ StillAsRead(t) /\ BomsDecided(c, seen)
  BY CommitDecided
<1>2. Typed /\ BomsLinked
  BY DEF Inv, Linked
<1>3. c.op \in Transitions \cup {"release"} =>
        c.revision \in Revisions /\ seen = revision[c.revision]
  BY <1>1, <1>2, SeenNow
<1>4. BomsSeen(c, seen)
  BY <1>1 DEF Seen
<1>5. ConfirmImport(c) \/ TransitionRevision(c, seen) \/ ReleaseRevision(c) \/ UpdateLine(c)
  BY DEF WriteBoms
<1>6. \A r \in Revisions : RevisionChain(r)
  BY DEF Inv, HistoriesChain, RevisionChain
<1> HIDE DEF c, seen
<1>7. c \in BomCommands
  BY <1>1, <1>5, CommandKinds DEF ConfirmImport, TransitionRevision, ReleaseRevision, UpdateLine,
     BomOperations
<1>8. CASE ConfirmImport(c)
  <2>1. imports[c.revision] = "READY"
    BY <1>1, <1>8 DEF ConfirmImport, BomsDecided
  <2> QED  BY <1>2, <1>6, <1>7, <1>8, <2>1, ConfirmKeeps DEF c
<1>9. CASE TransitionRevision(c, seen)
  <2>1. c.op \in Transitions
    BY <1>9 DEF TransitionRevision, Transitions
  <2>2. /\ Exists(revision[c.revision]) /\ seen = revision[c.revision]
        /\ CanTransitionBom(seen.status, Target(c.op))
    BY <1>1, <1>3, <1>4, <2>1 DEF BomsSeen, BomsDecided
  <2> QED  BY <1>2, <1>6, <1>7, <1>9, <2>2, TransitionKeeps DEF c
<1>10. CASE ReleaseRevision(c)
  <2>1. c.op = "release"
    BY <1>10 DEF ReleaseRevision
  <2>2. Exists(revision[c.revision]) /\ revision[c.revision].status = "IN_REVIEW"
    BY <1>1, <1>3, <1>4, <2>1 DEF BomsSeen, BomsDecided
  <2> QED  BY <1>2, <1>6, <1>7, <1>10, <2>2, ReleaseKeeps DEF c
<1>11. CASE UpdateLine(c)
  BY <1>2, <1>6, <1>7, <1>11, LineKeeps DEF c
<1> QED  BY <1>5, <1>8, <1>9, <1>10, <1>11

\* What locks revisions or the bill of materials goes by the revisions there
\* are.
LEMMA PlanBesideBoms ==
  ASSUME UNCHANGED attribute, NEW u, NEW c, tx'[u].command = c,
         c.op \in {"confirmImport", "release"} =>
            {r \in Revisions : ProjectOf[r] = ProjectOf[c.revision] /\ Exists(revision'[r])}
              = RevisionsOf(ProjectOf[c.revision])
  PROVE  Plan(tx[u].command)' = Plan(c)
<1>1. ItemPlan(tx[u].command)' = ItemPlan(c)
  BY DEF ItemPlan, AttributePlan, ItemWritePlan, AttributesOf, Exists
<1>2. ProjectPlan(tx[u].command)' = ProjectPlan(c)
  BY DEF ProjectPlan
<1>3. CASE c.op = "confirmImport"
  <2>1. ConfirmPlan(tx[u].command)' = ConfirmPlan(c)
    BY <1>3 DEF ConfirmPlan, RevisionsOf, Exists
  <2> QED  BY <1>3, <2>1 DEF Plan, BomPlan, ProjectOperations, ItemOperations, None
<1>4. CASE c.op = "release"
  <2>1. ReleasePlan(tx[u].command)' = ReleasePlan(c)
    BY <1>4 DEF ReleasePlan, RevisionsOf, Exists
  <2> QED  BY <1>4, <2>1 DEF Plan, BomPlan, ProjectOperations, ItemOperations, None
<1>5. CASE c.op \notin {"confirmImport", "release"}
  <2>1. BomPlan(tx[u].command)' = BomPlan(c)
    BY <1>5 DEF BomPlan, TransitionPlan, UpdateLinePlan
  <2> QED  BY <1>1, <1>2, <2>1 DEF Plan
<1> QED  BY <1>3, <1>4, <1>5

\* The plan of an import that is confirmed, whatever revisions there are then.
LEMMA PlanOfConfirmThen ==
  ASSUME NEW u
  PROVE  (tx[u].command \in BomCommands /\ tx[u].command.op = "confirmImport" =>
            /\ Len(Plan(tx[u].command)) =
                 IF RevisionsOf(ProjectOf[tx[u].command.revision]) = {} THEN 3 ELSE 4
            /\ Plan(tx[u].command)[1] = Lock("imports", tx[u].command.revision, "UPDATE")
            /\ Plan(tx[u].command)[2] =
                 Lock("projects", ProjectOf[tx[u].command.revision], "UPDATE")
            /\ Plan(tx[u].command)[3] = Check
            /\ Len(Plan(tx[u].command)) = 4 =>
                 Plan(tx[u].command)[4] =
                   Lock("boms", ProjectOf[tx[u].command.revision], "UPDATE"))'
<1>1. tx[u].command \in BomCommands /\ tx[u].command.op = "confirmImport" =>
            /\ Len(Plan(tx[u].command)) =
                 IF RevisionsOf(ProjectOf[tx[u].command.revision]) = {} THEN 3 ELSE 4
            /\ Plan(tx[u].command)[1] = Lock("imports", tx[u].command.revision, "UPDATE")
            /\ Plan(tx[u].command)[2] =
                 Lock("projects", ProjectOf[tx[u].command.revision], "UPDATE")
            /\ Plan(tx[u].command)[3] = Check
            /\ Len(Plan(tx[u].command)) = 4 =>
                 Plan(tx[u].command)[4] =
                   Lock("boms", ProjectOf[tx[u].command.revision], "UPDATE")
  BY PlanOfConfirm
<1> QED  BY <1>1, PTL

\* A confirmed import keeps its place when its bill of materials begins.
LEMMA ConfirmKeepsPlace ==
  ASSUME NEW u, NEW c \in BomCommands, c.op = "confirmImport", tx[u].command = c,
         tx'[u].command = c, tx[u].pos \in Nat, tx[u].pos <= Len(Plan(c)),
         RevisionsOf(ProjectOf[c.revision]) # {} =>
            {r \in Revisions : ProjectOf[r] = ProjectOf[c.revision] /\ Exists(revision'[r])} # {}
  PROVE  /\ tx[u].pos <= Len(Plan(tx[u].command)')
         /\ \A n \in 1..tx[u].pos : Plan(tx[u].command)'[n] = Plan(tx[u].command)[n]
<1> DEFINE then == {r \in Revisions : ProjectOf[r] = ProjectOf[c.revision] /\ Exists(revision'[r])}
           itself == Lock("imports", c.revision, "UPDATE")
           open == Lock("projects", ProjectOf[c.revision], "UPDATE")
           bom == Lock("boms", ProjectOf[c.revision], "UPDATE")
<1>1. /\ Len(Plan(c)) = IF RevisionsOf(ProjectOf[c.revision]) = {} THEN 3 ELSE 4
      /\ Plan(c)[1] = itself /\ Plan(c)[2] = open /\ Plan(c)[3] = Check
      /\ Len(Plan(c)) = 4 => Plan(c)[4] = bom
  BY PlanOfConfirm
<1>2. RevisionsOf(ProjectOf[tx[u].command.revision])' = then
  BY DEF RevisionsOf, Exists
<1>3. /\ Len(Plan(tx[u].command)') = IF then = {} THEN 3 ELSE 4
      /\ Plan(tx[u].command)'[1] = itself /\ Plan(tx[u].command)'[2] = open
      /\ Plan(tx[u].command)'[3] = Check
      /\ Len(Plan(tx[u].command)') = 4 => Plan(tx[u].command)'[4] = bom
  BY <1>2, PlanOfConfirmThen
<1> HIDE DEF itself, open, bom
<1>4. RevisionsOf(ProjectOf[c.revision]) # {} => then # {}
  OBVIOUS
<1> HIDE DEF then
<1>5. tx[u].pos <= Len(Plan(tx[u].command)')
  BY <1>1, <1>3, <1>4
<1>6. ASSUME NEW n \in 1..tx[u].pos PROVE Plan(tx[u].command)'[n] = Plan(c)[n]
  <2>1. n \in {1, 2, 3} \/ (n = 4 /\ Len(Plan(c)) = 4)
    BY <1>1
  <2>2. Len(Plan(c)) = 4 => Len(Plan(tx[u].command)') = 4
    BY <1>1, <1>3, <1>4
  <2> QED  BY <1>1, <1>3, <2>1, <2>2
<1> QED  BY <1>5, <1>6

\* A commit on bills of materials leaves the other transactions their place
\* and what they know.
LEMMA BomsCommitBeside ==
  ASSUME Inv, NEW t \in Tx, NEW u \in Tx, u # t, Running(u), Commit(t),
         tx[t].command \in BomCommands, BomsStep(tx[t].command),
         UNCHANGED <<planRows, itemRows>>
  PROVE  /\ tx[u].pos <= Len(Plan(tx[u].command)')
         /\ \A n \in 1..tx[u].pos : Plan(tx[u].command)'[n] = Plan(tx[u].command)[n]
         /\ Seen(u)'
         /\ Checked(u) => ItemsDecided(tx[u].command)' /\ BomsDecided(tx[u].command, tx[u].seen)'
<1> DEFINE c == tx[u].command
           seen == tx[u].seen
           d == tx[t].command
<1>1. tx'[u].command = c /\ tx'[u].seen = seen
  BY CommitOthers
<1>2. c \in Commands /\ tx[u].pos \in Nat /\ tx[u].pos <= Len(Plan(c))
  BY DEF Inv, Typed, Shaped, Running, Idle, Exclusive
<1>3. Seen(u) /\ Decided(u) /\ UNCHANGED <<project, attribute>>
  BY DEF Inv, planRows, itemRows
<1>4. d \in Commands /\ d.op \in BomOperations /\ Checked(t) /\ tx[t].pos = Len(Plan(d))
  BY CommitDecided, CommitOthers, BomCommandFields
<1>5. c.op \in BomOperations => c \in BomCommands /\ c.revision \in Revisions
  BY <1>2, CommandKinds, BomCommandFields
<1>6. \A r \in Revisions :
        Exists(revision[r])' <=> Exists(revision[r]) \/ (d.op = "confirmImport" /\ d.revision = r)
  BY DEF BomsStep
<1>7. BomsSeen(c, seen)
  BY <1>3 DEF Seen
<1>8. /\ tx[u].pos <= Len(Plan(tx[u].command)')
      /\ \A n \in 1..tx[u].pos : Plan(tx[u].command)'[n] = Plan(tx[u].command)[n]
  <2>1. CASE tx[u].pos = 0
    <3>1. Len(Plan(tx[u].command)') \in Nat
      BY <1>1, <1>2, PlansEnd
    <3>2. 1..tx[u].pos = {}
      BY <2>1
    <3> QED  BY <2>1, <3>1, <3>2
  <2>2. CASE c.op = "confirmImport"
    <3>1. RevisionsOf(ProjectOf[c.revision]) # {} =>
            {r \in Revisions : ProjectOf[r] = ProjectOf[c.revision] /\ Exists(revision'[r])} # {}
      BY <1>6 DEF RevisionsOf, Exists
    <3>2. c \in BomCommands
      BY <1>5, <2>2 DEF BomOperations
    <3> QED  BY <1>1, <1>2, <2>2, <3>1, <3>2, ConfirmKeepsPlace
  <2>3. CASE tx[u].pos # 0 /\ c.op # "confirmImport"
    <3>1. ASSUME c.op = "release", d.op = "confirmImport"
          PROVE  ProjectOf[d.revision] # ProjectOf[c.revision]
      <4>1. c \in BomCommands /\ c.revision \in Revisions /\ Exists(revision[c.revision])
        BY <1>5, <1>7, <3>1 DEF BomOperations, BomsSeen
      <4>2. Plan(c)[1] = Lock("boms", ProjectOf[c.revision], "UPDATE") /\ 1 \in 1..tx[u].pos
        BY <1>2, <2>3, <3>1, <4>1, PlanOfRelease
      <4>3. Lock("boms", ProjectOf[c.revision], "UPDATE") \in Held(u)
        BY <4>2, PassedIsHeld
      <4>4. SUFFICES ASSUME ProjectOf[d.revision] = ProjectOf[c.revision] PROVE FALSE
        OBVIOUS
      <4>5. RevisionsOf(ProjectOf[d.revision]) # {}
        BY <4>1, <4>4 DEF RevisionsOf
      <4>6. Len(Plan(d)) = 4 /\ Plan(d)[4] = Lock("boms", ProjectOf[d.revision], "UPDATE")
        BY <3>1, <4>5, PlanOfConfirm
      <4>7. Lock("boms", ProjectOf[c.revision], "UPDATE") \in Held(t)
        <5>1. 4 \in 1..tx[t].pos
          BY <1>4, <4>6
        <5> QED  BY <4>4, <4>6, <5>1, PassedIsHeld
      <4> QED  BY <4>3, <4>7, UpdateExcludes DEF Inv
    <3>2. c.op \in {"confirmImport", "release"} =>
            {r \in Revisions : ProjectOf[r] = ProjectOf[c.revision] /\ Exists(revision'[r])}
              = RevisionsOf(ProjectOf[c.revision])
      <4>1. ASSUME c.op = "release", NEW r \in Revisions, ProjectOf[r] = ProjectOf[c.revision]
            PROVE  Exists(revision'[r]) <=> Exists(revision[r])
        BY <1>6, <3>1, <4>1 DEF Exists
      <4> HIDE DEF c
      <4> QED  BY <2>3, <4>1 DEF RevisionsOf, c
    <3>3. Plan(tx[u].command)' = Plan(c)
      BY <1>1, <1>3, <3>2, PlanBesideBoms
    <3> QED  BY <1>2, <3>3
  <2> QED  BY <2>1, <2>2, <2>3
<1>9. BomsSeen(tx[u].command, tx[u].seen)'
  <2>1. \A r \in Revisions : revision[r].version \in Nat
    BY DEF Inv, Typed, BomsTyped, RevisionRows
  <2>2. \A r \in Revisions :
          revision'[r] = revision[r] \/ revision'[r].version = revision[r].version + 1
    BY DEF BomsStep
  <2>3. ASSUME c.op \in Transitions \cup {"release"}
        PROVE  revision'[c.revision].version > 0 /\ Past(revision'[c.revision], seen)
    <3>1. c.revision \in Revisions
      BY <1>5, <2>3 DEF BomOperations, Transitions
    <3>2. Exists(revision[c.revision]) /\ Past(revision[c.revision], seen)
      BY <1>7, <2>3 DEF BomsSeen
    <3> HIDE DEF c, seen
    <3>3. Past(revision'[c.revision], seen)
      BY <2>1, <2>2, <3>1, <3>2, PastStays
    <3>4. revision'[c.revision].version > 0
      BY <2>1, <2>2, <3>1, <3>2 DEF Exists
    <3> QED  BY <3>3, <3>4
  <2> HIDE DEF c, seen
  <2> QED  BY <1>1, <2>3 DEF BomsSeen, Exists
<1>10. ProjectsSeen(tx[u].command, tx[u].seen)' /\ ItemsSeen(tx[u].command, tx[u].seen)'
  BY <1>1, <1>3, StillKnown DEF Seen
<1>11. Checked(u) => ItemsDecided(tx[u].command)'
  BY <1>1, <1>3, StillKnown DEF Decided
<1>12. ASSUME Checked(u) PROVE BomsDecided(tx[u].command, tx[u].seen)'
  <2>1. BomsDecided(c, seen)
    BY <1>3, <1>12 DEF Decided
  <2>2. ASSUME c.op = "confirmImport" PROVE imports'[c.revision] = "READY"
    <3>1. c.revision \in Revisions /\ imports[c.revision] = "READY"
      BY <1>5, <2>1, <2>2 DEF BomOperations, BomsDecided
    <3>2. Lock("imports", c.revision, "UPDATE") \in Held(u)
      BY <1>2, <1>12, <2>2, CheckedHolds
    <3>3. d.op = "confirmImport" => Lock("imports", d.revision, "UPDATE") \in Held(t)
      BY <1>4, CheckedHolds
    <3>4. ~(d.op = "confirmImport" /\ d.revision = c.revision)
      BY <3>2, <3>3, UpdateExcludes DEF Inv
    <3>5. imports'[c.revision] = imports[c.revision]
      BY <3>1, <3>4 DEF BomsStep
    <3> QED  BY <3>1, <3>5
  <2> HIDE DEF c, seen
  <2> QED  BY <1>1, <1>3, <2>1, <2>2 DEF BomsDecided, Open
<1> QED  BY <1>8, <1>9, <1>10, <1>11, <1>12 DEF Seen

\* A commit on bills of materials keeps the invariant.
LEMMA BomsCommit ==
  ASSUME Inv, NEW t \in Tx, Commit(t), WriteBoms(tx[t].command, tx[t].seen)
  PROVE  Inv'
<1>1. tx[t].command \in BomCommands /\ BomsStep(tx[t].command)
  BY BomsKept
<1>2. UNCHANGED <<planRows, itemRows>>
  BY DEF WriteBoms
<1>3. ProjectsTyped' /\ ItemsTyped' /\ BomsTyped'
  BY <1>1, <1>2 DEF BomsStep, Inv, Typed, ProjectsTyped, ItemsTyped, planRows, itemRows
<1>4. Linked'
  <2>1. ItemsLinked'
    BY <1>2 DEF Inv, Linked, ItemsLinked, Exists, itemRows
  <2>2. ProjectsLinked'
    BY <1>1, <1>2 DEF Inv, Linked, ProjectsLinked, Exists, planRows, BomsStep
  <2> QED  BY <1>1, <2>1, <2>2 DEF Linked, BomsStep
<1>5. HistoriesChain'
  <2>1. \A r \in Revisions : RevisionChain(r)'
    BY <1>1 DEF BomsStep
  <2>2. \A p \in Projects : ProjectChain(p)'
    BY <1>1, <1>2 DEF Inv, HistoriesChain, ProjectChain, BomsStep, planRows
  <2> QED  BY <2>1, <2>2 DEF HistoriesChain, ProjectChain, RevisionChain
<1>6. ItemMasterHolds'
  BY <1>2 DEF Inv, ItemMasterHolds, ActiveRecordsUseActive, RequiredValuesPresent, AttributesOf,
     Exists, itemRows
<1>7. ASSUME NEW u \in Tx \ {t}, Running(u)
      PROVE  /\ tx[u].pos <= Len(Plan(tx[u].command)')
             /\ \A n \in 1..tx[u].pos : Plan(tx[u].command)'[n] = Plan(tx[u].command)[n]
             /\ Seen(u)'
             /\ Checked(u) => ItemsDecided(tx[u].command)' /\ BomsDecided(tx[u].command, tx[u].seen)'
  BY <1>1, <1>2, <1>7, BomsCommitBeside
<1> QED  BY <1>3, <1>4, <1>5, <1>6, <1>7, CommitKeeps

-----------------------------------------------------------------------------
(* The invariant holds. *)

\* The tables a database starts with are in order.
LEMMA InitInOrder ==
  ASSUME Init
  PROVE  Inv
<1>1. PICK d \in Databases :
        /\ productCategory = d.productCategory /\ project = d.project
        /\ member = d.member /\ milestone = d.milestone /\ package = d.package
        /\ itemCategory = d.itemCategory /\ unit = d.unit
        /\ attribute = d.attribute /\ item = d.item
        /\ imports = d.import /\ revision = d.revision /\ line = d.line
  BY DEF Init
<1>2. PlanInOrder(d) /\ ItemsInOrder(d) /\ BomsInOrder(d)
  BY DatabaseAssumption
<1>3. history = [x \in Projects \cup Revisions |-> <<>>] /\ tx = [t \in Tx |-> Idle]
  BY DEF Init
<1>4. Shaped(Idle)
  BY DEF Shaped, Idle
<1>5. Typed
  <2>1. ProjectsTyped
    BY <1>1, <1>2 DEF ProjectsTyped, PlanInOrder
  <2>2. ItemsTyped
    BY <1>1, <1>2 DEF ItemsTyped, ItemsInOrder
  <2>3. BomsTyped
    BY <1>1, <1>2, <1>3 DEF BomsTyped, BomsInOrder
  <2>4. tx = [t \in Tx |-> tx[t]] /\ \A t \in Tx : Shaped(tx[t])
    BY <1>3, <1>4
  <2> QED  BY <2>1, <2>2, <2>3, <2>4 DEF Typed
<1>6. ProjectsLinked
  <2>1. \A p \in Projects : Exists(project[p]) \/ (project[p].state = "DRAFT" /\ history[p] = <<>>)
    BY <1>1, <1>2, <1>3 DEF PlanInOrder
  <2>2. \A p \in Projects, m \in Memberships : Exists(member[p][m]) \/ member[p][m].role = None
    BY <1>1, <1>2 DEF PlanInOrder
  <2>3. \A m \in Milestones : milestone[m] \in Range(milestone)
    BY <1>5 DEF Typed, ProjectsTyped, Range
  <2>4. \A k \in Packages : package[k] \in Range(package)
    BY <1>5 DEF Typed, ProjectsTyped, Range
  <2>5. \A part \in Range(milestone) \cup Range(package) :
          IF part.project = None THEN ~Exists(part)
          ELSE Exists(part) /\ Exists(project[part.project])
    BY <1>1, <1>2 DEF PlanInOrder
  <2> QED  BY <2>1, <2>2, <2>3, <2>4, <2>5 DEF ProjectsLinked
<1>7. ItemsLinked /\ ItemMasterHolds
  BY <1>1, <1>2 DEF ItemsLinked, ItemMasterHolds, ActiveRecordsUseActive, RequiredValuesPresent,
     AttributesOf, ItemsInOrder
<1>8. BomsLinked
  BY <1>1, <1>2, <1>3 DEF BomsLinked, BomsInOrder
<1>9. HistoriesChain
  BY <1>3, EmptyChain DEF HistoriesChain
<1>10. ASSUME NEW t \in Tx
       PROVE  /\ Seen(t) /\ Decided(t) /\ Fresh(t) /\ Held(t) = {}
              /\ tx[t].pos <= Len(Plan(tx[t].command))
  <2>1. tx[t] = Idle /\ tx[t].command = Idle.command /\ tx[t].pos = 0
    BY <1>3 DEF Idle
  <2>2. Plan(tx[t].command) = <<>>
    BY <2>1 DEF Plan, Idle, None, ProjectOperations, ItemOperations
  <2>3. Held(t) = {} /\ ~Checked(t)
    BY <2>1 DEF Held, Checked
  <2>4. Seen(t) /\ Decided(t) /\ Fresh(t)
    BY <2>1, <2>3 DEF Seen, ProjectsSeen, ItemsSeen, BomsSeen, Fresh, Running, Decided, None,
       Transitions, Idle
  <2> QED  BY <2>1, <2>2, <2>3, <2>4
<1>11. Exclusive
  BY <1>10 DEF Exclusive
<1> QED  BY <1>5, <1>6, <1>7, <1>8, <1>9, <1>10, <1>11 DEF Inv, Linked

\* Every step keeps the invariant.
LEMMA NextInOrder ==
  ASSUME Inv, [Next]_vars
  PROVE  Inv'
<1>1. ASSUME NEW t \in Tx, NEW c \in Commands, Begin(t, c) PROVE Inv'
  BY <1>1, BeginStep
<1>2. ASSUME NEW t \in Tx, TakeLock(t) PROVE Inv'
  BY <1>2, TakeLockStep
<1>3. ASSUME NEW t \in Tx, CheckUnderLocks(t) PROVE Inv'
  BY <1>3, CheckStep
<1>4. ASSUME NEW t \in Tx, Abort(t) PROVE Inv'
  BY <1>4, AbortStep
<1>5. ASSUME NEW t \in Tx, Commit(t) PROVE Inv'
  <2>1. CASE WriteProjects(tx[t].command, tx[t].seen)
    BY <1>5, <2>1, ProjectsCommit
  <2>2. CASE WriteItems(tx[t].command)
    BY <1>5, <2>2, ItemsCommit
  <2>3. CASE WriteBoms(tx[t].command, tx[t].seen)
    BY <1>5, <2>3, BomsCommit
  <2> QED  BY <1>5, <2>1, <2>2, <2>3 DEF Commit
<1>6. ASSUME UNCHANGED vars PROVE Inv'
  <2>1. UNCHANGED rows /\ UNCHANGED tx
    BY <1>6 DEF vars, rows
  <2>2. \A u \in Tx : /\ Held(u)' = Held(u)
                      /\ Plan(tx[u].command)' = Plan(tx[u].command)
                      /\ Seen(u)' = Seen(u) /\ Decided(u)' = Decided(u) /\ Fresh(u)' = Fresh(u)
    BY <2>1, OthersStay
  <2>3. Linked' /\ HistoriesChain' /\ ItemMasterHolds'
    BY <2>1, LinksStay DEF Inv
  <2>4. Typed'
    BY <2>1 DEF Inv, Typed, ProjectsTyped, ItemsTyped, BomsTyped, Shaped, rows, planRows, itemRows,
       bomRows
  <2>5. Exclusive'
    BY <2>1, <2>2 DEF Inv, Exclusive
  <2> QED  BY <2>2, <2>3, <2>4, <2>5 DEF Inv
<1> QED  BY <1>1, <1>2, <1>3, <1>4, <1>5, <1>6 DEF Next

\* Everything the proofs rest on holds in every state.
THEOREM EngineeringInvariant == Spec => []Inv
<1>1. Init => Inv
  BY InitInOrder
<1>2. Inv /\ [Next]_vars => Inv'
  BY NextInOrder
<1> QED  BY <1>1, <1>2, PTL DEF Spec

\* The histories of projects and revisions tell their whole lives: no commit
\* of projects.repository.ts or boms.repository.ts writes a transition row that
\* does not follow on the last one, although transitions of projects decide on
\* what they read before their first lock.
THEOREM HistoriesAreWhole == Spec => []HistoriesChain
<1>1. Inv => HistoriesChain
  BY DEF Inv
<1> QED  BY <1>1, EngineeringInvariant, PTL

\* Active items, attributes, units and categories stay in order in whatever
\* order items.repository.ts validates and commits them.
THEOREM ItemMasterIsInOrder == Spec => []ItemMasterHolds
<1>1. Inv => ItemMasterHolds
  BY DEF Inv
<1> QED  BY <1>1, EngineeringInvariant, PTL

-----------------------------------------------------------------------------
(* Releases. *)

\* What the revisions of a bill of materials are after a release.
LEMMA ReleaseStep ==
  ASSUME Inv, NEW t \in Tx, Commit(t), ReleaseRevision(tx[t].command), NEW r \in Revisions,
         revision[r].status # "RELEASED", revision'[r].status = "RELEASED"
  PROVE  /\ r = tx[t].command.revision /\ Open(ProjectOf[r])
         /\ \A s \in Revisions \ {r} : ProjectOf[s] = ProjectOf[r]
               => revision'[s].status # "RELEASED"
<1> DEFINE c == tx[t].command
           previous == {s \in RevisionsOf(ProjectOf[c.revision]) \ {c.revision} :
                          revision[s].status = "RELEASED"}
           Moves(s) == IF s = c.revision THEN "RELEASED" ELSE "SUPERSEDED"
           M == previous \cup {c.revision}
<1>1. c.op = "release" /\ BomsDecided(c, tx[t].seen)
  BY CommitDecided DEF ReleaseRevision
<1>2. revision' = [s \in Revisions |->
        IF s \in M THEN Updated([revision[s] EXCEPT !.status = Moves(s)]) ELSE revision[s]]
  BY DEF ReleaseRevision
<1>3. revision \in [Revisions -> RevisionRows] /\ BomsLinked
  BY DEF Inv, Typed, BomsTyped, Linked
<1>4. ASSUME NEW s \in Revisions
      PROVE  IF s \in M THEN revision'[s].status = Moves(s) ELSE revision'[s] = revision[s]
  <2> DEFINE status == Moves(s)
             row == revision[s]
  <2>1. row \in RevisionRows /\ status \in {"IN_REVIEW", "RELEASED", "SUPERSEDED", "CANCELLED"}
    BY <1>3
  <2> HIDE DEF M
  <2>2. revision'[s] = IF s \in M THEN Updated([row EXCEPT !.status = status]) ELSE row
    BY <1>2
  <2> HIDE DEF status, row
  <2>3. Updated([row EXCEPT !.status = status]).status = status
    BY <2>1, RevisionMoved
  <2> QED  BY <2>2, <2>3 DEF status, row
<1>5. \A s \in Revisions : revision[s].status = "RELEASED" => Exists(revision[s])
  BY <1>3 DEF BomsLinked
<1>6. r = c.revision
  <2>1. r \in M => revision'[r].status = Moves(r)
    BY <1>4
  <2>2. r \notin M => revision'[r] = revision[r]
    BY <1>4
  <2> QED  BY <2>1, <2>2
<1>7. ASSUME NEW s \in Revisions \ {r}, ProjectOf[s] = ProjectOf[r]
      PROVE  revision'[s].status # "RELEASED"
  <2>1. CASE s \in M
    BY <1>4, <1>6, <1>7, <2>1
  <2>2. CASE s \notin M
    <3>1. revision'[s] = revision[s]
      BY <1>4, <1>7, <2>2
    <3>2. revision[s].status # "RELEASED"
      BY <1>5, <1>6, <1>7, <2>2 DEF RevisionsOf
    <3> QED  BY <3>1, <3>2
  <2> QED  BY <2>1, <2>2
<1>8. Open(ProjectOf[r])
  BY <1>1, <1>6 DEF BomsDecided
<1> QED  BY <1>6, <1>7, <1>8

\* Nothing but a release releases a revision.
LEMMA OnlyReleaseReleases ==
  ASSUME Inv, [Next]_vars, NEW r \in Revisions,
         revision[r].status # "RELEASED", revision'[r].status = "RELEASED"
  PROVE  \E t \in Tx : Commit(t) /\ ReleaseRevision(tx[t].command)
<1>1. ~(revision' = revision)
  OBVIOUS
<1>2. PICK t \in Tx : Commit(t) /\ WriteBoms(tx[t].command, tx[t].seen)
  BY <1>1 DEF Next, vars, bomRows, Begin, TakeLock, CheckUnderLocks, Advance, Abort, Commit,
     WriteProjects, WriteItems
<1> DEFINE c == tx[t].command
           seen == tx[t].seen
<1>3. c \in BomCommands /\ revision \in [Revisions -> RevisionRows]
  BY <1>2, BomsKept DEF Inv, Typed, BomsTyped
<1>4. ConfirmImport(c) \/ TransitionRevision(c, seen) \/ ReleaseRevision(c) \/ UpdateLine(c)
  BY <1>2 DEF WriteBoms
<1> HIDE DEF c, seen
<1>5. ~UpdateLine(c)
  BY <1>1 DEF UpdateLine
<1>6. ASSUME ConfirmImport(c) PROVE FALSE
  <2> DEFINE number == Max({revision[s].number : s \in RevisionsOf(ProjectOf[c.revision])}
                           \cup {0}) + 1
             row == [status |-> "DRAFT", number |-> number, version |-> 1]
  <2>1. revision' = [revision EXCEPT ![c.revision] = row]
    BY <1>6 DEF ConfirmImport
  <2> HIDE DEF number
  <2>2. row.status = "DRAFT"
    OBVIOUS
  <2> HIDE DEF row
  <2> QED  BY <1>3, <2>1, <2>2
<1>7. ASSUME TransitionRevision(c, seen) PROVE FALSE
  <2> DEFINE status == Target(c.op)
             row == revision[c.revision]
  <2>1. c.revision \in Revisions
    BY <1>3, BomCommandFields
  <2>2. revision' = [revision EXCEPT ![c.revision] = Updated([row EXCEPT !.status = status])]
    BY <1>3, <1>7, <2>1 DEF TransitionRevision
  <2>3. status \in {"IN_REVIEW", "SUPERSEDED", "CANCELLED"} /\ row \in RevisionRows
    BY <1>3, <1>7, <2>1 DEF TransitionRevision, Target
  <2> HIDE DEF status, row
  <2>4. Updated([row EXCEPT !.status = status]).status = status
    <3>1. status \in {"IN_REVIEW", "RELEASED", "SUPERSEDED", "CANCELLED"}
      BY <2>3
    <3> QED  BY <2>3, <3>1, RevisionMoved, Zenon
  <2> DEFINE next == Updated([row EXCEPT !.status = status])
  <2>5. next.status # "RELEASED"
    BY <2>3, <2>4
  <2> HIDE DEF next
  <2>6. revision' = [revision EXCEPT ![c.revision] = next]
    BY <2>2 DEF next
  <2> QED  BY <1>3, <2>1, <2>5, <2>6
<1> QED  BY <1>2, <1>4, <1>5, <1>6, <1>7 DEF c

\* A revision is released only while its project is open, and the revision
\* released before it ends in the same step: the project's row is locked and
\* read before boms.repository.ts writes, and no revision can become released
\* beside it.
THEOREM ReleasesReplace == Spec => ReleaseReplaces
<1>1. ASSUME Inv, [Next]_vars, NEW r \in Revisions,
             revision[r].status # "RELEASED", revision'[r].status = "RELEASED"
      PROVE  /\ Open(ProjectOf[r])
             /\ \A s \in Revisions \ {r} : ProjectOf[s] = ProjectOf[r]
                   => revision'[s].status # "RELEASED"
  <2>1. PICK t \in Tx : Commit(t) /\ ReleaseRevision(tx[t].command)
    BY <1>1, OnlyReleaseReleases
  <2> QED  BY <1>1, <2>1, ReleaseStep
<1>2. Inv /\ [Next]_vars =>
        [\A r \in Revisions :
           revision[r].status # "RELEASED" /\ revision'[r].status = "RELEASED"
           => /\ Open(ProjectOf[r])
              /\ \A s \in Revisions \ {r} : ProjectOf[s] = ProjectOf[r]
                    => revision'[s].status # "RELEASED"]_vars
  BY <1>1
<1> QED  BY <1>2, EngineeringInvariant, PTL DEF Spec, ReleaseReplaces

-----------------------------------------------------------------------------
(* Transactions that wait for one another. *)

\* The order in which everything but a release takes its locks, attributes
\* left out.
Rank(table) ==
  CASE table \in {"imports", "revisions", "item_categories", "lines"} -> 1
    [] table \in {"projects", "units"} -> 2
    [] OTHER -> 3

\* A plan without a release goes up that order.
LEMMA PlanClimbs ==
  ASSUME NEW c \in Commands, c.op # "release", NEW n \in 1..Len(Plan(c)), NEW m \in 1..n - 1,
         Plan(c)[m] # Check, Plan(c)[n] # Check,
         Plan(c)[m].table # "attributes", Plan(c)[n].table # "attributes"
  PROVE  Rank(Plan(c)[m].table) < Rank(Plan(c)[n].table)
<1>1. Len(Plan(c)) \in Nat /\ m \in Nat /\ n \in Nat /\ m < n /\ m >= 1 /\ n <= Len(Plan(c))
  BY PlansCheck
<1>2. \A table, id, mode : Lock(table, id, mode).table = table
  BY DEF Lock
<1>3. CASE c \in ProjectCommands
  <2>1. Plan(c) = <<>> \/ Plan(c) = <<Lock("projects", c.project, "UPDATE")>>
    BY <1>3, PlanOfProject
  <2>2. Len(Plan(c)) \in {0, 1}
    BY <2>1
  <2> QED  BY <1>1, <2>2
<1>4. CASE c \in ItemCommands /\ c.op \in AttributeOperations
  <2>1. /\ Len(Plan(c)) >= 2
        /\ Plan(c)[1] = Lock("item_categories", ItemCategoryOf[c.attribute], "UPDATE")
        /\ Plan(c)[Len(Plan(c))] = Check
        /\ c.shape.unit # None =>
              /\ Len(Plan(c)) >= 3
              /\ Plan(c)[Len(Plan(c)) - 1] = Lock("units", c.shape.unit, "SHARE")
              /\ \A k \in 2..Len(Plan(c)) - 2 : Plan(c)[k] = Lock("attributes", c.attribute, "UPDATE")
        /\ c.shape.unit = None =>
              \A k \in 2..Len(Plan(c)) - 1 : Plan(c)[k] = Lock("attributes", c.attribute, "UPDATE")
    BY <1>4, PlanOfAttribute
  <2>2. CASE c.shape.unit = None
    <3>1. n \notin 2..Len(Plan(c)) - 1
      BY <1>2, <2>1, <2>2
    <3> QED  BY <1>1, <2>1, <3>1
  <2>3. CASE c.shape.unit # None
    <3>1. n \notin 2..Len(Plan(c)) - 2 /\ m \notin 2..Len(Plan(c)) - 2
      BY <1>2, <2>1, <2>3
    <3>2. n = Len(Plan(c)) - 1 /\ m = 1
      BY <1>1, <2>1, <3>1
    <3>3. Plan(c)[n].table = "units" /\ Plan(c)[m].table = "item_categories"
      BY <1>2, <2>1, <2>3, <3>2
    <3> QED  BY <3>3 DEF Rank
  <2> QED  BY <2>2, <2>3
<1>5. CASE c \in ItemCommands /\ c.op \in {"createItem", "updateItem"}
  <2>1. /\ Len(Plan(c)) >= 3
        /\ Plan(c)[1] = Lock("item_categories", ItemCategoryOf[c.item], "SHARE")
        /\ Plan(c)[2] = Lock("units", c.unit, "SHARE")
        /\ Plan(c)[Len(Plan(c))] = Check
        /\ \A k \in 3..Len(Plan(c)) - 1 :
              \E a \in Attributes : /\ ItemCategoryOf[a] = ItemCategoryOf[c.item]
                                    /\ Plan(c)[k] = Lock("attributes", a, "SHARE")
    BY <1>5, PlanOfItem
  <2>2. n \notin 3..Len(Plan(c)) - 1
    BY <1>2, <2>1
  <2>3. n = 2 /\ m = 1
    BY <1>1, <2>1, <2>2
  <2>4. Plan(c)[n].table = "units" /\ Plan(c)[m].table = "item_categories"
    BY <1>2, <2>1, <2>3
  <2> QED  BY <2>4 DEF Rank
<1>6. CASE c \in ItemCommands /\ c.op \notin AttributeOperations \cup {"createItem", "updateItem"}
  <2>1. \/ Plan(c) = <<>>
        \/ Plan(c) = <<Lock("item_categories", c.category, "UPDATE"), Check>>
        \/ Plan(c) = <<Lock("units", c.unit, "UPDATE"), Check>>
    BY <1>6, PlanOfMaster, ItemCommandFields DEF ItemOperations, AttributeOperations
  <2>2. Len(Plan(c)) = 0 \/ (Len(Plan(c)) = 2 /\ Plan(c)[2] = Check)
    BY <2>1
  <2>3. n = 2
    BY <1>1, <2>2
  <2> QED  BY <2>2, <2>3
<1>7. CASE c \in BomCommands /\ c.op = "confirmImport"
  <2>1. /\ Len(Plan(c)) \in {3, 4}
        /\ Plan(c)[1].table = "imports" /\ Plan(c)[2].table = "projects" /\ Plan(c)[3] = Check
        /\ Len(Plan(c)) = 4 => Plan(c)[4].table = "boms"
    BY <1>2, <1>7, PlanOfConfirm
  <2>2. \/ n = 2 /\ m = 1
        \/ n = 4 /\ m \in {1, 2} /\ Len(Plan(c)) = 4
    BY <1>1, <2>1
  <2> QED  BY <2>1, <2>2 DEF Rank
<1>8. CASE c \in BomCommands /\ c.op \in Transitions
  <2>1. Plan(c) = <<Lock("revisions", c.revision, "UPDATE"), Check,
                    Lock("boms", ProjectOf[c.revision], "UPDATE")>>
    BY <1>8, PlanOfTransition
  <2> DEFINE itself == Lock("revisions", c.revision, "UPDATE")
             bom == Lock("boms", ProjectOf[c.revision], "UPDATE")
  <2>2. itself.table = "revisions" /\ bom.table = "boms"
    BY <1>2
  <2> HIDE DEF itself, bom
  <2>3. Plan(c) = <<itself, Check, bom>>
    BY <2>1 DEF itself, bom
  <2>4. /\ Len(Plan(c)) = 3 /\ Plan(c)[1].table = "revisions" /\ Plan(c)[2] = Check
        /\ Plan(c)[3].table = "boms"
    BY <2>2, <2>3
  <2>5. n = 3 /\ m = 1
    BY <1>1, <2>4
  <2> QED  BY <2>4, <2>5 DEF Rank
<1>9. CASE c \in BomCommands /\ c.op = "updateLine"
  <2>1. Plan(c) = <<Lock("lines", <<c.revision, c.item>>, "UPDATE"), Check>>
    BY <1>9, PlanOfTransition
  <2>2. Len(Plan(c)) = 2 /\ Plan(c)[2] = Check
    BY <2>1
  <2> QED  BY <1>1, <2>2
<1> QED  BY <1>3, <1>4, <1>5, <1>6, <1>7, <1>8, <1>9, BomCommandFields
         DEF Commands, BomOperations, Transitions

\* Whoever locks an attribute has locked its category in the same mode.
LEMMA AttributesAfterCategory ==
  ASSUME NEW c \in Commands, NEW n \in 1..Len(Plan(c)), Plan(c)[n] # Check,
         Plan(c)[n].table = "attributes"
  PROVE  /\ n > 1
         /\ \E a, mode : /\ Plan(c)[n] = Lock("attributes", a, mode)
                         /\ Plan(c)[1] = Lock("item_categories", ItemCategoryOf[a], mode)
<1>1. Len(Plan(c)) \in Nat /\ n \in Nat /\ 1 <= n /\ n <= Len(Plan(c))
  BY PlansCheck
<1>2. \A table, id, mode : Lock(table, id, mode).table = table
  BY DEF Lock
<1>3. CASE c \in ProjectCommands
  <2> DEFINE itself == Lock("projects", c.project, "UPDATE")
  <2>1. Plan(c) = <<>> \/ Plan(c) = <<itself>>
    BY <1>3, PlanOfProject
  <2>2. itself.table = "projects"
    BY <1>2
  <2> HIDE DEF itself
  <2>3. Len(Plan(c)) = 0 \/ (Len(Plan(c)) = 1 /\ Plan(c)[1].table = "projects")
    BY <2>1, <2>2
  <2> QED  BY <1>1, <2>3
<1>4. CASE c \in ItemCommands /\ c.op \in AttributeOperations
  <2>1. /\ Len(Plan(c)) >= 2
        /\ Plan(c)[1] = Lock("item_categories", ItemCategoryOf[c.attribute], "UPDATE")
        /\ Plan(c)[Len(Plan(c))] = Check
        /\ c.shape.unit # None =>
              /\ Len(Plan(c)) >= 3
              /\ Plan(c)[Len(Plan(c)) - 1] = Lock("units", c.shape.unit, "SHARE")
              /\ \A k \in 2..Len(Plan(c)) - 2 : Plan(c)[k] = Lock("attributes", c.attribute, "UPDATE")
        /\ c.shape.unit = None =>
              \A k \in 2..Len(Plan(c)) - 1 : Plan(c)[k] = Lock("attributes", c.attribute, "UPDATE")
    BY <1>4, PlanOfAttribute
  <2>2. n # 1 /\ n # Len(Plan(c)) /\ (c.shape.unit # None => n # Len(Plan(c)) - 1)
    BY <1>2, <2>1
  <2>3. Plan(c)[n] = Lock("attributes", c.attribute, "UPDATE")
    BY <1>1, <2>1, <2>2
  <2> QED  BY <1>1, <2>1, <2>2, <2>3
<1>5. CASE c \in ItemCommands /\ c.op \in {"createItem", "updateItem"}
  <2>1. /\ Len(Plan(c)) >= 3
        /\ Plan(c)[1] = Lock("item_categories", ItemCategoryOf[c.item], "SHARE")
        /\ Plan(c)[2] = Lock("units", c.unit, "SHARE")
        /\ Plan(c)[Len(Plan(c))] = Check
        /\ \A k \in 3..Len(Plan(c)) - 1 :
              \E a \in Attributes : /\ ItemCategoryOf[a] = ItemCategoryOf[c.item]
                                    /\ Plan(c)[k] = Lock("attributes", a, "SHARE")
    BY <1>5, PlanOfItem
  <2>2. n # 1 /\ n # 2 /\ n # Len(Plan(c))
    BY <1>2, <2>1
  <2>3. n \in 3..Len(Plan(c)) - 1
    BY <1>1, <2>2
  <2> QED  BY <1>1, <2>1, <2>2, <2>3
<1>6. CASE c \in ItemCommands /\ c.op \notin AttributeOperations \cup {"createItem", "updateItem"}
  <2> DEFINE category == Lock("item_categories", c.category, "UPDATE")
             used == Lock("units", c.unit, "UPDATE")
  <2>1. Plan(c) = <<>> \/ Plan(c) = <<category, Check>> \/ Plan(c) = <<used, Check>>
    BY <1>6, PlanOfMaster, ItemCommandFields DEF ItemOperations, AttributeOperations
  <2>2. category.table = "item_categories" /\ used.table = "units"
    BY <1>2
  <2> HIDE DEF category, used
  <2>3. \/ Len(Plan(c)) = 0
        \/ Len(Plan(c)) = 2 /\ Plan(c)[1].table \in {"item_categories", "units"} /\ Plan(c)[2] = Check
    BY <2>1, <2>2
  <2>4. n \in {1, 2} /\ Len(Plan(c)) = 2
    BY <1>1, <2>3
  <2> QED  BY <2>3, <2>4
<1>7. CASE c \in BomCommands /\ c.op = "confirmImport"
  <2>1. /\ Len(Plan(c)) \in {3, 4}
        /\ Plan(c)[1].table = "imports" /\ Plan(c)[2].table = "projects" /\ Plan(c)[3] = Check
        /\ Len(Plan(c)) = 4 => Plan(c)[4].table = "boms"
    BY <1>2, <1>7, PlanOfConfirm
  <2>2. n \in {1, 2, 3} \/ (n = 4 /\ Len(Plan(c)) = 4)
    BY <1>1, <2>1
  <2> QED  BY <2>1, <2>2
<1>8. CASE c \in BomCommands /\ c.op \in Transitions
  <2> DEFINE itself == Lock("revisions", c.revision, "UPDATE")
             bom == Lock("boms", ProjectOf[c.revision], "UPDATE")
  <2>1. Plan(c) = <<itself, Check, bom>>
    BY <1>8, PlanOfTransition
  <2>2. itself.table = "revisions" /\ bom.table = "boms"
    BY <1>2
  <2> HIDE DEF itself, bom
  <2>3. /\ Len(Plan(c)) = 3 /\ Plan(c)[1].table = "revisions" /\ Plan(c)[2] = Check
        /\ Plan(c)[3].table = "boms"
    BY <2>1, <2>2
  <2>4. n \in {1, 2, 3}
    BY <1>1, <2>3
  <2> QED  BY <2>3, <2>4
<1>9. CASE c \in BomCommands /\ c.op = "updateLine"
  <2> DEFINE itself == Lock("lines", <<c.revision, c.item>>, "UPDATE")
  <2>1. Plan(c) = <<itself, Check>>
    BY <1>9, PlanOfTransition
  <2>2. itself.table = "lines"
    BY <1>2
  <2> HIDE DEF itself
  <2>3. Len(Plan(c)) = 2 /\ Plan(c)[1].table = "lines" /\ Plan(c)[2] = Check
    BY <2>1, <2>2
  <2>4. n \in {1, 2}
    BY <1>1, <2>3
  <2> QED  BY <2>3, <2>4
<1>10. CASE c \in BomCommands /\ c.op = "release"
  <2>1. /\ Len(Plan(c)) >= 3
        /\ Plan(c)[1].table = "boms" /\ Plan(c)[Len(Plan(c)) - 1].table = "projects"
        /\ Plan(c)[Len(Plan(c))] = Check
        /\ \A k \in 2..Len(Plan(c)) - 2 : Plan(c)[k].table = "revisions"
    BY <1>2, <1>10, PlanOfRelease
  <2>2. n # 1 /\ n # Len(Plan(c)) - 1 /\ n # Len(Plan(c)) /\ n \notin 2..Len(Plan(c)) - 2
    BY <2>1
  <2> QED  BY <1>1, <2>1, <2>2
<1> QED  BY <1>3, <1>4, <1>5, <1>6, <1>7, <1>8, <1>9, <1>10, BomCommandFields
         DEF Commands, BomOperations, Transitions

\* Nobody waits for an attribute: the category locked first keeps those apart
\* who would.
LEMMA NobodyWaitsForAttributes ==
  ASSUME Inv, NEW t \in Tx, NEW u \in Tx, WaitsFor(t, u), tx[t].command \in Commands,
         tx[u].command \in Commands
  PROVE  Wanted(t).table # "attributes"
<1> DEFINE c == tx[t].command
           d == tx[u].command
           k == tx[t].pos + 1
<1>1. /\ t # u /\ Waiting(t) /\ Wanted(t) # Check /\ Wanted(t) = Plan(c)[k]
  BY DEF WaitsFor, Wanted
<1>2. PICK held \in Held(u) : Conflict(Wanted(t), held)
  BY DEF WaitsFor
<1>3. PICK n \in 1..tx[u].pos : held = Plan(d)[n] /\ Plan(d)[n] # Check
  BY DEF Held
<1>4. /\ tx[t].pos \in Nat /\ tx[u].pos \in Nat /\ Len(Plan(c)) \in Nat /\ Len(Plan(d)) \in Nat
      /\ tx[u].pos <= Len(Plan(d)) /\ tx[t].pos < Len(Plan(c))
  BY <1>1, PlansCheck DEF Inv, Typed, Shaped, Exclusive, Waiting
<1>5. SUFFICES ASSUME Wanted(t).table = "attributes" PROVE FALSE
  OBVIOUS
<1>6. k \in 1..Len(Plan(c)) /\ n \in 1..Len(Plan(d))
  BY <1>4
<1>7. k > 1 /\ \E a, mode : /\ Plan(c)[k] = Lock("attributes", a, mode)
                            /\ Plan(c)[1] = Lock("item_categories", ItemCategoryOf[a], mode)
  <2> HIDE DEF k, c
  <2> QED  BY <1>1, <1>5, <1>6, AttributesAfterCategory DEF c
<1>8. PICK a, mode : /\ Plan(c)[k] = Lock("attributes", a, mode)
                     /\ Plan(c)[1] = Lock("item_categories", ItemCategoryOf[a], mode)
  BY <1>7
<1>9. held.table = "attributes"
  BY <1>2, <1>5 DEF Conflict
<1>10. n > 1 /\ \E b, other : /\ Plan(d)[n] = Lock("attributes", b, other)
                              /\ Plan(d)[1] = Lock("item_categories", ItemCategoryOf[b], other)
  BY <1>3, <1>6, <1>9, AttributesAfterCategory
<1>11. PICK b, other : /\ Plan(d)[n] = Lock("attributes", b, other)
                       /\ Plan(d)[1] = Lock("item_categories", ItemCategoryOf[b], other)
  BY <1>10
<1>12. a = b /\ ~(mode = "SHARE" /\ other = "SHARE")
  BY <1>1, <1>2, <1>3, <1>8, <1>11 DEF Conflict, Lock
<1>13. 1 \in 1..tx[t].pos /\ 1 \in 1..tx[u].pos
  BY <1>4, <1>7, <1>10
<1>14. Lock("item_categories", ItemCategoryOf[a], mode) \in Held(t)
  BY <1>8, <1>13, PassedIsHeld
<1>15. Lock("item_categories", ItemCategoryOf[b], other) \in Held(u)
  BY <1>11, <1>13, PassedIsHeld
<1>16. Conflict(Lock("item_categories", ItemCategoryOf[a], mode),
                Lock("item_categories", ItemCategoryOf[b], other))
  BY <1>12 DEF Conflict, Lock
<1> QED  BY <1>1, <1>14, <1>15, <1>16 DEF Inv, Exclusive

\* Whoever is waited for and waits, and does not release, waits for something
\* further up.
LEMMA WaitsClimb ==
  ASSUME Inv, NEW t \in Tx, NEW u \in Tx, NEW v \in Tx, WaitsFor(t, u), WaitsFor(u, v),
         tx[u].command.op # "release"
  PROVE  Rank(Wanted(t).table) < Rank(Wanted(u).table)
<1> DEFINE d == tx[u].command
           k == tx[u].pos + 1
<1>1. /\ Waiting(t) /\ Waiting(u) /\ Wanted(t) # Check
      /\ Wanted(u) # Check /\ Wanted(u) = Plan(d)[k]
  BY DEF WaitsFor, Wanted
<1>2. tx[t].command \in Commands /\ d \in Commands
  BY <1>1, WaitingRuns DEF Inv
<1>3. tx[v].command \in Commands
  <2>1. PICK held \in Held(v) : TRUE
    BY DEF WaitsFor
  <2>2. tx[v].pos # 0
    <3>1. 1..0 = {}
      OBVIOUS
    <3> QED  BY <2>1, <3>1 DEF Held
  <2>3. Shaped(tx[v]) /\ tx[v].pos <= Len(Plan(tx[v].command))
    BY DEF Inv, Typed, Exclusive
  <2>4. ASSUME tx[v].command = Idle.command PROVE FALSE
    <3>1. Plan(tx[v].command) = <<>>
      BY <2>4 DEF Plan, Idle, None, ProjectOperations, ItemOperations
    <3> QED  BY <2>2, <2>3, <3>1 DEF Shaped
  <2> QED  BY <2>3, <2>4 DEF Shaped
<1>4. Wanted(t).table # "attributes" /\ Wanted(u).table # "attributes"
  BY <1>2, <1>3, NobodyWaitsForAttributes
<1>5. PICK held \in Held(u) : Conflict(Wanted(t), held)
  BY DEF WaitsFor
<1>6. PICK m \in 1..tx[u].pos : held = Plan(d)[m] /\ Plan(d)[m] # Check
  BY <1>5 DEF Held
<1>7. tx[u].pos \in Nat /\ Len(Plan(d)) \in Nat /\ tx[u].pos < Len(Plan(d))
  BY <1>1, <1>2, PlansCheck DEF Inv, Typed, Shaped, Waiting
<1>8. k \in 1..Len(Plan(d)) /\ m \in 1..k - 1
  BY <1>7
<1>9. held.table = Wanted(t).table
  BY <1>5 DEF Conflict
<1> HIDE DEF k, d
<1>10. Rank(Plan(d)[m].table) < Rank(Plan(d)[k].table)
  BY <1>1, <1>2, <1>4, <1>6, <1>8, <1>9, PlanClimbs DEF d
<1> QED  BY <1>1, <1>6, <1>9, <1>10

\* Transactions that wait for one another in a circle: one of them releases a
\* revision.  The locks of every other handler go up one order, so none of
\* them can wait for another for ever; the release of boms.repository.ts is
\* the one that takes the bill of materials before the project.
THEOREM WaitsEndWithoutRelease == Spec => []WaitCyclesInvolveRelease
<1>1. ASSUME Inv PROVE WaitCyclesInvolveRelease
  <2>1. SUFFICES ASSUME NEW S \in SUBSET Tx, S # {}, \A t \in S : \E u \in S : WaitsFor(t, u),
                        \A t \in S : tx[t].command.op # "release"
                 PROVE  FALSE
    BY DEF WaitCyclesInvolveRelease
  <2>2. ASSUME NEW t \in S, NEW u \in S, WaitsFor(t, u)
        PROVE  Rank(Wanted(t).table) < Rank(Wanted(u).table)
    <3>1. PICK v \in S : WaitsFor(u, v)
      BY <2>1
    <3> QED  BY <1>1, <2>1, <2>2, <3>1, WaitsClimb
  <2>3. \A t \in S : Rank(Wanted(t).table) \in 1..3
    BY DEF Rank
  <2>4. PICK t1 \in S : TRUE
    BY <2>1
  <2>5. PICK t2 \in S : WaitsFor(t1, t2)
    BY <2>1
  <2>6. PICK t3 \in S : WaitsFor(t2, t3)
    BY <2>1
  <2>7. PICK t4 \in S : WaitsFor(t3, t4)
    BY <2>1
  <2>8. /\ Rank(Wanted(t1).table) < Rank(Wanted(t2).table)
        /\ Rank(Wanted(t2).table) < Rank(Wanted(t3).table)
        /\ Rank(Wanted(t3).table) < Rank(Wanted(t4).table)
    BY <2>2, <2>5, <2>6, <2>7
  <2> QED  BY <2>3, <2>8
<1>2. Inv => WaitCyclesInvolveRelease
  BY <1>1
<1> QED  BY <1>2, EngineeringInvariant, PTL

-----------------------------------------------------------------------------
(* Transactions that none overtakes. *)

\* What a handler requires of a command on a project, by the operation.
LEMMA ProjectAllowedByKind ==
  ASSUME NEW c, ProjectCommandAllowed(c)
  PROVE  /\ c.op = "updateProject" => UpdateProjectAllowed(c)
         /\ c.op = "addProjectMember" => AddProjectMemberAllowed(c)
         /\ c.op = "updateProjectMember" => UpdateProjectMemberAllowed(c)
         /\ c.op = "createMilestone" => MilestoneAllowed(c, 0)
         /\ c.op = "updateMilestone" => MilestoneAllowed(c, 1)
         /\ c.op = "createWorkPackage" => WorkPackageAllowed(c, 0)
         /\ c.op = "updateWorkPackage" => WorkPackageAllowed(c, 1)
BY DEF ProjectCommandAllowed, CreateProductCategoryAllowed, UpdateProductCategoryAllowed,
       CreateProjectAllowed, UpdateProjectAllowed, TransitionProjectAllowed,
       AddProjectMemberAllowed, UpdateProjectMemberAllowed

\* What a commit on projects keeps when it is not overtaken.
PlanKept ==
  /\ PlanWithinProject /\ ManagerRemains => PlanWithinProject' /\ ManagerRemains'
  /\ \A p \in Projects : ~Open(p) => PlanOf(p)' = PlanOf(p)

\* A product category is no part of a plan.
LEMMA CategoryKeepsPlan ==
  ASSUME NEW c, WriteProductCategory(c), UNCHANGED bomRows
  PROVE  PlanKept
<1>1. UNCHANGED <<project, member, milestone, package, revision>>
  BY DEF WriteProductCategory, bomRows
<1>2. PlanWithinProject' <=> PlanWithinProject
  BY <1>1 DEF PlanWithinProject, Exists, Within
<1>3. ManagerRemains' <=> ManagerRemains
  BY <1>1 DEF ManagerRemains, ActiveManagers, Exists
<1>4. \A p \in Projects : PlanOf(p)' = PlanOf(p)
  BY <1>1 DEF PlanOf
<1> QED  BY <1>2, <1>3, <1>4 DEF PlanKept

\* Nothing belongs to a project that is not there yet, and its creator is its
\* manager.
LEMMA CreateKeepsPlan ==
  ASSUME Typed, ProjectsLinked, NEW c \in ProjectCommands, CreateProject(c),
         project[c.project].version = 0, UNCHANGED bomRows
  PROVE  PlanKept
<1> DEFINE row == [state |-> "DRAFT", from |-> c.window.from, to |-> c.window.to, version |-> 1]
           manager == [role |-> "PROJECT_MANAGER", status |-> "ACTIVE", version |-> 1]
<1>1. c.project \in Projects /\ c.creator \in Memberships
  BY ProjectCommandFields DEF CreateProject
<1>2. /\ project \in [Projects -> ProjectRows]
      /\ member \in [Projects -> [Memberships -> MemberRows]]
  BY DEF Typed, ProjectsTyped
<1>3. /\ project' = [project EXCEPT ![c.project] = row]
      /\ member' = [member EXCEPT ![c.project][c.creator] = manager]
      /\ UNCHANGED <<milestone, package, revision>>
  BY DEF CreateProject, bomRows
<1>4. manager.role = "PROJECT_MANAGER" /\ manager.status = "ACTIVE"
  OBVIOUS
<1> HIDE DEF row, manager
<1>5. /\ \A p \in Projects \ {c.project} : project'[p] = project[p] /\ member'[p] = member[p]
      /\ member'[c.project][c.creator] = manager
  BY <1>1, <1>2, <1>3
<1>6. ~Exists(project[c.project]) /\ Open(c.project)
  BY <1>1 DEF ProjectsLinked, Exists, Open, Terminal
<1>7. /\ \A m \in Milestones : Exists(milestone[m]) => milestone[m].project \in Projects \ {c.project}
      /\ \A k \in Packages : Exists(package[k]) => package[k].project \in Projects \ {c.project}
  BY <1>6 DEF ProjectsLinked, Typed, ProjectsTyped, MilestoneRows, PackageRows
<1>8. PlanWithinProject => PlanWithinProject'
  BY <1>3, <1>5, <1>7 DEF PlanWithinProject, Exists, Within
<1>9. ManagerRemains => ManagerRemains'
  <2>1. ASSUME ManagerRemains, NEW p \in Projects, Exists(project[p])'
        PROVE  \E m \in Memberships : /\ member'[p][m].role = "PROJECT_MANAGER"
                                      /\ member'[p][m].status = "ACTIVE"
    <3>1. CASE p = c.project
      BY <1>1, <1>4, <1>5, <3>1
    <3>2. CASE p # c.project
      <4>1. ActiveManagers(p) # {}
        BY <1>5, <2>1, <3>2 DEF ManagerRemains, Exists
      <4> QED  BY <1>5, <3>2, <4>1 DEF ActiveManagers
    <3> QED  BY <3>1, <3>2
  <2> QED  BY <2>1 DEF ManagerRemains, ActiveManagers
<1>10. ASSUME NEW p \in Projects, ~Open(p) PROVE PlanOf(p)' = PlanOf(p)
  BY <1>3, <1>5, <1>6, <1>10 DEF PlanOf
<1> QED  BY <1>8, <1>9, <1>10 DEF PlanKept

\* New dates have been compared with the plan.
LEMMA UpdateKeepsPlan ==
  ASSUME Typed, ProjectsLinked, NEW c \in ProjectCommands, UpdateProject(c),
         UpdateProjectAllowed(c), UNCHANGED bomRows
  PROVE  PlanKept
<1> DEFINE old == project[c.project]
           first == [old EXCEPT !.from = c.window.from]
           second == [first EXCEPT !.to = c.window.to]
           row == Updated([old EXCEPT !.from = c.window.from, !.to = c.window.to])
<1>1. c.project \in Projects /\ c.window \in Windows
  BY ProjectCommandFields DEF UpdateProject
<1>2. project \in [Projects -> ProjectRows]
  BY DEF Typed, ProjectsTyped
<1>3. project' = [project EXCEPT ![c.project] = row] /\ UNCHANGED <<member, milestone, package, revision>>
  BY DEF UpdateProject, bomRows
<1>4. row.from = c.window.from /\ row.to = c.window.to
  <2>1. row = Updated(second)
    <3>1. [old EXCEPT !.from = c.window.from, !.to = c.window.to] = second
      OBVIOUS
    <3> HIDE DEF first, second
    <3> QED  BY <3>1
  <2>2. first \in ProjectRows /\ first.from = c.window.from
    BY <1>1, <1>2 DEF ProjectRows, Windows
  <2> HIDE DEF first
  <2>3. second \in ProjectRows /\ second.from = c.window.from /\ second.to = c.window.to
    BY <1>1, <2>2 DEF ProjectRows, Windows
  <2> HIDE DEF second, row
  <2> QED  BY <2>1, <2>3 DEF ProjectRows, Updated
<1> HIDE DEF row
<1>5. /\ project'[c.project].from = c.window.from /\ project'[c.project].to = c.window.to
      /\ \A p \in Projects \ {c.project} : project'[p] = project[p]
  BY <1>1, <1>2, <1>3, <1>4
<1>6. Exists(project[c.project]) /\ Open(c.project) /\ PlanFits(c.project, c.window)
  BY DEF UpdateProjectAllowed
<1>7. PlanWithinProject => PlanWithinProject'
  <2>1. ASSUME PlanWithinProject, NEW m \in Milestones, Exists(milestone[m])
        PROVE  Within(project'[milestone[m].project], milestone[m].date, milestone[m].date)
    <3>1. milestone[m].project \in Projects
      BY <2>1 DEF Typed, ProjectsTyped, MilestoneRows, ProjectsLinked
    <3>2. CASE milestone[m].project = c.project
      BY <1>5, <1>6, <3>2 DEF PlanFits, Within
    <3>3. CASE milestone[m].project # c.project
      BY <1>5, <2>1, <3>1, <3>3 DEF PlanWithinProject
    <3> QED  BY <3>2, <3>3
  <2>2. ASSUME PlanWithinProject, NEW k \in Packages, Exists(package[k])
        PROVE  Within(project'[package[k].project], package[k].from, package[k].to)
    <3>1. package[k].project \in Projects
      BY <2>2 DEF Typed, ProjectsTyped, PackageRows, ProjectsLinked
    <3>2. CASE package[k].project = c.project
      BY <1>5, <1>6, <3>2 DEF PlanFits, Within
    <3>3. CASE package[k].project # c.project
      BY <1>5, <2>2, <3>1, <3>3 DEF PlanWithinProject
    <3> QED  BY <3>2, <3>3
  <2> QED  BY <1>3, <2>1, <2>2 DEF PlanWithinProject, Exists, Within
<1>8. ManagerRemains => ManagerRemains'
  <2>1. \A p \in Projects : Exists(project[p])' => Exists(project[p])
    BY <1>5, <1>6 DEF Exists
  <2> QED  BY <1>3, <2>1 DEF ManagerRemains, ActiveManagers
<1>9. \A p \in Projects : PlanOf(p)' = PlanOf(p)
  BY <1>3 DEF PlanOf
<1> QED  BY <1>7, <1>8, <1>9 DEF PlanKept

\* A transition leaves dates and managers alone.
LEMMA TransitionKeepsPlan ==
  ASSUME Typed, ProjectsLinked, NEW c \in ProjectCommands, NEW seen, TransitionProject(c, seen),
         Exists(project[c.project]), UNCHANGED bomRows
  PROVE  PlanKept
<1> DEFINE old == project[c.project]
           moved == [old EXCEPT !.state = c.target]
           row == Updated(moved)
<1>1. c.project \in Projects /\ c.target \in States
  BY ProjectCommandFields DEF TransitionProject
<1>2. project \in [Projects -> ProjectRows]
  BY DEF Typed, ProjectsTyped
<1>3. project' = [project EXCEPT ![c.project] = row] /\ UNCHANGED <<member, milestone, package, revision>>
  BY DEF TransitionProject, bomRows
<1>4. moved \in ProjectRows /\ moved.from = old.from /\ moved.to = old.to
  BY <1>1, <1>2 DEF ProjectRows
<1> HIDE DEF moved
<1>5. row.from = old.from /\ row.to = old.to
  BY <1>4 DEF ProjectRows, Updated
<1> HIDE DEF row
<1>6. \A p \in Projects : /\ project'[p].from = project[p].from /\ project'[p].to = project[p].to
                          /\ Exists(project[p])' => Exists(project[p])
  BY <1>1, <1>2, <1>3, <1>5 DEF Exists
<1>7. /\ \A m \in Milestones : Exists(milestone[m]) => milestone[m].project \in Projects
      /\ \A k \in Packages : Exists(package[k]) => package[k].project \in Projects
  BY DEF Typed, ProjectsTyped, MilestoneRows, PackageRows, ProjectsLinked
<1>8. PlanWithinProject => PlanWithinProject'
  BY <1>3, <1>6, <1>7 DEF PlanWithinProject, Exists, Within
<1>9. ManagerRemains => ManagerRemains'
  BY <1>3, <1>6 DEF ManagerRemains, ActiveManagers
<1>10. \A p \in Projects : PlanOf(p)' = PlanOf(p)
  BY <1>3 DEF PlanOf
<1> QED  BY <1>8, <1>9, <1>10 DEF PlanKept

\* Of several there is another one.
LEMMA AnotherOne ==
  ASSUME NEW S, IsFiniteSet(S), Cardinality(S) > 1, NEW x
  PROVE  \E y \in S : y # x
<1>1. SUFFICES ASSUME \A y \in S : y = x PROVE FALSE
  OBVIOUS
<1>2. S = {} \/ S = {x}
  BY <1>1
<1>3. Cardinality({}) = 0 /\ Cardinality({x}) = 1
  BY FS_EmptySet, FS_Singleton
<1> QED  BY <1>2, <1>3

\* The last manager is not let go.
LEMMA MemberKeepsPlan ==
  ASSUME Typed, ProjectsLinked, NEW c \in ProjectCommands, WriteProjectMember(c),
         ProjectCommandAllowed(c), UNCHANGED bomRows
  PROVE  PlanKept
<1> DEFINE status == IF c.op = "addProjectMember" THEN "ACTIVE" ELSE c.status
           row == [role |-> c.role, status |-> status, version |-> Next1(member[c.project][c.member])]
<1>1. /\ c.project \in Projects /\ c.member \in Memberships
      /\ c.op \in {"addProjectMember", "updateProjectMember"}
  BY ProjectCommandFields DEF WriteProjectMember
<1>2. member \in [Projects -> [Memberships -> MemberRows]]
  BY DEF Typed, ProjectsTyped
<1>3. /\ member' = [member EXCEPT ![c.project][c.member] = row]
      /\ UNCHANGED <<project, milestone, package, revision>>
  BY DEF WriteProjectMember, bomRows
<1>4. row.role = c.role /\ row.status = status
  OBVIOUS
<1> HIDE DEF row, status
<1>5. /\ \A p \in Projects \ {c.project} : member'[p] = member[p]
      /\ \A m \in Memberships \ {c.member} : member'[c.project][m] = member[c.project][m]
      /\ member'[c.project][c.member] = row
  BY <1>1, <1>2, <1>3
<1>6. Open(c.project)
  BY <1>1, ProjectAllowedByKind DEF AddProjectMemberAllowed, UpdateProjectMemberAllowed
<1>7. ASSUME ActiveManagers(c.project) # {}
      PROVE  \E m \in Memberships : /\ member'[c.project][m].role = "PROJECT_MANAGER"
                                    /\ member'[c.project][m].status = "ACTIVE"
  <2>1. CASE \E m \in ActiveManagers(c.project) : m # c.member
    <3>1. PICK m \in ActiveManagers(c.project) : m # c.member
      BY <2>1
    <3>2. m \in Memberships /\ member[c.project][m].role = "PROJECT_MANAGER"
          /\ member[c.project][m].status = "ACTIVE"
      BY <3>1 DEF ActiveManagers
    <3> QED  BY <1>5, <3>1, <3>2
  <2>2. CASE ~\E m \in ActiveManagers(c.project) : m # c.member
    <3>1. c.member \in ActiveManagers(c.project)
      BY <1>7, <2>2
    <3>2. member[c.project][c.member].role = "PROJECT_MANAGER"
      BY <3>1 DEF ActiveManagers
    <3>3. Exists(member[c.project][c.member])
      BY <1>1, <3>2 DEF ProjectsLinked, None
    <3>4. c.op = "updateProjectMember" /\ UpdateProjectMemberAllowed(c)
      BY <1>1, <3>3, ProjectAllowedByKind DEF AddProjectMemberAllowed
    <3>5. IsFiniteSet(ActiveManagers(c.project))
      BY EngineeringAssumption, FS_Subset DEF ActiveManagers
    <3>6. ~(Cardinality(ActiveManagers(c.project)) > 1)
      BY <2>2, <3>5, AnotherOne
    <3>7. c.status = "ACTIVE" /\ c.role = "PROJECT_MANAGER"
      BY <3>1, <3>4, <3>6 DEF UpdateProjectMemberAllowed
    <3> QED  BY <1>1, <1>4, <1>5, <3>4, <3>7 DEF status
  <2> QED  BY <2>1, <2>2
<1>8. ManagerRemains => ManagerRemains'
  <2>1. ASSUME ManagerRemains, NEW p \in Projects, Exists(project[p])
        PROVE  \E m \in Memberships : /\ member'[p][m].role = "PROJECT_MANAGER"
                                      /\ member'[p][m].status = "ACTIVE"
    <3>1. ActiveManagers(p) # {}
      BY <2>1 DEF ManagerRemains
    <3>2. CASE p = c.project
      BY <1>7, <3>1, <3>2
    <3>3. CASE p # c.project
      BY <1>5, <3>1, <3>3 DEF ActiveManagers
    <3> QED  BY <3>2, <3>3
  <2> QED  BY <1>3, <2>1 DEF ManagerRemains, ActiveManagers, Exists
<1>9. PlanWithinProject' <=> PlanWithinProject
  BY <1>3 DEF PlanWithinProject, Exists, Within
<1>10. ASSUME NEW p \in Projects, ~Open(p) PROVE PlanOf(p)' = PlanOf(p)
  BY <1>3, <1>5, <1>6, <1>10 DEF PlanOf
<1> QED  BY <1>8, <1>9, <1>10 DEF PlanKept

\* A milestone lies in its open project.
LEMMA MilestoneKeepsPlan ==
  ASSUME Typed, ProjectsLinked, NEW c \in ProjectCommands, WriteMilestone(c),
         ProjectCommandAllowed(c), UNCHANGED bomRows
  PROVE  PlanKept
<1> DEFINE row == [project |-> c.project, date |-> c.date, version |-> Next1(milestone[c.milestone])]
<1>1. /\ c.project \in Projects /\ c.milestone \in Milestones
      /\ c.op \in {"createMilestone", "updateMilestone"}
  BY ProjectCommandFields DEF WriteMilestone
<1>2. milestone \in [Milestones -> MilestoneRows]
  BY DEF Typed, ProjectsTyped
<1>3. /\ milestone' = [milestone EXCEPT ![c.milestone] = row]
      /\ UNCHANGED <<project, member, package, revision>>
  BY DEF WriteMilestone, bomRows
<1>4. row.project = c.project /\ row.date = c.date
  OBVIOUS
<1> HIDE DEF row
<1>5. /\ \A m \in Milestones \ {c.milestone} : milestone'[m] = milestone[m]
      /\ milestone'[c.milestone] = row
  BY <1>1, <1>2, <1>3
<1>6. /\ Open(c.project) /\ Within(project[c.project], c.date, c.date)
      /\ milestone[c.milestone].project \in {c.project, None}
  <2>1. MilestoneAllowed(c, 0) \/ MilestoneAllowed(c, 1)
    BY <1>1, ProjectAllowedByKind
  <2>2. ~Exists(milestone[c.milestone]) => milestone[c.milestone].project = None
    BY <1>1 DEF ProjectsLinked
  <2> QED  BY <2>1, <2>2 DEF MilestoneAllowed
<1>7. PlanWithinProject => PlanWithinProject'
  BY <1>3, <1>4, <1>5, <1>6 DEF PlanWithinProject, Exists, Within
<1>8. ManagerRemains' <=> ManagerRemains
  BY <1>3 DEF ManagerRemains, ActiveManagers, Exists
<1>9. ASSUME NEW p \in Projects, ~Open(p) PROVE PlanOf(p)' = PlanOf(p)
  <2>1. p # c.project /\ p # None
    BY <1>6, <1>9, EngineeringAssumption DEF None
  <2>2. \A m \in Milestones : milestone'[m].project = p <=> milestone[m].project = p
    BY <1>4, <1>5, <1>6, <2>1
  <2>3. {m \in Milestones : milestone'[m].project = p} = {m \in Milestones : milestone[m].project = p}
    BY <2>2
  <2> QED  BY <1>3, <2>3 DEF PlanOf
<1> QED  BY <1>7, <1>8, <1>9 DEF PlanKept

\* A work package lies in its open project.
LEMMA PackageKeepsPlan ==
  ASSUME Typed, ProjectsLinked, NEW c \in ProjectCommands, WriteWorkPackage(c),
         ProjectCommandAllowed(c), UNCHANGED bomRows
  PROVE  PlanKept
<1> DEFINE row == [project |-> c.project, from |-> c.window.from, to |-> c.window.to,
                   milestone |-> c.milestone, version |-> Next1(package[c.package])]
<1>1. /\ c.project \in Projects /\ c.package \in Packages
      /\ c.op \in {"createWorkPackage", "updateWorkPackage"}
  BY ProjectCommandFields DEF WriteWorkPackage
<1>2. package \in [Packages -> PackageRows]
  BY DEF Typed, ProjectsTyped
<1>3. /\ package' = [package EXCEPT ![c.package] = row]
      /\ UNCHANGED <<project, member, milestone, revision>>
  BY DEF WriteWorkPackage, bomRows
<1>4. row.project = c.project /\ row.from = c.window.from /\ row.to = c.window.to
  OBVIOUS
<1> HIDE DEF row
<1>5. /\ \A k \in Packages \ {c.package} : package'[k] = package[k]
      /\ package'[c.package] = row
  BY <1>1, <1>2, <1>3
<1>6. /\ Open(c.project) /\ Within(project[c.project], c.window.from, c.window.to)
      /\ package[c.package].project \in {c.project, None}
  <2>1. WorkPackageAllowed(c, 0) \/ WorkPackageAllowed(c, 1)
    BY <1>1, ProjectAllowedByKind
  <2>2. ~Exists(package[c.package]) => package[c.package].project = None
    BY <1>1 DEF ProjectsLinked
  <2> QED  BY <2>1, <2>2 DEF WorkPackageAllowed
<1>7. PlanWithinProject => PlanWithinProject'
  BY <1>3, <1>4, <1>5, <1>6 DEF PlanWithinProject, Exists, Within
<1>8. ManagerRemains' <=> ManagerRemains
  BY <1>3 DEF ManagerRemains, ActiveManagers, Exists
<1>9. ASSUME NEW p \in Projects, ~Open(p) PROVE PlanOf(p)' = PlanOf(p)
  <2>1. p # c.project /\ p # None
    BY <1>6, <1>9, EngineeringAssumption DEF None
  <2>2. \A k \in Packages : package'[k].project = p <=> package[k].project = p
    BY <1>4, <1>5, <1>6, <2>1
  <2>3. {k \in Packages : package'[k].project = p} = {k \in Packages : package[k].project = p}
    BY <2>2
  <2> QED  BY <1>3, <2>3 DEF PlanOf
<1> QED  BY <1>7, <1>8, <1>9 DEF PlanKept

\* A commit that is not overtaken does what may still be done.
LEMMA StillAllowed ==
  ASSUME Inv, NEW t \in Tx, Commit(t), ~tx[t].overtaken, NEW c, c = tx[t].command
  PROVE  /\ c \in Commands
         /\ c.op \in ProjectOperations => ProjectCommandAllowed(c)
         /\ c.op \in ItemOperations => ItemCommandBegins(c)
         /\ c.op \in BomOperations \cup AttributeOperations
                     \cup {"updateItemCategory", "updateUnitOfMeasure", "createItem", "updateItem"}
              => ItemCommandAllowed(c) \/ BomCommandAllowed(c)
<1>1. /\ c \in Commands /\ Running(t)
      /\ c.op \in BomOperations \cup AttributeOperations
                  \cup {"updateItemCategory", "updateUnitOfMeasure", "createItem", "updateItem"}
           => Checked(t)
  BY CommitDecided
<1>2. /\ Begins(c)
      /\ Checked(t) => ItemCommandAllowed(c) \/ BomCommandAllowed(c)
  <2>1. Fresh(t)
    BY DEF Inv
  <2> QED  BY <1>1, <2>1 DEF Fresh
<1>3. /\ c.op \in ProjectOperations => ProjectCommandAllowed(c)
      /\ c.op \in ItemOperations => ItemCommandBegins(c)
  BY <1>1, <1>2, BeginsByKind
<1> QED  BY <1>1, <1>2, <1>3

\* What an undisturbed transaction promises when it ends.
RulesKept ==
  /\ Rules => Rules'
  /\ \A p \in Projects : ~Open(p) => PlanOf(p)' = PlanOf(p)

\* Rules hold for rows, so they stay with them.
LEMMA RulesOfRows ==
  /\ UNCHANGED planRows =>
       (PlanWithinProject' <=> PlanWithinProject) /\ (ManagerRemains' <=> ManagerRemains)
  /\ UNCHANGED itemRows => (PrecisionsFit' <=> PrecisionsFit)
  /\ UNCHANGED planRows /\ UNCHANGED revision => \A p \in Projects : PlanOf(p)' = PlanOf(p)
<1>1. ASSUME UNCHANGED planRows
      PROVE  (PlanWithinProject' <=> PlanWithinProject) /\ (ManagerRemains' <=> ManagerRemains)
  <2>1. UNCHANGED <<project, member, milestone, package>>
    BY <1>1 DEF planRows
  <2>2. PlanWithinProject' <=> PlanWithinProject
    BY <2>1 DEF PlanWithinProject, Exists, Within
  <2>3. ManagerRemains' <=> ManagerRemains
    BY <2>1 DEF ManagerRemains, ActiveManagers, Exists
  <2> QED  BY <2>2, <2>3
<1>2. ASSUME UNCHANGED itemRows PROVE PrecisionsFit' <=> PrecisionsFit
  <2>1. UNCHANGED <<unit, attribute, item>>
    BY <1>2 DEF itemRows
  <2> QED  BY <2>1 DEF PrecisionsFit, ValueFits, DefinitionValid
<1>3. ASSUME UNCHANGED planRows, UNCHANGED revision
      PROVE  \A p \in Projects : PlanOf(p)' = PlanOf(p)
  BY <1>3 DEF planRows, PlanOf
<1> QED  BY <1>1, <1>2, <1>3

\* A commit on projects that is not overtaken keeps the rules.
LEMMA ProjectsKeepRules ==
  ASSUME Inv, NEW t \in Tx, Commit(t), ~tx[t].overtaken,
         WriteProjects(tx[t].command, tx[t].seen)
  PROVE  RulesKept
<1> DEFINE c == tx[t].command
           seen == tx[t].seen
<1>1. /\ c \in Commands
      /\ c.op \in ProjectOperations => ProjectCommandAllowed(c)
  BY StillAllowed
<1>2. Running(t) /\ Seen(t) /\ StillAsRead(t)
  BY CommitDecided
<1>3. Typed /\ ProjectsLinked
  BY DEF Inv, Linked
<1>4. /\ c.op = "createProject" => project[c.project].version = 0
      /\ c.op = "transitionProject" => Exists(project[c.project])
  <2>1. c.op = "createProject" => project[c.project].version = 0
    BY <1>2, <1>3, SeenNow
  <2>2. ProjectsSeen(c, seen)
    BY <1>2 DEF Seen
  <2> QED  BY <2>1, <2>2 DEF ProjectsSeen
<1>5. /\ \/ WriteProductCategory(c) \/ CreateProject(c) \/ UpdateProject(c)
         \/ TransitionProject(c, seen) \/ WriteProjectMember(c)
         \/ WriteMilestone(c) \/ WriteWorkPackage(c)
      /\ UNCHANGED itemRows /\ UNCHANGED bomRows
  BY DEF WriteProjects
<1> HIDE DEF c, seen
<1>6. c.op \in ProjectOperations
  BY <1>5 DEF WriteProductCategory, CreateProject, UpdateProject, TransitionProject,
     WriteProjectMember, WriteMilestone, WriteWorkPackage, ProjectOperations
<1>7. c \in ProjectCommands /\ ProjectCommandAllowed(c)
  BY <1>1, <1>6, CommandKinds
<1>8. PlanKept
  <2>1. CASE WriteProductCategory(c)
    BY <1>5, <2>1, CategoryKeepsPlan
  <2>2. CASE CreateProject(c)
    <3>1. project[c.project].version = 0
      BY <1>4, <2>2 DEF CreateProject
    <3> QED  BY <1>3, <1>5, <1>7, <2>2, <3>1, CreateKeepsPlan
  <2>3. CASE UpdateProject(c)
    <3>1. UpdateProjectAllowed(c)
      BY <1>7, <2>3, ProjectAllowedByKind DEF UpdateProject
    <3> QED  BY <1>3, <1>5, <1>7, <2>3, <3>1, UpdateKeepsPlan
  <2>4. CASE TransitionProject(c, seen)
    <3>1. Exists(project[c.project])
      BY <1>4, <2>4 DEF TransitionProject
    <3> QED  BY <1>3, <1>5, <1>7, <2>4, <3>1, TransitionKeepsPlan
  <2>5. CASE WriteProjectMember(c)
    BY <1>3, <1>5, <1>7, <2>5, MemberKeepsPlan
  <2>6. CASE WriteMilestone(c)
    BY <1>3, <1>5, <1>7, <2>6, MilestoneKeepsPlan
  <2>7. CASE WriteWorkPackage(c)
    BY <1>3, <1>5, <1>7, <2>7, PackageKeepsPlan
  <2> QED  BY <1>5, <2>1, <2>2, <2>3, <2>4, <2>5, <2>6, <2>7
<1>9. PrecisionsFit' <=> PrecisionsFit
  BY <1>5, RulesOfRows
<1> QED  BY <1>8, <1>9 DEF PlanKept, RulesKept, Rules

\* A commit on the item master does: whoever changes a definition or a unit
\* has looked at the values and definitions that depend on it.
LEMMA ItemsKeepRules ==
  ASSUME Inv, NEW t \in Tx, Commit(t), ~tx[t].overtaken, WriteItems(tx[t].command)
  PROVE  RulesKept
<1> DEFINE c == tx[t].command
<1>1. /\ c \in Commands
      /\ c.op \in ItemOperations => ItemCommandBegins(c)
      /\ c.op \in AttributeOperations
                  \cup {"updateItemCategory", "updateUnitOfMeasure", "createItem", "updateItem"}
           => ItemCommandAllowed(c) \/ BomCommandAllowed(c)
  BY StillAllowed
<1>2. Typed /\ ItemsLinked /\ ItemMasterHolds
  BY DEF Inv, Linked
<1>3. /\ WriteItemCategory(c) \/ WriteUnitOfMeasure(c) \/ WriteAttribute(c) \/ WriteItem(c)
         \/ DeactivateItem(c)
      /\ UNCHANGED planRows /\ UNCHANGED bomRows
  BY DEF WriteItems
<1> HIDE DEF c
<1>4. c \in ItemCommands /\ ItemCommandBegins(c)
  BY <1>1, <1>3, CommandKinds DEF WriteItemCategory, WriteUnitOfMeasure, WriteAttribute,
     WriteItem, DeactivateItem, ItemOperations
<1>5. ItemsStep(c)
  BY <1>2, <1>3, <1>4, ItemCategoryKept, UnitKept, AttributeKept, ItemKept
<1>6. ASSUME PrecisionsFit, NEW i \in Items, NEW a \in DOMAIN item'[i].values
      PROVE  /\ item'[i].values[a].type = attribute'[a].shape.type
             /\ item'[i].values[a].places <= attribute'[a].shape.precision
  <2>1. a \in Attributes
    BY <1>5 DEF ItemsStep, ItemsTyped, ItemRows, Values
  <2>2. CASE item'[i].values = item[i].values /\ attribute'[a] = attribute[a]
    BY <1>6, <2>2 DEF PrecisionsFit, ValueFits
  <2>3. CASE item'[i].values = item[i].values /\ attribute'[a] # attribute[a]
    <3>1. c.op \in AttributeOperations /\ c.attribute = a /\ attribute'[a].shape = c.shape
      BY <1>5, <2>1, <2>3 DEF ItemsStep
    <3>2. Exists(attribute[a]) /\ i \in Holders(a)
      BY <1>2, <1>6, <2>3 DEF ItemsLinked, Holders
    <3>3. c.op = "updateSpecificationAttribute"
      BY <1>4, <3>1, <3>2 DEF ItemCommandBegins, AttributeOperations
    <3>4. UpdateAttributeAllowed(c)
      BY <1>1, <3>1, <3>3, AllowedByKind
    <3>5. c.shape = attribute[a].shape
      BY <3>1, <3>2, <3>4 DEF UpdateAttributeAllowed
    <3>6. attribute'[a].shape = attribute[a].shape
      BY <3>1, <3>5
    <3> QED  BY <1>6, <2>3, <3>6 DEF PrecisionsFit, ValueFits
  <2>4. CASE item'[i].values # item[i].values
    <3>1. c.op \in {"createItem", "updateItem"} /\ item'[i].values = c.values
      BY <1>5, <2>4 DEF ItemsStep
    <3>2. ValuesValid(ItemCategoryOf[c.item], c.values)
      BY <1>4, <3>1 DEF ItemCommandBegins
    <3>3. attribute'[a] = attribute[a]
      BY <1>5, <2>1, <3>1 DEF ItemsStep, AttributeOperations
    <3> QED  BY <1>6, <3>1, <3>2, <3>3 DEF ValuesValid, ValueFits
  <2> QED  BY <2>2, <2>3, <2>4
<1>7. ASSUME PrecisionsFit, NEW a \in Attributes, attribute'[a].active,
             attribute'[a].shape.type = "NUMBER", attribute'[a].shape.unit # None
      PROVE  attribute'[a].shape.precision <= unit'[attribute'[a].shape.unit].precision
  <2>1. attribute'[a].shape.unit \in Units
    BY <1>5, <1>7 DEF ItemsStep, ItemsTyped, AttributeRows, Shapes
  <2>2. CASE attribute'[a] # attribute[a]
    <3>1. c.op \in AttributeOperations /\ attribute'[a].shape = c.shape
      BY <1>5, <2>2 DEF ItemsStep
    <3>2. DefinitionValid(c.shape)
      BY <1>4, <3>1 DEF ItemCommandBegins, AttributeOperations
    <3>3. unit'[c.shape.unit] = unit[c.shape.unit]
      BY <1>5, <2>1, <3>1 DEF ItemsStep, AttributeOperations
    <3> QED  BY <1>7, <3>1, <3>2, <3>3 DEF DefinitionValid
  <2>3. CASE attribute'[a] = attribute[a]
    <3> DEFINE u == attribute[a].shape.unit
    <3>1. u \in Units /\ u # None /\ attribute[a].active /\ attribute[a].shape.type = "NUMBER"
      BY <1>7, <2>1, <2>3
    <3>2. unit[u].active /\ Exists(unit[u])
      BY <1>2, <3>1 DEF ItemMasterHolds, ActiveRecordsUseActive, ItemsLinked
    <3>3. CASE unit'[u] = unit[u]
      BY <1>7, <2>3, <3>1, <3>3 DEF PrecisionsFit, DefinitionValid
    <3>4. CASE unit'[u] # unit[u]
      <4>1. /\ c.op \in {"createUnitOfMeasure", "updateUnitOfMeasure"} /\ c.unit = u
            /\ unit'[u].precision = c.precision
        BY <1>5, <3>1, <3>4 DEF ItemsStep
      <4>2. c.op = "updateUnitOfMeasure"
        BY <1>4, <3>2, <4>1 DEF ItemCommandBegins
      <4>3. UpdateUnitAllowed(c)
        BY <1>1, <4>2, AllowedByKind
      <4> QED  BY <2>3, <3>1, <4>1, <4>3 DEF UpdateUnitAllowed
    <3> QED  BY <3>3, <3>4
  <2> QED  BY <2>2, <2>3
<1>8. PrecisionsFit => PrecisionsFit'
  BY <1>6, <1>7 DEF PrecisionsFit, ValueFits, DefinitionValid
<1>9. /\ PlanWithinProject' <=> PlanWithinProject
      /\ ManagerRemains' <=> ManagerRemains
      /\ \A p \in Projects : PlanOf(p)' = PlanOf(p)
  BY <1>3, RulesOfRows DEF bomRows
<1> QED  BY <1>8, <1>9 DEF RulesKept, Rules

\* A commit on bills of materials changes nothing of a closed project.
LEMMA BomsKeepRules ==
  ASSUME Inv, NEW t \in Tx, Commit(t), ~tx[t].overtaken,
         WriteBoms(tx[t].command, tx[t].seen)
  PROVE  RulesKept
<1> DEFINE c == tx[t].command
           seen == tx[t].seen
<1>1. c.op \in BomOperations => ItemCommandAllowed(c) \/ BomCommandAllowed(c)
  BY StillAllowed
<1>2. c \in BomCommands
  BY BomsKept
<1>3. /\ ConfirmImport(c) \/ TransitionRevision(c, seen) \/ ReleaseRevision(c) \/ UpdateLine(c)
      /\ UNCHANGED planRows /\ UNCHANGED itemRows
  BY DEF WriteBoms
<1>4. revision \in [Revisions -> RevisionRows]
  BY DEF Inv, Typed, BomsTyped
<1> HIDE DEF c, seen
<1>5. c.op \in BomOperations /\ c.revision \in Revisions
  BY <1>2, BomCommandFields
<1>6. c.op # "updateLine" => Open(ProjectOf[c.revision])
  BY <1>1, <1>5, AllowedByKind
     DEF BomOperations, Transitions, ConfirmAllowed, TransitionAllowed, ReleaseAllowed
<1>7. ASSUME NEW p \in Projects, ~Open(p), NEW r \in Revisions, ProjectOf[r] = p
      PROVE  revision'[r] = revision[r]
  <2>1. CASE UpdateLine(c)
    BY <2>1 DEF UpdateLine
  <2>2. CASE ~UpdateLine(c)
    <3>1. ProjectOf[c.revision] # p
      BY <1>3, <1>6, <1>7, <2>2 DEF ConfirmImport, TransitionRevision, ReleaseRevision
    <3>2. r # c.revision
      BY <1>7, <3>1
    <3>3. CASE ConfirmImport(c)
      <4> DEFINE number == Max({revision[s].number : s \in RevisionsOf(ProjectOf[c.revision])}
                               \cup {0}) + 1
                 row == [status |-> "DRAFT", number |-> number, version |-> 1]
      <4>1. revision' = [revision EXCEPT ![c.revision] = row]
        BY <3>3 DEF ConfirmImport
      <4> HIDE DEF row
      <4> QED  BY <1>4, <3>2, <4>1
    <3>4. CASE TransitionRevision(c, seen)
      <4> DEFINE row == Updated([revision[c.revision] EXCEPT !.status = Target(c.op)])
      <4>1. revision' = [revision EXCEPT ![c.revision] = row]
        BY <1>4, <1>5, <3>4 DEF TransitionRevision
      <4> HIDE DEF row
      <4> QED  BY <1>4, <3>2, <4>1
    <3>5. CASE ReleaseRevision(c)
      <4> DEFINE previous == {s \in RevisionsOf(ProjectOf[c.revision]) \ {c.revision} :
                                revision[s].status = "RELEASED"}
                 M == previous \cup {c.revision}
                 Row(s) == Updated([revision[s] EXCEPT
                                      !.status = IF s = c.revision THEN "RELEASED" ELSE "SUPERSEDED"])
      <4>1. revision' = [s \in Revisions |-> IF s \in M THEN Row(s) ELSE revision[s]]
        BY <3>5 DEF ReleaseRevision
      <4>2. r \notin M
        BY <1>7, <3>1, <3>2 DEF RevisionsOf
      <4> HIDE DEF M, Row
      <4> QED  BY <4>1, <4>2
    <3> QED  BY <1>3, <2>2, <3>3, <3>4, <3>5
  <2> QED  BY <2>1, <2>2
<1>8. ASSUME NEW p \in Projects, ~Open(p) PROVE PlanOf(p)' = PlanOf(p)
  <2>1. UNCHANGED <<member, milestone, package>>
    BY <1>3 DEF planRows
  <2>2. [r \in {s \in Revisions : ProjectOf[s] = p} |-> revision'[r]]
        = [r \in {s \in Revisions : ProjectOf[s] = p} |-> revision[r]]
    BY <1>7, <1>8
  <2> QED  BY <2>1, <2>2 DEF PlanOf
<1>9. /\ PlanWithinProject' <=> PlanWithinProject
      /\ ManagerRemains' <=> ManagerRemains
      /\ PrecisionsFit' <=> PrecisionsFit
  BY <1>3, RulesOfRows
<1> QED  BY <1>8, <1>9 DEF RulesKept, Rules

\* A commit that is not overtaken changes lines of a draft only: the trigger
\* guard_bom_line_mutation has seen what still holds.
LEMMA LinesStay ==
  ASSUME Inv, NEW t \in Tx, Commit(t), ~tx[t].overtaken,
         WriteBoms(tx[t].command, tx[t].seen), NEW r \in Revisions, revision[r].status # "DRAFT"
  PROVE  line'[r] = line[r]
<1> DEFINE c == tx[t].command
           seen == tx[t].seen
<1>1. c.op \in BomOperations => ItemCommandAllowed(c) \/ BomCommandAllowed(c)
  BY StillAllowed
<1>2. c \in BomCommands
  BY BomsKept
<1>3. ConfirmImport(c) \/ TransitionRevision(c, seen) \/ ReleaseRevision(c) \/ UpdateLine(c)
  BY DEF WriteBoms
<1>4. BomsTyped /\ BomsLinked
  BY DEF Inv, Typed, Linked
<1> HIDE DEF c, seen
<1>5. c.op \in BomOperations /\ c.revision \in Revisions
  BY <1>2, BomCommandFields
<1>6. CASE ConfirmImport(c)
  <2>1. imports[c.revision] = "READY"
    BY <1>1, <1>5, <1>6, AllowedByKind DEF ConfirmImport, ConfirmAllowed
  <2>2. revision[c.revision].status = "DRAFT"
    BY <1>4, <1>5, <2>1 DEF BomsLinked
  <2> DEFINE drafted == [i \in DOMAIN RowsOf[c.revision] |->
                           [unit |-> RowsOf[c.revision][i], places |-> 0, version |-> 1]]
  <2>3. line' = [line EXCEPT ![c.revision] = drafted]
    BY <1>6 DEF ConfirmImport
  <2> HIDE DEF drafted
  <2> QED  BY <1>4, <2>2, <2>3 DEF BomsTyped
<1>7. CASE UpdateLine(c)
  <2>1. revision[c.revision].status = "DRAFT"
    BY <1>1, <1>5, <1>7, AllowedByKind DEF UpdateLine, LineGuard
  <2> DEFINE row == [unit |-> c.unit, places |-> c.places,
                     version |-> Next1(line[c.revision][c.item])]
  <2>2. line' = [line EXCEPT ![c.revision][c.item] = row]
    BY <1>7 DEF UpdateLine
  <2> HIDE DEF row
  <2> QED  BY <1>4, <2>1, <2>2 DEF BomsTyped
<1>8. CASE TransitionRevision(c, seen) \/ ReleaseRevision(c)
  BY <1>8 DEF TransitionRevision, ReleaseRevision
<1> QED  BY <1>3, <1>6, <1>7, <1>8

\* A release that is not overtaken finds the items and units of its lines active.
LEMMA ReleaseFindsLines ==
  ASSUME Inv, NEW t \in Tx, Commit(t), ~tx[t].overtaken, ReleaseRevision(tx[t].command)
  PROVE  LinesAvailable(tx[t].command.revision)
<1> DEFINE c == tx[t].command
<1>1. c.op \in BomOperations => ItemCommandAllowed(c) \/ BomCommandAllowed(c)
  BY StillAllowed
<1>2. c.op = "release"
  BY DEF ReleaseRevision
<1> HIDE DEF c
<1>3. ReleaseAllowed(c)
  BY <1>1, <1>2, AllowedByKind DEF BomOperations
<1> QED  BY <1>3 DEF ReleaseAllowed, c

\* A transaction ends by committing or without leaving anything behind.
LEMMA EndsItself ==
  ASSUME Inv, [Next]_vars, NEW t \in Tx, Running(t), ~Running(t)'
  PROVE  \/ Commit(t)
         \/ UNCHANGED <<planRows, itemRows, bomRows>>
<1>1. ASSUME NEW u \in Tx, Commit(u), u # t PROVE FALSE
  <2>1. tx'[t].command = tx[t].command
    BY <1>1, CommitOthers
  <2> QED  BY <2>1 DEF Running
<1>2. CASE \E u \in Tx : Commit(u)
  BY <1>1, <1>2
<1>3. CASE ~\E u \in Tx : Commit(u)
  BY <1>3 DEF Next, vars, Begin, TakeLock, CheckUnderLocks, Advance, Abort
<1> QED  BY <1>2, <1>3

\* A transaction that no other one overtakes keeps the rules no lock protects:
\* the checks of projects.repository.ts, items.repository.ts and
\* boms.repository.ts are enough on their own, and what breaks these rules is
\* another transaction that commits between such a check and the commit.
THEOREM UndisturbedCommits == Spec => UndisturbedCommitsKeepRules
<1>1. ASSUME Inv, [Next]_vars, NEW t \in Tx, Running(t), ~Running(t)', ~tx[t].overtaken
      PROVE  RulesKept
  <2>1. CASE Commit(t)
    <3>1. CASE WriteProjects(tx[t].command, tx[t].seen)
      BY <1>1, <2>1, <3>1, ProjectsKeepRules
    <3>2. CASE WriteItems(tx[t].command)
      BY <1>1, <2>1, <3>2, ItemsKeepRules
    <3>3. CASE WriteBoms(tx[t].command, tx[t].seen)
      BY <1>1, <2>1, <3>3, BomsKeepRules
    <3> QED  BY <2>1, <3>1, <3>2, <3>3 DEF Commit
  <2>2. CASE UNCHANGED <<planRows, itemRows, bomRows>>
    BY <2>2, RulesOfRows DEF bomRows, RulesKept, Rules
  <2> QED  BY <1>1, <2>1, <2>2, EndsItself
<1>2. ASSUME Inv, [Next]_vars, NEW t \in Tx, Running(t), ~Running(t)', ~tx[t].overtaken,
             NEW r \in Revisions,
             revision[r].status # "RELEASED", revision'[r].status = "RELEASED"
      PROVE  \A i \in DOMAIN line[r] : item[i].active /\ unit[line[r][i].unit].active
  <2>1. PICK u \in Tx : Commit(u) /\ ReleaseRevision(tx[u].command)
    BY <1>2, OnlyReleaseReleases
  <2>2. u = t
    <3>1. u # t => tx'[t].command = tx[t].command
      BY <1>2, <2>1, CommitOthers
    <3> QED  BY <1>2, <3>1 DEF Running
  <2>3. r = tx[t].command.revision
    BY <1>2, <2>1, <2>2, ReleaseStep
  <2>4. LinesAvailable(tx[t].command.revision)
    BY <1>2, <2>1, <2>2, ReleaseFindsLines
  <2> QED  BY <2>3, <2>4 DEF LinesAvailable
<1>3. ASSUME Inv, [Next]_vars, NEW t \in Tx, Running(t), ~Running(t)', ~tx[t].overtaken,
             NEW r \in Revisions, revision[r].status # "DRAFT"
      PROVE  line'[r] = line[r]
  <2>1. CASE Commit(t)
    <3>1. CASE WriteBoms(tx[t].command, tx[t].seen)
      BY <1>3, <2>1, <3>1, LinesStay
    <3>2. CASE ~WriteBoms(tx[t].command, tx[t].seen)
      BY <2>1, <3>2 DEF Commit, WriteProjects, WriteItems, bomRows
    <3> QED  BY <3>1, <3>2
  <2>2. CASE UNCHANGED <<planRows, itemRows, bomRows>>
    BY <2>2 DEF bomRows
  <2> QED  BY <1>3, <2>1, <2>2, EndsItself
<1>4. Inv /\ [Next]_vars =>
        [\A t \in Tx :
           Running(t) /\ ~Running(t)' /\ ~tx[t].overtaken =>
           /\ Rules => Rules'
           /\ \A p \in Projects : ~Open(p) => PlanOf(p)' = PlanOf(p)
           /\ \A r \in Revisions : revision[r].status # "DRAFT" => line'[r] = line[r]
           /\ \A r \in Revisions :
                 revision[r].status # "RELEASED" /\ revision'[r].status = "RELEASED"
                 => \A i \in DOMAIN line[r] :
                       item[i].active /\ unit[line[r][i].unit].active]_vars
  BY <1>1, <1>2, <1>3 DEF RulesKept
<1> QED  BY <1>4, EngineeringInvariant, PTL DEF Spec, UndisturbedCommitsKeepRules


-----------------------------------------------------------------------------
(***************************************************************************)
(* Where the revisions come from: one import of a bill of materials.       *)
(* Import and event agree, one worker is at the file and one draft is      *)
(* made, for any number of workers, attempts and faults.                   *)
(*                                                                         *)
(* That they agree is not inductive: a worker writes the import without    *)
(* looking at the event, so it must be known what the event says wherever  *)
(* a worker is, that no other worker is elsewhere, and that no event is    *)
(* open to a claim while somebody is at it.  InTime is the conjunction.    *)
(***************************************************************************)
Places == {"idle", "locking", "yielding", "reading", "skipping", "starting",
           "fetching", "storing", "failing", "unlocking"}

Imports ==
  [status : {"NONE", "QUEUED", "PARSING", "READY", "FAILED", "CONFIRMED"},
   rows : Clean \cup {Faulty, NoRows},
   file : {"NONE", "QUARANTINED", "VALIDATED", "REJECTED"}]

Events ==
  [status : {"NONE", "PENDING", "PROCESSING", "PROCESSED", "FAILED"},
   attempts : Nat, stale : BOOLEAN, waits : BOOLEAN]

Rounds ==
  [pc : Places, claim : Nat, rows : Clean \cup {Faulty, NoRows}, rejected : BOOLEAN]

ImportTyped ==
  /\ faults \in [FaultKinds -> Nat]
  /\ event \in Events
  /\ import \in Imports
  /\ worker \in [Workers -> Rounds]

\* Nobody is at an event somebody may claim, and a key never outlives the
\* claim it was set for.
ClaimableIsFree ==
  /\ event.stale => event.status = "PROCESSING" /\ ~locked /\ AllRest
  /\ event.waits => event.status = "PENDING"
  /\ event.status = "PENDING" /\ ~event.waits => AllRest
  /\ event.status = "NONE" => AllRest
  /\ upload \in {"none", "stored"} => event.status = "NONE"

\* What import and event say while a worker is at a place of its program.  A
\* worker that finds the key set has taken up a waiting import, not one that
\* was being parsed.
WorkerKnows(w) ==
  /\ worker[w].pc \in {"locking", "yielding", "reading", "starting", "fetching", "storing"}
       => event.status = "PROCESSING"
  /\ At(w, "failing") => event.status \in {"PROCESSING", "PROCESSED"}
  /\ ~At(w, "skipping")
  /\ At(w, "locking") /\ locked => import.status = "QUEUED"
  /\ At(w, "yielding") => import.status = "QUEUED"

InTime ==
  /\ ClaimableIsFree
  /\ \A w \in Workers : WorkerKnows(w)
  /\ OneAtWork
  /\ StoriesAgree

Late == Suffered({"overlap"})

ImportInv == ImportTyped /\ (Late \/ InTime)

\* What every step does to the invariant.
Kept == ImportTyped' /\ (Late => Late') /\ (InTime => InTime' \/ Late')

-----------------------------------------------------------------------------
(***************************************************************************)
(* Faults, rows and workers.                                               *)
(***************************************************************************)
\* Faults are only ever counted up.
LEMMA FaultsGrow ==
  ASSUME ImportTyped, NEW kind \in FaultKinds, Fault(kind)
  PROVE  /\ faults' \in [FaultKinds -> Nat]
         /\ Late => Late'
         /\ kind = "overlap" => Late'
BY DEF ImportTyped, Fault, Late, Suffered, FaultKinds

\* A step without a fault makes nobody late.
LEMMA NoFault ==
  ASSUME ImportTyped, UNCHANGED faults
  PROVE  faults' \in [FaultKinds -> Nat] /\ (Late => Late')
BY DEF ImportTyped, Late, Suffered

\* A worker that goes on is typed, and nobody else moves.
LEMMA WorkerGoes ==
  ASSUME ImportTyped, NEW w \in Workers, NEW pc \in Places, Goes(w, pc)
  PROVE  /\ worker' \in [Workers -> Rounds]
         /\ worker'[w].pc = pc
         /\ \A v \in Workers \ {w} : worker'[v] = worker[v]
BY DEF ImportTyped, Goes, Rounds

\* A worker that gives up its round is idle.
LEMMA WorkerRests ==
  ASSUME ImportTyped, NEW w \in Workers, Rests(w)
  PROVE  /\ worker' \in [Workers -> Rounds]
         /\ worker'[w].pc = "idle"
         /\ \A v \in Workers \ {w} : worker'[v] = worker[v]
BY DEF ImportTyped, Rests, Resting, Rounds, Places

\* An upload creates an event and an import of their types.
LEMMA CreatedIsTyped == Created => event' \in Events /\ import' \in Imports
<1> SUFFICES ASSUME Created PROVE event' \in Events /\ import' \in Imports
  OBVIOUS
<1>1. event' \in Events
  BY DEF Created, NoEvent, Events
<1>2. import' \in Imports
  BY DEF Created, Imports
<1> QED
  BY <1>1, <1>2

\* A worker that is not at rest is the only one.
LEMMA OthersRest ==
  ASSUME OneAtWork, NEW w \in Workers, ~At(w, "idle")
  PROVE  \A v \in Workers \ {w} : At(v, "idle")
BY DEF OneAtWork, At

\* While all but one rest, what is to be shown of the workers is to be shown
\* of that one.
LEMMA OneMoves ==
  ASSUME NEW w \in Workers,
         \A v \in Workers \ {w} : At(v, "idle") /\ worker'[v] = worker[v],
         ClaimableIsFree', WorkerKnows(w)', StoriesAgree'
  PROVE  InTime'
<1>1. \A v \in Workers \ {w} : At(v, "idle")'
  BY DEF At
<1>2. \A v \in Workers \ {w} : WorkerKnows(v)'
  BY <1>1 DEF WorkerKnows, At
<1>3. OneAtWork'
  BY <1>1 DEF OneAtWork
<1> QED
  BY <1>2, <1>3 DEF InTime

\* Initially nobody is at work and there is nothing to be at.
THEOREM ImportInitHolds == ImportInit => ImportInv
<1> SUFFICES ASSUME ImportInit PROVE ImportTyped /\ InTime
  BY DEF ImportInv
<1>1. ImportTyped
  BY DEF ImportInit, ImportTyped, NoEvent, NoImport, Resting, FaultKinds, Events, Imports,
     Rounds, Places
<1>2. ClaimableIsFree /\ OneAtWork /\ StoriesAgree
  BY DEF ImportInit, NoEvent, ClaimableIsFree, OneAtWork, StoriesAgree, AllRest, At, Resting
<1>3. ASSUME NEW w \in Workers PROVE WorkerKnows(w)
  BY DEF ImportInit, Resting, WorkerKnows, At
<1> QED
  BY <1>1, <1>2, <1>3 DEF InTime

-----------------------------------------------------------------------------
(***************************************************************************)
(* One lemma per action.                                                   *)
(***************************************************************************)
LEMMA PutKeeps == ImportTyped /\ Put => Kept
<1> SUFFICES ASSUME ImportTyped, Put PROVE Kept
  OBVIOUS
<1>1. ImportTyped' /\ (Late => Late')
  BY NoFault DEF ImportTyped, Put
<1>2. InTime => InTime'
  BY DEF Put, InTime, ClaimableIsFree, AllRest, OneAtWork, At, WorkerKnows, StoriesAgree
<1> QED
  BY <1>1, <1>2 DEF Kept

\* Types are kept by each step of the requests, the clock and the workers.
LEMMA CreateImportKeeps == ImportTyped /\ CreateImport => Kept
<1> SUFFICES ASSUME ImportTyped, CreateImport PROVE Kept
  OBVIOUS
<1>1. faults' \in [FaultKinds -> Nat] /\ (Late => Late') /\ worker' = worker
  BY FaultsGrow, NoFault DEF CreateImport, FaultKinds
<1>2. Created \/ UNCHANGED <<import, event>>
  BY DEF CreateImport
<1>3. ImportTyped'
  BY <1>1, <1>2, CreatedIsTyped DEF ImportTyped
<1>4. InTime => InTime'
  BY DEF CreateImport, Created, NoEvent, InTime, ClaimableIsFree, AllRest, OneAtWork, At,
         WorkerKnows, StoriesAgree
<1> QED
  BY <1>1, <1>3, <1>4 DEF Kept

\* The end of an upload writes no row.
LEMMA RemoveKeeps == ImportTyped /\ (RemoveFile \/ CrashUpload) => Kept
<1> SUFFICES ASSUME ImportTyped, RemoveFile \/ CrashUpload PROVE Kept
  OBVIOUS
<1>1. faults' \in [FaultKinds -> Nat] /\ (Late => Late')
  BY FaultsGrow, NoFault DEF RemoveFile, CrashUpload, FaultKinds
<1>2. UNCHANGED <<import, event, locked, worker>> /\ upload' = "done"
  BY DEF RemoveFile, CrashUpload
<1>3. ImportTyped'
  BY <1>1, <1>2 DEF ImportTyped
<1>4. InTime => InTime'
  BY <1>2 DEF InTime, ClaimableIsFree, AllRest, OneAtWork, At, WorkerKnows, StoriesAgree
<1> QED
  BY <1>1, <1>3, <1>4 DEF Kept

\* A READY import has an event that is PROCESSED, so no worker is at it.
LEMMA ConfirmStepKeeps == ImportTyped /\ Confirm => Kept
<1> SUFFICES ASSUME ImportTyped, Confirm PROVE Kept
  OBVIOUS
<1>1. ImportTyped' /\ (Late => Late')
  BY NoFault DEF ImportTyped, Confirm, Imports
<1>2. InTime => InTime'
  BY DEF ImportTyped, Imports, Events, Confirm, InTime, ClaimableIsFree, AllRest, OneAtWork, At,
         WorkerKnows, StoriesAgree, NoImport
<1> QED
  BY <1>1, <1>2 DEF Kept

\* A lock that expires changes nothing else.
LEMMA LockExpiresKeeps == ImportTyped /\ LockExpires => Kept
<1> SUFFICES ASSUME ImportTyped, LockExpires PROVE Kept
  OBVIOUS
<1>1. ImportTyped' /\ (Late => Late')
  BY NoFault DEF ImportTyped, LockExpires
<1>2. InTime => InTime'
  BY DEF LockExpires, api, InTime, ClaimableIsFree, AllRest, OneAtWork, At, WorkerKnows,
         StoriesAgree
<1> QED
  BY <1>1, <1>2 DEF Kept

\* An event that is due again changes nothing while all workers rest.
LEMMA RetryDueKeeps == ImportTyped /\ RetryDue => Kept
<1> SUFFICES ASSUME ImportTyped, RetryDue PROVE Kept
  OBVIOUS
<1>1. faults' \in [FaultKinds -> Nat] /\ (Late => Late')
  BY FaultsGrow, NoFault DEF RetryDue, FaultKinds
<1>2. ImportTyped'
  BY <1>1 DEF ImportTyped, RetryDue, Events
<1>3. CASE AllRest
  <2>1. InTime => InTime'
    BY <1>3 DEF RetryDue, api, ImportTyped, Events, InTime, ClaimableIsFree, AllRest, OneAtWork, At,
                WorkerKnows, StoriesAgree
  <2> QED
    BY <1>1, <1>2, <2>1 DEF Kept
<1>4. CASE ~AllRest
  BY <1>1, <1>2, <1>4, FaultsGrow DEF Kept, RetryDue, FaultKinds
<1> QED
  BY <1>3, <1>4

\* A claim that expires under a worker at work is a fault that is counted.
LEMMA ClaimExpiresKeeps == ImportTyped /\ ClaimExpires => Kept
<1> SUFFICES ASSUME ImportTyped, ClaimExpires PROVE Kept
  OBVIOUS
<1>1. faults' \in [FaultKinds -> Nat] /\ (Late => Late')
  BY FaultsGrow, NoFault DEF ClaimExpires, FaultKinds
<1>2. ImportTyped'
  BY <1>1 DEF ImportTyped, ClaimExpires, Events
<1>3. CASE AllRest
  <2>1. InTime => InTime'
    BY <1>3 DEF ClaimExpires, api, ImportTyped, Events, InTime, ClaimableIsFree, AllRest, OneAtWork,
                At, WorkerKnows, StoriesAgree
  <2> QED
    BY <1>1, <1>2, <2>1 DEF Kept
<1>4. CASE ~AllRest
  BY <1>1, <1>2, <1>4, FaultsGrow DEF Kept, ClaimExpires, FaultKinds
<1> QED
  BY <1>3, <1>4

-----------------------------------------------------------------------------
\* A claim finds nobody at work, and the key set only if the import waits.
LEMMA ClaimKeeps == ASSUME ImportTyped, NEW w \in Workers, Claim(w) PROVE Kept
<1>1. faults' \in [FaultKinds -> Nat] /\ (Late => Late')
  BY FaultsGrow, NoFault DEF Claim, FaultKinds
<1>2. event' \in Events
  <2>1. event.attempts + 1 \in Nat
    BY DEF ImportTyped, Events
  <2> QED
    BY <2>1 DEF ImportTyped, Events, Claim
<1>3. worker' \in [Workers -> Rounds] /\ \A v \in Workers \ {w} : worker'[v] = worker[v]
  <2>1. event.attempts + 1 \in Nat
    BY DEF ImportTyped, Events
  <2> QED
    BY <2>1 DEF ImportTyped, Rounds, Places, Claim
<1>4. ImportTyped'
  BY <1>1, <1>2, <1>3 DEF ImportTyped, Claim, api
<1>5. ASSUME InTime PROVE InTime'
  <2>1. AllRest /\ import.status \in {"QUEUED", "PARSING"} /\ (locked => import.status = "QUEUED")
    BY <1>5 DEF Claim, Claimable, InTime, ClaimableIsFree, StoriesAgree, ImportTyped, Events
  <2>2. event'.status = "PROCESSING" /\ ~event'.stale /\ event'.waits = event.waits
    BY DEF Claim, ImportTyped, Events
  <2>3. ~event.waits /\ upload \notin {"none", "stored"}
    BY <1>5 DEF Claim, Claimable, InTime, ClaimableIsFree, ImportTyped, Events
  <2>4. UNCHANGED <<upload, import, locked>> /\ worker'[w].pc \in {"idle", "locking"}
    BY <2>1 DEF Claim, api, AllRest, At, ImportTyped, Rounds
  <2>5. ClaimableIsFree'
    BY <2>2, <2>3, <2>4 DEF ClaimableIsFree
  <2>6. StoriesAgree'
    BY <2>1, <2>2, <2>4 DEF StoriesAgree
  <2>7. WorkerKnows(w)'
    BY <2>1, <2>2, <2>4 DEF WorkerKnows, At
  <2> QED
    BY <1>3, <2>1, <2>5, <2>6, <2>7, OneMoves DEF AllRest
<1> QED
  BY <1>1, <1>4, <1>5 DEF Kept

\* The step of a worker inside its round: what is left to show of it.
LEMMA RoundKeeps ==
  ASSUME ImportTyped, NEW w \in Workers, ~At(w, "idle"),
         faults' \in [FaultKinds -> Nat], Late => Late',
         event' \in Events, import' \in Imports,
         worker' \in [Workers -> Rounds], \A v \in Workers \ {w} : worker'[v] = worker[v],
         InTime => ClaimableIsFree' /\ WorkerKnows(w)' /\ StoriesAgree'
  PROVE  Kept
<1>1. ImportTyped'
  BY DEF ImportTyped
<1>2. ASSUME InTime PROVE InTime'
  BY <1>2, OthersRest, OneMoves DEF InTime
<1> QED
  BY <1>1, <1>2 DEF Kept

\* What a worker at a place other than "idle" knows of the event: nobody may
\* claim it.
LEMMA BusyEvent ==
  ASSUME InTime, NEW w \in Workers, ~At(w, "idle")
  PROVE  /\ ~event.stale /\ upload \notin {"none", "stored"}
         /\ event.status # "NONE"
         /\ event.status = "PENDING" => event.waits
BY DEF InTime, ClaimableIsFree, AllRest

\* The lock decides which of two workers parses.
LEMMA LockKeeps == ASSUME ImportTyped, NEW w \in Workers, LockImport(w) PROVE Kept
<1>1. faults' \in [FaultKinds -> Nat] /\ (Late => Late')
  BY FaultsGrow, NoFault DEF LockImport, FaultKinds
<1>2. Goes(w, "reading") \/ Goes(w, "yielding") \/ Rests(w)
  BY DEF LockImport
<1>3. worker' \in [Workers -> Rounds] /\ \A v \in Workers \ {w} : worker'[v] = worker[v]
  BY <1>2, WorkerGoes, WorkerRests DEF Places
<1>4. ~At(w, "idle") /\ UNCHANGED <<upload, import, event>>
  BY DEF LockImport, At, api
<1>5. worker'[w].pc \in {"reading", "idle"} \/ (worker'[w].pc = "yielding" /\ locked)
  BY WorkerGoes, WorkerRests DEF LockImport, Places
<1>6. ASSUME InTime PROVE ClaimableIsFree' /\ WorkerKnows(w)' /\ StoriesAgree'
  <2>1. event.status = "PROCESSING" /\ (locked => import.status = "QUEUED")
    BY <1>6 DEF InTime, WorkerKnows, LockImport, At
  <2>2. ClaimableIsFree'
    BY <1>4, <1>6, <2>1, BusyEvent DEF ClaimableIsFree, InTime
  <2>3. WorkerKnows(w)'
    BY <1>4, <1>5, <2>1 DEF WorkerKnows, At
  <2> QED
    BY <1>4, <1>6, <2>2, <2>3 DEF StoriesAgree, InTime
<1>7. event \in Events /\ import \in Imports
  BY DEF ImportTyped
<1> QED
  BY <1>1, <1>3, <1>4, <1>6, <1>7, RoundKeeps

\* An event that is given back asks for an import nobody has parsed.
LEMMA YieldKeeps == ASSUME ImportTyped, NEW w \in Workers, Yield(w) PROVE Kept
<1>1. faults' \in [FaultKinds -> Nat] /\ (Late => Late')
  BY FaultsGrow, NoFault DEF Yield, FaultKinds
<1>2. /\ worker' \in [Workers -> Rounds] /\ worker'[w].pc = "idle"
      /\ \A v \in Workers \ {w} : worker'[v] = worker[v]
  BY WorkerRests DEF Yield
<1>3. ~At(w, "idle") /\ UNCHANGED <<upload, import, locked>>
  BY DEF Yield, At, api
<1>4. event' \in Events /\ import' \in Imports
  BY <1>3 DEF Yield, ImportTyped, Events
<1>5. ASSUME InTime PROVE ClaimableIsFree' /\ WorkerKnows(w)' /\ StoriesAgree'
  <2>1. event.status = "PROCESSING" /\ import.status = "QUEUED"
    BY <1>5 DEF InTime, WorkerKnows, Yield, At
  <2>2. AllRest'
    BY <1>2, <1>3, <1>5, OthersRest DEF AllRest, At, InTime
  <2>3. \/ UNCHANGED event
        \/ event'.status = "PENDING" /\ ~event'.stale /\ event'.waits = event.waits
    BY DEF Yield, ImportTyped, Events
  <2>4. ~event.waits
    BY <1>5, <2>1 DEF InTime, ClaimableIsFree
  <2>5. ClaimableIsFree'
    BY <1>3, <1>5, <2>1, <2>2, <2>3, <2>4, BusyEvent DEF ClaimableIsFree
  <2>6. StoriesAgree'
    BY <1>3, <2>1, <2>3 DEF StoriesAgree
  <2> QED
    BY <1>2, <2>5, <2>6 DEF WorkerKnows, At
<1> QED
  BY <1>1, <1>2, <1>3, <1>4, <1>5, RoundKeeps

\* Reading the import tells the worker its status.
LEMMA ReadKeeps == ASSUME ImportTyped, NEW w \in Workers, Read(w) PROVE Kept
<1>1. faults' \in [FaultKinds -> Nat] /\ (Late => Late')
  BY FaultsGrow, NoFault DEF Read, FaultKinds
<1>2. Goes(w, "skipping") \/ Goes(w, "starting") \/ Goes(w, "failing")
  BY DEF Read, Fails
<1>3. worker' \in [Workers -> Rounds] /\ \A v \in Workers \ {w} : worker'[v] = worker[v]
  BY <1>2, WorkerGoes DEF Places
<1>4. ~At(w, "idle") /\ UNCHANGED <<upload, import, event, locked>>
  BY DEF Read, At, api
<1>5. event' \in Events /\ import' \in Imports
  BY <1>4 DEF ImportTyped
<1>6. worker'[w].pc \in {"starting", "failing"} \/ import.status = "CONFIRMED"
  BY WorkerGoes DEF Read, Fails, Places
<1>7. ASSUME InTime PROVE ClaimableIsFree' /\ WorkerKnows(w)' /\ StoriesAgree'
  <2>1. event.status = "PROCESSING" /\ import.status # "CONFIRMED"
    BY <1>7 DEF InTime, WorkerKnows, StoriesAgree, Read, At
  <2>2. ClaimableIsFree'
    BY <1>4, <1>7, <2>1, BusyEvent DEF ClaimableIsFree, InTime
  <2>3. WorkerKnows(w)'
    BY <1>4, <1>6, <2>1 DEF WorkerKnows, At
  <2> QED
    BY <1>4, <1>7, <2>2, <2>3 DEF StoriesAgree, InTime
<1> QED
  BY <1>1, <1>3, <1>4, <1>5, <1>7, RoundKeeps

\* No worker finds the import confirmed.
LEMMA SkipKeeps == ASSUME ImportTyped, NEW w \in Workers, Skip(w) PROVE Kept
<1>1. faults' \in [FaultKinds -> Nat] /\ (Late => Late')
  BY FaultsGrow, NoFault DEF Skip, FaultKinds
<1>2. Goes(w, "unlocking") \/ Goes(w, "failing")
  BY DEF Skip, Fails
<1>3. worker' \in [Workers -> Rounds] /\ \A v \in Workers \ {w} : worker'[v] = worker[v]
  BY <1>2, WorkerGoes DEF Places
<1>4. ~At(w, "idle") /\ event' \in Events /\ import' \in Imports
  BY DEF Skip, At, ImportTyped, Events
<1>5. InTime => FALSE
  BY DEF InTime, WorkerKnows, Skip, At
<1> QED
  BY <1>1, <1>3, <1>4, <1>5, RoundKeeps

\* The claim is still the worker's, so the import is not yet parsed.
LEMMA StartKeeps == ASSUME ImportTyped, NEW w \in Workers, Start(w) PROVE Kept
<1>1. faults' \in [FaultKinds -> Nat] /\ (Late => Late')
  BY FaultsGrow, NoFault DEF Start, FaultKinds
<1>2. Goes(w, "fetching") \/ Goes(w, "failing")
  BY DEF Start, Fails
<1>3. /\ worker' \in [Workers -> Rounds] /\ worker'[w].pc \in {"fetching", "failing"}
      /\ \A v \in Workers \ {w} : worker'[v] = worker[v]
  BY <1>2, WorkerGoes DEF Places
<1>4. ~At(w, "idle") /\ UNCHANGED <<upload, event, locked>>
  BY DEF Start, At, api
<1>5. event' \in Events /\ import' \in Imports
  BY <1>4 DEF Start, ImportTyped, Imports
<1>6. import'.status \in {import.status, "PARSING"}
  BY DEF Start, ImportTyped, Imports
<1>7. ASSUME InTime PROVE ClaimableIsFree' /\ WorkerKnows(w)' /\ StoriesAgree'
  <2>1. event.status = "PROCESSING" /\ import'.status \in {"QUEUED", "PARSING"}
    BY <1>6, <1>7 DEF InTime, WorkerKnows, StoriesAgree, Start, At
  <2>2. ClaimableIsFree'
    BY <1>4, <1>7, <2>1, BusyEvent DEF ClaimableIsFree, InTime
  <2>3. WorkerKnows(w)' /\ StoriesAgree'
    BY <1>3, <1>4, <2>1 DEF WorkerKnows, StoriesAgree, At
  <2> QED
    BY <2>2, <2>3
<1> QED
  BY <1>1, <1>3, <1>4, <1>5, <1>7, RoundKeeps

\* Fetching and parsing the file writes no row.
LEMMA FetchKeeps == ASSUME ImportTyped, NEW w \in Workers, Fetch(w) PROVE Kept
<1>1. faults' \in [FaultKinds -> Nat] /\ (Late => Late')
  BY FaultsGrow, NoFault DEF Fetch, FaultKinds
<1>2. /\ worker' \in [Workers -> Rounds] /\ worker'[w].pc \in {"storing", "failing"}
      /\ \A v \in Workers \ {w} : worker'[v] = worker[v]
  <2>1. ASSUME NEW found \in Clean \cup {Faulty},
               worker' = [worker EXCEPT ![w].pc = "storing", ![w].rows = found]
        PROVE  <1>2!:
    <3>1. worker \in [Workers -> Rounds] /\ "storing" \in Places
      BY DEF ImportTyped, Places
    <3>2. [worker[w] EXCEPT !.pc = "storing", !.rows = found] \in Rounds
      BY <3>1 DEF Rounds
    <3> QED
      BY <2>1, <3>1, <3>2
  <2>2. ASSUME worker' = [worker EXCEPT ![w].pc = "failing", ![w].rejected = TRUE]
        PROVE  <1>2!:
    BY <2>2 DEF ImportTyped, Rounds, Places
  <2>3. ASSUME Fails(w) PROVE <1>2!:
    BY <2>3, WorkerGoes DEF Fails, Places
  <2> QED
    BY <2>1, <2>2, <2>3 DEF Fetch
<1>3. ~At(w, "idle") /\ UNCHANGED <<upload, import, event, locked>>
  BY DEF Fetch, At, api
<1>4. event' \in Events /\ import' \in Imports
  BY <1>3 DEF ImportTyped
<1>5. ASSUME InTime PROVE ClaimableIsFree' /\ WorkerKnows(w)' /\ StoriesAgree'
  <2>1. event.status = "PROCESSING"
    BY <1>5 DEF InTime, WorkerKnows, Fetch, At
  <2>2. ClaimableIsFree'
    BY <1>3, <1>5, <2>1, BusyEvent DEF ClaimableIsFree, InTime
  <2>3. WorkerKnows(w)'
    BY <1>2, <1>3, <2>1 DEF WorkerKnows, At
  <2> QED
    BY <1>3, <1>5, <2>2, <2>3 DEF StoriesAgree, InTime
<1> QED
  BY <1>1, <1>2, <1>3, <1>4, <1>5, RoundKeeps

\* The worker that stores the result still holds its claim.
LEMMA StoreKeeps == ASSUME ImportTyped, NEW w \in Workers, Store(w) PROVE Kept
<1>1. faults' \in [FaultKinds -> Nat] /\ (Late => Late')
  BY FaultsGrow, NoFault DEF Store, FaultKinds
<1>2. Goes(w, "unlocking") \/ Goes(w, "failing")
  BY DEF Store, Fails
<1>3. /\ worker' \in [Workers -> Rounds] /\ worker'[w].pc \in {"unlocking", "failing"}
      /\ \A v \in Workers \ {w} : worker'[v] = worker[v]
  BY <1>2, WorkerGoes DEF Places
<1>4. ~At(w, "idle") /\ UNCHANGED <<upload, locked>>
  BY DEF Store, At, api
<1>5. \/ UNCHANGED <<import, event>>
      \/ /\ import' \in Imports /\ import'.status = "READY" /\ import'.file = "VALIDATED"
         /\ event' \in Events /\ event'.status = "PROCESSED"
         /\ event'.stale = event.stale /\ event'.waits = event.waits
  <2>1. worker[w].rows \in Clean \cup {Faulty, NoRows}
    BY DEF ImportTyped, Rounds
  <2>2. ASSUME Stored(w)
        PROVE  import' \in Imports /\ import'.status = "READY" /\ import'.file = "VALIDATED"
    BY <2>1, <2>2 DEF Stored, Parsed, Imports
  <2>3. ASSUME Stored(w)
        PROVE  /\ event' \in Events /\ event'.status = "PROCESSED"
               /\ event'.stale = event.stale /\ event'.waits = event.waits
    BY <2>3 DEF Stored, ImportTyped, Events
  <2> QED
    BY <2>2, <2>3 DEF Store
<1>6. event' \in Events /\ import' \in Imports
  BY <1>5 DEF ImportTyped
<1>7. ASSUME InTime PROVE ClaimableIsFree' /\ WorkerKnows(w)' /\ StoriesAgree'
  <2>1. event.status = "PROCESSING" /\ ~event.waits
    BY <1>7 DEF InTime, WorkerKnows, ClaimableIsFree, Store, At
  <2>2. ClaimableIsFree'
    BY <1>4, <1>5, <1>7, <2>1, BusyEvent, Zenon DEF ClaimableIsFree, Store, At
  <2>3. WorkerKnows(w)'
    BY <1>3, <1>5, <2>1 DEF WorkerKnows, At
  <2>4. StoriesAgree'
    BY <1>5, <1>7, <2>1 DEF StoriesAgree, InTime
  <2> QED
    BY <2>2, <2>3, <2>4
<1> QED
  BY <1>1, <1>3, <1>4, <1>6, <1>7, RoundKeeps

\* Whatever fail overwrites, it writes import and event together.
LEMMA FailKeeps == ASSUME ImportTyped, NEW w \in Workers, Fail(w) PROVE Kept
<1>1. faults' \in [FaultKinds -> Nat] /\ (Late => Late')
  BY FaultsGrow, NoFault DEF Fail, FaultKinds
<1>2. /\ worker' \in [Workers -> Rounds] /\ worker'[w].pc = "unlocking"
      /\ \A v \in Workers \ {w} : worker'[v] = worker[v]
  BY WorkerGoes DEF Fail, Places
<1>3. ~At(w, "idle") /\ UNCHANGED <<upload, locked>>
  BY DEF Fail, At, api
<1>4. \/ UNCHANGED <<import, event>>
      \/ /\ import'.status = "FAILED" /\ import'.file = "REJECTED"
         /\ event'.status = "FAILED" /\ event'.stale = event.stale /\ event'.waits = event.waits
      \/ /\ import'.status = "QUEUED"
         /\ event'.status = "PENDING" /\ ~event'.stale /\ event'.waits
  <2>1. CASE GivenUp(w) /\ IsTerminal(w)
    BY <2>1 DEF GivenUp, ImportTyped, Events, Imports
  <2>2. CASE GivenUp(w) /\ ~IsTerminal(w)
    BY <2>2 DEF GivenUp, ImportTyped, Events, Imports
  <2> QED
    BY <2>1, <2>2 DEF Fail
<1>5. event' \in Events /\ import' \in Imports
  <2>1. CASE GivenUp(w) /\ IsTerminal(w)
    BY <2>1 DEF GivenUp, ImportTyped, Events, Imports
  <2>2. CASE GivenUp(w) /\ ~IsTerminal(w)
    BY <2>2 DEF GivenUp, ImportTyped, Events, Imports
  <2>3. CASE UNCHANGED <<import, event>>
    BY <2>3 DEF ImportTyped
  <2> QED
    BY <2>1, <2>2, <2>3 DEF Fail
<1>6. ASSUME InTime PROVE ClaimableIsFree' /\ WorkerKnows(w)' /\ StoriesAgree'
  <2>1. event.status \in {"PROCESSING", "PROCESSED"} /\ ~event.waits
    BY <1>6 DEF InTime, WorkerKnows, ClaimableIsFree, Fail, At
  <2>2. ~event.stale /\ upload \notin {"none", "stored"}
    BY <1>3, <1>6, BusyEvent
  <2>3. ClaimableIsFree'
    BY <1>3, <1>4, <2>1, <2>2, Zenon DEF ClaimableIsFree
  <2>4. WorkerKnows(w)'
    BY <1>2 DEF WorkerKnows, At
  <2>5. StoriesAgree'
    BY <1>4, <1>6, <2>1 DEF StoriesAgree, InTime
  <2> QED
    BY <2>3, <2>4, <2>5
<1> QED
  BY <1>1, <1>2, <1>3, <1>5, <1>6, RoundKeeps

\* A worker that leaves, at the end of its round or killed within it.
LEMMA UnlockOrCrashKeeps ==
  ASSUME ImportTyped, NEW w \in Workers, Unlock(w) \/ Crash(w)
  PROVE  Kept
<1>1. faults' \in [FaultKinds -> Nat] /\ (Late => Late')
  BY FaultsGrow, NoFault DEF Unlock, Crash, FaultKinds
<1>2. /\ worker' \in [Workers -> Rounds] /\ worker'[w].pc = "idle"
      /\ \A v \in Workers \ {w} : worker'[v] = worker[v]
  BY WorkerRests DEF Unlock, Crash
<1>3. ~At(w, "idle") /\ UNCHANGED <<upload, import, event>>
  BY DEF Unlock, Crash, At, api
<1>4. event' \in Events /\ import' \in Imports
  BY <1>3 DEF ImportTyped
<1>5. ASSUME InTime PROVE ClaimableIsFree' /\ WorkerKnows(w)' /\ StoriesAgree'
  <2>1. AllRest'
    BY <1>2, <1>3, <1>5, OthersRest DEF AllRest, At, InTime
  <2>2. ClaimableIsFree'
    BY <1>3, <1>5, <2>1, BusyEvent DEF ClaimableIsFree, InTime
  <2>3. WorkerKnows(w)'
    BY <1>2 DEF WorkerKnows, At
  <2> QED
    BY <1>3, <1>5, <2>2, <2>3 DEF StoriesAgree, InTime
<1> QED
  BY <1>1, <1>2, <1>3, <1>4, <1>5, RoundKeeps

-----------------------------------------------------------------------------
(***************************************************************************)
(* The invariant and what follows from it.                                 *)
(***************************************************************************)
\* Every step keeps the invariant.
THEOREM ImportNextHolds == ImportInv /\ [ImportNext]_importVars => ImportInv'
<1> SUFFICES ASSUME ImportInv, [ImportNext]_importVars PROVE Kept
  BY DEF ImportInv, Kept
<1>1. ImportTyped
  BY DEF ImportInv
<1>2. CASE UNCHANGED importVars
  BY <1>1, <1>2 DEF importVars, Kept, ImportTyped, Late, Suffered, InTime, ClaimableIsFree, AllRest,
                    At,
                    WorkerKnows, OneAtWork, StoriesAgree
<1>3. ASSUME NEW w \in Workers, Step(w) PROVE Kept
  BY <1>1, <1>3, ClaimKeeps, LockKeeps, YieldKeeps, ReadKeeps, SkipKeeps, StartKeeps, FetchKeeps,
     StoreKeeps, FailKeeps, UnlockOrCrashKeeps DEF Step
<1>4. ASSUME NEW w \in Workers, Crash(w) PROVE Kept
  BY <1>1, <1>4, UnlockOrCrashKeeps
<1> QED
  BY <1>1, <1>2, <1>3, <1>4, PutKeeps, CreateImportKeeps, RemoveKeeps, ConfirmStepKeeps,
     LockExpiresKeeps, RetryDueKeeps, ClaimExpiresKeeps DEF ImportNext

\* The invariant holds of every behaviour of the import, its requests and
\* its workers.
THEOREM ImportInvariance == ImportSpec => []ImportInv
<1>1. ImportInit => ImportInv
  BY ImportInitHolds
<1>2. ImportInv /\ [ImportNext]_importVars => ImportInv'
  BY ImportNextHolds
<1> QED
  BY <1>1, <1>2, PTL DEF ImportSpec

\* Import, file and event tell the same story for any number of workers,
\* attempts and faults, unless a worker overslept.
THEOREM StoriesAlwaysAgree == ImportSpec => []ImportMatchesEvent
<1>1. ImportInv => ImportMatchesEvent
  BY DEF ImportInv, InTime, Late, ImportMatchesEvent
<1> QED
  BY <1>1, ImportInvariance, PTL

\* The row of the event alone keeps workers apart.
THEOREM WorkersAreApart == ImportSpec => []OneWorkerParses
<1>1. ImportInv => OneWorkerParses
  BY DEF ImportInv, InTime, Late, OneWorkerParses
<1> QED
  BY <1>1, ImportInvariance, PTL

-----------------------------------------------------------------------------
(***************************************************************************)
(* What was confirmed is final.  For this a worker whose round has failed  *)
(* must still hold its claim: it does, until a reply is lost.              *)
(***************************************************************************)
Lost == Suffered({"overlap", "reply"})

FailingHoldsClaim == \A w \in Workers : At(w, "failing") => event.status = "PROCESSING"

\* Every step counts at most one fault.
LEMMA StepFaults ==
  ASSUME [ImportNext]_importVars
  PROVE  UNCHANGED faults \/ \E kind \in FaultKinds : Fault(kind)
<1>1. CASE Put \/ CreateImport \/ RemoveFile \/ CrashUpload \/ Confirm
  BY <1>1 DEF Put, CreateImport, RemoveFile, CrashUpload, Confirm, FaultKinds
<1>2. CASE RetryDue \/ ClaimExpires \/ LockExpires
  BY <1>2 DEF RetryDue, ClaimExpires, LockExpires, FaultKinds
<1>3. ASSUME NEW w \in Workers, Step(w) \/ Crash(w)
      PROVE  UNCHANGED faults \/ \E kind \in FaultKinds : Fault(kind)
  BY <1>3 DEF Step, Crash, Claim, LockImport, Yield, Read, Skip, Start, Fetch, Store, Fail, Unlock,
              FaultKinds
<1>4. CASE UNCHANGED importVars
  BY <1>4 DEF importVars
<1> QED
  BY <1>1, <1>2, <1>3, <1>4 DEF ImportNext

\* A reply once lost stays lost.
LEMMA LostStays == ASSUME ImportTyped, [ImportNext]_importVars PROVE Lost => Lost'
BY StepFaults DEF ImportTyped, Fault, Lost, Suffered, FaultKinds

\* Losing a reply is such a loss.
LEMMA ReplyIsLost == ASSUME ImportTyped, Fault("reply") PROVE Lost'
BY DEF ImportTyped, Fault, Lost, Suffered, FaultKinds

\* Whoever has overslept counts as lost, too.
LEMMA LostIsLate == Late => Lost
BY DEF Late, Lost, Suffered

\* A worker whose round has failed holds its claim until a reply is lost.
LEMMA FailingStays ==
  ASSUME ImportInv, ImportInv', [ImportNext]_importVars, ~Lost', FailingHoldsClaim
  PROVE  FailingHoldsClaim'
<1>1. ImportTyped /\ InTime /\ InTime'
  <2>1. ~Late /\ ~Late'
    BY LostStays DEF ImportInv, Late, Lost, Suffered
  <2> QED
    BY <2>1 DEF ImportInv
<1>2. ASSUME UNCHANGED worker, event'.status = event.status
      PROVE  FailingHoldsClaim'
  BY <1>2 DEF FailingHoldsClaim, At
<1>3. CASE CreateImport
  <2>1. AllRest /\ UNCHANGED worker
    BY <1>1, <1>3 DEF CreateImport, InTime, ClaimableIsFree
  <2> QED
    BY <2>1 DEF FailingHoldsClaim, AllRest, At
<1>4. CASE Put \/ RemoveFile \/ CrashUpload \/ Confirm \/ LockExpires
  BY <1>2, <1>4 DEF Put, RemoveFile, CrashUpload, Confirm, LockExpires
<1>5. CASE RetryDue \/ ClaimExpires
  BY <1>1, <1>2, <1>5 DEF RetryDue, ClaimExpires, ImportTyped, Events
<1>6. CASE UNCHANGED importVars
  BY <1>2, <1>6 DEF importVars
<1>7. ASSUME NEW w \in Workers, worker'[w].pc # "failing", \A v \in Workers \ {w} : At(v, "idle"),
             \A v \in Workers \ {w} : worker'[v] = worker[v]
      PROVE  FailingHoldsClaim'
  BY <1>7 DEF FailingHoldsClaim, At
<1>8. ASSUME NEW w \in Workers, Step(w) \/ Crash(w) PROVE FailingHoldsClaim'
  <2>1. CASE Claim(w)
    <3>1. AllRest
      BY <1>1, <2>1 DEF Claim, Claimable, InTime, ClaimableIsFree
    <3>2. worker'[w].pc # "failing" /\ \A v \in Workers \ {w} : worker'[v] = worker[v]
      BY <1>1, <2>1 DEF Claim, At, ImportTyped, Rounds
    <3> QED
      BY <3>1, <3>2, <1>7 DEF AllRest
  <2>2. CASE ~At(w, "idle")
    <3>1. \A v \in Workers \ {w} : At(v, "idle")
      BY <1>1, <2>2, OthersRest DEF InTime
    <3>2. CASE LockImport(w)
      BY <1>1, <1>7, <3>1, <3>2, WorkerGoes, WorkerRests DEF LockImport, Places
    <3>3. CASE Yield(w) \/ Unlock(w) \/ Crash(w)
      BY <1>1, <1>7, <3>1, <3>3, WorkerRests DEF Yield, Unlock, Crash
    <3>4. CASE Fail(w)
      BY <1>1, <1>7, <3>1, <3>4, WorkerGoes DEF Fail, Places
    <3>5. CASE Read(w) \/ Start(w) \/ Fetch(w)
      <4>1. event.status = "PROCESSING" /\ UNCHANGED event
        BY <1>1, <3>5 DEF InTime, WorkerKnows, Read, Start, Fetch, At
      <4> QED
        BY <4>1 DEF FailingHoldsClaim
    <3>6. CASE Skip(w)
      BY <1>1, <3>6 DEF InTime, WorkerKnows, Skip
    <3>7. CASE Store(w)
      <4>1. CASE Goes(w, "unlocking")
        BY <1>1, <1>7, <3>1, <4>1, WorkerGoes DEF Places
      <4>2. CASE UNCHANGED event
        <5>1. event.status = "PROCESSING"
          BY <1>1, <3>7 DEF InTime, WorkerKnows, Store, At
        <5> QED
          BY <4>2, <5>1 DEF FailingHoldsClaim
      <4> QED
        BY <1>1, <3>7, <4>1, <4>2, ReplyIsLost DEF Store
    <3> QED
      BY <1>8, <2>1, <3>2, <3>3, <3>4, <3>5, <3>6, <3>7 DEF Step
  <2>3. CASE At(w, "idle")
    BY <1>8, <2>1, <2>3 DEF Step, Crash, LockImport, Yield, Read, Skip, Start, Fetch, Store, Fail,
                            Unlock, At
  <2> QED
    BY <2>2, <2>3
<1> QED
  BY <1>3, <1>4, <1>5, <1>6, <1>8 DEF ImportNext

\* What was confirmed is not parsed again and keeps its rows.  Its event is
\* PROCESSED, and every place where a worker writes the import belongs to a
\* claim that is still open.
THEOREM ConfirmedStays == ImportSpec => ConfirmedIsFinal
<1> DEFINE J == ImportInv /\ (Lost \/ FailingHoldsClaim)
<1>1. ImportInit => J
  BY ImportInitHolds DEF ImportInit, FailingHoldsClaim, Resting, At
<1>2. J /\ [ImportNext]_importVars => J'
  BY ImportNextHolds, FailingStays, LostStays DEF ImportInv
<1>3. J /\ [ImportNext]_importVars =>
        [import.status = "CONFIRMED" =>
           import' = import \/ Suffered({"overlap", "reply"})]_importVars
  <2> SUFFICES ASSUME J, ImportNext, import.status = "CONFIRMED", ~Lost
               PROVE  import' = import
    BY DEF Lost, importVars
  <2>1. ImportTyped /\ InTime /\ FailingHoldsClaim
    BY LostIsLate DEF ImportInv
  <2>2. event.status = "PROCESSED"
    BY <2>1 DEF InTime, StoriesAgree, NoImport, ImportTyped, Events
  <2>3. CASE CreateImport
    BY <2>1, <2>2, <2>3 DEF CreateImport, InTime, ClaimableIsFree
  <2>4. CASE Put \/ RemoveFile \/ CrashUpload \/ Confirm \/ RetryDue \/ ClaimExpires \/ LockExpires
    BY <2>4 DEF Put, RemoveFile, CrashUpload, Confirm, RetryDue, ClaimExpires, LockExpires
  <2>5. ASSUME NEW w \in Workers, Step(w) \/ Crash(w) PROVE import' = import
    <3>1. CASE Start(w) \/ Store(w) \/ Fail(w)
      BY <2>1, <2>2, <3>1 DEF Start, Store, Fail, InTime, WorkerKnows, FailingHoldsClaim, At
    <3> QED
      BY <2>5, <3>1 DEF Step, Crash, Claim, LockImport, Yield, Read, Skip, Fetch, Unlock
  <2> QED
    BY <2>3, <2>4, <2>5 DEF ImportNext
<1> QED
  BY <1>1, <1>2, <1>3, PTL DEF ImportSpec, ConfirmedIsFinal

-----------------------------------------------------------------------------
(***************************************************************************)
(* One draft.  Confirming is the only step that makes one, and the unique  *)
(* index refuses the second, whatever the status of the import says by     *)
(* then: it may have been written over by a worker that was late.          *)
(***************************************************************************)

\* An import makes one draft revision at most, for any number of workers,
\* faults and overslept claims.
THEOREM OneDraft == ImportSpec => []AtMostOneDraft
<1> DEFINE Few == drafts = << >> \/ Len(drafts) = 1
<1>1. ImportInit => Few
  BY DEF ImportInit
<1>2. Few /\ [ImportNext]_importVars => Few'
  <2> SUFFICES ASSUME Few, [ImportNext]_importVars PROVE Few'
    OBVIOUS
  <2>1. CASE Confirm
    <3>1. drafts' = Append(<< >>, import.rows)
      BY <2>1 DEF Confirm, Unique
    <3> QED  BY <3>1
  <2>2. CASE UNCHANGED drafts
    BY <2>2
  <2>3. Confirm \/ UNCHANGED drafts
    BY DEF ImportNext, Step, importVars, api, Put, CreateImport, RemoveFile, CrashUpload, RetryDue,
       ClaimExpires,
       LockExpires, Claim, LockImport, Yield, Read, Skip, Start, Fetch, Store, Fail, Unlock, Crash
  <2> QED  BY <2>1, <2>2, <2>3
<1>3. Few => AtMostOneDraft
  BY DEF AtMostOneDraft
<1> QED
  BY <1>1, <1>2, <1>3, PTL DEF ImportSpec
=============================================================================
