------------------------- MODULE EngineeringTables --------------------------
(***************************************************************************)
(* The rows behind projects, the item master and bills of materials, and   *)
(* the transactions that work on them at READ COMMITTED.                   *)
(*                                                                         *)
(* A command is one request.  Its transaction goes through the plan of its *)
(* handler: row locks it waits for, and a check of what it reads at that   *)
(* point; a handler that locks nothing has checked what it read when it    *)
(* begins.  The writes become visible, and the locks are released, when    *)
(* the last action commits.  A row of version 0 does not exist; whenever a *)
(* handler compares expectedVersion with a row it reads, the version in    *)
(* question is that of the row read.                                       *)
(***************************************************************************)
EXTENDS RowLocks, FiniteSets, FiniteSetsExt

CONSTANTS
    Tx,                         \* connections to the database
    Agendas,                    \* bound: which commands are used together,
                                \* and how many begin at most
    Databases,                  \* what the tables hold at the start
    Projects, ProductCategories,
    Memberships, Suppliers,     \* active memberships; those of suppliers
    Milestones, Packages,
    Dates,                      \* bound: the days plans use
    ItemCategories, Units, Attributes, Items,
    ItemCategoryOf,             \* category of an attribute or an item
    DataTypes, MaxPrecision,    \* bound: types and precisions in use
    Revisions,                  \* BOM revisions, named as their imports
    ProjectOf,                  \* the project of a revision's BOM
    RowsOf                      \* the units of an import's items

ASSUME EngineeringAssumption ==
    /\ IsFiniteSet(Memberships) /\ IsFiniteSet(Attributes) /\ IsFiniteSet(Revisions)
    /\ Projects \cap Revisions = {} /\ "none" \notin Projects \cup Units
    /\ MaxPrecision \in Nat
    /\ \A a \in Agendas : a.most \in Nat
    /\ Dates \subseteq Nat
    /\ Suppliers \subseteq Memberships
    /\ ItemCategoryOf \in [Attributes \cup Items -> ItemCategories]
    /\ DataTypes \subseteq {"TEXT", "NUMBER", "BOOLEAN"}
    /\ ProjectOf \in [Revisions -> Projects]
    /\ \A r \in Revisions :
          DOMAIN RowsOf[r] \subseteq Items /\ \A i \in DOMAIN RowsOf[r] : RowsOf[r][i] \in Units

VARIABLES
    productCategory, project, member, milestone, package,
    itemCategory, unit, attribute, item,
    imports, revision, line,
    history,        \* transition rows of projects and revisions, in order
    tx,             \* what each connection is doing
    agenda,         \* the bound of this behaviour
    begun           \* how many commands have begun

planRows == <<productCategory, project, member, milestone, package>>
itemRows == <<itemCategory, unit, attribute, item>>
bomRows == <<imports, revision, line>>
vars == <<planRows, itemRows, bomRows, history, tx, agenda, begun>>

None == "none"

Windows == {w \in [from : Dates, to : Dates] : w.from <= w.to}

Within(w, from, to) == w.from <= from /\ to <= w.to

Terminal == {"COMPLETED", "CANCELLED"}

Open(p) == project[p].state \notin Terminal

Exists(row) == row.version > 0

Next1(row) == row.version + 1

Updated(row) == [row EXCEPT !.version = @ + 1]

-----------------------------------------------------------------------------
Idle == [command |-> [op |-> None], pos |-> 0, seen |-> None, overtaken |-> FALSE]

Running(t) == tx[t].command.op # None

\* A transaction ends; the others that are open then work with what they read
\* before it.  "overtaken" records it for the properties and nothing else.
Done(t, committed) ==
    tx' = [u \in Tx |-> IF u = t THEN Idle
                        ELSE IF Running(u) /\ committed
                             THEN [tx[u] EXCEPT !.overtaken = TRUE]
                             ELSE tx[u]]
=============================================================================
