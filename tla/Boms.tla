-------------------------------- MODULE Boms --------------------------------
(***************************************************************************)
(* The revisions of a project's bill of materials from the import that is  *)
(* confirmed to their release: the commands of boms.repository.ts.  The    *)
(* model has one BOM in a project.                                         *)
(***************************************************************************)
EXTENDS EngineeringTables

\* bom-lifecycle.ts, transitions.
CanTransitionBom(source, target) ==
    \/ source = "DRAFT" /\ target \in {"IN_REVIEW", "CANCELLED"}
    \/ source = "IN_REVIEW" /\ target \in {"RELEASED", "CANCELLED"}
    \/ source = "RELEASED" /\ target = "SUPERSEDED"

BomCommands ==
    [op : {"confirmImport", "review", "cancel", "supersede", "release"},
     revision : Revisions]
    \cup UNION {[op : {"updateLine"}, revision : {r}, item : DOMAIN RowsOf[r],
                 unit : Units, places : 0..MaxPrecision] : r \in Revisions}

RevisionsOf(p) == {r \in Revisions : ProjectOf[r] = p /\ Exists(revision[r])}

Target(op) ==
    CASE op = "review" -> "IN_REVIEW"
      [] op = "cancel" -> "CANCELLED"
      [] op = "supersede" -> "SUPERSEDED"
      [] OTHER -> "RELEASED"

Sources(op) ==
    CASE op = "review" -> {"DRAFT"}
      [] op = "cancel" -> {"DRAFT", "IN_REVIEW"}
      [] OTHER -> {"RELEASED"}

UnitOfItem(i) == unit[item[i].unit]

-----------------------------------------------------------------------------
(* What the handlers read before their first lock. *)

UpdateLineBegins(c) ==
    /\ c.op = "updateLine"
    /\ Exists(revision[c.revision]) /\ revision[c.revision].status = "DRAFT"
    /\ item[c.item].active /\ UnitOfItem(c.item).active
    /\ c.unit = item[c.item].unit
    /\ c.places <= UnitOfItem(c.item).precision

BomCommandBegins(c) ==
    \/ c.op = "confirmImport" /\ imports[c.revision] # None
    \/ c.op \in {"review", "cancel", "supersede", "release"} /\ Exists(revision[c.revision])
    \/ UpdateLineBegins(c)

BomRow(c) ==
    IF c.op = "updateLine" THEN line[c.revision][c.item] ELSE revision[c.revision]

-----------------------------------------------------------------------------
(* Locks. *)

ConfirmPlan(c) ==
    LET p == ProjectOf[c.revision]
    IN <<Lock("imports", c.revision, "UPDATE"), Lock("projects", p, "UPDATE"), Check>>
       \o (IF RevisionsOf(p) # {} THEN <<Lock("boms", p, "UPDATE")>> ELSE <<>>)

\* The revision first, and the BOM when its version is counted up.
TransitionPlan(c) ==
    <<Lock("revisions", c.revision, "UPDATE"), Check,
      Lock("boms", ProjectOf[c.revision], "UPDATE")>>

\* Slip: the project is read and not locked.
ReleasePlanWithoutProject(c) ==
    LET p == ProjectOf[c.revision]
    IN <<Lock("boms", p, "UPDATE")>> \o LockAll("revisions", RevisionsOf(p), "UPDATE")
       \o <<Check>>

ReleasePlan(c) ==
    LET p == ProjectOf[c.revision]
    IN <<Lock("boms", p, "UPDATE")>> \o LockAll("revisions", RevisionsOf(p), "UPDATE")
       \o <<Lock("projects", p, "UPDATE"), Check>>

\* The statement that changes a line, with its trigger; then the commit.
UpdateLinePlan(c) == <<Lock("lines", <<c.revision, c.item>>, "UPDATE"), Check>>

BomPlan(c) ==
    CASE c.op = "confirmImport" -> ConfirmPlan(c)
      [] c.op \in {"review", "cancel", "supersede"} -> TransitionPlan(c)
      [] c.op = "release" -> ReleasePlan(c)
      [] OTHER -> UpdateLinePlan(c)

-----------------------------------------------------------------------------
(* What the handlers require of what they read under their locks. *)

\* The item of every row is active, with the unit validation found.
ConfirmAllowed(c) ==
    /\ c.op = "confirmImport"
    /\ imports[c.revision] = "READY"
    /\ Open(ProjectOf[c.revision])
    /\ \A i \in DOMAIN RowsOf[c.revision] :
          item[i].active /\ UnitOfItem(i).active /\ item[i].unit = RowsOf[c.revision][i]

TransitionAllowed(c) ==
    /\ c.op \in {"review", "cancel", "supersede"}
    /\ revision[c.revision].status \in Sources(c.op)
    /\ CanTransitionBom(revision[c.revision].status, Target(c.op))
    /\ c.op = "review" => DOMAIN line[c.revision] # {}
    /\ Open(ProjectOf[c.revision])

\* Slip: lines whose items have gone are not counted.
AnyLines(r) == TRUE

LinesAvailable(r) ==
    \A i \in DOMAIN line[r] : item[i].active /\ unit[line[r][i].unit].active

ReleaseAllowed(c) ==
    /\ c.op = "release"
    /\ LinesAvailable(c.revision)
    /\ revision[c.revision].status = "IN_REVIEW"
    /\ DOMAIN line[c.revision] # {}
    /\ Open(ProjectOf[c.revision])

\* The trigger on lines.
LineGuard(c) ==
    /\ c.op = "updateLine"
    /\ revision[c.revision].status = "DRAFT"
    /\ item[c.item].unit = c.unit

BomCommandAllowed(c) ==
    ConfirmAllowed(c) \/ TransitionAllowed(c) \/ ReleaseAllowed(c) \/ LineGuard(c)

-----------------------------------------------------------------------------
(* What each handler writes. *)

\* The next number, and the lines, whose units the trigger compares again.
ConfirmImport(c) ==
    LET r == c.revision
        numbers == {revision[s].number : s \in RevisionsOf(ProjectOf[r])}
    IN /\ c.op = "confirmImport"
       /\ \A i \in DOMAIN RowsOf[r] : item[i].unit = RowsOf[r][i]
       /\ imports' = [imports EXCEPT ![r] = "CONFIRMED"]
       /\ revision' = [revision EXCEPT ![r] =
              [status |-> "DRAFT", number |-> Max(numbers \cup {0}) + 1, version |-> 1]]
       /\ line' = [line EXCEPT ![r] =
              [i \in DOMAIN RowsOf[r] |-> [unit |-> RowsOf[r][i], places |-> 0, version |-> 1]]]
       /\ UNCHANGED history

TransitionRevision(c, seen) ==
    /\ c.op \in {"review", "cancel", "supersede"}
    /\ revision' = [revision EXCEPT ![c.revision] =
           Updated([@ EXCEPT !.status = Target(c.op)])]
    /\ history' = [history EXCEPT ![c.revision] =
           Append(@, [source |-> seen.status, target |-> Target(c.op)])]
    /\ UNCHANGED <<imports, line>>

\* A unique index admits one released revision of a BOM.
ReleaseRevision(c) ==
    LET r == c.revision
        previous == {s \in RevisionsOf(ProjectOf[r]) \ {r} : revision[s].status = "RELEASED"}
        Moves(s) == IF s = r THEN "RELEASED" ELSE "SUPERSEDED"
    IN /\ c.op = "release"
       /\ revision' = [s \in Revisions |->
              IF s \in previous \cup {r}
              THEN Updated([revision[s] EXCEPT !.status = Moves(s)])
              ELSE revision[s]]
       /\ history' = [x \in DOMAIN history |->
              IF x \in previous \cup {r}
              THEN Append(history[x], [source |-> revision[x].status, target |-> Moves(x)])
              ELSE history[x]]
       /\ UNCHANGED <<imports, line>>

UpdateLine(c) ==
    /\ c.op = "updateLine"
    /\ line' = [line EXCEPT ![c.revision][c.item] =
           [unit |-> c.unit, places |-> c.places, version |-> Next1(@)]]
    /\ UNCHANGED <<imports, revision, history>>
=============================================================================
