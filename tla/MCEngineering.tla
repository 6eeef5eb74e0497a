--------------------------- MODULE MCEngineering ----------------------------
(***************************************************************************)
(* One project with two managers, a milestone and a bill of materials with *)
(* a released, a reviewed and an imported revision.  Its item holds a      *)
(* value of an attribute that may become required, or has been deactivated *)
(* and leaves its category without active items.  Each behaviour has the   *)
(* commands of one agenda.                                                 *)
(***************************************************************************)
EXTENDS Engineering, TLC

CONSTANTS p1, p2, k1, k2, mgr, lead, vendor, ms1, ms2, wp1, wp2, cat, other, kg, pc, new, a1, a2, i1, i2, r1, r2, r3

Agenda(most, commands) == [most |-> most, commands |-> commands]

MCAgendas ==
    { Agenda(3, {"updateProject", "transitionProject", "createMilestone", "updateMilestone",
                 "createWorkPackage", "updateWorkPackage"}),
      Agenda(3, {"createProductCategory", "updateProductCategory", "createProject"}),
      Agenda(3, {"addProjectMember", "updateProjectMember"}),
      Agenda(2, {"updateItemCategory", "createItem", "updateItem", "deactivateItem",
                 "createSpecificationAttribute", "updateSpecificationAttribute"}),
      Agenda(2, {"createItemCategory", "createUnitOfMeasure", "updateUnitOfMeasure",
                 "updateItem", "createSpecificationAttribute",
                 "updateSpecificationAttribute"}),
      Agenda(3, {"confirmImport", "review", "cancel", "supersede", "release",
                 "updateLine", "transitionProject", "deactivateItem"}) }

MCItemCategoryOf == [x \in {a1, a2, i1, i2} |-> cat]
MCProjectOf == [r \in {r1, r2, r3} |-> p1]
MCRowsOf == [r \in {r1, r2, r3} |-> i1 :> kg]

Number(u) == [type |-> "NUMBER", precision |-> 1, unit |-> u]

Manager(version) == [role |-> "PROJECT_MANAGER", status |-> "ACTIVE", version |-> version]
Unit(version) == [active |-> version > 0, precision |-> 1, version |-> version]

\* i2 has not been created.
ItemsWith(active, values, version) ==
    i1 :> [active |-> active, unit |-> kg, values |-> values, version |-> version]
    @@ i2 :> [active |-> FALSE, unit |-> kg, values |-> <<>>, version |-> 0]

Holding == ItemsWith(TRUE, a1 :> [type |-> "NUMBER", places |-> 0], 1)
Deactivated == ItemsWith(FALSE, <<>>, 2)

MCDatabases ==
    { [productCategory |-> [k \in {k1, k2} |->
            [active |-> k = k1, version |-> IF k = k1 THEN 1 ELSE 0]],
       project |-> p1 :> [state |-> "PLANNED", from |-> 1, to |-> 2, version |-> 1]
                   @@ p2 :> [state |-> "DRAFT", from |-> 1, to |-> 1, version |-> 0],
       member |-> [p \in {p1, p2} |-> [x \in {mgr, lead, vendor} |->
            IF p = p1 /\ x # vendor THEN Manager(1)
            ELSE [role |-> None, status |-> None, version |-> 0]]],
       milestone |-> ms1 :> [project |-> p1, date |-> 1, version |-> 1]
                     @@ ms2 :> [project |-> None, date |-> 1, version |-> 0],
       package |-> wp1 :> [project |-> p1, from |-> 1, to |-> 1, milestone |-> ms1, version |-> 1]
                   @@ wp2 :> [project |-> None, from |-> 1, to |-> 1, milestone |-> None, version |-> 0],
       itemCategory |-> [c \in {cat, other} |->
            [active |-> c = cat, version |-> IF c = cat THEN 1 ELSE 0]],
       unit |-> [u \in {kg, pc, new} |-> Unit(IF u = new THEN 0 ELSE 1)],
       attribute |-> [a \in {a1, a2} |->
            [active |-> a = a1, required |-> FALSE, shape |-> Number(kg),
             version |-> IF a = a1 THEN 1 ELSE 0]],
       item |-> items,
       import |-> [r \in {r1, r2, r3} |-> IF r = r3 THEN "READY" ELSE "CONFIRMED"],
       revision |-> r1 :> [status |-> "RELEASED", number |-> 1, version |-> 3]
                    @@ r2 :> [status |-> "IN_REVIEW", number |-> 2, version |-> 2]
                    @@ r3 :> [status |-> "DRAFT", number |-> 0, version |-> 0],
       line |-> [r \in {r1, r2, r3} |->
            IF r = r3 THEN <<>> ELSE i1 :> [unit |-> kg, places |-> 0, version |-> 1]]] :
      items \in {Holding, Deactivated} }

Interchangeable == Permutations(Tx)
=============================================================================
