------------------------------- MODULE Items --------------------------------
(***************************************************************************)
(* The item master: item categories, units, specification attributes and   *)
(* items.  Attributes and items are validated by the service on what it    *)
(* reads first; the repository then locks the category and the unit and    *)
(* validates again, but not everything.                                    *)
(***************************************************************************)
EXTENDS EngineeringTables

Precisions == 0..MaxPrecision

\* The shape of a definition: only numbers have a precision and may have a unit.
Shapes ==
    {s \in [type : DataTypes, precision : Precisions, unit : Units \cup {None}] :
        s.type # "NUMBER" => s.precision = 0 /\ s.unit = None}

\* What a client gives as specification values: attributes with a type and as
\* many decimal places; none of an attribute left out.
Values == UNION {[A -> {v \in [type : DataTypes, places : Precisions] :
                           v.type # "NUMBER" => v.places = 0}] : A \in SUBSET Attributes}

ItemOperations ==
    {"createItemCategory", "updateItemCategory", "createUnitOfMeasure",
     "updateUnitOfMeasure", "createSpecificationAttribute",
     "updateSpecificationAttribute", "createItem", "updateItem", "deactivateItem"}

ItemCommands ==
    [op : {"createItemCategory"}, category : ItemCategories]
    \cup [op : {"updateItemCategory"}, category : ItemCategories, active : BOOLEAN]
    \cup [op : {"createUnitOfMeasure"}, unit : Units, precision : Precisions]
    \cup [op : {"updateUnitOfMeasure"}, unit : Units, precision : Precisions,
          active : BOOLEAN]
    \cup [op : {"createSpecificationAttribute"}, attribute : Attributes,
          shape : Shapes, required : BOOLEAN]
    \cup [op : {"updateSpecificationAttribute"}, attribute : Attributes,
          shape : Shapes, required : BOOLEAN, active : BOOLEAN]
    \cup [op : {"createItem", "updateItem"}, item : Items, unit : Units, values : Values]
    \cup [op : {"deactivateItem"}, item : Items]

AttributesOf(category) ==
    {a \in Attributes : Exists(attribute[a]) /\ ItemCategoryOf[a] = category}

ActiveItemsOf(category) ==
    {i \in Items : item[i].active /\ ItemCategoryOf[i] = category}

Holders(a) == {i \in Items : a \in DOMAIN item[i].values}

-----------------------------------------------------------------------------
(* item-validation.ts. *)

DefinitionValid(s) ==
    s.type = "NUMBER" /\ s.unit # None => s.precision <= unit[s.unit].precision

ValueFits(a, v) ==
    /\ v.type = attribute[a].shape.type
    /\ v.places <= attribute[a].shape.precision

\* Only active attributes of the category, and all its required ones.
Covers(category, attributes) ==
    /\ \A a \in attributes : a \in AttributesOf(category) /\ attribute[a].active
    /\ \A a \in AttributesOf(category) :
          attribute[a].active /\ attribute[a].required => a \in attributes

ValuesValid(category, values) ==
    /\ Covers(category, DOMAIN values)
    /\ \A a \in DOMAIN values : ValueFits(a, values[a])

-----------------------------------------------------------------------------
(* What the service and the handler require before the first lock. *)

ItemCommandBegins(c) ==
    \/ c.op = "createItemCategory" /\ ~Exists(itemCategory[c.category])
    \/ c.op = "updateItemCategory" /\ Exists(itemCategory[c.category])
    \/ c.op = "createUnitOfMeasure" /\ ~Exists(unit[c.unit])
    \/ c.op = "updateUnitOfMeasure" /\ Exists(unit[c.unit])
    \/ /\ c.op \in {"createSpecificationAttribute", "updateSpecificationAttribute"}
       /\ (c.op = "createSpecificationAttribute") <=> ~Exists(attribute[c.attribute])
       /\ c.shape.unit # None => unit[c.shape.unit].active
       /\ DefinitionValid(c.shape)
    \/ /\ c.op \in {"createItem", "updateItem"}
       /\ (c.op = "createItem") <=> ~Exists(item[c.item])
       /\ c.op = "updateItem" => item[c.item].active
       /\ itemCategory[ItemCategoryOf[c.item]].active
       /\ unit[c.unit].active
       /\ ValuesValid(ItemCategoryOf[c.item], c.values)
    \/ c.op = "deactivateItem" /\ item[c.item].active

ItemRow(c) ==
    CASE c.op \in {"createItemCategory", "updateItemCategory"} -> itemCategory[c.category]
      [] c.op \in {"createUnitOfMeasure", "updateUnitOfMeasure"} -> unit[c.unit]
      [] c.op \in {"createSpecificationAttribute", "updateSpecificationAttribute"} ->
            attribute[c.attribute]
      [] OTHER -> item[c.item]

\* Slip: attributes share the category with the items.
SharingAttributePlan(c) ==
    <<Lock("item_categories", ItemCategoryOf[c.attribute], "SHARE")>>
    \o (IF c.op = "updateSpecificationAttribute"
        THEN <<Lock("attributes", c.attribute, "UPDATE")>> ELSE <<>>)
    \o (IF c.shape.unit # None THEN <<Lock("units", c.shape.unit, "SHARE")>> ELSE <<>>)
    \o <<Check>>

AttributePlan(c) ==
    <<Lock("item_categories", ItemCategoryOf[c.attribute], "UPDATE")>>
    \o (IF c.op = "updateSpecificationAttribute"
        THEN <<Lock("attributes", c.attribute, "UPDATE")>> ELSE <<>>)
    \o (IF c.shape.unit # None THEN <<Lock("units", c.shape.unit, "SHARE")>> ELSE <<>>)
    \o <<Check>>

\* Slip: the attributes are locked before their category.
AttributesFirst(c) ==
    LockAll("attributes", AttributesOf(ItemCategoryOf[c.item]), "SHARE")
    \o <<Lock("item_categories", ItemCategoryOf[c.item], "SHARE"),
         Lock("units", c.unit, "SHARE"), Check>>

\* Slip: the category was active when the item was validated.
ItemPlanWithoutCategory(c) ==
    <<Lock("units", c.unit, "SHARE")>>
    \o LockAll("attributes", AttributesOf(ItemCategoryOf[c.item]), "SHARE")
    \o <<Check>>

ItemWritePlan(c) ==
    <<Lock("item_categories", ItemCategoryOf[c.item], "SHARE"),
      Lock("units", c.unit, "SHARE")>>
    \o LockAll("attributes", AttributesOf(ItemCategoryOf[c.item]), "SHARE")
    \o <<Check>>

ItemPlan(c) ==
    CASE c.op = "updateItemCategory" ->
            <<Lock("item_categories", c.category, "UPDATE"), Check>>
      [] c.op = "updateUnitOfMeasure" -> <<Lock("units", c.unit, "UPDATE"), Check>>
      [] c.op \in {"createSpecificationAttribute", "updateSpecificationAttribute"} ->
            AttributePlan(c)
      [] c.op \in {"createItem", "updateItem"} -> ItemWritePlan(c)
      [] OTHER -> <<>>

-----------------------------------------------------------------------------
(* What the handler requires of what it reads under its locks. *)

UpdateItemCategoryAllowed(c) ==
    c.op = "updateItemCategory"
    /\ (~c.active /\ itemCategory[c.category].active => ActiveItemsOf(c.category) = {})

UpdateUnitAllowed(c) ==
    /\ c.op = "updateUnitOfMeasure"
    /\ \A a \in Attributes : attribute[a].active /\ attribute[a].shape.unit = c.unit
          => attribute[a].shape.precision <= c.precision
    /\ ~c.active /\ unit[c.unit].active =>
          /\ \A i \in Items : item[i].active => item[i].unit # c.unit
          /\ \A a \in Attributes : attribute[a].active => attribute[a].shape.unit # c.unit

CreateAttributeAllowed(c) ==
    /\ c.op = "createSpecificationAttribute"
    /\ itemCategory[ItemCategoryOf[c.attribute]].active
    /\ c.shape.unit # None => unit[c.shape.unit].active
    /\ c.required => ActiveItemsOf(ItemCategoryOf[c.attribute]) = {}

UpdateAttributeAllowed(c) ==
    LET current == attribute[c.attribute]
    IN /\ c.op = "updateSpecificationAttribute"
       /\ c.shape.unit # None => unit[c.shape.unit].active
       /\ c.shape # current.shape => Holders(c.attribute) = {}
       /\ c.active /\ c.required /\ ~(current.active /\ current.required)
          => ActiveItemsOf(ItemCategoryOf[c.attribute]) \subseteq Holders(c.attribute)

ItemAllowed(c) ==
    /\ c.op \in {"createItem", "updateItem"}
    /\ c.op = "createItem" => itemCategory[ItemCategoryOf[c.item]].active
    /\ unit[c.unit].active
    /\ Covers(ItemCategoryOf[c.item], DOMAIN c.values)

ItemCommandAllowed(c) ==
    \/ UpdateItemCategoryAllowed(c) \/ UpdateUnitAllowed(c)
    \/ CreateAttributeAllowed(c) \/ UpdateAttributeAllowed(c) \/ ItemAllowed(c)

-----------------------------------------------------------------------------
(* What each handler writes. *)

WriteItemCategory(c) ==
    /\ c.op \in {"createItemCategory", "updateItemCategory"}
    /\ itemCategory' = [itemCategory EXCEPT ![c.category] =
           [active |-> IF c.op = "createItemCategory" THEN TRUE ELSE c.active,
            version |-> Next1(@)]]
    /\ UNCHANGED <<unit, attribute, item>>

WriteUnitOfMeasure(c) ==
    /\ c.op \in {"createUnitOfMeasure", "updateUnitOfMeasure"}
    /\ unit' = [unit EXCEPT ![c.unit] =
           [active |-> IF c.op = "createUnitOfMeasure" THEN TRUE ELSE c.active,
            precision |-> c.precision, version |-> Next1(@)]]
    /\ UNCHANGED <<itemCategory, attribute, item>>

WriteAttribute(c) ==
    /\ c.op \in {"createSpecificationAttribute", "updateSpecificationAttribute"}
    /\ attribute' = [attribute EXCEPT ![c.attribute] =
           [active |-> IF c.op = "createSpecificationAttribute" THEN TRUE ELSE c.active,
            required |-> c.required, shape |-> c.shape, version |-> Next1(@)]]
    /\ UNCHANGED <<itemCategory, unit, item>>

\* A trigger refuses a value whose type is not that of its definition.
WriteItem(c) ==
    /\ c.op \in {"createItem", "updateItem"}
    /\ \A a \in DOMAIN c.values : c.values[a].type = attribute[a].shape.type
    /\ item' = [item EXCEPT ![c.item] =
           [active |-> TRUE, unit |-> c.unit, values |-> c.values, version |-> Next1(@)]]
    /\ UNCHANGED <<itemCategory, unit, attribute>>

DeactivateItem(c) ==
    /\ c.op = "deactivateItem"
    /\ item[c.item].active
    /\ item' = [item EXCEPT ![c.item] = Updated([@ EXCEPT !.active = FALSE])]
    /\ UNCHANGED <<itemCategory, unit, attribute>>

-----------------------------------------------------------------------------
(* What the item master promises. *)

ActiveRecordsUseActive ==
    /\ \A i \in Items : item[i].active =>
          itemCategory[ItemCategoryOf[i]].active /\ unit[item[i].unit].active
    /\ \A a \in Attributes : attribute[a].active /\ attribute[a].shape.unit # None
          => unit[attribute[a].shape.unit].active

RequiredValuesPresent ==
    \A i \in Items : item[i].active =>
        \A a \in AttributesOf(ItemCategoryOf[i]) :
            attribute[a].active /\ attribute[a].required => a \in DOMAIN item[i].values

\* A value has the type of its definition and no more places than it allows,
\* and a definition no more than its unit.
PrecisionsFit ==
    /\ \A i \in Items : \A a \in DOMAIN item[i].values : ValueFits(a, item[i].values[a])
    /\ \A a \in Attributes : attribute[a].active => DefinitionValid(attribute[a].shape)
=============================================================================
