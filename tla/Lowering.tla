------------------------------ MODULE Lowering ------------------------------
(***************************************************************************)
(* The IFC front end (src/gat/adapters/ifc): a parsed STEP file, the       *)
(* reader over it, the length unit of the project, and lower_ifc, which    *)
(* turns the file into entities, raw quantity slots with priors, typed     *)
(* edges, derived quantities and constraints; then what World.compile and  *)
(* run_invariants say of the result.                                       *)
(*                                                                         *)
(* A file is the record                                                    *)
(*   units        sequence of [kind, type, name, prefix], by step id       *)
(*   assigned     the units IfcProject.UnitsInContext names, or Undeclared *)
(*   products     [step id -> [class, gid, placement, geometry]]           *)
(*   definitions  [step id -> [set, members]]: an IfcElementQuantity (set  *)
(*                "Quantities") or a property set, its values by name      *)
(*   numbers      [step id -> number], texts [step id -> text]: the        *)
(*                IfcQuantity* and IfcPropertySingleValue records          *)
(*   defines      [step id -> [products, definition]]                      *)
(*   placements   [step id -> [parent, planar]]                            *)
(*   rels         sequence of [kind, source, target], VOIDS from opening   *)
(*                to wall and FILLS from door to opening                   *)
(* Lengths in the file are whole metres times UnitsPerMetre; a mean of the *)
(* world is in metres, a sigma in thousandths.  A product is named by its  *)
(* step id, which export keeps.                                            *)
(***************************************************************************)
EXTENDS Integers, Sequences, SequencesExt, FiniteSetsExt

Undeclared == {0}   \* no unit has position 0
NoRecord == 0

ProductClasses == {"IfcBuildingStorey", "IfcWall", "IfcSpace",
                   "IfcOpeningElement", "IfcDoor"}
RequiredQuantities ==
    [IfcBuildingStorey |-> {"ClearHeight"}, IfcWall |-> {"Length", "Width"},
     IfcOpeningElement |-> {"Width", "Height"}, IfcDoor |-> {"Width", "Height"},
     IfcSpace |-> {"Length", "Width"}, IfcBeam |-> {"Length"}]
Strength == {"YieldStrengthMPa", "PlasticSectionModulusMajorM3"}

\* DEFAULT_SIGMAS, in millimetres.
DefaultSigma ==
    [IfcBuildingStorey |-> [ClearHeight |-> 10],
     IfcWall |-> [Length |-> 5, Width |-> 2],
     IfcOpeningElement |-> [Width |-> 5, Height |-> 5],
     IfcDoor |-> [Width |-> 3, Height |-> 3],
     IfcSpace |-> [Length |-> 5, Width |-> 5], IfcBeam |-> [Length |-> 5]]

MinPriorSigma == 1

SigmaName ==
    [ClearHeight |-> "ClearHeightSigma", Length |-> "LengthSigma",
     Width |-> "WidthSigma", Height |-> "HeightSigma",
     UnitCost |-> "UnitCostSigma",
     YieldStrengthMPa |-> "YieldStrengthMPaSigma",
     PlasticSectionModulusMajorM3 |-> "PlasticSectionModulusMajorM3Sigma"]

IsLength(quantity) == quantity \in {"ClearHeight", "Length", "Width", "Height"}

-----------------------------------------------------------------------------
(* The project's length unit: length_unit_context.                         *)

\* assigned_unit_ids: the units in context; all of them when none is declared.
InContext(file) ==
    {i \in DOMAIN file.units : file.assigned = Undeclared \/ i \in file.assigned}

LengthUnits(file) ==
    {file.units[i] : i \in {j \in InContext(file) : file.units[j].type = "LENGTHUNIT"}}

\* SI_PREFIX_SCALE, as units per metre.
UnitsPerMetre == [NONE |-> 1, MILLI |-> 2]

LengthUnitAccepted(file) ==
    LET lengths == LengthUnits(file)
    IN  /\ \A u \in lengths :
              u.kind = "SI" /\ u.name = "METRE" /\ u.prefix \in DOMAIN UnitsPerMetre
        /\ lengths = {} => file.assigned = Undeclared
        /\ \A u, v \in lengths : UnitsPerMetre[u.prefix] = UnitsPerMetre[v.prefix]

\* Units per metre of a file whose unit is accepted; metres when none is named.
PerMetre(file) ==
    IF LengthUnits(file) = {} THEN 1
    ELSE UnitsPerMetre[(CHOOSE u \in LengthUnits(file) : TRUE).prefix]

-----------------------------------------------------------------------------
(* The reader: property sets and quantities of a product.                  *)

\* properties_of raises on a relation to a definition that is not there.
PropertyGraphReadable(file) ==
    \A d \in DOMAIN file.defines : file.defines[d].definition \in DOMAIN file.definitions

\* The relations that attach a definition of the named set to product p, and
\* what the definition of a relation lists.
Sets(file, p, set) ==
    {d \in DOMAIN file.defines :
        /\ p \in file.defines[d].products
        /\ file.definitions[file.defines[d].definition].set = set}
Listed(file, d) == file.definitions[file.defines[d].definition].members

\* The record a name resolves to: later relations override earlier ones.
RecordOf(file, p, set, name) ==
    LET naming == {d \in Sets(file, p, set) : name \in DOMAIN Listed(file, d)}
    IN  IF naming = {} THEN NoRecord ELSE Listed(file, Max(naming))[name]

Has(file, p, set, name) == RecordOf(file, p, set, name) # NoRecord
ValueOf(file, p, set, name) == file.numbers[RecordOf(file, p, set, name)]

\* quantities_of and pset_value_refs raise on a dangling or non-numeric value.
NumbersReadable(file, p, set) ==
    \A d \in Sets(file, p, set) : Range(Listed(file, d)) \subseteq DOMAIN file.numbers

\* pset_text_values raises on a dangling value and on two texts of one name;
\* it passes over what is not a text.
TextsReadable(file, p, set) ==
    /\ \A d \in Sets(file, p, set) :
          Range(Listed(file, d)) \subseteq DOMAIN file.numbers \cup DOMAIN file.texts
    /\ \A d, e \in Sets(file, p, set) :
          \A name \in DOMAIN Listed(file, d) \cap DOMAIN Listed(file, e) :
             d # e => ~({Listed(file, d)[name], Listed(file, e)[name]}
                            \subseteq DOMAIN file.texts)

Texts(file, p, set) ==
    {file.texts[t] : t \in DOMAIN file.texts
                          \cap UNION {Range(Listed(file, d)) : d \in Sets(file, p, set)}}

\* resolve_placement follows the chain to its root: a cycle, a missing
\* placement and a rotation out of the plan are refused.
PlacementResolves(file, p) ==
    LET Chain[i \in 0 .. Cardinality(DOMAIN file.placements) + 1] ==
            IF i = 0 THEN file.products[p].placement
            ELSE IF Chain[i - 1] \in DOMAIN file.placements
                 THEN file.placements[Chain[i - 1]].parent ELSE Chain[i - 1]
    IN  /\ Chain[Cardinality(DOMAIN file.placements) + 1] = NoRecord
        /\ \A i \in DOMAIN Chain :
              Chain[i] # NoRecord => file.placements[Chain[i]].planar

-----------------------------------------------------------------------------
(* lower_ifc: products, slots and priors.                                  *)

\* A beam is a product only when GAT_Structural is attached to it.
Annotated(file, p) ==
    /\ file.products[p].class = "IfcBeam"
    /\ Sets(file, p, "GAT_Structural") # {}

Products(file) ==
    {p \in DOMAIN file.products :
        file.products[p].class \in ProductClasses \/ Annotated(file, p)}

OfClass(file, class) == {p \in Products(file) : file.products[p].class = class}
Priced(file, p) ==
    file.products[p].class = "IfcWall" /\ Has(file, p, "GAT_Material", "UnitCost")

SlotsOf(file, p) ==
    RequiredQuantities[file.products[p].class]
        \cup (IF file.products[p].class = "IfcBeam" THEN Strength ELSE {})
        \cup (IF Priced(file, p) THEN {"UnitCost"} ELSE {})

RawVars(file) == UNION {{<<p, q>> : q \in SlotsOf(file, p)} : p \in Products(file)}

SourceSet(q) == IF q = "UnitCost" THEN "GAT_Material"
                ELSE IF q \in Strength THEN "GAT_Structural" ELSE "Quantities"
SourceOf(file, v) == RecordOf(file, v[1], SourceSet(v[2]), v[2])

ToMetres(file, q, number) ==
    IF IsLength(q) THEN number \div PerMetre(file) ELSE number

\* The GAT_Uncertainty overrides, updated by GAT_Posterior; then the sigma
\* beside the value, and the default of the class (8 % of a unit cost).
PriorSigma(file, v) ==
    LET p == v[1]
        q == v[2]
        mean == file.numbers[SourceOf(file, v)]
        beside == IF q \in Strength \cup {"UnitCost"} THEN SourceSet(q) ELSE "Quantities"
        Given(set) == ToMetres(file, q, ValueOf(file, p, set, SigmaName[q]))
    IN  IF Has(file, p, "GAT_Posterior", SigmaName[q]) THEN Given("GAT_Posterior")
        ELSE IF Has(file, p, "GAT_Uncertainty", SigmaName[q]) THEN Given("GAT_Uncertainty")
        ELSE IF q \in Strength \/ (q = "UnitCost" /\ Has(file, p, beside, SigmaName[q]))
        THEN Given(beside)
        ELSE IF q = "UnitCost" THEN Max({80 * mean, -80 * mean, MinPriorSigma})
        ELSE DefaultSigma[file.products[p].class][q]

Priors(file) ==
    [v \in RawVars(file) |->
        [mean |-> ToMetres(file, v[2], file.numbers[SourceOf(file, v)]),
         sigma |-> PriorSigma(file, v)]]

-----------------------------------------------------------------------------
(* What lower_ifc refuses.                                                 *)

ReaderSets == {"Quantities", "GAT_Uncertainty", "GAT_Posterior", "GAT_Material",
               "GAT_Structural"}

ProductReadable(file, p) ==
    /\ \A set \in ReaderSets : NumbersReadable(file, p, set)
    /\ TextsReadable(file, p, "GAT_StructuralScope")

QuantitiesGiven(file, p) ==
    \A q \in RequiredQuantities[file.products[p].class] : Has(file, p, "Quantities", q)

\* The closed contract of an annotated beam.
BeamContract(file, p) ==
    /\ \A q \in Strength :
          /\ Has(file, p, "GAT_Structural", q)
          /\ Has(file, p, "GAT_Structural", SigmaName[q])
    /\ Texts(file, p, "GAT_StructuralScope") = {"AISC360-22-F2"}

\* used_source_refs: one record per variable, of the quantities and the beam
\* strengths.  A unit cost is not among them.
RecordsUnshared(file) ==
    \A v, w \in RawVars(file) :
        v # w /\ v[2] # "UnitCost" /\ w[2] # "UnitCost"
            => SourceOf(file, v) # SourceOf(file, w)

\* The slots of the products can be read off the file.
SlotsGiven(file) ==
    \A p \in Products(file) :
        /\ ProductReadable(file, p)
        /\ QuantitiesGiven(file, p)
        /\ file.products[p].class = "IfcBeam" => BeamContract(file, p)

Lowers(file) ==
    /\ LengthUnitAccepted(file)
    /\ PropertyGraphReadable(file)
    /\ \A p \in Products(file) : file.products[p].gid # "none"
    /\ \A p, q \in Products(file) : p # q =>
          <<file.products[p].class, file.products[p].gid>>
              # <<file.products[q].class, file.products[q].gid>>
    /\ SlotsGiven(file)
    /\ RecordsUnshared(file)
    /\ \A p \in OfClass(file, "IfcBeam") : \A q \in Strength : PriorSigma(file, <<p, q>>) > 0
    /\ \A p \in Products(file) : PlacementResolves(file, p)
    /\ Cardinality(OfClass(file, "IfcBuildingStorey")) = 1

\* Edges to anything that is not a product are dropped.
EdgesAmong(products, rels) ==
    SelectSeq(rels, LAMBDA r : r.source \in products /\ r.target \in products)

\* The lowered module with its prior belief.
LowerIfc(file) ==
    [classes |-> [p \in Products(file) |-> file.products[p].class],
     gids |-> [p \in Products(file) |-> file.products[p].gid],
     sources |-> [v \in RawVars(file) |-> SourceOf(file, v)],
     rels |-> EdgesAmong(Products(file), file.rels),
     perMetre |-> PerMetre(file),
     belief |-> Priors(file)]

-----------------------------------------------------------------------------
(* The derived quantities of a world, as lowering synthesizes them.        *)

WithClass(w, class) == {p \in DOMAIN w.classes : w.classes[p] = class}
Mean(w, p, q) == w.belief[<<p, q>>].mean
Storey(w) == CHOOSE p \in DOMAIN w.classes : w.classes[p] = "IfcBuildingStorey"
ClearHeight(w) == Mean(w, Storey(w), "ClearHeight")

\* The sources, and the targets, of the edges of a kind at a product; an edge
\* given twice is there twice.
EdgesInto(w, kind, p) == SelectSeq(w.rels, LAMBDA r : r.kind = kind /\ r.target = p)
EdgesFrom(w, kind, p) == SelectSeq(w.rels, LAMBDA r : r.kind = kind /\ r.source = p)
SumEdges(Amount(_), edges) == FoldSeq(LAMBDA r, sum : sum + Amount(r), 0, edges)

\* Width and Height of anything that has both; a wall is as high as its storey.
HasFace(w, p) == w.classes[p] \in {"IfcWall", "IfcOpeningElement", "IfcDoor"}
HasArea(w, p) == w.classes[p] \in {"IfcOpeningElement", "IfcDoor"}
Height(w, p) == IF w.classes[p] = "IfcWall" THEN ClearHeight(w) ELSE Mean(w, p, "Height")
Area(w, p) == Mean(w, p, "Width") * Height(w, p)

GrossSideArea(w, wall) == Mean(w, wall, "Length") * Height(w, wall)
NetSideArea(w, wall) ==
    GrossSideArea(w, wall)
        - SumEdges(LAMBDA r : Area(w, r.source), EdgesInto(w, "VOIDS", wall))
NetVolume(w, wall) == NetSideArea(w, wall) * Mean(w, wall, "Width")
IsPriced(w, p) == <<p, "UnitCost">> \in DOMAIN w.belief
Cost(w, wall) == NetVolume(w, wall) * Mean(w, wall, "UnitCost")
FloorArea(w, space) == Mean(w, space, "Length") * Mean(w, space, "Width")

\* The members of a storey rollup: the edges of the kind to products of a class.
Members(w, kind, class) ==
    SelectSeq(EdgesFrom(w, kind, Storey(w)), LAMBDA r : w.classes[r.target] = class)
TotalWallNetVolume(w) ==
    SumEdges(LAMBDA r : NetVolume(w, r.target), Members(w, "CONTAINS", "IfcWall"))
TotalWallCost(w) ==
    SumEdges(LAMBDA r : Cost(w, r.target),
             SelectSeq(Members(w, "CONTAINS", "IfcWall"), LAMBDA r : IsPriced(w, r.target)))
TotalFloorArea(w) ==
    SumEdges(LAMBDA r : FloorArea(w, r.target), Members(w, "AGGREGATES", "IfcSpace"))

\* World.compile: every expression names a variable that exists, and every
\* prior sigma is one the binding takes.
Compiles(w) ==
    /\ \A wall \in WithClass(w, "IfcWall") :
          \A i \in DOMAIN EdgesInto(w, "VOIDS", wall) :
              HasArea(w, EdgesInto(w, "VOIDS", wall)[i].source)
    /\ \A v \in DOMAIN w.belief : w.belief[v].sigma >= MinPriorSigma

-----------------------------------------------------------------------------
(* run_invariants on a compiled world: what can fail of it at the means.   *)

\* A door keeps the last opening it was said to fill.
Fills(w) ==
    {r \in Range(w.rels) : r.kind = "FILLS" /\ r = Last(EdgesFrom(w, "FILLS", r.source))}

\* The verifier raises on a constraint over a quantity that does not exist.
VerifierRaises(w) ==
    \E r \in Fills(w) : ~HasFace(w, r.source) \/ ~HasFace(w, r.target)

Fits(w, inner, width, height) ==
    Mean(w, inner, "Width") <= width /\ Height(w, inner) <= height

BoundsRespected(w) ==
    /\ \A wall \in WithClass(w, "IfcWall") :
          \A r \in Range(EdgesInto(w, "VOIDS", wall)) :
              Fits(w, r.source, Mean(w, wall, "Length"), ClearHeight(w))
    /\ \A r \in Fills(w) : Fits(w, r.source, Mean(w, r.target, "Width"), Height(w, r.target))

OpeningWellFormed(w) ==
    /\ \A p \in WithClass(w, "IfcOpeningElement") : Len(EdgesFrom(w, "VOIDS", p)) = 1
    /\ \A p \in WithClass(w, "IfcDoor") : Len(EdgesFrom(w, "FILLS", p)) = 1

\* AGGREGATES and CONTAINS form a DAG: no set of products each of which has a
\* child in the set.
SpatialAcyclicity(w) ==
    \A S \in SUBSET DOMAIN w.classes :
        S # {} => \E p \in S :
            \A r \in Range(EdgesFrom(w, "AGGREGATES", p) \o EdgesFrom(w, "CONTAINS", p)) :
                r.target \notin S

NonNegativeQuantities(w) ==
    /\ \A v \in DOMAIN w.belief : w.belief[v].mean >= 0
    /\ \A wall \in WithClass(w, "IfcWall") : NetSideArea(w, wall) >= 0

\* QTY-01: each rollup re-summed over the edges of the storey, over the
\* targets of the class that have the quantity.
Resum(w, Amount(_, _), kind, counted) ==
    SumEdges(LAMBDA r : IF r.target \in counted THEN Amount(w, r.target) ELSE 0,
             EdgesFrom(w, kind, Storey(w)))
AggregationConsistent(w) ==
    LET walls == WithClass(w, "IfcWall")
        priced == {p \in walls : IsPriced(w, p)}
    IN  /\ TotalWallNetVolume(w) = Resum(w, NetVolume, "CONTAINS", walls)
        /\ TotalWallCost(w) = Resum(w, Cost, "CONTAINS", priced)
        /\ TotalFloorArea(w) = Resum(w, FloorArea, "AGGREGATES", WithClass(w, "IfcSpace"))

InvariantsHold(w) ==
    /\ SpatialAcyclicity(w)
    /\ OpeningWellFormed(w)
    /\ NonNegativeQuantities(w)
    /\ BoundsRespected(w)
    /\ AggregationConsistent(w)

\* GatSession.load_ifc: the constructor runs the invariants and reports, it
\* does not refuse a world that fails one.
Loads(file) ==
    /\ Lowers(file)
    /\ Compiles(LowerIfc(file))
    /\ ~VerifierRaises(LowerIfc(file))
=============================================================================
