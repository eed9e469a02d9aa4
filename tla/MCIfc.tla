------------------------------- MODULE MCIfc -------------------------------
(***************************************************************************)
(* Files for the IFC front end: one small building in millimetres with     *)
(* everything lowering reads, and the files that differ from it in one or  *)
(* two places.                                                             *)
(***************************************************************************)
EXTENDS IfcExchange

Metres(n) == 2 * n   \* the file counts in a prefixed unit

Beam == [axes |-> 1, curve |-> TRUE, bodies |-> 1, swept |-> TRUE, profile |-> "closed"]

\* Steps 1-8 products, 11-24 definitions, 31-60 values, 71-73 placements,
\* 81-96 relations.
Product(class, gid, placement, geometry) ==
    [class |-> class, gid |-> gid, placement |-> placement, geometry |-> geometry]
Attached(products, definition) == [products |-> products, definition |-> definition]
Definition(set, members) == [set |-> set, members |-> members]

Building ==
    [units |-> <<[kind |-> "SI", type |-> "LENGTHUNIT", name |-> "METRE", prefix |-> "MILLI"],
                 [kind |-> "SI", type |-> "PLANEANGLEUNIT", name |-> "RADIAN", prefix |-> "NONE"]>>,
     assigned |-> {1, 2},
     products |->
        1 :> Product("IfcBuildingStorey", "a", 71, {})
        @@ 2 :> Product("IfcWall", "b", 72, {})
        @@ 3 :> Product("IfcWall", "c", 73, {})
        @@ 4 :> Product("IfcOpeningElement", "d", 72, {})
        @@ 5 :> Product("IfcDoor", "e", 72, {})
        @@ 6 :> Product("IfcBeam", "f", NoRecord, {Beam})
        @@ 7 :> Product("IfcBeam", "g", NoRecord, {[Beam EXCEPT !.profile = "gap"]})
        @@ 8 :> Product("IfcSpace", "h", 71, {}),
     definitions |->
        11 :> Definition("Quantities", [ClearHeight |-> 31])
        @@ 12 :> Definition("Quantities", [Length |-> 32, Width |-> 33])
        @@ 13 :> Definition("Quantities", [Length |-> 34, Width |-> 35])
        @@ 14 :> Definition("Quantities", [Width |-> 36, Height |-> 37])
        @@ 15 :> Definition("Quantities", [Width |-> 38, Height |-> 39])
        @@ 16 :> Definition("Quantities", [Length |-> 40])
        @@ 17 :> Definition("GAT_Structural",
                    [YieldStrengthMPa |-> 41, YieldStrengthMPaSigma |-> 42,
                     PlasticSectionModulusMajorM3 |-> 43,
                     PlasticSectionModulusMajorM3Sigma |-> 44])
        @@ 18 :> Definition("GAT_StructuralScope", [Scope |-> 51])
        @@ 19 :> Definition("GAT_Material", [UnitCost |-> 45])
        @@ 20 :> Definition("GAT_Material", [UnitCost |-> 46])
        @@ 21 :> Definition("GAT_Uncertainty", [LengthSigma |-> 47])
        @@ 22 :> Definition("Quantities", [Length |-> 48, Width |-> 49]),
     numbers |->
        31 :> Metres(3) @@ 32 :> Metres(4) @@ 33 :> Metres(1) @@ 34 :> Metres(4)
        @@ 35 :> Metres(1) @@ 36 :> Metres(1) @@ 37 :> Metres(2) @@ 38 :> Metres(1)
        @@ 39 :> Metres(2) @@ 40 :> Metres(5) @@ 41 :> 7 @@ 42 :> 2 @@ 43 :> 3 @@ 44 :> 1
        @@ 45 :> 5 @@ 46 :> 6 @@ 47 :> Metres(4)
        @@ 48 :> Metres(3) @@ 49 :> Metres(2),
     texts |-> 51 :> "AISC360-22-F2",
     defines |->
        81 :> Attached({1}, 11) @@ 82 :> Attached({2}, 12) @@ 83 :> Attached({3}, 13)
        @@ 84 :> Attached({4}, 14) @@ 85 :> Attached({5}, 15) @@ 86 :> Attached({6}, 16)
        @@ 87 :> Attached({6}, 17) @@ 88 :> Attached({6}, 18) @@ 89 :> Attached({2}, 19)
        @@ 90 :> Attached({3}, 20) @@ 91 :> Attached({2, 3}, 21) @@ 92 :> Attached({8}, 22),
     placements |->
        71 :> [parent |-> NoRecord, planar |-> TRUE]
        @@ 72 :> [parent |-> 71, planar |-> TRUE] @@ 73 :> [parent |-> 72, planar |-> TRUE],
     rels |->
        <<[kind |-> "CONTAINS", source |-> 1, target |-> 2],
          [kind |-> "CONTAINS", source |-> 1, target |-> 3],
          [kind |-> "VOIDS", source |-> 4, target |-> 2],
          [kind |-> "FILLS", source |-> 5, target |-> 4],
          [kind |-> "AGGREGATES", source |-> 1, target |-> 8]>>]

\* One wall's material set attached to both walls.
SharePrice(f) == [f EXCEPT !.defines[90] = Attached({3}, 19)]
ShareLength(f) == [f EXCEPT !.definitions[13].members.Length = 32]
LaterSet(f) == [f EXCEPT !.defines = 93 :> Attached({2}, 13) @@ @]
DropLength(f) == [f EXCEPT !.definitions[16].members = [Width |-> 40]]
DropLengthOfShape(f) == [DropLength(f) EXCEPT !.products[6].geometry = {}]
DropScope(f) == [f EXCEPT !.texts[51] = "other"]
Dangling(f) == [f EXCEPT !.definitions[12].members.Length = 99]
DanglingPrice(f) == [f EXCEPT !.definitions[19].members.UnitCost = 99]
DanglingSet(f) == [f EXCEPT !.defines = 94 :> Attached({1}, 99) @@ @]
\* A wall with the strengths of the beam attached, which do not read.
WallStrength(f) == [f EXCEPT !.definitions[17].members.YieldStrengthMPa = 51,
                             !.defines[87] = Attached({2}, 17), !.defines[88] = Attached({2}, 18)]
\* A posterior set that lists the width of a wall beside the quantities of it.
SharePosterior(f) == [f EXCEPT
    !.definitions = 23 :> Definition("GAT_Posterior", [Width |-> 33]) @@ @,
    !.defines = 95 :> Attached({2}, 23) @@ @]
TextNumber(f) == [f EXCEPT !.definitions[17].members.YieldStrengthMPa = 51]
NumberBesideScope(f) == [f EXCEPT
    !.definitions = 24 :> Definition("GAT_StructuralScope", [Scope |-> 42]) @@ @,
    !.defines = 96 :> Attached({6}, 24) @@ @]
NoStrengthSigma(f) == [f EXCEPT !.numbers[42] = 0]
NoLengthSigma(f) == [f EXCEPT !.numbers[47] = 0]
Nameless(f) == [f EXCEPT !.products[3].gid = "none"]
NamelessBeam(f) == [f EXCEPT !.products[7].gid = "none"]
SameName(f) == [f EXCEPT !.products[3].gid = "b"]
Cycle(f) == [f EXCEPT !.placements[71].parent = 73]
Tilted(f) == [f EXCEPT !.placements[73].planar = FALSE]
Storeyless(f) == [f EXCEPT !.products[1].class = "IfcSite"]
Feet(f) == [f EXCEPT !.units[1].kind = "CONVERSION"]
Malformed(f) == [f EXCEPT !.units[1].prefix = "MALFORMED"]
TwoUnits(f) == [f EXCEPT !.units[2] = [@ EXCEPT !.type = "LENGTHUNIT", !.name = "METRE"]]
NoUnits(f) == [f EXCEPT !.units = <<>>, !.assigned = Undeclared]
NoLengthUnit(f) == [f EXCEPT !.assigned = {2}]
Degrees(f) == [f EXCEPT !.units[2].name = "DEGREE"]
VoidTwice(f) == [f EXCEPT !.rels = Append(@, [kind |-> "VOIDS", source |-> 4, target |-> 2])]
VoidOfWall(f) == [f EXCEPT !.rels = Append(@, [kind |-> "VOIDS", source |-> 3, target |-> 2])]
FillByBeam(f) == [f EXCEPT !.rels = Append(@, [kind |-> "FILLS", source |-> 6, target |-> 4])]
TallOpening(f) == [f EXCEPT !.numbers[37] = Metres(4)]

\* The building, and the files one change away from it.
Changed(f) ==
    {SharePrice(f), ShareLength(f), LaterSet(f), DropLength(f), DropLengthOfShape(f),
     DropScope(f), Dangling(f), DanglingPrice(f), TextNumber(f), NoStrengthSigma(f),
     NoLengthSigma(f), Nameless(f), NamelessBeam(f), SameName(f), Cycle(f), Tilted(f),
     Storeyless(f), Feet(f), Malformed(f), NoUnits(f), NoLengthUnit(f),
     VoidTwice(f), VoidOfWall(f), FillByBeam(f), TallOpening(f)}
Once == Changed(Building) \cup {WallStrength(Building), SharePosterior(Building),
              DanglingSet(Building), TwoUnits(Building), Degrees(Building),
              NumberBesideScope(Building)}

\* What a script measures: the shared height, a price of each wall, a strength.
ShownVars == {<<1, "ClearHeight">>, <<2, "UnitCost">>, <<3, "UnitCost">>,
              <<6, "YieldStrengthMPa">>}

OnePath == {"model.ifc"}
TwoPaths == {"model.ifc", "out.ifc"}
OnceChanged == {Building} \cup Once
SharedModels == {Building, SharePrice(Building)}

Renamed(f) == [f EXCEPT !.products[3].gid = "z"]
SavedLater == {Renamed(Building), SameName(Building), Storeyless(Building)}

\* Two changes at once: such a file is audited, loaded and drawn as it is.
TwiceChanged ==
    UNION {Changed(f) : f \in Changed(Building)}
        \cup {TwoUnits(f) : f \in Changed(Building) \ {NoUnits(Building)}}
        \cup {Degrees(f) : f \in Changed(Building) \ {NoUnits(Building)}}
        \cup {DanglingSet(f) : f \in Once}

MCInit ==
    \/ Init
    \/ /\ disk \in [Paths -> TwiceChanged]
       /\ session = NoSession /\ viewing = NotViewing /\ page = NoPage
       /\ changes = MaxChanges

MCSpec == MCInit /\ [][Next]_vars
=============================================================================
