------------------------------ MODULE IfcProofs ------------------------------
(***************************************************************************)
(* What is proved of the IFC front end, its audit and its writer (modules  *)
(* Lowering, IfcAudit and IfcExchange), for every file the parser makes,   *)
(* and however often files are loaded, measured, exported, saved and       *)
(* viewed.                                                                 *)
(***************************************************************************)
EXTENDS IfcExchange, Induction

-----------------------------------------------------------------------------
(* The audit and the loader *)

(* A file that lowers has every product ready.                             *)
LEMMA LoweredIsReady ==
  ASSUME NEW file, Lowers(file), NEW p \in Products(file)
  PROVE  EntityStatus(file, p) = "READY"
<1>1. /\ PropertyGraphReadable(file) /\ PlacementResolves(file, p)
      /\ file.products[p].gid # "none" /\ SlotsGiven(file)
  BY DEF Lowers
<1>2. /\ ProductReadable(file, p) /\ QuantitiesGiven(file, p)
      /\ file.products[p].class = "IfcBeam" => BeamContract(file, p)
  BY <1>1 DEF SlotsGiven
<1>3. /\ NumbersReadable(file, p, "Quantities") /\ NumbersReadable(file, p, "GAT_Structural")
      /\ TextsReadable(file, p, "GAT_StructuralScope")
  BY <1>2 DEF ProductReadable, ReaderSets
<1>4. ASSUME NEW issue \in BlockingIssues(file, p)
      PROVE  FALSE
  <2>1. issue \notin {"INVALID_GLOBAL_ID", "PROPERTY_GRAPH_UNREADABLE",
                      "QUANTITY_SET_UNREADABLE", "UNSUPPORTED_PLACEMENT"}
    BY <1>1, <1>3, <1>4 DEF BlockingIssues
  <2>2. issue # "STRUCTURAL_PROPERTY_SET_UNREADABLE"
    BY <1>3, <1>4 DEF BlockingIssues
  <2>3. issue # "MISSING_STRUCTURAL_PROPERTY"
    BY <1>2, <1>4 DEF BlockingIssues, BeamContract
  <2>4. issue # "UNSUPPORTED_STRUCTURAL_SCOPE"
    BY <1>2, <1>4 DEF BlockingIssues, BeamContract
  <2> QED BY <2>1, <2>2, <2>3, <2>4, <1>4 DEF BlockingIssues
<1>5. MissingQuantities(file, p) = {}
  BY <1>1, <1>2, <1>3 DEF MissingQuantities, QuantitiesGiven
<1> QED BY <1>4, <1>5 DEF EntityStatus

(* A file that lowers has no issue of the model's but an assumed unit, if  *)
(* it declares none, and geometry of beams that was not derived.           *)
LEMMA LoweredHasNoIssue ==
  ASSUME NEW file, Lowers(file)
  PROVE  ModelIssues(file) \ {"BEAM_GEOMETRY_AUDIT_FAILED"}
           = {w \in Warnings : UnitAssumed(file)}
<1>1. LengthUnitAccepted(file) /\ Inventory(file) = Products(file) /\ PropertyGraphReadable(file)
  BY DEF Lowers, Inventory
<1>2. ~ UnitIssue(file)
  BY <1>1 DEF UnitIssue, LengthUnitAccepted
<1>3. {p \in Inventory(file) : file.products[p].class = "IfcBuildingStorey"}
        = OfClass(file, "IfcBuildingStorey")
      /\ Cardinality(OfClass(file, "IfcBuildingStorey")) = 1
  BY <1>1 DEF Lowers, OfClass
<1>4. Inventory(file) # {}
  <2> SUFFICES ASSUME Products(file) = {} PROVE FALSE
    BY <1>1
  <2>1. OfClass(file, "IfcBuildingStorey") = {}
    BY DEF OfClass
  <2> QED BY <2>1, <1>3, FS_EmptySet
<1>5. ModelIssues(file) \subseteq {"ASSUMED_LENGTH_UNIT", "BEAM_GEOMETRY_AUDIT_FAILED"}
  BY <1>1, <1>2, <1>3, <1>4 DEF ModelIssues
<1>6. "ASSUMED_LENGTH_UNIT" \in ModelIssues(file) <=> UnitAssumed(file)
  BY DEF ModelIssues
<1> QED BY <1>5, <1>6 DEF Warnings

(* A file in which every product is ready and no issue is an error         *)
(* lowers, unless it trips a check the preflight does not make.            *)
LEMMA ReadyLowers ==
  ASSUME NEW file,
         \A p \in Inventory(file) : EntityStatus(file, p) = "READY",
         ModelIssues(file) \subseteq Warnings
  PROVE  Lowers(file) \/ PreflightGaps(file)
<1> SUFFICES ASSUME ~ PreflightGaps(file) PROVE Lowers(file)
  OBVIOUS
<1>0. /\ "PROPERTY_GRAPH_UNREADABLE" \notin ModelIssues(file)
      /\ "UNSUPPORTED_LENGTH_UNIT" \notin ModelIssues(file)
      /\ "UNSUPPORTED_STOREY_COUNT" \notin ModelIssues(file)
  BY DEF Warnings
<1>1. PropertyGraphReadable(file) /\ ~ UnitIssue(file)
  BY <1>0 DEF ModelIssues
<1>2. Inventory(file) = Products(file)
  BY <1>1 DEF Inventory
<1>3. Cardinality(OfClass(file, "IfcBuildingStorey")) = 1
  <2>1. Cardinality({p \in Inventory(file) : file.products[p].class = "IfcBuildingStorey"}) = 1
    BY <1>0 DEF ModelIssues
  <2> QED BY <2>1, <1>2 DEF OfClass
<1>4. LengthUnitAccepted(file)
  BY <1>1 DEF PreflightGaps, UnitIssue, LengthUnitAccepted
<1>5. ASSUME NEW p \in Products(file)
      PROVE  BlockingIssues(file, p) = {} /\ MissingQuantities(file, p) = {}
  BY <1>2, <1>5 DEF EntityStatus
<1>6. ASSUME NEW p \in Products(file)
      PROVE  /\ file.products[p].gid # "none" /\ PlacementResolves(file, p)
             /\ NumbersReadable(file, p, "Quantities")
             /\ file.products[p].class = "IfcBeam" =>
                  /\ NumbersReadable(file, p, "GAT_Structural")
                  /\ TextsReadable(file, p, "GAT_StructuralScope")
                  /\ BeamContract(file, p)
  <2>1. /\ "INVALID_GLOBAL_ID" \notin BlockingIssues(file, p)
        /\ "UNSUPPORTED_PLACEMENT" \notin BlockingIssues(file, p)
        /\ "QUANTITY_SET_UNREADABLE" \notin BlockingIssues(file, p)
        /\ "STRUCTURAL_PROPERTY_SET_UNREADABLE" \notin BlockingIssues(file, p)
        /\ "MISSING_STRUCTURAL_PROPERTY" \notin BlockingIssues(file, p)
        /\ "UNSUPPORTED_STRUCTURAL_SCOPE" \notin BlockingIssues(file, p)
    BY <1>5
  <2>2. /\ file.products[p].gid # "none" /\ PlacementResolves(file, p)
        /\ NumbersReadable(file, p, "Quantities")
    BY <2>1, <1>1 DEF BlockingIssues
  <2>3. CASE file.products[p].class = "IfcBeam"
    <3>1. /\ NumbersReadable(file, p, "GAT_Structural")
          /\ TextsReadable(file, p, "GAT_StructuralScope")
      BY <2>1, <1>1, <2>3 DEF BlockingIssues
    <3>2. Texts(file, p, "GAT_StructuralScope") = {"AISC360-22-F2"}
      BY <2>1, <1>1, <2>3, <3>1 DEF BlockingIssues
    <3>3. \A q \in Strength : /\ Has(file, p, "GAT_Structural", q)
                              /\ Has(file, p, "GAT_Structural", SigmaName[q])
      BY <2>1, <1>1, <2>3, <3>1 DEF BlockingIssues
    <3> QED BY <2>2, <3>1, <3>2, <3>3 DEF BeamContract
  <2> QED BY <2>2, <2>3
<1>7. SlotsGiven(file)
  <2> SUFFICES ASSUME NEW p \in Products(file)
               PROVE  /\ ProductReadable(file, p) /\ QuantitiesGiven(file, p)
                      /\ file.products[p].class = "IfcBeam" => BeamContract(file, p)
    BY DEF SlotsGiven
  <2>1. NumbersReadable(file, p, "GAT_Structural")
        /\ TextsReadable(file, p, "GAT_StructuralScope")
    BY <1>6 DEF PreflightGaps, OfClass
  <2>2. /\ NumbersReadable(file, p, "GAT_Uncertainty")
        /\ NumbersReadable(file, p, "GAT_Posterior")
        /\ NumbersReadable(file, p, "GAT_Material")
    BY DEF PreflightGaps
  <2>3. ProductReadable(file, p)
    BY <1>6, <2>1, <2>2 DEF ProductReadable, ReaderSets
  <2>4. QuantitiesGiven(file, p)
    BY <1>1, <1>5, <1>6 DEF MissingQuantities, QuantitiesGiven
  <2> QED BY <2>3, <2>4, <1>6
<1>8. RecordsUnshared(file)
  BY <1>7 DEF PreflightGaps
<1>9. \A p \in OfClass(file, "IfcBeam") : \A q \in Strength : PriorSigma(file, <<p, q>>) > 0
  BY <1>7 DEF PreflightGaps
<1>10. \A p, q \in Products(file) : p # q =>
          <<file.products[p].class, file.products[p].gid>>
              # <<file.products[q].class, file.products[q].gid>>
  BY DEF PreflightGaps
<1> QED BY <1>1, <1>3, <1>4, <1>6, <1>7, <1>8, <1>9, <1>10 DEF Lowers

LEMMA AuditFits == AuditAgreesWithLoader
<1> SUFFICES ASSUME NEW path \in Paths
             PROVE  LET file == disk[path]
                        ready == \A p \in Inventory(file) : EntityStatus(file, p) = "READY"
                    IN  /\ Loads(file) =>
                              /\ ready
                              /\ ModelIssues(file) \ {"BEAM_GEOMETRY_AUDIT_FAILED"}
                                    = {w \in Warnings : UnitAssumed(file)}
                        /\ ready /\ ModelIssues(file) \subseteq Warnings =>
                              Lowers(file) \/ PreflightGaps(file)
  BY DEF AuditAgreesWithLoader
<1> DEFINE file == disk[path]
<1>1. ASSUME Loads(file)
      PROVE  /\ \A p \in Inventory(file) : EntityStatus(file, p) = "READY"
             /\ ModelIssues(file) \ {"BEAM_GEOMETRY_AUDIT_FAILED"}
                   = {w \in Warnings : UnitAssumed(file)}
  <2>1. Lowers(file)
    BY <1>1 DEF Loads
  <2>2. Inventory(file) = Products(file)
    BY <2>1 DEF Lowers, Inventory
  <2> HIDE DEF file
  <2> QED BY <2>1, <2>2, LoweredIsReady, LoweredHasNoIssue
<1> HIDE DEF file
<1>2. ASSUME \A p \in Inventory(file) : EntityStatus(file, p) = "READY",
             ModelIssues(file) \subseteq Warnings
      PROVE  Lowers(file) \/ PreflightGaps(file)
  BY <1>2, ReadyLowers
<1> QED BY <1>1, <1>2 DEF file

(* Whatever files are kept and however they come to be there, the audit    *)
(* and the loader agree on every one, but for the checks that the          *)
(* preflight leaves to lowering.                                           *)
THEOREM AuditAlwaysAgrees == Spec => []AuditAgreesWithLoader
<1>1. Init => AuditAgreesWithLoader
  BY AuditFits
<1>2. AuditAgreesWithLoader /\ [Next]_vars => AuditAgreesWithLoader'
  <2>1. AuditAgreesWithLoader'
    BY AuditFits, PTL
  <2> QED BY <2>1
<1> QED BY <1>1, <1>2, PTL DEF Spec

-----------------------------------------------------------------------------
(* Step ids and records *)

(* A finite set of natural numbers that is not empty has a largest one.    *)
LEMMA MaxIs ==
  ASSUME NEW S, S \subseteq Nat, IsFiniteSet(S), S # {}
  PROVE  Max(S) \in S /\ \A x \in S : x <= Max(S)
<1> DEFINE above(m) == {k \in S : k > m}
           sizes    == {Cardinality(above(m)) : m \in S}
<1>1. \A m \in S : IsFiniteSet(above(m)) /\ Cardinality(above(m)) \in Nat
  BY FS_Subset, FS_CardinalityType
<1>2. sizes \subseteq Nat /\ sizes # {}
  BY <1>1
<1>3. PICK n \in sizes : \A k \in sizes : n <= k
  <2> HIDE DEF sizes
  <2> QED BY <1>2, LeastExists
<1>4. PICK m \in S : n = Cardinality(above(m))
  BY <1>3
<1>5. ASSUME NEW k \in S, k > m
      PROVE  FALSE
  <2>1. above(k) \subseteq above(m) /\ k \in above(m) /\ k \notin above(k)
    <3>1. k \in Nat /\ m \in Nat /\ \A x \in S : x > k => x > m
      BY <1>5
    <3>2. ~ (k > k)
      BY <3>1
    <3> QED BY <1>5, <3>1, <3>2, Zenon
  <2>2. Cardinality(above(k)) <= Cardinality(above(m))
        /\ Cardinality(above(m)) # Cardinality(above(k))
    <3> HIDE DEF above
    <3> QED BY <1>1, <2>1, FS_Subset
  <2>3. Cardinality(above(k)) \in sizes
    BY <1>5
  <2> HIDE DEF above, sizes
  <2> QED BY <1>1, <1>3, <1>4, <1>5, <2>2, <2>3
<1>6. \E x \in S : \A y \in S : x >= y
  BY <1>5
<1>7. Max(S) \in S /\ \A y \in S : Max(S) >= y
  BY <1>6 DEF Max
<1> QED BY <1>7

(* A name that resolves does so to a record some relation lists for it.    *)
LEMMA RecordIs ==
  ASSUME NEW file, IsFile(file), NEW p, NEW set, NEW name, Has(file, p, set, name)
  PROVE  \E d \in Sets(file, p, set) :
            name \in DOMAIN Listed(file, d) /\ RecordOf(file, p, set, name) = Listed(file, d)[name]
<1> DEFINE naming == {d \in Sets(file, p, set) : name \in DOMAIN Listed(file, d)}
<1>1. naming # {}
  BY DEF Has, RecordOf
<1>2. IsFiniteSet(naming) /\ naming \subseteq Nat
  <2>1. IsFiniteSet(DOMAIN file.defines) /\ DOMAIN file.defines \subseteq Nat
    BY DEF IsFile
  <2> QED BY <2>1, FS_Subset DEF Sets
<1>3. Max(naming) \in naming
  <2> HIDE DEF naming
  <2> QED BY <1>1, <1>2, MaxIs
<1>4. RecordOf(file, p, set, name) = Listed(file, Max(naming))[name]
  BY <1>1 DEF RecordOf
<1> QED BY <1>3, <1>4

LEMMA ReadableRecord ==
  ASSUME NEW file, IsFile(file), NEW p, NEW set, NEW name, Has(file, p, set, name),
         NumbersReadable(file, p, set)
  PROVE  /\ RecordOf(file, p, set, name) \in DOMAIN file.numbers
         /\ ValueOf(file, p, set, name) \in Int
<1>1. PICK d \in Sets(file, p, set) :
         name \in DOMAIN Listed(file, d) /\ RecordOf(file, p, set, name) = Listed(file, d)[name]
  BY RecordIs
<1>2. RecordOf(file, p, set, name) \in DOMAIN file.numbers
  BY <1>1 DEF NumbersReadable, Range
<1> QED BY <1>2 DEF IsFile, ValueOf

(* The raw variables of a file that lowers, and where they are read from.  *)
LEMMA RawVarIs ==
  ASSUME NEW file, NEW v \in RawVars(file)
  PROVE  /\ v = <<v[1], v[2]>>
         /\ v[1] \in Products(file) /\ v[2] \in SlotsOf(file, v[1])
         /\ v[1] \in DOMAIN file.products
<1>1. PICK p \in Products(file) : \E q \in SlotsOf(file, p) : v = <<p, q>>
  BY DEF RawVars
<1> QED BY <1>1 DEF Products

LEMMA ProductClassIs ==
  ASSUME NEW file, NEW p \in Products(file)
  PROVE  /\ file.products[p].class \in ProductClasses \cup {"IfcBeam"}
         /\ RequiredQuantities[file.products[p].class]
              \subseteq {"ClearHeight", "Length", "Width", "Height"}
         /\ RequiredQuantities[file.products[p].class] # {}
<1>1. file.products[p].class \in ProductClasses \cup {"IfcBeam"}
  BY DEF Products, Annotated
<1> QED BY <1>1 DEF ProductClasses, RequiredQuantities

LEMMA SlotIs ==
  ASSUME NEW file, NEW p \in Products(file), NEW q \in SlotsOf(file, p)
  PROVE  /\ q \in DOMAIN SigmaName
         /\ \/ q \in RequiredQuantities[file.products[p].class] /\ SourceSet(q) = "Quantities"
               /\ q \notin Strength /\ q # "UnitCost" /\ IsLength(q)
            \/ q \in Strength /\ file.products[p].class = "IfcBeam"
               /\ SourceSet(q) = "GAT_Structural" /\ q # "UnitCost" /\ ~ IsLength(q)
            \/ q = "UnitCost" /\ Priced(file, p) /\ SourceSet(q) = "GAT_Material"
               /\ q \notin Strength /\ ~ IsLength(q)
<1>1. CASE q \in RequiredQuantities[file.products[p].class]
  <2>1. q \in {"ClearHeight", "Length", "Width", "Height"}
    BY <1>1, ProductClassIs
  <2> QED BY <1>1, <2>1 DEF SigmaName, SourceSet, Strength, IsLength
<1>2. CASE q \in Strength /\ file.products[p].class = "IfcBeam"
  BY <1>2 DEF SigmaName, SourceSet, Strength, IsLength
<1>3. CASE q = "UnitCost" /\ Priced(file, p)
  BY <1>3 DEF SigmaName, SourceSet, Strength, IsLength
<1> QED BY <1>1, <1>2, <1>3 DEF SlotsOf

LEMMA SourceIs ==
  ASSUME NEW file, IsFile(file), SlotsGiven(file), NEW p \in Products(file), NEW q \in SlotsOf(file, p)
  PROVE  /\ Has(file, p, SourceSet(q), q)
         /\ SourceSet(q) \in ReaderSets \ {"GAT_Posterior", "GAT_Uncertainty"}
         /\ NumbersReadable(file, p, SourceSet(q))
         /\ SourceOf(file, <<p, q>>) \in DOMAIN file.numbers
         /\ file.numbers[SourceOf(file, <<p, q>>)] \in Int
<1>1. /\ ProductReadable(file, p) /\ QuantitiesGiven(file, p)
      /\ file.products[p].class = "IfcBeam" => BeamContract(file, p)
  BY DEF SlotsGiven
<1>2. Has(file, p, SourceSet(q), q)
  BY <1>1, SlotIs DEF QuantitiesGiven, BeamContract, Priced
<1>3. SourceSet(q) \in ReaderSets \ {"GAT_Posterior", "GAT_Uncertainty"}
  BY SlotIs DEF ReaderSets
<1>4. NumbersReadable(file, p, SourceSet(q))
  BY <1>1, <1>3 DEF ProductReadable
<1>5. SourceOf(file, <<p, q>>) = RecordOf(file, p, SourceSet(q), q)
  BY DEF SourceOf
<1>6. SourceOf(file, <<p, q>>) \in DOMAIN file.numbers
  BY <1>2, <1>4, <1>5, ReadableRecord
<1> QED BY <1>2, <1>3, <1>4, <1>6 DEF IsFile

-----------------------------------------------------------------------------
(* The belief of a session over a file *)

(* A world of the module a file is lowered to, whatever is believed in it. *)
WorldOf(file, belief) ==
  [classes |-> [p \in Products(file) |-> file.products[p].class],
   gids |-> [p \in Products(file) |-> file.products[p].gid],
   sources |-> [v \in RawVars(file) |-> SourceOf(file, v)],
   rels |-> EdgesAmong(Products(file), file.rels),
   perMetre |-> PerMetre(file),
   belief |-> belief]

Beliefs(file) == [RawVars(file) -> [mean : Int, sigma : Int]]

IsWorldOf(w, file) == \E b \in Beliefs(file) : w = WorldOf(file, b)

LEMMA PerMetreIs ==
  ASSUME NEW file, LengthUnitAccepted(file)
  PROVE  PerMetre(file) \in {1, 2}
<1>1. \A prefix \in DOMAIN UnitsPerMetre : UnitsPerMetre[prefix] \in {1, 2}
  BY DEF UnitsPerMetre
<1>2. \A u \in LengthUnits(file) : u.prefix \in DOMAIN UnitsPerMetre
  BY DEF LengthUnitAccepted
<1>3. LengthUnits(file) # {} => (CHOOSE u \in LengthUnits(file) : TRUE) \in LengthUnits(file)
  OBVIOUS
<1> QED BY <1>1, <1>2, <1>3 DEF PerMetre

LEMMA ToMetresIs ==
  ASSUME NEW file, LengthUnitAccepted(file), NEW q, NEW n \in Int
  PROVE  ToMetres(file, q, n) \in Int
BY PerMetreIs DEF ToMetres

LEMMA PriorSigmaIs ==
  ASSUME NEW file, IsFile(file), LengthUnitAccepted(file), SlotsGiven(file),
         NEW p \in Products(file), NEW q \in SlotsOf(file, p)
  PROVE  PriorSigma(file, <<p, q>>) \in Int
<1> DEFINE v == <<p, q>>
           mean == file.numbers[SourceOf(file, v)]
           beside == IF q \in Strength \cup {"UnitCost"} THEN SourceSet(q) ELSE "Quantities"
           Given(set) == ToMetres(file, q, ValueOf(file, p, set, SigmaName[q]))
<1>1. \A set \in ReaderSets : NumbersReadable(file, p, set)
  BY DEF SlotsGiven, ProductReadable
<1>2. ASSUME NEW set \in ReaderSets, Has(file, p, set, SigmaName[q])
      PROVE  Given(set) \in Int
  <2>1. ValueOf(file, p, set, SigmaName[q]) \in Int
    BY <1>1, <1>2, ReadableRecord
  <2> QED BY <2>1, ToMetresIs
<1>3. PriorSigma(file, v) =
        IF Has(file, p, "GAT_Posterior", SigmaName[q]) THEN Given("GAT_Posterior")
        ELSE IF Has(file, p, "GAT_Uncertainty", SigmaName[q]) THEN Given("GAT_Uncertainty")
        ELSE IF q \in Strength \/ (q = "UnitCost" /\ Has(file, p, beside, SigmaName[q]))
        THEN Given(beside)
        ELSE IF q = "UnitCost" THEN Max({80 * mean, -80 * mean, MinPriorSigma})
        ELSE DefaultSigma[file.products[p].class][q]
  BY DEF PriorSigma
<1>4. beside \in ReaderSets
  BY DEF ReaderSets, SourceSet
<1>5. q \in Strength => Has(file, p, beside, SigmaName[q])
  <2> SUFFICES ASSUME q \in Strength PROVE Has(file, p, beside, SigmaName[q])
    OBVIOUS
  <2>1. file.products[p].class = "IfcBeam" /\ SourceSet(q) = "GAT_Structural"
    BY SlotIs, ProductClassIs DEF Strength
  <2> QED BY <2>1 DEF SlotsGiven, BeamContract
<1>6. Max({80 * mean, -80 * mean, MinPriorSigma}) \in Int
  <2>1. mean \in Int
    BY SourceIs
  <2> HIDE DEF mean
  <2> DEFINE three == {80 * mean, -80 * mean, MinPriorSigma}
  <2>2. \E x \in three : \A y \in three : x >= y
    BY <2>1 DEF MinPriorSigma
  <2>3. Max(three) \in three
    <3> HIDE DEF three
    <3> QED BY <2>2 DEF Max
  <2> QED BY <2>1, <2>3 DEF MinPriorSigma
<1>7. q \in RequiredQuantities[file.products[p].class]
        => DefaultSigma[file.products[p].class][q] \in Int
  BY ProductClassIs DEF RequiredQuantities, ProductClasses, DefaultSigma
<1>8. q \in Strength \/ q = "UnitCost" \/ q \in RequiredQuantities[file.products[p].class]
  BY SlotIs
<1> HIDE DEF beside, Given, mean, v
<1>9. {"GAT_Posterior", "GAT_Uncertainty"} \subseteq ReaderSets
  BY DEF ReaderSets
<1>10. PriorSigma(file, v) \in Int
  BY <1>2, <1>3, <1>4, <1>5, <1>6, <1>7, <1>8, <1>9
<1> QED BY <1>10 DEF v

LEMMA LoadedIsWorld ==
  ASSUME NEW file, IsFile(file), Lowers(file)
  PROVE  IsWorldOf(LowerIfc(file), file)
<1>1. LowerIfc(file) = WorldOf(file, Priors(file))
  BY DEF LowerIfc, WorldOf
<1>2. LengthUnitAccepted(file) /\ SlotsGiven(file)
  BY DEF Lowers
<1>3. ASSUME NEW v \in RawVars(file)
      PROVE  /\ ToMetres(file, v[2], file.numbers[SourceOf(file, v)]) \in Int
             /\ PriorSigma(file, v) \in Int
  <2>1. v = <<v[1], v[2]>> /\ v[1] \in Products(file) /\ v[2] \in SlotsOf(file, v[1])
    BY RawVarIs
  <2>2. file.numbers[SourceOf(file, v)] \in Int
    BY <1>2, <2>1, SourceIs
  <2>3. PriorSigma(file, v) \in Int
    BY <1>2, <2>1, PriorSigmaIs
  <2> QED BY <1>2, <2>2, <2>3, ToMetresIs
<1>4. Priors(file) \in Beliefs(file)
  BY <1>3 DEF Priors, Beliefs
<1> QED BY <1>1, <1>4 DEF IsWorldOf

(* What a session keeps of its file while its belief moves.                *)
LEMMA WorldFields ==
  ASSUME NEW file, NEW b, NEW w, w = WorldOf(file, b)
  PROVE  /\ w.classes = [p \in Products(file) |-> file.products[p].class]
         /\ w.gids = [p \in Products(file) |-> file.products[p].gid]
         /\ w.sources = [v \in RawVars(file) |-> SourceOf(file, v)]
         /\ w.rels = EdgesAmong(Products(file), file.rels)
         /\ w.perMetre = PerMetre(file) /\ w.belief = b
         /\ DOMAIN w.classes = Products(file) /\ DOMAIN w.gids = Products(file)
         /\ DOMAIN w.sources = RawVars(file)
BY DEF WorldOf

LEMMA MovedIsWorld ==
  ASSUME NEW file, NEW w, IsWorldOf(w, file), NEW v, NEW sigma \in Int, v \in DOMAIN w.belief
  PROVE  IsWorldOf([w EXCEPT !.belief[v] = [mean |-> @.mean + 1, sigma |-> sigma]], file)
<1>1. PICK b \in Beliefs(file) : w = WorldOf(file, b)
  BY DEF IsWorldOf
<1> DEFINE c == [b EXCEPT ![v] = [mean |-> @.mean + 1, sigma |-> sigma]]
<1>2. w.belief = b
  BY <1>1 DEF WorldOf
<1>3. [w EXCEPT !.belief[v] = [mean |-> @.mean + 1, sigma |-> sigma]] = WorldOf(file, c)
  BY <1>1 DEF WorldOf
<1>4. c \in Beliefs(file)
  BY <1>2 DEF Beliefs
<1> QED BY <1>3, <1>4 DEF IsWorldOf

-----------------------------------------------------------------------------
(* Export: the step ids it allocates *)

LEMMA NewIdIs ==
  ASSUME NEW last \in Nat, NEW p \in Nat, p > 0, NEW n \in 0..8
  PROVE  /\ NewId(last, p, n) \in Nat /\ NewId(last, p, n) > last
         /\ OwnerOf(last, NewId(last, p, n)) = p
         /\ (NewId(last, p, n) - last) % 9 = n
<1>1. NewId(last, p, n) - last = 9 * p + n
  BY DEF NewId
<1>2. (9 * p + n) \div 9 = p /\ (9 * p + n) % 9 = n
  OBVIOUS
<1> QED BY <1>1, <1>2 DEF NewId, OwnerOf

(* Every step id of a file with a product is at most the largest one.      *)
LEMMA LastIs ==
  ASSUME NEW file, IsFile(file), NEW p \in DOMAIN file.products
  PROVE  /\ MaxStepId(file) \in Nat
         /\ \A ids \in {DOMAIN file.products, DOMAIN file.definitions, DOMAIN file.numbers,
                        DOMAIN file.texts, DOMAIN file.defines} :
               \A id \in ids : id \in Nat /\ id <= MaxStepId(file)
<1> DEFINE all == DOMAIN file.products \cup DOMAIN file.definitions \cup DOMAIN file.numbers
                    \cup DOMAIN file.texts \cup DOMAIN file.defines
<1>1. /\ IsFiniteSet(DOMAIN file.products) /\ IsFiniteSet(DOMAIN file.definitions)
      /\ IsFiniteSet(DOMAIN file.numbers) /\ IsFiniteSet(DOMAIN file.texts)
      /\ IsFiniteSet(DOMAIN file.defines)
  BY DEF IsFile
<1>2. IsFiniteSet(DOMAIN file.products \cup DOMAIN file.definitions)
  BY <1>1, FS_Union
<1>3. IsFiniteSet(DOMAIN file.products \cup DOMAIN file.definitions \cup DOMAIN file.numbers)
  BY <1>1, <1>2, FS_Union
<1>4. IsFiniteSet(DOMAIN file.products \cup DOMAIN file.definitions \cup DOMAIN file.numbers
                    \cup DOMAIN file.texts)
  BY <1>1, <1>3, FS_Union
<1>5. IsFiniteSet(all)
  BY <1>1, <1>4, FS_Union
<1>6. all \subseteq Nat /\ all # {}
  BY DEF IsFile
<1>7. Max(all) \in all /\ \A x \in all : x <= Max(all)
  <2> HIDE DEF all
  <2> QED BY <1>5, <1>6, MaxIs
<1>8. MaxStepId(file) = Max(all)
  BY DEF MaxStepId
<1> HIDE DEF all
<1>9. MaxStepId(file) \in Nat /\ \A x \in all : x \in Nat /\ x <= MaxStepId(file)
  BY <1>6, <1>7, <1>8
<1> QED BY <1>9 DEF all

LEMMA ProductIdIs ==
  ASSUME NEW file, IsFile(file), NEW p \in Products(file)
  PROVE  p \in DOMAIN file.products /\ p \in Nat /\ p > 0
BY DEF IsFile, Products

LEMMA SlotNumberIs ==
  ASSUME NEW q \in DOMAIN SigmaName
  PROVE  LET i == CHOOSE i \in DOMAIN SlotOrder : SlotOrder[i] = q
         IN  i \in 1..7 /\ SlotOrder[i] = q
<1>1. DOMAIN SlotOrder = 1..7
  BY DEF SlotOrder
<1>2. \E i \in 1..7 : SlotOrder[i] = q
  <2>1. /\ SlotOrder[1] = "ClearHeight" /\ SlotOrder[2] = "Height" /\ SlotOrder[3] = "Length"
        /\ SlotOrder[4] = "PlasticSectionModulusMajorM3" /\ SlotOrder[5] = "UnitCost"
        /\ SlotOrder[6] = "Width" /\ SlotOrder[7] = "YieldStrengthMPa"
    BY DEF SlotOrder
  <2>2. q \in {"ClearHeight", "Height", "Length", "PlasticSectionModulusMajorM3", "UnitCost",
               "Width", "YieldStrengthMPa"}
    BY DEF SigmaName
  <2>3. {1, 2, 3, 4, 5, 6, 7} \subseteq 1..7
    OBVIOUS
  <2> QED BY <2>1, <2>2, <2>3
<1> QED BY <1>1, <1>2

LEMMA SigmaAtIs ==
  ASSUME NEW file, IsFile(file), NEW p \in Products(file), NEW q \in DOMAIN SigmaName
  PROVE  LET last == MaxStepId(file)  v == <<p, q>>
         IN  /\ SigmaAt(last, v) \in Nat /\ SigmaAt(last, v) > last
             /\ VariableAt(last, SigmaAt(last, v)) = v
<1> DEFINE last == MaxStepId(file)
           i == CHOOSE i \in DOMAIN SlotOrder : SlotOrder[i] = q
<1>1. i \in 1..7 /\ SlotOrder[i] = q
  BY SlotNumberIs
<1>2. last \in Nat /\ p \in Nat /\ p > 0
  BY LastIs, ProductIdIs
<1>3. SigmaAt(last, <<p, q>>) = NewId(last, p, i)
  BY DEF SigmaAt
<1> HIDE DEF i, last
<1>4. i \in 0..8
  BY <1>1
<1>5. /\ NewId(last, p, i) \in Nat /\ NewId(last, p, i) > last
      /\ OwnerOf(last, NewId(last, p, i)) = p /\ (NewId(last, p, i) - last) % 9 = i
  BY <1>2, <1>4, NewIdIs
<1>6. VariableAt(last, NewId(last, p, i)) = <<p, q>>
  BY <1>1, <1>5 DEF VariableAt
<1> QED BY <1>3, <1>5, <1>6 DEF last

LEMMA SetAtIs ==
  ASSUME NEW file, IsFile(file), NEW p \in Products(file)
  PROVE  LET last == MaxStepId(file)
         IN  /\ last \in Nat
             /\ SetAt(last, p) \in Nat /\ SetAt(last, p) > last
             /\ OwnerOf(last, SetAt(last, p)) = p
             /\ RelationAt(last, p) \in Nat /\ RelationAt(last, p) > last
             /\ OwnerOf(last, RelationAt(last, p)) = p
<1> DEFINE last == MaxStepId(file)
<1>1. last \in Nat /\ p \in Nat /\ p > 0
  BY LastIs, ProductIdIs
<1>2. 0 \in 0..8 /\ 8 \in 0..8
  OBVIOUS
<1> HIDE DEF last
<1>3. /\ NewId(last, p, 0) \in Nat /\ NewId(last, p, 0) > last
      /\ OwnerOf(last, NewId(last, p, 0)) = p
  BY <1>1, <1>2, NewIdIs
<1>4. /\ NewId(last, p, 8) \in Nat /\ NewId(last, p, 8) > last
      /\ OwnerOf(last, NewId(last, p, 8)) = p
  BY <1>1, <1>2, NewIdIs
<1> QED BY <1>1, <1>3, <1>4 DEF SetAt, RelationAt, last

-----------------------------------------------------------------------------
(* Export: the file it writes *)

LEMMA OverIs ==
  ASSUME NEW f, NEW g
  PROVE  /\ DOMAIN Over(f, g) = DOMAIN f \cup DOMAIN g
         /\ \A x \in DOMAIN f : Over(f, g)[x] = f[x]
         /\ \A x \in DOMAIN g \ DOMAIN f : Over(f, g)[x] = g[x]
BY DEF Over

LEMMA WithoutIs ==
  ASSUME NEW f, NEW gone
  PROVE  /\ DOMAIN Without(f, gone) = DOMAIN f \ gone
         /\ \A x \in DOMAIN f \ gone : Without(f, gone)[x] = f[x]
BY DEF Without, Restrict

LEMMA SigmaNamesDiffer ==
  \A q, r \in DOMAIN SigmaName : SigmaName[q] = SigmaName[r] => q = r
BY DEF SigmaName

(* What the writer keeps as it was.                                        *)
LEMMA ExportKeeps ==
  ASSUME NEW file, NEW w
  PROVE  LET back == ExportIfc(file, w)
         IN  /\ back.units = file.units /\ back.assigned = file.assigned
             /\ back.products = file.products
             /\ back.placements = file.placements /\ back.rels = file.rels
BY DEF ExportIfc, Exported

LEMMA ExportedFields ==
  ASSUME NEW file, NEW w
  PROVE  LET back == ExportIfc(file, w)  last == MaxStepId(file)
         IN  /\ back.definitions = Over(Posteriors(last, w), Without(file.definitions, StaleSets(file)))
             /\ back.numbers = Over(Sigmas(last, w), Patched(file, w))
             /\ back.texts = Without(file.texts, StaleRecords(file))
             /\ back.defines = Over(Attachments(last, w), Without(file.defines, StaleRelations(file)))
<1> HIDE DEF MaxStepId
<1> QED BY DEF ExportIfc, Exported

LEMMA ExportedTexts ==
  ASSUME NEW file, NEW w
  PROVE  LET back == ExportIfc(file, w)
         IN  /\ DOMAIN back.texts = DOMAIN file.texts \ StaleRecords(file)
             /\ \A t \in DOMAIN back.texts : back.texts[t] = file.texts[t]
<1>1. ExportIfc(file, w).texts = Without(file.texts, StaleRecords(file))
  BY ExportedFields
<1>2. DOMAIN Without(file.texts, StaleRecords(file)) = DOMAIN file.texts \ StaleRecords(file)
      /\ \A t \in DOMAIN file.texts \ StaleRecords(file) :
            Without(file.texts, StaleRecords(file))[t] = file.texts[t]
  BY WithoutIs
<1> QED BY <1>1, <1>2

LEMMA SlotsNamedAre ==
  ASSUME NEW file, NEW w, IsWorldOf(w, file), NEW p \in Products(file)
  PROVE  SlotsNamed(w, p) = SlotsOf(file, p)
<1>1. DOMAIN w.belief = RawVars(file)
  BY DEF IsWorldOf, WorldOf, Beliefs
<1>2. ASSUME NEW q
      PROVE  <<p, q>> \in RawVars(file) <=> q \in SlotsOf(file, p)
  BY DEF RawVars
<1>3. SlotsOf(file, p) \subseteq DOMAIN SigmaName
  BY SlotIs
<1> QED BY <1>1, <1>2, <1>3 DEF SlotsNamed

LEMMA PosteriorIs ==
  ASSUME NEW file, NEW w, IsWorldOf(w, file), NEW p \in Products(file), NEW last
  PROVE  /\ Posterior(last, w, p).set = "GAT_Posterior"
         /\ DOMAIN Posterior(last, w, p).members = {SigmaName[q] : q \in SlotsOf(file, p)}
         /\ \A q \in SlotsOf(file, p) :
               Posterior(last, w, p).members[SigmaName[q]] = SigmaAt(last, <<p, q>>)
<1> DEFINE slots == SlotsNamed(w, p)
           named(name) == CHOOSE q \in slots : SigmaName[q] = name
           members == [name \in {SigmaName[q] : q \in slots} |-> SigmaAt(last, <<p, named(name)>>)]
<1>1. Posterior(last, w, p) = [set |-> "GAT_Posterior", members |-> members]
  BY DEF Posterior
<1>2. slots = SlotsOf(file, p) /\ slots \subseteq DOMAIN SigmaName
  BY SlotsNamedAre, SlotIs
<1> HIDE DEF slots
<1>3. ASSUME NEW q \in slots
      PROVE  named(SigmaName[q]) = q
  BY <1>2, <1>3, SigmaNamesDiffer
<1>4. \A q \in slots : members[SigmaName[q]] = SigmaAt(last, <<p, q>>)
  <2> SUFFICES ASSUME NEW q \in slots PROVE members[SigmaName[q]] = SigmaAt(last, <<p, q>>)
    OBVIOUS
  <2>1. SigmaName[q] \in {SigmaName[r] : r \in slots}
    OBVIOUS
  <2>2. members[SigmaName[q]] = SigmaAt(last, <<p, named(SigmaName[q])>>)
    <3> HIDE DEF named
    <3> QED BY <2>1
  <2> QED BY <2>2, <1>3
<1>5. DOMAIN members = {SigmaName[q] : q \in slots}
  OBVIOUS
<1> HIDE DEF members
<1> QED BY <1>1, <1>2, <1>4, <1>5

LEMMA ExportedDefinitions ==
  ASSUME NEW file, IsFile(file), NEW w, IsWorldOf(w, file)
  PROVE  LET back == ExportIfc(file, w)  last == MaxStepId(file)
         IN  /\ DOMAIN back.definitions
                  = {SetAt(last, p) : p \in Products(file)}
                      \cup (DOMAIN file.definitions \ StaleSets(file))
             /\ \A p \in Products(file) :
                   back.definitions[SetAt(last, p)] = Posterior(last, w, p)
             /\ \A d \in DOMAIN file.definitions \ StaleSets(file) :
                   /\ back.definitions[d] = file.definitions[d]
                   /\ \A p \in Products(file) : d # SetAt(last, p)
<1> DEFINE last == MaxStepId(file)
           new  == Posteriors(last, w)
           old  == Without(file.definitions, StaleSets(file))
<1>1. DOMAIN w.classes = Products(file)
  BY DEF IsWorldOf, WorldOf
<1>2. \A p \in Products(file) : SetAt(last, p) > last /\ last \in Nat /\ OwnerOf(last, SetAt(last, p)) = p
  BY SetAtIs
<1>3. \A p \in Products(file), d \in DOMAIN file.definitions : d \in Nat /\ d <= last
  BY LastIs, ProductIdIs
<1> HIDE DEF last
<1>4. DOMAIN new = {SetAt(last, p) : p \in Products(file)}
  BY <1>1 DEF Posteriors
<1>5. \A p \in Products(file) : new[SetAt(last, p)] = Posterior(last, w, p)
  BY <1>1, <1>2 DEF Posteriors
<1>6. \A p \in Products(file), d \in DOMAIN file.definitions : d # SetAt(last, p)
  <2> SUFFICES ASSUME NEW p \in Products(file), NEW d \in DOMAIN file.definitions, d = SetAt(last, p)
               PROVE  FALSE
    OBVIOUS
  <2>1. d \in Nat /\ d <= last /\ d > last /\ last \in Nat
    BY <1>2, <1>3
  <2> QED BY <2>1
<1>7. DOMAIN old = DOMAIN file.definitions \ StaleSets(file)
      /\ \A d \in DOMAIN old : old[d] = file.definitions[d] /\ d \notin DOMAIN new
  <2>1. DOMAIN old = DOMAIN file.definitions \ StaleSets(file)
        /\ \A d \in DOMAIN file.definitions \ StaleSets(file) : old[d] = file.definitions[d]
    BY WithoutIs
  <2> HIDE DEF old, new
  <2> QED BY <2>1, <1>4, <1>6
<1>8. ExportIfc(file, w).definitions = Over(new, old)
  BY ExportedFields DEF last
<1> HIDE DEF new, old
<1>9. /\ DOMAIN Over(new, old) = DOMAIN new \cup DOMAIN old
      /\ \A x \in DOMAIN new : Over(new, old)[x] = new[x]
      /\ \A x \in DOMAIN old \ DOMAIN new : Over(new, old)[x] = old[x]
  BY OverIs
<1> QED BY <1>4, <1>5, <1>6, <1>7, <1>8, <1>9 DEF last

LEMMA ExportedRelations ==
  ASSUME NEW file, IsFile(file), NEW w, IsWorldOf(w, file)
  PROVE  LET back == ExportIfc(file, w)  last == MaxStepId(file)
         IN  /\ DOMAIN back.defines
                  = {RelationAt(last, p) : p \in Products(file)}
                      \cup (DOMAIN file.defines \ StaleRelations(file))
             /\ \A p \in Products(file) :
                   back.defines[RelationAt(last, p)]
                     = [products |-> {p}, definition |-> SetAt(last, p)]
             /\ \A d \in DOMAIN file.defines \ StaleRelations(file) :
                   back.defines[d] = file.defines[d]
<1> DEFINE last == MaxStepId(file)
           new  == Attachments(last, w)
           old  == Without(file.defines, StaleRelations(file))
<1>1. DOMAIN w.classes = Products(file)
  BY DEF IsWorldOf, WorldOf
<1>2. \A p \in Products(file) :
         RelationAt(last, p) > last /\ last \in Nat /\ OwnerOf(last, RelationAt(last, p)) = p
  BY SetAtIs
<1>3. \A p \in Products(file), d \in DOMAIN file.defines : d \in Nat /\ d <= last
  BY LastIs, ProductIdIs
<1> HIDE DEF last
<1>4. DOMAIN new = {RelationAt(last, p) : p \in Products(file)}
  BY <1>1 DEF Attachments
<1>5. \A p \in Products(file) :
         new[RelationAt(last, p)] = [products |-> {p}, definition |-> SetAt(last, p)]
  BY <1>1, <1>2 DEF Attachments
<1>6. \A p \in Products(file), d \in DOMAIN file.defines : d # RelationAt(last, p)
  <2> SUFFICES ASSUME NEW p \in Products(file), NEW d \in DOMAIN file.defines, d = RelationAt(last, p)
               PROVE  FALSE
    OBVIOUS
  <2>1. d \in Nat /\ d <= last /\ d > last /\ last \in Nat
    BY <1>2, <1>3
  <2> QED BY <2>1
<1>7. DOMAIN old = DOMAIN file.defines \ StaleRelations(file)
      /\ \A d \in DOMAIN old : old[d] = file.defines[d] /\ d \notin DOMAIN new
  <2>1. DOMAIN old = DOMAIN file.defines \ StaleRelations(file)
        /\ \A d \in DOMAIN file.defines \ StaleRelations(file) : old[d] = file.defines[d]
    BY WithoutIs
  <2> HIDE DEF old, new
  <2> QED BY <2>1, <1>4, <1>6
<1>8. ExportIfc(file, w).defines = Over(new, old)
  BY ExportedFields DEF last
<1> HIDE DEF new, old
<1>9. /\ DOMAIN Over(new, old) = DOMAIN new \cup DOMAIN old
      /\ \A x \in DOMAIN new : Over(new, old)[x] = new[x]
      /\ \A x \in DOMAIN old \ DOMAIN new : Over(new, old)[x] = old[x]
  BY OverIs
<1> QED BY <1>4, <1>5, <1>7, <1>8, <1>9 DEF last

LEMMA ExportedNumbers ==
  ASSUME NEW file, IsFile(file), NEW w, IsWorldOf(w, file)
  PROVE  LET back == ExportIfc(file, w)  last == MaxStepId(file)
         IN  /\ DOMAIN back.numbers
                  = {SigmaAt(last, v) : v \in RawVars(file)}
                      \cup (DOMAIN file.numbers \ StaleRecords(file))
             /\ \A v \in RawVars(file) :
                   back.numbers[SigmaAt(last, v)] = FromMetres(w, v[2], PosteriorSigma(w, v))
             /\ \A r \in DOMAIN file.numbers \ StaleRecords(file) :
                   back.numbers[r] = IF r \in Range(w.sources)
                                     THEN FromMetres(w, PatchedFrom(w, r)[2],
                                                     w.belief[PatchedFrom(w, r)].mean)
                                     ELSE file.numbers[r]
<1> DEFINE last == MaxStepId(file)
           new  == Sigmas(last, w)
           old  == Patched(file, w)
           rest == DOMAIN file.numbers \ StaleRecords(file)
           patch(r) == IF r \in Range(w.sources)
                       THEN FromMetres(w, PatchedFrom(w, r)[2], w.belief[PatchedFrom(w, r)].mean)
                       ELSE file.numbers[r]
<1>1. DOMAIN w.belief = RawVars(file)
  BY DEF IsWorldOf, WorldOf, Beliefs
<1>2. ASSUME NEW v \in RawVars(file)
      PROVE  /\ SigmaAt(last, v) \in Nat /\ SigmaAt(last, v) > last
             /\ VariableAt(last, SigmaAt(last, v)) = v
             /\ last \in Nat
             /\ \A r \in DOMAIN file.numbers : r \in Nat /\ r <= last
  <2>1. v = <<v[1], v[2]>> /\ v[1] \in Products(file) /\ v[2] \in DOMAIN SigmaName
    BY RawVarIs, SlotIs
  <2> HIDE DEF last
  <2>2. /\ SigmaAt(last, <<v[1], v[2]>>) \in Nat /\ SigmaAt(last, <<v[1], v[2]>>) > last
        /\ VariableAt(last, SigmaAt(last, <<v[1], v[2]>>)) = <<v[1], v[2]>>
    BY <2>1, SigmaAtIs DEF last
  <2>3. last \in Nat /\ \A r \in DOMAIN file.numbers : r \in Nat /\ r <= last
    BY <2>1, LastIs, ProductIdIs DEF last
  <2> QED BY <2>1, <2>2, <2>3
<1> HIDE DEF last
<1>3. DOMAIN new = {SigmaAt(last, v) : v \in RawVars(file)}
  BY <1>1 DEF Sigmas
<1>4. ASSUME NEW v \in RawVars(file)
      PROVE  new[SigmaAt(last, v)] = FromMetres(w, v[2], PosteriorSigma(w, v))
  <2>1. SigmaAt(last, v) \in {SigmaAt(last, u) : u \in DOMAIN w.belief}
    BY <1>1
  <2>2. new[SigmaAt(last, v)]
          = LET u == VariableAt(last, SigmaAt(last, v)) IN FromMetres(w, u[2], PosteriorSigma(w, u))
    BY <2>1 DEF Sigmas
  <2> QED BY <1>2, <2>2
<1>5. \A v \in RawVars(file), r \in DOMAIN file.numbers : r # SigmaAt(last, v)
  <2> SUFFICES ASSUME NEW v \in RawVars(file), NEW r \in DOMAIN file.numbers, r = SigmaAt(last, v)
               PROVE  FALSE
    OBVIOUS
  <2>1. r \in Nat /\ r <= last /\ r > last /\ last \in Nat
    BY <1>2
  <2> QED BY <2>1
<1>6. DOMAIN old = rest /\ \A r \in rest : old[r] = patch(r)
  <2>1. DOMAIN Without(file.numbers, StaleRecords(file)) = rest
        /\ \A r \in rest : Without(file.numbers, StaleRecords(file))[r] = file.numbers[r]
    BY WithoutIs
  <2> HIDE DEF rest
  <2> QED BY <2>1 DEF Patched
<1>7. ExportIfc(file, w).numbers = Over(new, old)
  BY ExportedFields DEF last
<1> HIDE DEF new, old, patch
<1>8. \A r \in rest : r \notin DOMAIN new
  BY <1>3, <1>5
<1>9. /\ DOMAIN Over(new, old) = DOMAIN new \cup DOMAIN old
      /\ \A x \in DOMAIN new : Over(new, old)[x] = new[x]
      /\ \A x \in DOMAIN old \ DOMAIN new : Over(new, old)[x] = old[x]
  BY OverIs
<1>10. \A v \in RawVars(file) : Over(new, old)[SigmaAt(last, v)]
                                  = FromMetres(w, v[2], PosteriorSigma(w, v))
  BY <1>3, <1>4, <1>9
<1>11. \A r \in rest : Over(new, old)[r] = patch(r)
  BY <1>6, <1>8, <1>9
<1> QED BY <1>3, <1>6, <1>7, <1>9, <1>10, <1>11 DEF last, patch

(* The record a mean is written to is that of a variable read from it.     *)
LEMMA PatchedFromIs ==
  ASSUME NEW file, IsFile(file), NEW w, IsWorldOf(w, file), NEW r \in Range(w.sources)
  PROVE  PatchedFrom(w, r) \in RawVars(file) /\ w.sources[PatchedFrom(w, r)] = r
<1> DEFINE naming == {v \in DOMAIN w.sources : w.sources[v] = r}
           firsts == {v[1] : v \in naming}
<1>1. naming \subseteq RawVars(file) /\ naming # {}
  BY DEF IsWorldOf, WorldOf, Range
<1>2. firsts \subseteq DOMAIN file.products
  BY <1>1, RawVarIs
<1>3. firsts \subseteq Nat /\ IsFiniteSet(firsts)
  BY <1>2, FS_Subset DEF IsFile
<1>4. firsts # {}
  BY <1>1
<1>5. Max(firsts) \in firsts /\ \A x \in firsts : x <= Max(firsts)
  <2> HIDE DEF firsts
  <2> QED BY <1>3, <1>4, MaxIs
<1>6. \E v \in naming : \A u \in naming : u[1] <= v[1]
  BY <1>5
<1>7. PatchedFrom(w, r) \in naming
  <2>1. PatchedFrom(w, r) = CHOOSE v \in naming : \A u \in naming : u[1] <= v[1]
    BY DEF PatchedFrom
  <2> HIDE DEF naming
  <2> QED BY <1>6, <2>1
<1> QED BY <1>1, <1>7

-----------------------------------------------------------------------------
(* Export: what the reader finds in it *)

LEMMA KeptRelationIs ==
  ASSUME NEW file, IsFile(file), NEW w, IsWorldOf(w, file), PropertyGraphReadable(file),
         NEW d \in DOMAIN file.defines \ StaleRelations(file)
  PROVE  LET back == ExportIfc(file, w)
         IN  /\ d \in DOMAIN back.defines /\ back.defines[d] = file.defines[d]
             /\ file.defines[d].definition \in DOMAIN file.definitions \ StaleSets(file)
             /\ file.definitions[file.defines[d].definition].set # "GAT_Posterior"
             /\ back.definitions[file.defines[d].definition]
                  = file.definitions[file.defines[d].definition]
<1>1. file.defines[d].definition \in DOMAIN file.definitions \ StaleSets(file)
  BY DEF PropertyGraphReadable, StaleRelations
<1>2. file.definitions[file.defines[d].definition].set # "GAT_Posterior"
  BY <1>1 DEF StaleSets
<1>3. ExportIfc(file, w).definitions[file.defines[d].definition]
        = file.definitions[file.defines[d].definition]
  BY <1>1, ExportedDefinitions
<1>4. d \in DOMAIN ExportIfc(file, w).defines /\ ExportIfc(file, w).defines[d] = file.defines[d]
  BY ExportedRelations
<1> QED BY <1>1, <1>2, <1>3, <1>4

LEMMA NewRelationIs ==
  ASSUME NEW file, IsFile(file), NEW w, IsWorldOf(w, file), NEW p \in Products(file)
  PROVE  LET back == ExportIfc(file, w)  last == MaxStepId(file)  d == RelationAt(last, p)
         IN  /\ d \in DOMAIN back.defines /\ back.defines[d].products = {p}
             /\ back.defines[d].definition = SetAt(last, p)
             /\ SetAt(last, p) \in DOMAIN back.definitions
             /\ back.definitions[SetAt(last, p)] = Posterior(last, w, p)
             /\ back.definitions[back.defines[d].definition].set = "GAT_Posterior"
<1> DEFINE last == MaxStepId(file)
           back == ExportIfc(file, w)
           d == RelationAt(last, p)
<1>1. d \in DOMAIN back.defines
      /\ back.defines[d] = [products |-> {p}, definition |-> SetAt(last, p)]
  BY ExportedRelations
<1>2. SetAt(last, p) \in DOMAIN back.definitions
      /\ back.definitions[SetAt(last, p)] = Posterior(last, w, p)
  BY ExportedDefinitions
<1> HIDE DEF last, back, d
<1>3. Posterior(last, w, p).set = "GAT_Posterior"
  BY PosteriorIs
<1> QED BY <1>1, <1>2, <1>3 DEF last, back, d

LEMMA RelationIsNewOrKept ==
  ASSUME NEW file, IsFile(file), NEW w, IsWorldOf(w, file),
         NEW d \in DOMAIN ExportIfc(file, w).defines
  PROVE  \/ \E p \in Products(file) : d = RelationAt(MaxStepId(file), p)
         \/ d \in DOMAIN file.defines \ StaleRelations(file)
BY ExportedRelations

LEMMA SetsKept ==
  ASSUME NEW file, IsFile(file), NEW w, IsWorldOf(w, file), PropertyGraphReadable(file),
         NEW p, NEW set, set # "GAT_Posterior"
  PROVE  LET back == ExportIfc(file, w)
         IN  /\ Sets(back, p, set) = Sets(file, p, set)
             /\ \A d \in Sets(file, p, set) :
                   /\ Listed(back, d) = Listed(file, d)
                   /\ file.defines[d].definition \in DOMAIN file.definitions \ StaleSets(file)
<1> DEFINE back == ExportIfc(file, w)
           kept == DOMAIN file.defines \ StaleRelations(file)
<1>1. ASSUME NEW d \in kept
      PROVE  /\ d \in DOMAIN back.defines /\ back.defines[d] = file.defines[d]
             /\ file.defines[d].definition \in DOMAIN file.definitions \ StaleSets(file)
             /\ back.definitions[file.defines[d].definition]
                  = file.definitions[file.defines[d].definition]
  BY KeptRelationIs
<1>2. Sets(file, p, set) \subseteq kept
  BY DEF Sets, StaleRelations, StaleSets
<1>3. Sets(back, p, set) \subseteq kept
  <2> SUFFICES ASSUME NEW d \in Sets(back, p, set) PROVE d \in kept
    OBVIOUS
  <2>1. d \in DOMAIN back.defines /\ back.definitions[back.defines[d].definition].set = set
    BY DEF Sets
  <2>2. ASSUME NEW q \in Products(file), d = RelationAt(MaxStepId(file), q)
        PROVE  FALSE
    BY <2>1, <2>2, NewRelationIs
  <2> QED BY <2>1, <2>2, RelationIsNewOrKept
<1> HIDE DEF kept, back
<1>4. ASSUME NEW d \in kept
      PROVE  d \in Sets(back, p, set) <=> d \in Sets(file, p, set)
  <2>1. d \in DOMAIN file.defines
    BY DEF kept
  <2> QED BY <1>1, <2>1 DEF Sets
<1>5. Sets(back, p, set) = Sets(file, p, set)
  BY <1>2, <1>3, <1>4
<1>6. \A d \in Sets(file, p, set) :
         /\ Listed(back, d) = Listed(file, d)
         /\ file.defines[d].definition \in DOMAIN file.definitions \ StaleSets(file)
  BY <1>1, <1>2 DEF Listed
<1> QED BY <1>5, <1>6 DEF back

LEMMA PosteriorSets ==
  ASSUME NEW file, IsFile(file), NEW w, IsWorldOf(w, file), PropertyGraphReadable(file),
         NEW p \in Products(file)
  PROVE  LET back == ExportIfc(file, w)  last == MaxStepId(file)
         IN  /\ Sets(back, p, "GAT_Posterior") = {RelationAt(last, p)}
             /\ Listed(back, RelationAt(last, p)) = Posterior(last, w, p).members
<1> DEFINE back == ExportIfc(file, w)
           last == MaxStepId(file)
<1>1. RelationAt(last, p) \in Sets(back, p, "GAT_Posterior")
  BY NewRelationIs DEF Sets
<1>2. ASSUME NEW d \in Sets(back, p, "GAT_Posterior")
      PROVE  d = RelationAt(last, p)
  <2>1. /\ d \in DOMAIN back.defines /\ p \in back.defines[d].products
        /\ back.definitions[back.defines[d].definition].set = "GAT_Posterior"
    BY <1>2 DEF Sets
  <2>2. ASSUME NEW q \in Products(file), d = RelationAt(last, q)
        PROVE  d = RelationAt(last, p)
    <3>1. back.defines[d].products = {q}
      BY <2>2, NewRelationIs
    <3> QED BY <2>1, <2>2, <3>1
  <2>3. d \notin DOMAIN file.defines \ StaleRelations(file)
    BY <2>1, KeptRelationIs
  <2> QED BY <2>1, <2>2, <2>3, RelationIsNewOrKept
<1>3. Listed(back, RelationAt(last, p)) = Posterior(last, w, p).members
  BY NewRelationIs DEF Listed
<1> QED BY <1>1, <1>2, <1>3

LEMMA RecordsKept ==
  ASSUME NEW file, IsFile(file), NEW w, IsWorldOf(w, file), PropertyGraphReadable(file),
         NEW p, NEW set, set # "GAT_Posterior", NEW name
  PROVE  LET back == ExportIfc(file, w)
         IN  /\ RecordOf(back, p, set, name) = RecordOf(file, p, set, name)
             /\ Has(back, p, set, name) <=> Has(file, p, set, name)
<1> DEFINE back == ExportIfc(file, w)
           naming == {d \in Sets(file, p, set) : name \in DOMAIN Listed(file, d)}
<1>1. Sets(back, p, set) = Sets(file, p, set)
      /\ \A d \in Sets(file, p, set) : Listed(back, d) = Listed(file, d)
  BY SetsKept
<1> HIDE DEF back
<1>2. {d \in Sets(back, p, set) : name \in DOMAIN Listed(back, d)} = naming
  BY <1>1
<1>3. naming # {} => Max(naming) \in naming
  <2>1. IsFiniteSet(DOMAIN file.defines) /\ DOMAIN file.defines \subseteq Nat
    BY DEF IsFile
  <2>2. IsFiniteSet(naming) /\ naming \subseteq Nat
    BY <2>1, FS_Subset DEF Sets
  <2> HIDE DEF naming
  <2> QED BY <2>2, MaxIs
<1>4. RecordOf(back, p, set, name) = IF naming = {} THEN NoRecord ELSE Listed(back, Max(naming))[name]
  BY <1>2 DEF RecordOf
<1>5. RecordOf(file, p, set, name) = IF naming = {} THEN NoRecord ELSE Listed(file, Max(naming))[name]
  BY DEF RecordOf
<1>6. naming # {} => Listed(back, Max(naming)) = Listed(file, Max(naming))
  BY <1>1, <1>3
<1>7. RecordOf(back, p, set, name) = RecordOf(file, p, set, name)
  BY <1>4, <1>5, <1>6
<1> QED BY <1>7 DEF Has, back

LEMMA PosteriorRecords ==
  ASSUME NEW file, IsFile(file), NEW w, IsWorldOf(w, file), PropertyGraphReadable(file),
         NEW p \in Products(file), NEW q \in SlotsOf(file, p)
  PROVE  LET back == ExportIfc(file, w)
         IN  /\ RecordOf(back, p, "GAT_Posterior", SigmaName[q])
                  = SigmaAt(MaxStepId(file), <<p, q>>)
             /\ Has(back, p, "GAT_Posterior", SigmaName[q])
<1> DEFINE back == ExportIfc(file, w)
           last == MaxStepId(file)
           d == RelationAt(last, p)
           name == SigmaName[q]
           naming == {e \in Sets(back, p, "GAT_Posterior") : name \in DOMAIN Listed(back, e)}
<1>1. Sets(back, p, "GAT_Posterior") = {d} /\ Listed(back, d) = Posterior(last, w, p).members
  BY PosteriorSets
<1>2. d \in Nat
  BY SetAtIs
<1>3. SigmaAt(last, <<p, q>>) \in Nat /\ SigmaAt(last, <<p, q>>) > last /\ last \in Nat
  BY SlotIs, SigmaAtIs, SetAtIs
<1> HIDE DEF back, last, d
<1>4. name \in DOMAIN Listed(back, d) /\ Listed(back, d)[name] = SigmaAt(last, <<p, q>>)
  BY <1>1, PosteriorIs
<1>5. naming = {d}
  BY <1>1, <1>4
<1>6. Max(naming) = d
  <2>1. Max({d}) = d
    BY <1>2 DEF Max
  <2> QED BY <1>5, <2>1
<1>7. RecordOf(back, p, "GAT_Posterior", name) = SigmaAt(last, <<p, q>>)
  <2>1. RecordOf(back, p, "GAT_Posterior", name)
          = IF naming = {} THEN NoRecord ELSE Listed(back, Max(naming))[name]
    BY DEF RecordOf
  <2> QED BY <1>4, <1>5, <1>6, <2>1
<1>8. RecordOf(back, p, "GAT_Posterior", name) # NoRecord
  BY <1>3, <1>7 DEF NoRecord
<1> QED BY <1>7, <1>8 DEF Has, back, last

-----------------------------------------------------------------------------
(* Export: it lowers again *)

(* The products, slots and source records of an export are those of its    *)
(* file.                                                                   *)
LEMMA ModelKept ==
  ASSUME NEW file, IsFile(file), NEW w, IsWorldOf(w, file), PropertyGraphReadable(file)
  PROVE  LET back == ExportIfc(file, w)
         IN  /\ Products(back) = Products(file)
             /\ \A class : OfClass(back, class) = OfClass(file, class)
             /\ \A p : SlotsOf(back, p) = SlotsOf(file, p)
             /\ RawVars(back) = RawVars(file)
             /\ \A v : SourceOf(back, v) = SourceOf(file, v)
             /\ PerMetre(back) = PerMetre(file)
             /\ LengthUnitAccepted(back) <=> LengthUnitAccepted(file)
<1> DEFINE back == ExportIfc(file, w)
<1>1. back.products = file.products /\ back.units = file.units /\ back.assigned = file.assigned
  BY ExportKeeps
<1>2. \A p : Sets(back, p, "GAT_Structural") = Sets(file, p, "GAT_Structural")
  BY SetsKept
<1>3. \A p : Has(back, p, "GAT_Material", "UnitCost") <=> Has(file, p, "GAT_Material", "UnitCost")
  BY RecordsKept
<1>4. \A p, q : RecordOf(back, p, SourceSet(q), q) = RecordOf(file, p, SourceSet(q), q)
  <2> SUFFICES ASSUME NEW p, NEW q
               PROVE  RecordOf(back, p, SourceSet(q), q) = RecordOf(file, p, SourceSet(q), q)
    OBVIOUS
  <2>1. SourceSet(q) # "GAT_Posterior"
    BY DEF SourceSet
  <2> QED BY <2>1, RecordsKept
<1> HIDE DEF back
<1>5. Products(back) = Products(file)
  BY <1>1, <1>2 DEF Products, Annotated
<1>6. \A class : OfClass(back, class) = OfClass(file, class)
  BY <1>1, <1>5 DEF OfClass
<1>7. \A p : SlotsOf(back, p) = SlotsOf(file, p)
  BY <1>1, <1>3 DEF SlotsOf, Priced
<1>8. RawVars(back) = RawVars(file)
  BY <1>5, <1>7 DEF RawVars
<1>9. \A v : SourceOf(back, v) = SourceOf(file, v)
  BY <1>4 DEF SourceOf
<1>10. LengthUnits(back) = LengthUnits(file)
  BY <1>1 DEF LengthUnits, InContext
<1>11. PerMetre(back) = PerMetre(file)
  BY <1>10 DEF PerMetre
<1>12. LengthUnitAccepted(back) <=> LengthUnitAccepted(file)
  BY <1>1, <1>10 DEF LengthUnitAccepted
<1> QED BY <1>5, <1>6, <1>7, <1>8, <1>9, <1>11, <1>12 DEF back

(* A value that a relation lists under another name than a posterior's     *)
(* stays, when the posterior sets keep their values to themselves.         *)
LEMMA ValuesKept ==
  ASSUME NEW file, PropertyGraphReadable(file), PosteriorApart(file),
         NEW p, NEW set, set # "GAT_Posterior", NEW d \in Sets(file, p, set),
         NEW r \in Range(Listed(file, d))
  PROVE  r \notin StaleRecords(file)
<1>1. file.defines[d].definition \in DOMAIN file.definitions \ StaleSets(file)
  BY DEF Sets, StaleSets, PropertyGraphReadable
<1>2. r \in Range(file.definitions[file.defines[d].definition].members)
  BY DEF Listed
<1>3. ASSUME NEW e \in StaleSets(file), r \in Range(file.definitions[e].members)
      PROVE  FALSE
  BY <1>1, <1>2, <1>3 DEF PosteriorApart
<1> QED BY <1>3 DEF StaleRecords

LEMMA NumbersKept ==
  ASSUME NEW file, IsFile(file), NEW w, IsWorldOf(w, file), PropertyGraphReadable(file),
         PosteriorApart(file), NEW p, NEW set, set # "GAT_Posterior",
         NumbersReadable(file, p, set)
  PROVE  NumbersReadable(ExportIfc(file, w), p, set)
<1> DEFINE back == ExportIfc(file, w)
<1>1. Sets(back, p, set) = Sets(file, p, set)
      /\ \A d \in Sets(file, p, set) : Listed(back, d) = Listed(file, d)
  BY SetsKept
<1>2. \A r \in DOMAIN file.numbers \ StaleRecords(file) : r \in DOMAIN back.numbers
  BY ExportedNumbers
<1> HIDE DEF back
<1>3. ASSUME NEW d \in Sets(file, p, set), NEW r \in Range(Listed(file, d))
      PROVE  r \in DOMAIN back.numbers
  <2>1. r \in DOMAIN file.numbers
    BY DEF NumbersReadable
  <2> QED BY <1>2, <2>1, ValuesKept
<1> QED BY <1>1, <1>3 DEF NumbersReadable, back

LEMMA TextsKept ==
  ASSUME NEW file, IsFile(file), NEW w, IsWorldOf(w, file), PropertyGraphReadable(file),
         PosteriorApart(file), NEW p, NEW set, set # "GAT_Posterior"
  PROVE  LET back == ExportIfc(file, w)
         IN  /\ TextsReadable(file, p, set) => TextsReadable(back, p, set)
             /\ Texts(back, p, set) = Texts(file, p, set)
<1> DEFINE back == ExportIfc(file, w)
           values == UNION {Range(Listed(file, d)) : d \in Sets(file, p, set)}
<1>1. Sets(back, p, set) = Sets(file, p, set)
      /\ \A d \in Sets(file, p, set) : Listed(back, d) = Listed(file, d)
  BY SetsKept
<1>2. \A r \in DOMAIN file.numbers \ StaleRecords(file) : r \in DOMAIN back.numbers
  BY ExportedNumbers
<1>3. /\ DOMAIN back.texts = DOMAIN file.texts \ StaleRecords(file)
      /\ \A t \in DOMAIN back.texts : back.texts[t] = file.texts[t]
  BY ExportedTexts
<1> HIDE DEF back
<1>4. \A r \in values : r \notin StaleRecords(file)
  BY ValuesKept
<1>5. \A d \in Sets(file, p, set) : Range(Listed(file, d)) \subseteq values
  OBVIOUS
<1> HIDE DEF values
<1>6. ASSUME TextsReadable(file, p, set)
      PROVE  TextsReadable(back, p, set)
  <2>1. \A d \in Sets(file, p, set) :
           Range(Listed(file, d)) \subseteq DOMAIN file.numbers \cup DOMAIN file.texts
    BY <1>6 DEF TextsReadable
  <2>2. \A d \in Sets(back, p, set) :
           Range(Listed(back, d)) \subseteq DOMAIN back.numbers \cup DOMAIN back.texts
    BY <1>1, <1>2, <1>3, <1>4, <1>5, <2>1
  <2>3. \A d, e \in Sets(back, p, set) :
           \A name \in DOMAIN Listed(back, d) \cap DOMAIN Listed(back, e) :
              d # e => ~({Listed(back, d)[name], Listed(back, e)[name]} \subseteq DOMAIN back.texts)
    <3>1. \A d, e \in Sets(file, p, set) :
             \A name \in DOMAIN Listed(file, d) \cap DOMAIN Listed(file, e) :
                d # e => ~({Listed(file, d)[name], Listed(file, e)[name]} \subseteq DOMAIN file.texts)
      BY <1>6 DEF TextsReadable
    <3>2. DOMAIN back.texts \subseteq DOMAIN file.texts
      BY <1>3
    <3> QED BY <1>1, <3>1, <3>2
  <2> QED BY <2>2, <2>3 DEF TextsReadable
<1>7. Texts(back, p, set) = Texts(file, p, set)
  <2>1. {Range(Listed(back, d)) : d \in Sets(back, p, set)}
          = {Range(Listed(file, d)) : d \in Sets(file, p, set)}
    BY <1>1
  <2>2. Texts(back, p, set) = {back.texts[t] : t \in DOMAIN back.texts \cap values}
    BY <2>1 DEF Texts, values
  <2>3. Texts(file, p, set) = {file.texts[t] : t \in DOMAIN file.texts \cap values}
    BY DEF Texts, values
  <2>4. DOMAIN back.texts \cap values = DOMAIN file.texts \cap values
    BY <1>3, <1>4
  <2> QED BY <1>3, <2>2, <2>3, <2>4
<1> QED BY <1>6, <1>7 DEF back

LEMMA ProductsReadable ==
  ASSUME NEW file, IsFile(file), NEW w, IsWorldOf(w, file), PropertyGraphReadable(file),
         PosteriorApart(file), NEW p \in Products(file), ProductReadable(file, p)
  PROVE  ProductReadable(ExportIfc(file, w), p)
<1> DEFINE back == ExportIfc(file, w)
           last == MaxStepId(file)
<1>1. ASSUME NEW set \in ReaderSets \ {"GAT_Posterior"}
      PROVE  NumbersReadable(back, p, set)
  BY NumbersKept DEF ProductReadable
<1>2. NumbersReadable(back, p, "GAT_Posterior")
  <2>1. Sets(back, p, "GAT_Posterior") = {RelationAt(last, p)}
        /\ Listed(back, RelationAt(last, p)) = Posterior(last, w, p).members
    BY PosteriorSets
  <2>2. /\ DOMAIN Posterior(last, w, p).members = {SigmaName[q] : q \in SlotsOf(file, p)}
        /\ \A q \in SlotsOf(file, p) :
              Posterior(last, w, p).members[SigmaName[q]] = SigmaAt(last, <<p, q>>)
    BY PosteriorIs
  <2>3. \A q \in SlotsOf(file, p) : SigmaAt(last, <<p, q>>) \in DOMAIN back.numbers
    <3>1. \A q \in SlotsOf(file, p) : <<p, q>> \in RawVars(file)
      BY DEF RawVars
    <3>2. \A v \in RawVars(file) : SigmaAt(last, v) \in DOMAIN back.numbers
      BY ExportedNumbers
    <3> HIDE DEF back, last
    <3> QED BY <3>1, <3>2
  <2> HIDE DEF back, last
  <2> DEFINE members == Posterior(last, w, p).members
  <2>4. \A name \in DOMAIN members : members[name] \in DOMAIN back.numbers
    BY <2>2, <2>3
  <2>5. Range(members) \subseteq DOMAIN back.numbers
    BY <2>4 DEF Range
  <2>6. \A d \in Sets(back, p, "GAT_Posterior") : Listed(back, d) = members
    BY <2>1
  <2> HIDE DEF members
  <2> QED BY <2>5, <2>6 DEF NumbersReadable
<1>3. TextsReadable(back, p, "GAT_StructuralScope")
  BY TextsKept DEF ProductReadable
<1> HIDE DEF back
<1> QED BY <1>1, <1>2, <1>3 DEF ProductReadable, back

(* What is read back of a variable: the sigma that was written for it, and *)
(* the mean when its record is its own.                                    *)
LEMMA PosteriorSigmaIs ==
  ASSUME NEW file, NEW w, IsWorldOf(w, file), NEW v \in RawVars(file)
  PROVE  PosteriorSigma(w, v) \in Int /\ PosteriorSigma(w, v) >= 1
<1>1. w.belief[v].sigma \in Int
  BY DEF IsWorldOf, WorldOf, Beliefs
<1> DEFINE two == {w.belief[v].sigma, MinPriorSigma}
<1>2. \E x \in two : \A y \in two : x >= y
  BY <1>1 DEF MinPriorSigma
<1>3. Max(two) \in two /\ \A y \in two : Max(two) >= y
  <2> HIDE DEF two
  <2> QED BY <1>2 DEF Max
<1>4. Max(two) \in Int /\ Max(two) >= 1
  BY <1>1, <1>3 DEF MinPriorSigma
<1> QED BY <1>4 DEF PosteriorSigma

(* A length passes through the unit of the file both ways.                 *)
LEMMA UnitsReturn ==
  ASSUME NEW file, LengthUnitAccepted(file), NEW w, IsWorldOf(w, file), NEW back,
         PerMetre(back) = PerMetre(file), NEW q, NEW n \in Int
  PROVE  ToMetres(back, q, FromMetres(w, q, n)) = n
<1>1. w.perMetre = PerMetre(file)
  BY DEF IsWorldOf, WorldOf
<1>2. PerMetre(file) \in {1, 2}
  BY PerMetreIs
<1>3. (n * 1) \div 1 = n /\ (n * 2) \div 2 = n
  OBVIOUS
<1>4. (n * PerMetre(file)) \div PerMetre(file) = n
  BY <1>2, <1>3
<1> QED BY <1>1, <1>4 DEF ToMetres, FromMetres

LEMMA SigmaReturns ==
  ASSUME NEW file, IsFile(file), NEW w, IsWorldOf(w, file), PropertyGraphReadable(file),
         LengthUnitAccepted(file), NEW v \in RawVars(file)
  PROVE  PriorSigma(ExportIfc(file, w), v) = PosteriorSigma(w, v)
<1> DEFINE back == ExportIfc(file, w)
           last == MaxStepId(file)
<1>1. v = <<v[1], v[2]>> /\ v[1] \in Products(file) /\ v[2] \in SlotsOf(file, v[1])
  BY RawVarIs
<1>2. RecordOf(back, v[1], "GAT_Posterior", SigmaName[v[2]]) = SigmaAt(last, v)
      /\ Has(back, v[1], "GAT_Posterior", SigmaName[v[2]])
  BY <1>1, PosteriorRecords
<1>3. back.numbers[SigmaAt(last, v)] = FromMetres(w, v[2], PosteriorSigma(w, v))
  BY ExportedNumbers
<1>4. PerMetre(back) = PerMetre(file)
  BY ModelKept
<1> HIDE DEF back, last
<1>5. PriorSigma(back, v) = ToMetres(back, v[2], ValueOf(back, v[1], "GAT_Posterior", SigmaName[v[2]]))
  BY <1>2 DEF PriorSigma
<1>6. ValueOf(back, v[1], "GAT_Posterior", SigmaName[v[2]]) = FromMetres(w, v[2], PosteriorSigma(w, v))
  BY <1>2, <1>3 DEF ValueOf
<1> QED BY <1>4, <1>5, <1>6, PosteriorSigmaIs, UnitsReturn DEF back

LEMMA MeanReturns ==
  ASSUME NEW file, IsFile(file), NEW w, IsWorldOf(w, file), PropertyGraphReadable(file),
         LengthUnitAccepted(file), SlotsGiven(file), PosteriorApart(file),
         NEW v \in RawVars(file), SoleRecord(w, v)
  PROVE  LET back == ExportIfc(file, w)
         IN  ToMetres(back, v[2], back.numbers[SourceOf(back, v)]) = w.belief[v].mean
<1> DEFINE back == ExportIfc(file, w)
           r == SourceOf(file, v)
<1>1. v = <<v[1], v[2]>> /\ v[1] \in Products(file) /\ v[2] \in SlotsOf(file, v[1])
  BY RawVarIs
<1>2. r \in DOMAIN file.numbers /\ Has(file, v[1], SourceSet(v[2]), v[2])
      /\ SourceSet(v[2]) # "GAT_Posterior"
  BY <1>1, SourceIs
<1>3. r \notin StaleRecords(file)
  <2>1. PICK d \in Sets(file, v[1], SourceSet(v[2])) :
           v[2] \in DOMAIN Listed(file, d)
           /\ RecordOf(file, v[1], SourceSet(v[2]), v[2]) = Listed(file, d)[v[2]]
    BY <1>2, RecordIs
  <2>2. r \in Range(Listed(file, d))
    BY <2>1 DEF SourceOf, Range
  <2> QED BY <1>2, <2>2, ValuesKept
<1>4. /\ DOMAIN w.sources = RawVars(file) /\ w.sources[v] = r
      /\ DOMAIN w.belief = RawVars(file) /\ w.belief[v].mean \in Int
  BY DEF IsWorldOf, WorldOf, Beliefs
<1>5. r \in Range(w.sources)
  BY <1>4 DEF Range
<1> HIDE DEF r
<1>6. PatchedFrom(w, r) = v
  BY <1>4, <1>5, PatchedFromIs DEF SoleRecord
<1>7. back.numbers[r] = FromMetres(w, v[2], w.belief[v].mean)
  BY <1>2, <1>3, <1>5, <1>6, ExportedNumbers
<1>8. SourceOf(back, v) = r /\ PerMetre(back) = PerMetre(file)
  BY ModelKept DEF r
<1> HIDE DEF back
<1> QED BY <1>4, <1>7, <1>8, UnitsReturn DEF back

(* An export of a model lowers, to the module it was exported from.        *)
LEMMA ExportLowers ==
  ASSUME NEW file, IsFile(file), Lowers(file), NEW w, IsWorldOf(w, file), PosteriorApart(file)
  PROVE  Lowers(ExportIfc(file, w))
<1> DEFINE back == ExportIfc(file, w)
<1>1. PropertyGraphReadable(file) /\ LengthUnitAccepted(file) /\ SlotsGiven(file)
  BY DEF Lowers
<1>2. /\ Products(back) = Products(file)
      /\ \A class : OfClass(back, class) = OfClass(file, class)
      /\ \A p : SlotsOf(back, p) = SlotsOf(file, p)
      /\ RawVars(back) = RawVars(file)
      /\ \A v : SourceOf(back, v) = SourceOf(file, v)
      /\ LengthUnitAccepted(back)
  BY <1>1, ModelKept
<1>3. back.products = file.products /\ back.placements = file.placements
  BY ExportKeeps
<1>4. PropertyGraphReadable(back)
  <2> SUFFICES ASSUME NEW d \in DOMAIN back.defines
               PROVE  back.defines[d].definition \in DOMAIN back.definitions
    BY DEF PropertyGraphReadable
  <2>1. ASSUME NEW p \in Products(file), d = RelationAt(MaxStepId(file), p)
        PROVE  back.defines[d].definition \in DOMAIN back.definitions
    BY <2>1, NewRelationIs
  <2>2. ASSUME d \in DOMAIN file.defines \ StaleRelations(file)
        PROVE  back.defines[d].definition \in DOMAIN back.definitions
    <3>1. /\ back.defines[d] = file.defines[d]
          /\ file.defines[d].definition \in DOMAIN file.definitions \ StaleSets(file)
      BY <1>1, <2>2, KeptRelationIs
    <3>2. DOMAIN file.definitions \ StaleSets(file) \subseteq DOMAIN back.definitions
      BY ExportedDefinitions
    <3> HIDE DEF back
    <3> QED BY <3>1, <3>2
  <2> QED BY <2>1, <2>2, RelationIsNewOrKept
<1>5. ASSUME NEW p \in Products(file)
      PROVE  /\ ProductReadable(back, p) /\ QuantitiesGiven(back, p)
             /\ file.products[p].class = "IfcBeam" => BeamContract(back, p)
  <2>1. /\ ProductReadable(file, p) /\ QuantitiesGiven(file, p)
        /\ file.products[p].class = "IfcBeam" => BeamContract(file, p)
    BY <1>1 DEF SlotsGiven
  <2>2. ProductReadable(back, p)
    BY <1>1, <2>1, ProductsReadable
  <2>3. \A name : Has(back, p, "Quantities", name) <=> Has(file, p, "Quantities", name)
    BY <1>1, RecordsKept
  <2>4. \A name : Has(back, p, "GAT_Structural", name) <=> Has(file, p, "GAT_Structural", name)
    BY <1>1, RecordsKept
  <2>5. Texts(back, p, "GAT_StructuralScope") = Texts(file, p, "GAT_StructuralScope")
    BY <1>1, TextsKept
  <2> HIDE DEF back
  <2> QED BY <1>3, <2>1, <2>2, <2>3, <2>4, <2>5 DEF QuantitiesGiven, BeamContract
<1>6. ASSUME NEW p \in OfClass(file, "IfcBeam"), NEW q \in Strength
      PROVE  PriorSigma(back, <<p, q>>) > 0
  <2>1. p \in Products(file) /\ q \in SlotsOf(file, p)
    BY DEF OfClass, SlotsOf
  <2>2. <<p, q>> \in RawVars(file)
    BY <2>1 DEF RawVars
  <2>3. PriorSigma(back, <<p, q>>) = PosteriorSigma(w, <<p, q>>)
    BY <1>1, <2>2, SigmaReturns
  <2>4. PosteriorSigma(w, <<p, q>>) \in Int /\ PosteriorSigma(w, <<p, q>>) >= 1
    BY <2>2, PosteriorSigmaIs
  <2> HIDE DEF back
  <2> QED BY <2>3, <2>4
<1> HIDE DEF back
<1>7. \A p : PlacementResolves(back, p) <=> PlacementResolves(file, p)
  BY <1>3 DEF PlacementResolves
<1>8. SlotsGiven(back)
  BY <1>2, <1>3, <1>5 DEF SlotsGiven
<1>9. RecordsUnshared(back)
  <2>1. RecordsUnshared(file)
    BY DEF Lowers
  <2> QED BY <1>2, <2>1 DEF RecordsUnshared
<1>10. /\ \A p \in Products(back) : back.products[p].gid # "none"
       /\ \A p, q \in Products(back) : p # q =>
             <<back.products[p].class, back.products[p].gid>>
                 # <<back.products[q].class, back.products[q].gid>>
  BY <1>2, <1>3 DEF Lowers
<1>11. /\ \A p \in Products(back) : PlacementResolves(back, p)
       /\ Cardinality(OfClass(back, "IfcBuildingStorey")) = 1
  BY <1>2, <1>7 DEF Lowers
<1>12. ASSUME NEW p \in OfClass(back, "IfcBeam"), NEW q \in Strength
       PROVE  PriorSigma(back, <<p, q>>) > 0
  <2>1. p \in OfClass(file, "IfcBeam")
    BY <1>2
  <2> QED BY <1>6, <2>1
<1>13. Lowers(back)
  BY <1>2, <1>4, <1>8, <1>9, <1>10, <1>11, <1>12 DEF Lowers
<1> QED BY <1>13 DEF back

(* A world that names what another names compiles and is verified as it    *)
(* does, whatever is believed in it.                                       *)
LEMMA SameModuleCompiles ==
  ASSUME NEW u, NEW w, u.classes = w.classes, u.rels = w.rels, Compiles(w), ~ VerifierRaises(w),
         \A v \in DOMAIN u.belief : u.belief[v].sigma >= MinPriorSigma
  PROVE  Compiles(u) /\ ~ VerifierRaises(u)
<1>1. \A kind, p : EdgesInto(u, kind, p) = EdgesInto(w, kind, p)
  BY DEF EdgesInto
<1>2. \A kind, p : EdgesFrom(u, kind, p) = EdgesFrom(w, kind, p)
  BY DEF EdgesFrom
<1>3. \A class : WithClass(u, class) = WithClass(w, class)
  BY DEF WithClass
<1>4. \A p : (HasArea(u, p) <=> HasArea(w, p)) /\ (HasFace(u, p) <=> HasFace(w, p))
  BY DEF HasArea, HasFace
<1>5. Compiles(u)
  BY <1>1, <1>3, <1>4 DEF Compiles
<1>6. Fills(u) = Fills(w)
  BY <1>2 DEF Fills
<1>7. ~ VerifierRaises(u)
  BY <1>4, <1>6 DEF VerifierRaises
<1> QED BY <1>5, <1>7

(* What a session exports of a model that loads, loads: to the same        *)
(* variables, with the sigmas that were written and the means that have a  *)
(* record of their own.                                                    *)
LEMMA ExportReturns ==
  ASSUME NEW file, IsFile(file), Loads(file), NEW w, IsWorldOf(w, file), PosteriorApart(file)
  PROVE  LET back == ExportIfc(file, w)
             prior == LowerIfc(back).belief
         IN  /\ Loads(back)
             /\ DOMAIN prior = DOMAIN w.belief
             /\ \A v \in DOMAIN prior :
                   /\ SoleRecord(w, v) => prior[v].mean = w.belief[v].mean
                   /\ prior[v].sigma = PosteriorSigma(w, v)
<1> DEFINE back == ExportIfc(file, w)
           lowered == LowerIfc(back)
           prior == lowered.belief
<1>1. Lowers(file) /\ Compiles(LowerIfc(file)) /\ ~ VerifierRaises(LowerIfc(file))
  BY DEF Loads
<1>2. PropertyGraphReadable(file) /\ LengthUnitAccepted(file) /\ SlotsGiven(file)
  BY <1>1 DEF Lowers
<1>3. Lowers(back)
  BY <1>1, ExportLowers
<1>4. back.products = file.products /\ back.rels = file.rels
  BY ExportKeeps
<1>5. Products(back) = Products(file) /\ RawVars(back) = RawVars(file)
  BY <1>2, ModelKept
<1>6. DOMAIN w.belief = RawVars(file)
  BY DEF IsWorldOf, WorldOf, Beliefs
<1>7. ASSUME NEW v \in RawVars(file)
      PROVE  /\ PriorSigma(back, v) = PosteriorSigma(w, v)
             /\ PosteriorSigma(w, v) >= 1
             /\ SoleRecord(w, v) =>
                   ToMetres(back, v[2], back.numbers[SourceOf(back, v)]) = w.belief[v].mean
  BY <1>2, SigmaReturns, PosteriorSigmaIs, MeanReturns
<1> HIDE DEF back
<1>8. prior = Priors(back)
  BY DEF LowerIfc
<1>9. DOMAIN prior = RawVars(file)
      /\ \A v \in RawVars(file) :
            /\ prior[v].mean = ToMetres(back, v[2], back.numbers[SourceOf(back, v)])
            /\ prior[v].sigma = PriorSigma(back, v)
  BY <1>5, <1>8 DEF Priors
<1>10. lowered.classes = LowerIfc(file).classes /\ lowered.rels = LowerIfc(file).rels
  BY <1>4, <1>5 DEF LowerIfc
<1>11. \A v \in DOMAIN prior : prior[v].sigma >= MinPriorSigma
  BY <1>7, <1>9 DEF MinPriorSigma
<1>12. Loads(back)
  <2> HIDE DEF lowered
  <2>1. Compiles(lowered) /\ ~ VerifierRaises(lowered)
    BY <1>1, <1>10, <1>11, SameModuleCompiles
  <2> QED BY <1>3, <2>1 DEF Loads, lowered
<1> HIDE DEF lowered
<1> QED BY <1>6, <1>7, <1>9, <1>12 DEF back, lowered

(* Each entity carries one posterior set.                                  *)
LEMMA OnePosterior ==
  ASSUME NEW file, IsFile(file), NEW w, IsWorldOf(w, file), PropertyGraphReadable(file),
         NEW p \in DOMAIN w.classes
  PROVE  Cardinality(Sets(ExportIfc(file, w), p, "GAT_Posterior")) = 1
<1>1. p \in Products(file)
  BY DEF IsWorldOf, WorldOf
<1>2. Sets(ExportIfc(file, w), p, "GAT_Posterior") = {RelationAt(MaxStepId(file), p)}
  BY <1>1, PosteriorSets
<1> QED BY <1>2, FS_Singleton

(* The values of a function of a finite domain are finite.                 *)
LEMMA ImageFinite ==
  ASSUME NEW f, IsFiniteSet(DOMAIN f)
  PROVE  IsFiniteSet({f[x] : x \in DOMAIN f})
<1> DEFINE values == {f[x] : x \in DOMAIN f}
           onto == [x \in DOMAIN f |-> f[x]]
<1>1. onto \in Surjection(DOMAIN f, values)
  BY DEF Surjection
<1> HIDE DEF onto, values
<1>2. IsFiniteSet(values)
  BY <1>1, FS_Surjection
<1> QED BY <1>2 DEF values

(* An export is a file as the parser makes them.                           *)
LEMMA ExportIsFile ==
  ASSUME NEW file, IsFile(file), Lowers(file), NEW w, IsWorldOf(w, file)
  PROVE  IsFile(ExportIfc(file, w))
<1> DEFINE back == ExportIfc(file, w)
           last == MaxStepId(file)
           sigmas == {SigmaAt(last, v) : v \in RawVars(file)}
           sets == {SetAt(last, p) : p \in Products(file)}
           relations == {RelationAt(last, p) : p \in Products(file)}
<1>1. /\ IsFiniteSet(DOMAIN file.products) /\ IsFiniteSet(DOMAIN file.definitions)
      /\ IsFiniteSet(DOMAIN file.numbers) /\ IsFiniteSet(DOMAIN file.texts)
      /\ IsFiniteSet(DOMAIN file.defines)
      /\ \A ids \in {DOMAIN file.products, DOMAIN file.definitions, DOMAIN file.numbers,
                     DOMAIN file.texts, DOMAIN file.defines} :
            \A id \in ids : id \in Nat /\ id > 0
  BY DEF IsFile
<1>2. IsFiniteSet(Products(file))
  BY <1>1, FS_Subset DEF Products
<1>3. IsFiniteSet(sets) /\ IsFiniteSet(relations)
  <2> HIDE DEF last
  <2> DEFINE set == [p \in Products(file) |-> SetAt(last, p)]
             relation == [p \in Products(file) |-> RelationAt(last, p)]
  <2>1. DOMAIN set = Products(file) /\ DOMAIN relation = Products(file)
        /\ sets = {set[p] : p \in Products(file)}
        /\ relations = {relation[p] : p \in Products(file)}
    OBVIOUS
  <2> HIDE DEF set, relation
  <2> QED BY <1>2, <2>1, ImageFinite
<1>4. IsFiniteSet(sigmas)
  <2>1. RawVars(file) \subseteq Products(file) \X DOMAIN SigmaName
    <3> SUFFICES ASSUME NEW v \in RawVars(file) PROVE v \in Products(file) \X DOMAIN SigmaName
      OBVIOUS
    <3> QED BY RawVarIs, SlotIs
  <2>2. IsFiniteSet(DOMAIN SigmaName)
    <3>1. \A q \in DOMAIN SigmaName :
             \E i \in 1..7 : SlotOrder[i] = q
      BY SlotNumberIs
    <3>2. DOMAIN SlotOrder = 1..7 /\ IsFiniteSet(1..7)
      <4>1. IsFiniteSet(1..7)
        <5>1. 1 \in Int /\ 7 \in Int
          OBVIOUS
        <5> QED BY ONLY <5>1, FS_Interval
      <4> QED BY <4>1 DEF SlotOrder
    <3>3. IsFiniteSet({SlotOrder[i] : i \in DOMAIN SlotOrder})
      BY <3>2, ImageFinite
    <3>4. DOMAIN SigmaName \subseteq {SlotOrder[i] : i \in DOMAIN SlotOrder}
      BY <3>1, <3>2
    <3> QED BY <3>3, <3>4, FS_Subset
  <2>3. IsFiniteSet(RawVars(file))
    BY <1>2, <2>1, <2>2, FS_Product, FS_Subset
  <2> HIDE DEF last
  <2> DEFINE sigma == [v \in RawVars(file) |-> SigmaAt(last, v)]
  <2>4. DOMAIN sigma = RawVars(file) /\ sigmas = {sigma[v] : v \in RawVars(file)}
    OBVIOUS
  <2> HIDE DEF sigma, sigmas
  <2> QED BY <2>3, <2>4, ImageFinite
<1>5. ASSUME NEW p \in Products(file)
      PROVE  /\ SetAt(last, p) \in Nat /\ SetAt(last, p) > 0
             /\ RelationAt(last, p) \in Nat /\ RelationAt(last, p) > 0
             /\ \A q \in SlotsOf(file, p) : SigmaAt(last, <<p, q>>) \in Nat /\ SigmaAt(last, <<p, q>>) > 0
  <2>1. /\ last \in Nat /\ SetAt(last, p) \in Nat /\ SetAt(last, p) > last
        /\ RelationAt(last, p) \in Nat /\ RelationAt(last, p) > last
    BY SetAtIs
  <2>2. \A q \in SlotsOf(file, p) : SigmaAt(last, <<p, q>>) \in Nat /\ SigmaAt(last, <<p, q>>) > last
    BY SlotIs, SigmaAtIs
  <2> HIDE DEF last
  <2> QED BY <2>1, <2>2
<1>6. \A id \in sets \cup relations : id \in Nat /\ id > 0
  <2> HIDE DEF last
  <2> QED BY <1>5
<1>7. \A id \in sigmas : id \in Nat /\ id > 0
  <2> SUFFICES ASSUME NEW v \in RawVars(file)
               PROVE  SigmaAt(last, v) \in Nat /\ SigmaAt(last, v) > 0
    OBVIOUS
  <2>1. v = <<v[1], v[2]>> /\ v[1] \in Products(file) /\ v[2] \in SlotsOf(file, v[1])
    BY RawVarIs
  <2> HIDE DEF last
  <2> QED BY <1>5, <2>1
<1>8. DOMAIN back.definitions \subseteq sets \cup DOMAIN file.definitions
      /\ DOMAIN back.defines \subseteq relations \cup DOMAIN file.defines
      /\ DOMAIN back.numbers \subseteq sigmas \cup DOMAIN file.numbers
  <2>1. DOMAIN back.definitions \subseteq sets \cup DOMAIN file.definitions
    BY ExportedDefinitions
  <2>2. DOMAIN back.defines \subseteq relations \cup DOMAIN file.defines
    BY ExportedRelations
  <2>3. DOMAIN back.numbers \subseteq sigmas \cup DOMAIN file.numbers
    BY ExportedNumbers
  <2> QED BY <2>1, <2>2, <2>3
<1>9. back.products = file.products /\ DOMAIN back.texts \subseteq DOMAIN file.texts
  BY ExportKeeps, ExportedTexts
<1>10. ASSUME NEW r \in DOMAIN back.numbers
       PROVE  back.numbers[r] \in Int
  <2>1. ASSUME NEW q, NEW n \in Int
        PROVE  FromMetres(w, q, n) \in Int
    <3>1. PerMetre(file) \in {1, 2} /\ w.perMetre = PerMetre(file)
      BY PerMetreIs DEF IsWorldOf, WorldOf, Lowers
    <3> QED BY <3>1 DEF FromMetres
  <2>2. ASSUME NEW v \in RawVars(file)
        PROVE  w.belief[v].mean \in Int /\ PosteriorSigma(w, v) \in Int
    BY PosteriorSigmaIs DEF IsWorldOf, WorldOf, Beliefs
  <2>3. ASSUME NEW v \in RawVars(file), r = SigmaAt(last, v)
        PROVE  back.numbers[r] \in Int
    <3>1. back.numbers[r] = FromMetres(w, v[2], PosteriorSigma(w, v))
      BY <2>3, ExportedNumbers
    <3> QED BY <2>1, <2>2, <3>1
  <2>4. ASSUME r \in DOMAIN file.numbers \ StaleRecords(file)
        PROVE  back.numbers[r] \in Int
    <3>1. back.numbers[r] = IF r \in Range(w.sources)
                            THEN FromMetres(w, PatchedFrom(w, r)[2], w.belief[PatchedFrom(w, r)].mean)
                            ELSE file.numbers[r]
      BY <2>4, ExportedNumbers
    <3>2. file.numbers[r] \in Int
      BY <2>4 DEF IsFile
    <3>3. r \in Range(w.sources) => PatchedFrom(w, r) \in RawVars(file)
      BY PatchedFromIs
    <3> HIDE DEF back
    <3> QED BY <2>1, <2>2, <3>1, <3>2, <3>3
  <2>5. r \in sigmas \cup (DOMAIN file.numbers \ StaleRecords(file))
    BY ExportedNumbers
  <2> QED BY <2>3, <2>4, <2>5
<1> HIDE DEF back, sigmas, sets, relations
<1>11. /\ IsFiniteSet(DOMAIN back.definitions) /\ IsFiniteSet(DOMAIN back.defines)
       /\ IsFiniteSet(DOMAIN back.numbers) /\ IsFiniteSet(DOMAIN back.texts)
  <2>1. /\ IsFiniteSet(sets \cup DOMAIN file.definitions)
        /\ IsFiniteSet(relations \cup DOMAIN file.defines)
        /\ IsFiniteSet(sigmas \cup DOMAIN file.numbers)
    BY <1>1, <1>3, <1>4, FS_Union
  <2> QED BY <1>1, <1>8, <1>9, <2>1, FS_Subset
<1>12. /\ \A id \in DOMAIN back.definitions : id \in Nat /\ id > 0
       /\ \A id \in DOMAIN back.defines : id \in Nat /\ id > 0
       /\ \A id \in DOMAIN back.numbers : id \in Nat /\ id > 0
       /\ \A id \in DOMAIN back.texts : id \in Nat /\ id > 0
  BY <1>1, <1>6, <1>7, <1>8, <1>9
<1>13. IsFile(back)
  BY <1>1, <1>9, <1>10, <1>11, <1>12 DEF IsFile
<1> QED BY <1>13 DEF back

-----------------------------------------------------------------------------
(* What holds of the files, the session and the page *)

(* The model a page was drawn of, and the audit it was drawn beside, are   *)
(* those of one file that loads, when the audit lowered it at all.         *)
PageOf(file) ==
    /\ IsFile(file) /\ Loads(file)
    /\ page.world = LowerIfc(file) /\ page.statuses = AuditStatuses(file)

DiskSound == DOMAIN disk = Paths /\ \A path \in Paths : IsFile(disk[path])

SessionSound ==
    session # NoSession =>
        /\ session = [file |-> session.file, world |-> session.world]
        /\ IsFile(session.file) /\ Loads(session.file)
        /\ IsWorldOf(session.world, session.file)

PageSound == page # NoPage /\ page.audited # NoWorld => \E file : PageOf(file)

ViewingSound == viewing # NotViewing => viewing.path \in Paths

ExchangeSound == DiskSound /\ SessionSound /\ ViewingSound /\ PageSound

LEMMA StartSound == Init => ExchangeSound
<1> SUFFICES ASSUME Init PROVE ExchangeSound
  OBVIOUS
<1>1. DiskSound
  <2>1. disk \in [Paths -> Models]
    BY DEF Init
  <2> QED BY <2>1, FilesAssumption DEF DiskSound
<1>2. SessionSound /\ ViewingSound /\ PageSound
  BY DEF Init, SessionSound, ViewingSound, PageSound
<1> QED BY <1>1, <1>2 DEF ExchangeSound

LEMMA PutSound ==
  ASSUME DiskSound, NEW path \in Paths, NEW file, IsFile(file),
         disk' = [disk EXCEPT ![path] = file]
  PROVE  DiskSound'
BY DEF DiskSound

LEMMA StepSound == ExchangeSound /\ [Next]_vars => ExchangeSound'
<1> SUFFICES ASSUME ExchangeSound, [Next]_vars PROVE ExchangeSound'
  OBVIOUS
<1>0. DiskSound /\ SessionSound /\ ViewingSound /\ PageSound
  BY DEF ExchangeSound
<1>1. ASSUME UNCHANGED disk
      PROVE  DiskSound'
  BY <1>0, <1>1 DEF DiskSound
<1>2. ASSUME UNCHANGED session
      PROVE  SessionSound'
  BY <1>0, <1>2 DEF SessionSound
<1>3. ASSUME UNCHANGED page
      PROVE  PageSound'
  BY <1>0, <1>3 DEF PageSound, PageOf
<1>4. ASSUME UNCHANGED viewing
      PROVE  ViewingSound'
  BY <1>0, <1>4 DEF ViewingSound
<1>5. ASSUME NEW path \in Paths, Load(path)
      PROVE  ExchangeSound'
  <2>1. UNCHANGED disk /\ UNCHANGED viewing /\ UNCHANGED page
    BY <1>5 DEF Load
  <2>2. SessionSound'
    <3>1. CASE Loads(disk[path])
      <4>1. session' = [file |-> disk[path], world |-> LowerIfc(disk[path])]
        BY <1>5, <3>1 DEF Load
      <4>2. IsFile(disk[path])
        BY <1>0 DEF DiskSound
      <4>3. IsWorldOf(LowerIfc(disk[path]), disk[path])
        BY <3>1, <4>2, LoadedIsWorld DEF Loads
      <4> QED BY <3>1, <4>1, <4>2, <4>3 DEF SessionSound
    <3>2. CASE ~ Loads(disk[path])
      BY <1>2, <1>5, <3>2 DEF Load
    <3> QED BY <3>1, <3>2
  <2> QED BY <1>1, <1>3, <1>4, <2>1, <2>2 DEF ExchangeSound
<1>6. ASSUME NEW v \in Measured, Measure(v)
      PROVE  ExchangeSound'
  <2>1. UNCHANGED disk /\ UNCHANGED viewing /\ UNCHANGED page /\ session # NoSession /\ v \in DOMAIN session.world.belief
    BY <1>6 DEF Measure
  <2>2. PICK sigma \in {0, 1} :
           session' = IF InvariantsHold([session.world EXCEPT
                                           !.belief[v] = [mean |-> @.mean + 1, sigma |-> sigma]])
                      THEN [session EXCEPT
                              !.world = [session.world EXCEPT
                                           !.belief[v] = [mean |-> @.mean + 1, sigma |-> sigma]]]
                      ELSE session
    BY <1>6 DEF Measure
  <2> DEFINE moved == [session.world EXCEPT !.belief[v] = [mean |-> @.mean + 1, sigma |-> sigma]]
  <2>3. /\ session = [file |-> session.file, world |-> session.world]
        /\ IsFile(session.file) /\ Loads(session.file) /\ IsWorldOf(session.world, session.file)
    BY <1>0, <2>1 DEF SessionSound
  <2>4. IsWorldOf(moved, session.file)
    BY <2>1, <2>3, MovedIsWorld
  <2>5. session' = [session EXCEPT !.world = moved] \/ UNCHANGED session
    BY <2>2
  <2> HIDE DEF moved
  <2>6. ASSUME session' = [session EXCEPT !.world = moved]
        PROVE  SessionSound'
    <3>1. session'.file = session.file /\ session'.world = moved
          /\ session' = [file |-> session'.file, world |-> session'.world]
      BY <2>3, <2>6
    <3> QED BY <2>3, <2>4, <3>1 DEF SessionSound
  <2> QED BY <1>1, <1>2, <1>3, <1>4, <2>1, <2>5, <2>6 DEF ExchangeSound
<1>7. ASSUME NEW path \in Paths, Export(path)
      PROVE  ExchangeSound'
  <2>1. /\ UNCHANGED session /\ UNCHANGED viewing /\ UNCHANGED page /\ session # NoSession
        /\ disk' = [disk EXCEPT ![path] = ExportIfc(session.file, session.world)]
    BY <1>7 DEF Export
  <2>2. IsFile(session.file) /\ Lowers(session.file) /\ IsWorldOf(session.world, session.file)
    BY <1>0, <2>1 DEF SessionSound, Loads
  <2>3. IsFile(ExportIfc(session.file, session.world))
    BY <2>2, ExportIsFile
  <2> QED BY <1>0, <1>2, <1>3, <1>4, <2>1, <2>3, PutSound DEF ExchangeSound
<1>8. ASSUME NEW path \in Paths, NEW file \in Saved, Save(path, file)
      PROVE  ExchangeSound'
  <2>1. /\ UNCHANGED session /\ UNCHANGED viewing /\ UNCHANGED page
        /\ disk' = [disk EXCEPT ![path] = file]
    BY <1>8 DEF Save
  <2> QED BY <1>0, <1>2, <1>3, <1>4, <2>1, PutSound, FilesAssumption DEF ExchangeSound
<1>9. ASSUME NEW path \in Paths, OpenView(path)
      PROVE  ExchangeSound'
  <2>1. UNCHANGED disk /\ UNCHANGED session /\ page' = NoPage
    BY <1>9 DEF OpenView
  <2>2. PageSound'
    BY <2>1 DEF PageSound
  <2>3. ViewingSound'
    <3>1. viewing' = IF Loads(disk[path])
                     THEN [path |-> path, world |-> LowerIfc(disk[path])]
                     ELSE viewing
      BY <1>9 DEF OpenView
    <3> QED BY <1>0, <3>1 DEF ViewingSound
  <2> QED BY <1>1, <1>2, <2>1, <2>2, <2>3 DEF ExchangeSound
<1>10. ASSUME DrawView
      PROVE  ExchangeSound'
  <2> DEFINE file == disk[viewing.path]
             drawn == [world |-> viewing.world, audited |-> AuditedWorld(file),
                       statuses |-> AuditStatuses(file)]
  <2>1. UNCHANGED disk /\ UNCHANGED session
        /\ viewing # NotViewing /\ viewing' = NotViewing
        /\ page' = IF SameWorld(file) THEN drawn ELSE page
    BY <1>10 DEF DrawView
  <2>2. ASSUME SameWorld(file)
        PROVE  PageSound'
    <3> SUFFICES ASSUME AuditedWorld(file) # NoWorld
                 PROVE  \E f : PageOf(f)'
      BY <2>1, <2>2 DEF PageSound
    <3>1. Loads(file) /\ AuditedWorld(file) = LowerIfc(file)
      BY DEF AuditedWorld
    <3>2. viewing.world = LowerIfc(file)
      BY <2>2, <3>1 DEF SameWorld
    <3>3. IsFile(file)
      BY <1>0, <2>1 DEF DiskSound, ViewingSound
    <3> QED BY <2>1, <2>2, <3>1, <3>2, <3>3 DEF PageOf
  <2>3. ViewingSound'
    BY <2>1 DEF ViewingSound
  <2> QED BY <1>1, <1>2, <1>3, <2>1, <2>2, <2>3 DEF ExchangeSound
<1>11. CASE UNCHANGED vars
  BY <1>1, <1>2, <1>3, <1>4, <1>11 DEF vars, ExchangeSound
<1> QED BY <1>5, <1>6, <1>7, <1>8, <1>9, <1>10, <1>11 DEF Next

THEOREM ExchangeAlwaysSound == Spec => []ExchangeSound
BY StartSound, StepSound, PTL DEF Spec

(* Whatever was saved between the two reads, the statuses of a page are    *)
(* those of the model it draws: every piece of it is ready.                *)
THEOREM DrawnPiecesAlwaysReady == Spec => []DrawnPiecesAreReady
<1>1. ExchangeSound => DrawnPiecesAreReady
  <2> SUFFICES ASSUME PageSound, page # NoPage, page.audited # NoWorld,
                      NEW p \in DOMAIN page.world.gids
               PROVE  /\ page.world.gids[p] \in DOMAIN page.statuses
                      /\ page.statuses[page.world.gids[p]] = "READY"
    BY DEF ExchangeSound, DrawnPiecesAreReady
  <2>1. PICK file : PageOf(file)
    BY DEF PageSound
  <2>2. IsFile(file) /\ Lowers(file)
    BY <2>1 DEF PageOf, Loads
  <2>3. Inventory(file) = Products(file) /\ \A q \in Products(file) : file.products[q].gid # "none"
    BY <2>2 DEF Lowers, Inventory
  <2>4. p \in Products(file) /\ page.world.gids[p] = file.products[p].gid
    BY <2>1 DEF PageOf, LowerIfc
  <2> DEFINE gid == file.products[p].gid
             named == {q \in Inventory(file) : file.products[q].gid = gid}
  <2>5. gid \in DOMAIN AuditStatuses(file)
        /\ AuditStatuses(file)[gid] = EntityStatus(file, Max(named))
    BY <2>3, <2>4 DEF AuditStatuses
  <2>6. Max(named) \in Products(file)
    <3>1. named # {} /\ named \subseteq Products(file)
      BY <2>3, <2>4
    <3>2. IsFiniteSet(named) /\ named \subseteq Nat
      <4>1. IsFiniteSet(DOMAIN file.products) /\ named \subseteq DOMAIN file.products
        BY <2>2, <3>1 DEF IsFile, Products
      <4>2. \A q \in DOMAIN file.products : q \in Nat
        BY <2>2 DEF IsFile
      <4> HIDE DEF named
      <4> QED BY <4>1, <4>2, FS_Subset
    <3> HIDE DEF named
    <3> QED BY <3>1, <3>2, MaxIs
  <2>7. EntityStatus(file, Max(named)) = "READY"
    <3> HIDE DEF named
    <3> QED BY <2>2, <2>6, LoweredIsReady
  <2> QED BY <2>1, <2>4, <2>5, <2>7 DEF PageOf
<1> QED BY <1>1, ExchangeAlwaysSound, PTL

(* However often a world moved and its file was itself an export, the      *)
(* export of a session loads again and returns its belief.                 *)
THEOREM ReloadAlwaysReturnsBelief == Spec => []ReloadReturnsBelief
<1>1. ExchangeSound => ReloadReturnsBelief
  <2> SUFFICES ASSUME SessionSound, session # NoSession, PosteriorApart(session.file)
               PROVE  LET w == session.world
                          back == ExportIfc(session.file, w)
                      IN  /\ Loads(back)
                          /\ LET prior == LowerIfc(back).belief
                             IN  /\ DOMAIN prior = DOMAIN w.belief
                                 /\ \A v \in DOMAIN prior :
                                       /\ SoleRecord(w, v) => prior[v].mean = w.belief[v].mean
                                       /\ prior[v].sigma = PosteriorSigma(w, v)
                          /\ \A p \in DOMAIN w.classes :
                                Cardinality(Sets(back, p, "GAT_Posterior")) = 1
    BY DEF ExchangeSound, ReloadReturnsBelief
  <2> DEFINE file == session.file
             w == session.world
  <2>1. IsFile(file) /\ Loads(file) /\ IsWorldOf(w, file)
    BY DEF SessionSound
  <2>2. PropertyGraphReadable(file)
    BY <2>1 DEF Loads, Lowers
  <2>3. \A p \in DOMAIN w.classes : Cardinality(Sets(ExportIfc(file, w), p, "GAT_Posterior")) = 1
    BY <2>1, <2>2, OnePosterior
  <2> QED BY <2>1, <2>3, ExportReturns
<1> QED BY <1>1, ExchangeAlwaysSound, PTL
=============================================================================
