------------------------------ MODULE IfcAudit ------------------------------
(***************************************************************************)
(* The compatibility audit of an IFC file (src/gat/ifc_audit.py) beside    *)
(* the loader of Lowering.  The audit never stops at the first refusal: it *)
(* gives every product of the declared scope a status, lists the issues of *)
(* the model, derives what it can of the geometry of every beam, and then  *)
(* runs lowering, compilation and verification itself, stage by stage.     *)
(*                                                                         *)
(* The geometry of a beam is [axes, curve, bodies, swept, profile]: how    *)
(* many Axis and Body representations it has, whether the axis is one      *)
(* polyline of positive length, whether the body is one extruded solid,    *)
(* and its profile, "closed", "gap" or "flat" (of no area).                *)
(***************************************************************************)
EXTENDS Lowering

NoWorld == [classes |-> <<>>]

-----------------------------------------------------------------------------
(* The preflight of each product: _audit_entity.                           *)

\* Slip: only the architectural classes are asked for their quantities.
MissingOfArchitecture(file, p) ==
    IF file.products[p].class \in ProductClasses
    THEN {q \in RequiredQuantities[file.products[p].class] : ~Has(file, p, "Quantities", q)}
    ELSE {}

\* Missing quantities are found from the quantity set that could be read.
MissingQuantities(file, p) ==
    IF PropertyGraphReadable(file) /\ NumbersReadable(file, p, "Quantities")
    THEN {q \in RequiredQuantities[file.products[p].class] : ~Has(file, p, "Quantities", q)}
    ELSE RequiredQuantities[file.products[p].class]

\* Every issue but a missing quantity blocks the product.
BlockingIssues(file, p) ==
    {issue \in {"INVALID_GLOBAL_ID", "PROPERTY_GRAPH_UNREADABLE",
                "QUANTITY_SET_UNREADABLE", "STRUCTURAL_PROPERTY_SET_UNREADABLE",
                "MISSING_STRUCTURAL_PROPERTY", "UNSUPPORTED_STRUCTURAL_SCOPE",
                "UNSUPPORTED_PLACEMENT"} :
        LET graph == PropertyGraphReadable(file)
            beam == graph /\ file.products[p].class = "IfcBeam"
            structural ==
                /\ NumbersReadable(file, p, "GAT_Structural")
                /\ TextsReadable(file, p, "GAT_StructuralScope")
        IN  CASE issue = "INVALID_GLOBAL_ID" -> file.products[p].gid = "none"
              [] issue = "PROPERTY_GRAPH_UNREADABLE" -> ~graph
              [] issue = "QUANTITY_SET_UNREADABLE" ->
                    graph /\ ~NumbersReadable(file, p, "Quantities")
              [] issue = "STRUCTURAL_PROPERTY_SET_UNREADABLE" -> beam /\ ~structural
              [] issue = "MISSING_STRUCTURAL_PROPERTY" ->
                    /\ beam
                    /\ NumbersReadable(file, p, "GAT_Structural")
                    /\ \E q \in Strength : \/ ~Has(file, p, "GAT_Structural", q)
                                           \/ ~Has(file, p, "GAT_Structural", SigmaName[q])
              [] issue = "UNSUPPORTED_STRUCTURAL_SCOPE" ->
                    /\ beam /\ structural
                    /\ Texts(file, p, "GAT_StructuralScope") # {"AISC360-22-F2"}
              [] issue = "UNSUPPORTED_PLACEMENT" -> ~PlacementResolves(file, p)}

EntityStatus(file, p) ==
    IF BlockingIssues(file, p) # {} THEN "BLOCKED"
    ELSE IF MissingQuantities(file, p) = {} THEN "READY"
    ELSE IF file.products[p].geometry # {} THEN "NEEDS_GEOMETRY_DERIVATION"
    ELSE "MISSING_SOURCE_DATA"

\* The inventoried products; annotated beams only when the relations resolve.
Inventory(file) ==
    IF PropertyGraphReadable(file) THEN Products(file)
    ELSE {p \in DOMAIN file.products : file.products[p].class \in ProductClasses}

-----------------------------------------------------------------------------
(* The geometry of the beams: derive_all_beam_geometry.                    *)

Beams(file) == {p \in DOMAIN file.products : file.products[p].class = "IfcBeam"}

AxisDerives(shape) == shape.axes = 1 /\ shape.curve
BodyDerives(shape) ==
    shape.bodies = 1 /\ shape.swept /\ shape.profile = "closed"

BeamStatus(file, p) ==
    LET shapes == file.products[p].geometry
    IN  IF \A shape \in shapes : ~AxisDerives(shape) THEN "BLOCKED"
        ELSE IF \A shape \in shapes : ~BodyDerives(shape) THEN "LENGTH_ONLY"
        ELSE "COMPLETE"

\* Plane angles: SI radians, or one conversion of them.
AngleUnits(file) ==
    {file.units[i] : i \in {j \in InContext(file) : file.units[j].type = "PLANEANGLEUNIT"}}
AngleUnitAccepted(file) ==
    /\ \A u \in AngleUnits(file) : u.kind = "SI" => u.name = "RADIAN"
    /\ Cardinality(AngleUnits(file)) <= 1

\* Every result carries the beam's GlobalId, whatever its status: the
\* derivation of all of them fails on a beam that has none.
BeamGeometryDerives(file) ==
    /\ LengthUnitAccepted(file)
    /\ AngleUnitAccepted(file)
    /\ \A p \in Beams(file) : file.products[p].gid # "none"

BeamGeometry(file) == [p \in Beams(file) |-> BeamStatus(file, p)]

-----------------------------------------------------------------------------
(* The whole audit: _audit_parsed.                                         *)

\* _length_units lists every declared length unit with the adapter's verdict;
\* two scales that disagree, and a malformed prefix, are not its concern.  A
\* unit that is not accepted never has a scale, so what is refused is always
\* UNSUPPORTED_LENGTH_UNIT, never LENGTH_UNIT_NORMALIZATION_REQUIRED.
UnitIssue(file) ==
    \/ LengthUnits(file) = {} /\ file.assigned # Undeclared
    \/ \E u \in LengthUnits(file) :
          \/ u.kind # "SI" \/ u.name # "METRE"
          \/ u.prefix \notin DOMAIN UnitsPerMetre \cup {"MALFORMED"}

\* A file that declares no unit at all is taken to be in metres.
UnitAssumed(file) == LengthUnits(file) = {} /\ file.assigned = Undeclared

ModelIssues(file) ==
    {issue \in {"UNSUPPORTED_LENGTH_UNIT", "ASSUMED_LENGTH_UNIT", "PROPERTY_GRAPH_UNREADABLE",
                "UNSUPPORTED_STOREY_COUNT", "NO_SUPPORTED_PRODUCTS",
                "BEAM_GEOMETRY_AUDIT_FAILED"} :
        CASE issue = "UNSUPPORTED_LENGTH_UNIT" -> UnitIssue(file)
          [] issue = "ASSUMED_LENGTH_UNIT" -> UnitAssumed(file)
          [] issue = "PROPERTY_GRAPH_UNREADABLE" -> ~PropertyGraphReadable(file)
          [] issue = "UNSUPPORTED_STOREY_COUNT" ->
                Cardinality({p \in Inventory(file) :
                    file.products[p].class = "IfcBuildingStorey"}) # 1
          [] issue = "NO_SUPPORTED_PRODUCTS" -> Inventory(file) = {}
          [] issue = "BEAM_GEOMETRY_AUDIT_FAILED" ->
                Beams(file) # {} /\ ~BeamGeometryDerives(file)}

\* The one issue of a model that is a WARNING and not an ERROR.
Warnings == {"ASSUMED_LENGTH_UNIT"}

\* lowering, compilation and verification in turn; a stage that did not pass
\* leaves the next ones NOT_RUN.
LoweringStage(file) == IF Lowers(file) THEN "PASS" ELSE "BLOCKED"
CompilationStage(file) ==
    IF ~Lowers(file) THEN "NOT_RUN"
    ELSE IF Compiles(LowerIfc(file)) THEN "PASS" ELSE "BLOCKED"
VerificationStage(file) ==
    IF CompilationStage(file) # "PASS" THEN "NOT_RUN"
    ELSE IF ~VerifierRaises(LowerIfc(file)) /\ InvariantsHold(LowerIfc(file)) THEN "PASS"
    ELSE "BLOCKED"

PipelineReady(file) ==
    /\ LoweringStage(file) = "PASS"
    /\ CompilationStage(file) = "PASS"
    /\ VerificationStage(file) = "PASS"

\* The digest of the world the audit made, failing invariants included.
AuditedWorld(file) == IF Loads(file) THEN LowerIfc(file) ELSE NoWorld

\* audit_statuses: by GlobalId alone, the later entity in step order winning.
AuditStatuses(file) ==
    LET Named(gid) == {p \in Inventory(file) : file.products[p].gid = gid}
    IN  [gid \in {file.products[p].gid : p \in Inventory(file)} \ {"none"} |->
            EntityStatus(file, Max(Named(gid)))]
=============================================================================
