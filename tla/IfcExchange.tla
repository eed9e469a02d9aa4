---------------------------- MODULE IfcExchange ----------------------------
(***************************************************************************)
(* IFC files on disk and the processes that read and write them: a script  *)
(* that loads a model into a session, moves its world and exports it again *)
(* (session.py, adapters/ifc/writer.py), an authoring tool that saves the  *)
(* model, and `gat view --audit`, which reads the model file twice, once   *)
(* to load it and once to audit it (cli.py), before it draws a page.       *)
(***************************************************************************)
EXTENDS IfcAudit

CONSTANTS Paths,       \* where models are kept
          Models,      \* the files found there
          Saved,       \* the files an authoring tool saves later
          Measured,    \* the raw variables a script measures
          MaxChanges   \* bound: moves of a world, exports and saves together

\* What the parser makes of a file: records by positive step ids.
IsFile(file) ==
    /\ \A ids \in {DOMAIN file.products, DOMAIN file.definitions, DOMAIN file.numbers,
                   DOMAIN file.texts, DOMAIN file.defines} :
          IsFiniteSet(ids) /\ \A id \in ids : id \in Nat /\ id > 0
    /\ \A r \in DOMAIN file.numbers : file.numbers[r] \in Int

ASSUME FilesAssumption == \A file \in Models \cup Saved : IsFile(file)

VARIABLES disk,        \* [Paths -> files]
          session,     \* the script's session: [file, world], or NoSession
          viewing,     \* `gat view` between its two reads: [path, world], or NotViewing
          page,        \* what it drew: [world, audited, statuses], or NoPage
          changes      \* bookkeeping of the bound

vars == <<disk, session, viewing, page, changes>>

NoSession == [file |-> "none"]
NotViewing == [path |-> "none"]
NoPage == [statuses |-> "none"]

-----------------------------------------------------------------------------
(* The writer: export_ifc.                                                 *)

Without(f, gone) == Restrict(f, DOMAIN f \ gone)

\* What instances come to when others are put over them.
Over(new, old) ==
    [x \in DOMAIN new \cup DOMAIN old |-> IF x \in DOMAIN new THEN new[x] ELSE old[x]]

\* A previous export's posterior sets, their values and their relations go.
StaleSets(file) ==
    {d \in DOMAIN file.definitions : file.definitions[d].set = "GAT_Posterior"}
StaleRecords(file) == UNION {Range(file.definitions[d].members) : d \in StaleSets(file)}
StaleRelations(file) ==
    {d \in DOMAIN file.defines : file.defines[d].definition \in StaleSets(file)}

\* The variable a source record is patched from: the last slot that names it.
\* The code's order is by EntityId; the step ids of a model's products follow it.
PatchedFrom(w, record) ==
    LET naming == {v \in DOMAIN w.sources : w.sources[v] = record}
    IN  CHOOSE v \in naming : \A u \in naming : u[1] <= v[1]

FromMetres(w, q, amount) == IF IsLength(q) THEN amount * w.perMetre ELSE amount

Patched(file, w) ==
    LET kept == Without(file.numbers, StaleRecords(file))
    IN  [r \in DOMAIN kept |->
            IF r \in Range(w.sources)
            THEN LET v == PatchedFrom(w, r)
                 IN  FromMetres(w, v[2], w.belief[v].mean)
            ELSE kept[r]]

\* Step ids are allocated from one past the largest of the parsed file: to a
\* product its sigmas in the order of their names, its posterior set and its
\* relation.  The code leaves no gaps.
MaxStepId(file) ==
    Max(DOMAIN file.products \cup DOMAIN file.definitions \cup DOMAIN file.numbers
        \cup DOMAIN file.texts \cup DOMAIN file.defines)
SlotOrder == <<"ClearHeight", "Height", "Length", "PlasticSectionModulusMajorM3",
               "UnitCost", "Width", "YieldStrengthMPa">>
NewId(last, p, n) == last + 9 * p + n
SigmaAt(last, v) == NewId(last, v[1], CHOOSE i \in DOMAIN SlotOrder : SlotOrder[i] = v[2])
SetAt(last, p) == NewId(last, p, 0)
RelationAt(last, p) == NewId(last, p, 8)

\* Whose a new step id is.
OwnerOf(last, id) == (id - last) \div 9
VariableAt(last, id) == <<OwnerOf(last, id), SlotOrder[(id - last) % 9]>>

\* Slip: the sigma of an exact observation is written as it is.
BareSigma(w, v) == w.belief[v].sigma

\* The sigma written for a raw variable: at least what a binding takes back.
PosteriorSigma(w, v) == Max({w.belief[v].sigma, MinPriorSigma})

Sigmas(last, w) ==
    [r \in {SigmaAt(last, v) : v \in DOMAIN w.belief} |->
        LET v == VariableAt(last, r) IN FromMetres(w, v[2], PosteriorSigma(w, v))]

\* The slots of p, by the names their sigmas are given.
SlotsNamed(w, p) == {q \in DOMAIN SigmaName : <<p, q>> \in DOMAIN w.belief}
Posterior(last, w, p) ==
    [set |-> "GAT_Posterior",
     members |-> [name \in {SigmaName[q] : q \in SlotsNamed(w, p)} |->
                     SigmaAt(last, <<p, CHOOSE q \in SlotsNamed(w, p) : SigmaName[q] = name>>)]]

Posteriors(last, w) ==
    [d \in {SetAt(last, p) : p \in DOMAIN w.classes} |-> Posterior(last, w, OwnerOf(last, d))]
Attachments(last, w) ==
    [d \in {RelationAt(last, p) : p \in DOMAIN w.classes} |->
        [products |-> {OwnerOf(last, d)}, definition |-> SetAt(last, OwnerOf(last, d))]]

Exported(file, w, last) ==
    [units |-> file.units, assigned |-> file.assigned, products |-> file.products,
     definitions |-> Over(Posteriors(last, w), Without(file.definitions, StaleSets(file))),
     numbers |-> Over(Sigmas(last, w), Patched(file, w)),
     texts |-> Without(file.texts, StaleRecords(file)),
     defines |-> Over(Attachments(last, w), Without(file.defines, StaleRelations(file))),
     placements |-> file.placements, rels |-> file.rels]

ExportIfc(file, w) == Exported(file, w, MaxStepId(file))

-----------------------------------------------------------------------------
(* The script.                                                             *)

Changing == changes < MaxChanges /\ changes' = changes + 1

\* A file that does not load raises and leaves the script what it had.
Load(path) ==
    /\ session' = IF Loads(disk[path])
                  THEN [file |-> disk[path], world |-> LowerIfc(disk[path])]
                  ELSE session
    /\ UNCHANGED <<disk, viewing, page, changes>>

\* A transformation moves the mean and the sigma of a raw variable; a world
\* that fails an invariant is rolled back.
Measure(v) ==
    /\ Changing
    /\ session # NoSession
    /\ v \in DOMAIN session.world.belief
    /\ \E sigma \in {0, 1} :
          LET moved == [session.world EXCEPT
                          !.belief[v] = [mean |-> @.mean + 1, sigma |-> sigma]]
          IN  session' = IF InvariantsHold(moved)
                         THEN [session EXCEPT !.world = moved]
                         ELSE session
    /\ UNCHANGED <<disk, viewing, page>>

Export(path) ==
    /\ Changing
    /\ session # NoSession
    /\ disk' = [disk EXCEPT ![path] = ExportIfc(session.file, session.world)]
    /\ UNCHANGED <<session, viewing, page>>

\* An authoring tool saves a model.
Save(path, file) ==
    /\ Changing
    /\ disk' = [disk EXCEPT ![path] = file]
    /\ UNCHANGED <<session, viewing, page>>

-----------------------------------------------------------------------------
(* gat view model.ifc --audit: _run_view.                                  *)

\* The first read loads the model; a model that does not load ends the command.
OpenView(path) ==
    /\ viewing = NotViewing
    /\ viewing' = IF Loads(disk[path])
                  THEN [path |-> path, world |-> LowerIfc(disk[path])]
                  ELSE viewing
    /\ page' = NoPage
    /\ UNCHANGED <<disk, session, changes>>

\* Slip: the statuses are taken without comparing worlds.
AnyWorld(file) == TRUE

\* The second read audits it; an audit that lowered another world is refused.
SameWorld(file) == AuditedWorld(file) \in {NoWorld, viewing.world}

DrawView ==
    /\ viewing # NotViewing
    /\ LET file == disk[viewing.path]
       IN  page' = IF SameWorld(file)
                   THEN [world |-> viewing.world, audited |-> AuditedWorld(file),
                         statuses |-> AuditStatuses(file)]
                   ELSE page
    /\ viewing' = NotViewing
    /\ UNCHANGED <<disk, session, changes>>

-----------------------------------------------------------------------------
Init ==
    /\ disk \in [Paths -> Models]
    /\ session = NoSession
    /\ viewing = NotViewing
    /\ page = NoPage
    /\ changes = 0

Next ==
    \/ \E path \in Paths : Load(path)
    \/ \E v \in Measured : Measure(v)
    \/ \E path \in Paths : Export(path)
    \/ \E path \in Paths, file \in Saved : Save(path, file)
    \/ \E path \in Paths : OpenView(path)
    \/ DrawView

Spec == Init /\ [][Next]_vars
-----------------------------------------------------------------------------
\* No value of a posterior set is listed in another set.
PosteriorApart(file) ==
    \A d \in StaleSets(file), e \in DOMAIN file.definitions \ StaleSets(file) :
        Range(file.definitions[d].members) \cap Range(file.definitions[e].members) = {}

\* Nothing else is kept in the record a variable was read from.
SoleRecord(w, v) == \A u \in DOMAIN w.sources : w.sources[u] = w.sources[v] => u = v

(* An exported file loads again, and returns every raw mean that has a     *)
(* record of its own and every sigma (floored at the least the binding     *)
(* takes), however often the world moved and however often its file was    *)
(* itself an export; each entity carries one posterior set, never more.    *)
(* Lengths pass through the file's own unit both ways.  (The writer drops  *)
(* the values of every posterior set it finds: a file that lists one of    *)
(* them in a set of its own loses it.)                                     *)
ReloadReturnsBelief ==
    session # NoSession /\ PosteriorApart(session.file) =>
        LET w == session.world
            back == ExportIfc(session.file, w)
        IN  /\ Loads(back)
            /\ LET prior == LowerIfc(back).belief
               IN  /\ DOMAIN prior = DOMAIN w.belief
                   /\ \A v \in DOMAIN prior :
                         /\ SoleRecord(w, v) => prior[v].mean = w.belief[v].mean
                         /\ prior[v].sigma = PosteriorSigma(w, v)
            /\ \A p \in DOMAIN w.classes : Cardinality(Sets(back, p, "GAT_Posterior")) = 1

(* The same without the exception: what the writer's own test asks of the  *)
(* model it ships, of every file the loader accepts.                       *)
EveryRawMeanReloads ==
    session # NoSession =>
        LET w == session.world
        IN  \A v \in DOMAIN w.belief :
                LowerIfc(ExportIfc(session.file, w)).belief[v].mean = w.belief[v].mean

\* What the preflight of single products and of the model does not look at.
PreflightGaps(file) ==
    \/ LengthUnits(file) # {} /\ ~LengthUnitAccepted(file)
    \/ \E p \in Products(file), set \in {"GAT_Uncertainty", "GAT_Posterior", "GAT_Material"} :
          ~NumbersReadable(file, p, set)
    \/ \E p \in Products(file) \ OfClass(file, "IfcBeam") :
          \/ ~NumbersReadable(file, p, "GAT_Structural")
          \/ ~TextsReadable(file, p, "GAT_StructuralScope")
    \/ \E p, q \in Products(file) :
          /\ p # q
          /\ file.products[p].class = file.products[q].class
          /\ file.products[p].gid = file.products[q].gid
    \/ SlotsGiven(file) /\ ~RecordsUnshared(file)
    \/ SlotsGiven(file) /\ \E p \in OfClass(file, "IfcBeam"), q \in Strength :
          ~(PriorSigma(file, <<p, q>>) > 0)

(* The audit and the loader agree on every file, from an authoring tool or *)
(* exported by the engine: a file that loads has every product READY and   *)
(* no issue but the warning that its unit is assumed, just when it         *)
(* declares none, and a failed derivation of beam geometry, which nothing  *)
(* authoritative reads; and a file with every product READY and at most a  *)
(* warning lowers, unless it trips one of the checks that only lowering    *)
(* makes.                                                                  *)
AuditAgreesWithLoader ==
    \A path \in Paths :
        LET file == disk[path]
            ready == \A p \in Inventory(file) : EntityStatus(file, p) = "READY"
        IN  /\ Loads(file) =>
                  /\ ready
                  /\ ModelIssues(file) \ {"BEAM_GEOMETRY_AUDIT_FAILED"}
                        = {w \in Warnings : UnitAssumed(file)}
            /\ ready /\ ModelIssues(file) \subseteq Warnings =>
                  Lowers(file) \/ PreflightGaps(file)

(* `gat view --audit` reads the model twice and another program may save   *)
(* it in between.  When the second read lowers at all, the page shows the  *)
(* statuses of the world it draws: every piece READY.                      *)
DrawnPiecesAreReady ==
    page # NoPage /\ page.audited # NoWorld =>
        \A p \in DOMAIN page.world.gids :
            /\ page.world.gids[p] \in DOMAIN page.statuses
            /\ page.statuses[page.world.gids[p]] = "READY"
=============================================================================
