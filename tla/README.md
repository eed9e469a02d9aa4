# A verification project for the GAT engine

GAT compiles a building model into a *world*: a typed module of entities and
relations, a Gaussian belief over its raw numeric parameters, and the derived
quantities that follow from them. A *session* runs operations of a closed
transformation algebra on its world. Each operation is propagated, verified
against an invariant registry, and committed only if it passes. What happened
is kept in an append-only *execution ledger*, from which anybody can replay the
session. Worlds travel between processes in carriers (an IFC file, a JSON
snapshot, an OpenUSD stage), decisions about them in request and response
files, and both end in documents that are opened in a browser.

This directory holds TLA+ models of that system, the TLC configurations that
check them on small instances, and TLAPS proofs of the results that matter most.
`PROJECT.json` is the index: which definition models which lines, which run
checks which property, which deliberate slip breaks it, and which hazards of
the code the properties are aimed at.

## 1. The system

| Component | State | Operations | Talks to |
|---|---|---|---|
| Session (`gat/session.py`, `gat/trace.py`) | current world, ledger, trace, whether the carrier it came from was verified | `run`, `record_*`, `export_*`, `load_*` | executor, ledger, carriers |
| Execution ledger (`gat/ledger.py`, `gat/causal.py`) | chain of events; nothing else | `genesis`, `record_transition`, `record_rejection`, `record_causal`, `validate`, `replay_ledger` | executor (replay), session |
| Executor and algebra (`gat/engine/executor.py`, `transform.py`, `dynamics.py`, `gaussian/condition.py`) | none: worlds are immutable | `preview`, `execute`, one `apply` per transformation | propagation, invariant registry |
| Propagation (`gat/engine/propagate.py`, `World` of `executor.py`) | caches of a world: full view, Jacobian, `covariance_left` | complete and incremental push-forward | dependency graph |
| Dependency graph (`gat/ir/deps.py`) | topological order, children | `_topo_sort`, `affected_set`, `evaluate`, Jacobians | propagation |
| Invariant registry (`gat/engine/verify.py`) | none | `run_invariants` | executor, carriers |
| State snapshot (`gat/state_snapshot.py`) | a JSON file | capture, write, read, reconstruct | session |
| OpenUSD carrier (`gat/adapters/openusd.py`) | a USD file, keys, trust map | write, sign, read, verify, migrate | session, ledger, snapshot |
| IFC front end (`gat/adapters/ifc`, `gat/ifc_audit.py`) | an IFC file | units, reader, lowering, export, audit | session, intermediate representation, `gat view` |
| Acceptance and change impact (`gat/workflows`) | none | evaluate a case, preview a change | executor, ledger, headless |
| Engineering and evidence (`gat/engineering`, `gat/evidence.py`, `gat/geometry/scan_likelihood.py`) | the evaluator's cache of calculations | evaluate a beam, explain a revision, certificates and scans to observations | executor, ledger |
| Headless runner (`gat/headless.py`) | none between requests; a request and a response file | `handle_request` | session, acceptance, evidence |
| Readers of a decision (`gat/report.py`, `gat/geometry/viewer.py`, the Blender add-on, `gat view` and `gat workbench` of `gat/cli.py`) | files of others, read one after the other | decode a response, bind it to a model, draw | headless, IFC front end |
| Workbench document (`gat/workbench.py`, the scripts of page and viewer) | selection, mode, URL hash, messages | boot, select, change mode, edit the hash, reload | its two seats, each other |
| Proof pipeline (`gat/proof_manifest.py`, `gat/sp1_beam.py`, `gat/demo/beam_sp1.py`, `sp1/`) | request, proof, receipt and manifest; the guest an executable embeds | build and record a claim, write a request, prove, create and verify a manifest | session, ledger, the prover as a subprocess |
| Geometry kernels, active inference | none | numeric analysis | worlds |

`PROJECT.json` lists every component with what is modelled of it.

A session is driven by one thread. What is hard about it is not interleaving but
*what is left when something fails half-way*: execution, recording and moving the
world are three steps of one call; each has its own ways to raise, and callers
catch them and go on. The second difficulty is *agreement between two pieces of
code that must decide alike*: recording and reading back the ledger, executing
and replaying, writing and reading a carrier, auditing a file and loading it,
propagating incrementally and completely, the host's arithmetic and the guest's.
The third is *staleness*: caches of the world before, likelihoods calibrated at
an earlier world, approvals given about another one.

Around the session processes do interleave. Files are written in place and nobody
locks them: a crash leaves half a file, an authoring tool may save a model between
the two reads of one command, and a request may be rewritten between the headless
run that answers it and the view that draws its proposal. The proof pipeline hands
four files from process to process. And the exported document has two scripts that
share no state, obey the user at once and agree only by messages.

What makes each component correct:

* Session: the head of the ledger describes the world; trace and ledger tell
  one story; after a commit only verified worlds are held.
* Ledger: what was appended is accepted when read back; ended approvals and
  actions stay ended; recorded work was authorized; each event replays.
* Executor: a stale linearized likelihood never conditions a world.
* Propagation: any chain of incremental steps equals the complete one, and the
  caches left for the next step are current.
* Dependency graph: the order is topological and deterministic, cyclic
  modules are refused and no others, the affected set is the least closed one.
* Carriers: what was written to its end can be read, unless its world is not the one
  its raw belief recompiles to; histories survive migration, resumption and crashes.
* IFC exchange: what a session believes survives its export and the reload; audit
  and loader agree about every file; a page shows the statuses of the world it draws.
* Scan evidence: a receipt stands for one coherent chain of scene, registration,
  report, plan, pose and likelihood, conditioned on exactly the world it names.
* Acceptance: where evidence is required, a case is accepted only if every check
  is satisfied in one world and was measured in exactly that world; what is good
  for the library is good for a headless request.
* Evaluator: a cached calculation is returned only where a fresh one would give the
  same; a changed verdict has a changed belief behind it.
* Decision files: what is drawn over a model was decided about it; what the runner
  wrote its readers take.
* Workbench: the seats show one selection; a link that decodes and names an entity names
  the view and restores it; messages end.
* Proof pipeline: two implementations of one integer calculation never disagree; a
  verified proof is about the recorded claim of exactly the world its transition led
  to, whatever was rewritten or stopped on the way; the reference order ends in one.

## 2. Modules

| Module | Models | State / actions |
|---|---|---|
| `Ledger` | `ledger.py`, `causal.py` | pure: events, lifecycles, `CanAppend`, `CanRecordRun`, `CanRecordCausal`, `ValidLedger`, `ReplayLedger`. Parameterised by the executor |
| `Session` | `session.py` (run, record), `trace.py` | `world`, `ledger`, `trace`, `reply`; one action for each way a call can end: `RunCommitted`, `RunRejected`, `RunUnrecorded`, `RunEscaped`, `RecordCausal`, `RefuseCausal` |
| `History` | the abstract promise of a session | `current`, `path`; `Commit`, `Note` |
| `Engine` | `executor.py`, `transform.py`, `dynamics.py`, `condition.py`, admission by `verify.py` | pure: `ExecuteOn`, `EncodableOp`, `PassesInvariants` |
| `EngineSession` | a session over that executor | as `Session`, with `Execute` &c. given `Engine`'s operators in the `.cfg` |
| `Deps` | `deps.py` (sort, affected set) | the two loops, one turn per action: `TakeReady`, `FinishSort`, `AskAffected`, `Visit`, `Answer` |
| `Propagation` | `propagate.py`, `deps.py` (evaluation), `World`, for any module over any raw variables | `belief`, `full`, `jacobian`, `left`, `work`; `Compile`, `Transform`, `Observe` |
| `Carriers` | `state_snapshot.py`, `openusd.py`, load and export of `session.py` | `Session` plus `disk`, `pending`, `verified`; `Export*`, `Migrate`, `FinishWrite`, `FailWrite`, `Restart`, `LoadSnapshot`, `LoadOpenUsd` |
| `Lowering` | `units.py`, `reader.py`, `lower.py`, and over lowered worlds `verify.py` | pure: `LengthUnitAccepted`, `Sets`, `Priors`, `Lowers`, `LowerIfc`, `Compiles`, `InvariantsHold`, `Loads` |
| `IfcAudit` | `ifc_audit.py`, the status of `beam_geometry.py` | pure: `BlockingIssues`, `EntityStatus`, `BeamStatus`, `ModelIssues`, the three stages, `AuditStatuses` |
| `IfcExchange` | `writer.py` and the processes around a model file: a script, an authoring tool, `gat view --audit` | `disk`, `session`, `viewing`, `page`; `Load`, `Measure`, `Export`, `Save`, `OpenView`, `DrawView` |
| `ScanEvidence` | `registration.py`, `assurance.py`, `scan_likelihood.py`, receipts of `acceptance.py`, composed with `Session` and `Engine` | `Session` plus `scene`, `registration`, `evidence`, `plan`, `likelihood`, `result`, `receipts`: the objects a caller keeps; `DeriveScene`, `Register`, `ReportEvidence`, `PlanEvidence`, `Adapt`, `RunLikelihood`, `RunChange`, `IssueReceipt` |
| `Headless` | `evaluate_acceptance_case`, the acceptance operation of `headless.py` | pure, over `ScanEvidence`: `CaseOutcome`, `MatchesLedger`, `HeadlessRefuses` |
| `Acceptance` | checks, cases and the records of their outcomes (`acceptance.py`, `causal.py`) | `assessed`, `outcome`; `AssessCheck`, `Evaluate`, `RecordOutcome` |
| `BeamCheck` | `engineering/beam.py`, `assess_decision`, what moves a beam's belief | pure: `Applied`, `Assess`, `Key`, `Evaluation`, `Explanation` |
| `BeamDecisions` | one evaluator kept over the worlds of a session | `path`, `cache`, `results`, `change`; `Run`, `EvaluateCheck`, `Explain` |
| `DecisionFiles` | `headless.py` (all operations), `report.py`, the Blender bridge, `decision_overlay` of `viewer.py`, `_bind_decision` of `cli.py`, `change_impact.py` | the files `model`, `request`, `response`, the processes `job` and `viewing`, and `shown`; `HeadlessLoad`, `HeadlessRespond`, `HeadlessStop`, `ViewLoad`, `ViewBind`, `Write` |
| `Instrument` | the scripts of `workbench.py` and of `viewer.py` | `page`, `frame`, `hash`, `edited`, the channels `toPage` and `toFrame`; `BootPage`, `BootFrame`, `ShowMode`, `SelectOnPage`, `SelectInFrame`, `EditHash`, `HashChange`, `DeliverToPage`, `DeliverToFrame`, `ReloadFrame`, `ReloadPage` |
| `FixedBeam` | the integer claim of `sp1_beam.py` and of `sp1/beam/lib/src/lib.rs` | pure: `Quantize`, `RoundDivTiesEven`, `Evaluate`, and the guest's `GuestAccepts`, `GuestEvaluate` over checked widths |
| `BeamProof` | the proof pipeline over those claims | `events`, `result`, `claim` of a session; the files `request`, `proof`, `receipt`; the built-in `program`; `prover`, `manifest`, `job`, `report`. Session, prover subprocess and host interleave: `BuildClaim`, `RecordFixedClaim`, `WriteRequest`, `StartProve`, `SaveProof`, `WriteReceipt`, `ProverStops`, `RebuildGuest`, `CreateManifest`, `StartVerify`, `EndVerify`, `VerifyTimesOut` |
| `MCSession`, `MCPropagation`, `MCCarriers`, `MCIfc`, `MCAcceptance`, `MCBeamProof`, `MCWorkbench` | small instances | |
| `SessionProofs`, `CarriersProofs`, `AcceptanceProofs`, `PropagationProofs`, `BeamProofs`, `WorkbenchProofs`, `IfcProofs`, `Induction` | theorems | |

Composition. `EngineSession` is `Session` over `Engine`; `Carriers`, `ScanEvidence`,
`Headless` and `Acceptance` extend it. `IfcExchange` extends `IfcAudit`, which extends
`Lowering`. `BeamDecisions` and `DecisionFiles` share `BeamCheck`. `MCPropagation` extends
`Deps`, which sorts a graph, and `Propagation`, which goes on over that order once its
world is compiled. `MCWorkbench` follows a decision through its three seats: an evaluating session, the processes around its
files, and the document that is exported once a decision was bound. The document is
offline, so these share nothing while they work.

Definitions commented "Slip" are plausible bugs kept next to the definition they
would replace. No specification uses them; `PROJECT.json` names, for every
property of a passing run, the slip that breaks it.

### Abstractions

* A digest is the thing it digests: SHA-256 is taken to be injective. An event's
  sequence number and hash links are its position in the chain.
* A world in `Engine` is its raw belief with integer means and the set of
  variables known exactly. Zero variance is what makes an observation degenerate;
  the other variances only scale. The gain of a noisy observation is one half
  rather than a quotient of variances: what matters is that the posterior lies
  between, that exactly known variables do not move, and that a second exact
  observation is refused. Sigmas are classes: positive, zero, one whose square
  underflows to zero, one whose square overflows, infinite.
* A GatError is its class name; any other exception is "escaped". Strict and
  non-strict `run` differ in whether the rejection is raised or returned, not in
  what is left, and are one action.
* `Propagation` computes with integers, so rounding and BLAS blocking are out of
  sight. It keeps the sign of a zero mean, because equality does not see it and
  a digest does. The covariance is kept doubled so that symmetrizing stays integral.
* Carriers: an integrity digest is modelled by what it protects: a file is exactly
  what was written or does not load. A signature is the key that made it. Two
  keys may be published under one identifier (rotation). The OpenUSD reader's
  separate budgets are one limit on embedded entries. What a reader makes of a captured
  world is `Recompiled`: its module compiled again and its raw belief pushed forward
  completely; the digest recorded beside it is the world itself. `MCCarriers` gives a
  world the full view of its means with the signs of zeros and takes both push-forwards
  from `Propagation`, so a world the incremental pass left may differ from the recompiled
  one. `CompileAssumption` says that a world just compiled does not.
* IFC files are parsed files: products, definitions, values, placements and the relations
  that attach property sets by step id. A product stands under its step id throughout, and
  its GlobalId is compared where the code compares it. An export allocates the step ids of
  what it adds from one past the largest of the file, as the code does, but nine to a
  product, so that a new id tells whose it is; the code leaves no gaps. Lengths are whole metres, and a file's unit is how many of
  its units make one; sigmas are thousandths. Slots are listed in the order of step ids,
  which the identifiers of `MCIfc` follow. A shape is what the derivation of beam geometry
  asks of it, not its numbers. The other relations are a sequence, because the code adds up what a
  repeated relation repeats: a second containment of one wall is counted twice by the
  rollup and by the invariant that re-sums it, a second `VOIDS` of one opening fails the
  invariant that asks for exactly one. A session loads also where an invariant fails, as
  in the code; only a transformation is held to them.
* Scan evidence: registration is an oracle, deterministic in scan and scene. A pose
  calibration belongs to one scan and carries its identifier. Where a gate depends on
  the quality of the scan (effective points, alignment, innovation), no action of the
  model is obliged to happen. Probabilities are percents decided by the sign of the
  margin, and by the mean alone where a value is known exactly; the bounds over
  several elements are added up as in the code. Positional noise is zero.
* `Headless` reads a carrier and writes nothing, so it has no action: the
  properties quantify over every carrier that could have been exported so far and
  over every set of receipts a request may present. Requests a caller supplies for
  open checks only word them and are left out.
* Beams: the belief is over the strength and the section modulus of each beam, with a
  covariance, so that marginals and their correlation can be told apart. The capacity
  and its first-order variance are computed as in the code, without the resistance
  factor. An observation has half the gain. A confidence is the number of sigmas it
  asks for, squared, which keeps the comparison in integers.
* Decision files: the digest of a loaded world is the world with the string by which its
  file was named, as in the code, where the module's source enters the digest. An
  acceptance decision is the term of what it was made of (`Headless` has the rest). Where an
  operation fails, its response is an error document. Files are replaced whole.
* Workbench: what is rendered is a function of the selection and left out. Channels
  are FIFO, as `postMessage` between two windows is. A user acts at any moment; the hash
  may also hold names of nothing, a part that does not decode (`Malformed`, for which
  `decodeURIComponent` throws and `applyHash` ends before any mode is shown), or a name
  every object inherits (`Inherited`, which `in ENTITIES` finds: `select` keeps it, and
  rendering its card throws before anything is posted or written).
* Proof pipeline: a mean or a demand is a whole number of grains, `Grain` of them to a unit
  of the fixed-point scale, since what quantization does depends only on the fraction.
  The widths, the factor and its denominator are constants, with only what the
  calculation relies on assumed of them. A ledger keeps of each event its kind, its result
  world and the computation digest of an assessment (`Ledger` has the rest), and a
  transition may lead to any world. Digests of ledgers, claims, statements and proofs
  are the things themselves. The prover is taken to be sound: a proof states the guest
  that made it and what that guest committed, and fails against any other. A rewritten
  file is whole; what a torn request, proof or receipt leads to is an error and nothing
  else. A ledger in the host's hands was exported by the session at some moment.

## 3. Runs

| Run | Instance | Shows |
|---|---|---|
| `session` | 12 worlds of two parameters (one genesis world fails, one knows a value exactly), 21 operations covering every transformation class, every sigma class, unknown variables and composites with linearized steps; up to 4 events. From another genesis, two operations and all records of two (symmetric) identifiers; 5 events, the ledger's limit | the ledger can be read and replays; only verified worlds are held; no stale linearization; lifecycles, trace and the full ledger; the session implements `History` |
| `unrecorded_run` | as `session`, 2 events | finding 1 |
| `propagation` | all 4,096 graphs of three derived variables and a raw one, cycles and self-loops included, and every set of changed variables; then a world over the order one of them was given: a product, a sum over a shared path, and one nothing else reaches, 4 covariances with and without correlation, chains of any length | order, refusal, affected set, termination; incremental = complete, caches included |
| `bitwise` | the same | finding 2 |
| `carriers` | 2 files, 2 keys of one identifier, 3 ledger events, 4 trace entries, legacy carriers of versions 1 and 2 on disk, crash at any moment; worlds of three raw means and a derived product, with the sign of every zero, and an operation that flips one | what was written loads unless its world is not the one its raw belief recompiles to, and replays; the trace's suffix tells the ledger, also after migration |
| `exports_restart` | as `carriers`, with a budget of 4 and an operation that flips no zero | finding 3 |
| `acceptance` | a route past a wall and a duct, three scans of which two fit some worlds only, design changes, 4 events; every order of the calls. From one genesis evidence, carriers and receipts; from another, checks, cases and their records | receipts are coherent; headless acceptance is neither laxer nor stricter than the ledger; recorded acceptances hold in the world they stand in |
| `beam_proof` | integers of 3 and 6 bits, factor 3/4, quarter-unit grains; all 961 pairs of means and all 31 demands, up to half a unit beyond the width; for one of these claims the way to its report with two (symmetric) builds of the guest; and a session between two worlds whose prover and host interleave with it | the guest accepts every request; recorded verdicts are within rounding; verified proofs bind their world and guest; settled files verify |
| `ifc` | a building of eight products in a prefixed unit with everything lowering reads; it and 31 files one change away, loaded, measured, exported over themselves and saved over, 3 changes in all; 403 files of up to two changes, loaded, audited and drawn | exports return the belief; audit and loader agree, a file without a declared unit included; pages show the statuses of their world |
| `shared_price` | the building with one price for two walls | finding 4 |
| `workbench` | two beams, four checks of different demand and confidence, observations and parameter changes, correlated or not, 2 runs and 2 results; 8 requests of all four operations by two spellings of one path, 2 writes by others; two drawn elements and a storey that is not, 4 acts of the users, every hash, broken and misleading ones included | cached results are fresh, revisions have a cause; drawn decisions are about the model, own responses are drawn; the seats agree, links work, messages end |
| `edited_request` | the same, users at rest | finding 5 |

Bounds. `MaxEvents` is a constant of the code (`LEDGER_MAX_EVENTS`) made small, so the
case of a full ledger is reached rather than cut off. Five events let an approval and
an action of one identifier run through three states with a transition between, and
two identifiers interleave. `TraceBound` caps the number of exports. The
properties relate an event to the one before it, to the latest of its identifier or
to a prefix, which chains of this length already exercise; the theorems of section 5
remove the bound.

In `beam_proof` the products exceed the wide integer and every tie of the two roundings
occurs, towards an even and towards an odd quotient; each claim takes one path from a
transition to its request. For one of them the session then rests, while the prover, the
host and the builds of the guest interleave in every way, which leaves a proof of one
build beside the receipt of another. Where the session goes on, three events are a
transition, the assessment of its claim and one more, before, between or after them, and
the two observations make two claims of one world, so that a request can be rewritten
with another good one. Nothing reads the report, so a behaviour is followed to the first
one and what could precede a second one also precedes a first. Builds and observations
are interchangeable values, and no property names one, so permuting them is sound.

In `ifc` three changes are what an exchange needs to go wrong: a measurement, an export
over the file the session came from, and a measurement or a save before the next load.
Step ids of exports grow without end in the code and in the model; the bound stops them.

In `workbench` two runs and two results are what an explanation relates: a world, its
successor, and results of both, or one cached in the first and asked for in the third;
the theorems remove this bound. Two writes suffice because a process reads at most three
files; four acts are a selection on each seat that cross, a reload, and a selection that
mends it.

Fairness. In `Deps` a loop that has begun runs on (`TakeReady` with `FinishSort`, `Visit`
with `Answer`), because nothing in it waits. A browser runs the scripts it has loaded
and delivers what was posted (`Scripts` of `Instrument`, weakly fair once the document
is open); users owe nothing. Sessions, files and provers have no fairness: nobody is
obliged to call, and every call is one step that ends.

Deadlock is checked everywhere except in `propagation` and `bitwise`, where the loops of a
cyclic graph or of a graph without a world end; in `beam_proof`, which stops at its first
report; and in `workbench` and `edited_request`, where users need not act.

## 4. Findings

1. *A run may leave no event* (`unrecorded_run`). The ledger guide says `run` records
   rejections and successful transitions. An exact observation is legal for the
   executor but has no encoding in ledger-v1: the call raises `LedgerError` after the
   candidate was verified, nothing is recorded and the world stays. If the operation
   was to be rejected, the `LedgerError` also replaces the rejection's error.
2. *A sign of zero is not propagated* (`bitwise`). Incremental propagation compares
   means with `!=`, for which `0.0` and `-0.0` are equal; digests tell them apart. One
   consequence reaches the carriers: a snapshot records the raw belief and the digest of
   the session's world, derived means included, and its reader pushes the belief forward
   completely and refuses another digest (`state_snapshot.py:258`). A session that scaled
   a raw mean of zero by a negative factor has the product at `0.0`, the recompiled world
   at `-0.0`: the export ends without an error and no session can load it, be it a
   snapshot or an OpenUSD carrier, which embeds the same record.
3. *An export need not be restartable* (`exports_restart`). The OpenUSD reader enforces
   cumulative budgets which the writer does not look at.
4. *A shared price is overwritten* (`shared_price`). Lowering refuses a quantity record
   that backs two variables, except that of a unit cost, and the writer keeps one
   variable for each record: of two walls priced by one property set, measuring the one
   that comes first is lost on export, and measuring the other changes both.
5. *An edited request is drawn* (`edited_request`). The view compares identifier and
   operation of the request with those of the response and then draws the proposal of
   the request. One that was edited since it was answered keeps both, and its proposal
   appears under the decision that was made of another.

In all other respects the code did what its documents say, and the properties hold. Five
exceptions are part of a property and named there. `WrittenCarriersLoad` leaves out carriers
on whose way an operation was committed and whose world is not `Recompiled` (finding 2), which
the run `carriers` writes too, and OpenUSD carriers beyond the reader's budget (finding 3); it
says that rejections, causal records, exports, migrations and resumes alone never lead there. `LinksNameAndRestoreViews` leaves out a page
that was led `Astray`: `decodeURIComponent` (`workbench.py:826`) throws on a broken escape and
`applyHash` has no other path, so a document opened by such a link shows no mode, not even the
fallback, and a link to an inherited name leaves the page with a selection that is no entity.
The property says that nothing but such a misleading link leads a page there.
The seats of a document may differ
after selections *crossed* (each made while the word of the other was under way): neither
gives way, until one is made when all is quiet. And `PreflightGaps` lists what only
lowering checks, so that a file in which the audit sees every product READY may yet be
blocked at its lowering stage; the proof attempt added one to this list, the structural
sets of a product that is no beam, which lowering reads and the preflight does not. And
`ReloadReturnsBelief` leaves out files in which a value of a posterior set is listed in
another set too (`PosteriorApart`): the writer drops the values of the posterior sets it
finds by reference, and such a file no longer loads. An export
allocates new step ids for its posterior values, so it lists them nowhere else.

## 5. Proofs

Everything a passing run checks is proved for every value of the constants, except the
two liveness properties. Each module of proofs is one argument; its theorems are listed in
`PROJECT.json` with the property they state.

`SessionProofs` proves, for every set of worlds, operations and identifiers, every
limit, and every executor, under

* `ExecuteAssumption`: the executor returns a typed outcome, and commits only a
  candidate that passes (this is `execute`'s own last check);
* `GenesisAssumption`, `LimitAssumption`: a session opens on a world, and the limit is
  at least 1.

| Theorem | By |
|---|---|
| `TypeCorrect` | inductive as it stands; `StepShape` says once what the appended event and trace entry are, for each way a call can end |
| `HeadAlwaysDescribesWorld` | inductive with the type invariant |
| `EveryEventReproducible` | needs that the head describes the world, since a new event replays from the head |
| `CommittedWorldsVerified` | from the same, and `ExecuteAssumption` |
| `TraceAlwaysTellsLedger` | inductive: each call appends to both or to neither |
| `EndedStaysEnded` | `LatestExists` (the latest record of an identifier is found by the backward scan) and the lifecycles |
| `WorkAlwaysAuthorized` | not inductive: strengthened by `AuthorizationsReferenced` (every recorded state past AUTHORIZED has an authorized record with a reference behind it) |
| `LedgerAlwaysReadable` | the backward scan while recording and the forward fold while reading see the same prefix (`PrefixOfAppend`) |
| `ReplayAlwaysReturnsSession` | replay is a recursive function over the chain; by induction over its places, each event replays from where the one before it ended (`Reproducible`) |
| `LinearizationsAlwaysCurrent` | where the executor is `Engine`'s (`RunsEngine`, which TLC evaluates for the instance of `session`): an error met in a composite stays to its end, so a committed composite passed the digest check of every linearized step, and the world that step met is the one the ledger names |
| `ImplementsHistory` | refinement: a commit maps to `Commit`, any other append to `Note`, the rest to stutters |

`CarriersProofs` proves, for every executor, every set of paths and keys, whatever they
are trusted for, and histories of any length (`CarrierAssumption`: no key is called
unsigned):

| Theorem | By |
|---|---|
| `AlwaysSound` | the inductive invariant `CarriersSound`: session, every complete file and the write in progress have a ledger that is readable, replays and ends in their world, and a trace whose suffix tells that ledger's tail; a torn file claims nothing. Each export, migration and load passes this on, each crash keeps it |
| `WrittenCarriersAlwaysLoad` | a sound ledger passes the reader's validation, and its world passed the registry before it was written. Until an operation is committed the world is one that was compiled, which recompiles to itself (`CompileAssumption`, carried through every export, migration and resume by `Reproduced`); after that it is a premise, and finding 2 shows that it need not hold |
| `WrittenLedgersAlwaysReplay` | `SoundLedger` and the induction of `ReplayAlwaysReturnsSession` |
| `TraceSuffixAlwaysTellsLedger` | `SuffixTells`, which is part of the invariant because a carrier hands trace and ledger to the next session together |

`AcceptanceProofs` proves, for any scans, checks, policies, readings and worlds and any
executor, whatever order the caller works in (`RunsAssumption`: likelihoods may be run
with any provenance, and a design change is not a linearized observation;
`OutcomesAssumption`: outcomes are recorded under record identifiers):

| Theorem | By |
|---|---|
| `AcceptanceImplementsSession` | every step is a step of `Session` or leaves its variables alone, so all that is proved of a session's ledger holds here. With it goes `Driven`: each object the caller keeps (registration, report, plan, likelihood) is of one scan and of one world that the scan fits and in which a decision was open |
| `ReceiptsAlwaysCoherent` | strengthened by `LedgerMeasured` (every committed likelihood was made of such a scan, whichever call made it) and `ReceiptsSound` (a receipt stands for one event, up to which the chain is as it was: chains only grow) |
| `HeadlessAlwaysAcceptsOnEvidence` | only a trusted carrier is listened to; it holds the chain up to one event, and `MatchesLedger` finds in it the event a presented receipt tells of |
| `IssuedReceiptsAlwaysTaken` | the other direction: what was issued satisfies every comparison the runner makes, given the carrier of a world the receipt leads to |
| `RecordedAcceptancesAlwaysHold` | strengthened by `OutcomeHolds` (an outcome that accepts was assessed in one world, with evidence the ledger has), and evidence is never lost |

`PropagationProofs` proves of the sort and the search, for every finite set of variables
and every graph (assumption `DepsAssumption`: variables are numbers, raw and derived ones
are disjoint and finite):

| Theorem | By |
|---|---|
| `TypeCorrect`, `SortsCorrectly` | `Sorting`: a count is the number of derived parents not yet placed, so zero means that none is missing; placing the last one makes the child ready exactly once |
| `SmallestFirst` | the heap is exactly the set of variables that could stand in the next place |
| `OrderCorrect` | placed variables have all parents before them; at the end `Len(order)` equals the number of variables, so all are placed |
| `CyclesRefused` | `Founded`: every set of placed variables has a member without a parent in the set; and what is left when nothing is ready is itself a set in which each member waits for another |
| `AffectedCorrect` | `Searching`: what was found lies in every closed set; what was visited has its children found |

and of the propagation, for every module of sums and products over finitely many raw
variables, every belief in integers and chains of any length (`TopoAssumption`: the order
is topological and holds each variable once; `NumbersAssumption`: beliefs are total):

| Theorem | By |
|---|---|
| `IncrementalAlwaysMatches` | the inductive invariant `CachesHeld`: full view and caches are those of `PushForward`. A pass that recomputes a set closed under children, from values right outside that set, is right everywhere (`SweepRecomputes`, by induction over the order). The covariance needs more: a block is kept though the changed rows of sigma enter its sum, because what a changed variable does not reach has a zero in the Jacobian for it (`UnreachedIsZero`) |
| `TransformsAlwaysSelective` | what is not reached from a changed mean has the same value in both push-forwards (`UnreachedUnchanged`), so the executor's assertion never refuses |
| `SortFitsPropagation`, `SearchAnswersAffectedSet` | the two halves fit: the order of `Deps` satisfies `TopoAssumption`, and its search answers with the set the one-pass definition of `Propagation` gives |

`BeamProofs` proves, for every width, factor, denominator and grain (`WidthAssumption`: the wide
integer has twice the bits; `FactorAssumption`: the factor is at most one and twice the
denominator fits the wide integer; `GrainAssumption`), every set of worlds, demands,
observations and builds, and every length of the ledger:

| Theorem | By |
|---|---|
| `RoundingIsNearest`, `NominalNeverOverflows`, `EvaluationsAgree` | division with remainder: the result is off by at most half the denominator, and even where it is off by just that; a product of two narrow integers fits the wide one, and the remainder doubled does since it is below twice the denominator |
| `TypeCorrect` | inductive: `ClaimType` says that a claim is the evaluation of an input whose products fit |
| `VerdictsAreNear` | needs `LedgerInv` (a recorded computation was evaluated from the quantized means of the world it is recorded in and of a demand of the model) and the arithmetic that carries half a unit of each rounding through the product |
| `GuestAcceptsEverything` | `RequestInv` (a request states a built claim) and `EvaluationsAgree` |
| `VerifiedProofsBind` | needs `LedgerInv`, and `JobInv`: what was compared when a verification started (manifest, ledger, bytes, request) is what is kept while the backend runs, whichever file is rewritten meanwhile; the receipt is then matched against the kept ones |
| `NamedGuestVerifies` | from `JobInv` and the receipt that ends the verification |
| `SettledVerifies` | `ManifestInv`; each of the checks holds of settled files |

The inductive invariant is `IInv`, the conjunction of these with `TypeOK`.

`WorkbenchProofs` follows a decision through its three seats. The evaluator, for every set
of beams, worlds, checks and operations and sessions of any length (`ChecksAssumption`: a
check is of one of the beams):

| Theorem | By |
|---|---|
| `KeyDeterminesAssessment` | the heart of it: the key of the cache (contract, profile, and the means and the covariance block of the check's dependencies) determines the assessment, whatever else differs between two worlds |
| `InvariantHolds` | `CacheHoldsResults` (what is cached under a key is the assessment of every world with that key) and `ChangeIsOfResults` strengthen the two properties, which are not inductive alone |
| `CachedResultsAreFresh` | from the invariant and `KeyDeterminesAssessment` |
| `ExplanationsNameACause` | contrapositive: if no belief of the dependencies changed, the keys are equal and so are the calculations |

The files, for all requests and models and any number of writes (`RequestsAssumption`: a
request names one of the four operations, since the parser refuses any other):

| Theorem | By |
|---|---|
| `DrawnDecisionsAlwaysOfTheModel` | the inductive invariant `FilesSound`: every response on disk or in a view is what *some* headless job answered for a request and a model of some moment, and a drawn page is one whose binding held. Nothing is assumed to be on disk still. `KeyDeterminesAssessment` carries a cached verdict over |
| `OwnResponsesAlwaysDrawn` | `AnswersAreRead`: every answer passes each reader's decoding; over the belief it was evaluated on, every comparison of the binding holds |

The two seats, for every set of entities, drawn elements and modes and any number of acts
(`InstrumentAssumption`: drawn elements are entities, the first mode is a mode, and what
names nothing, does not decode or is inherited names no entity or mode):

| Theorem | By |
|---|---|
| `SeatsInvariantHolds` | `SeatsType`, `SilentBeforeReady` (nothing is posted to a frame that has not said it is ready) and, unless selections crossed, `Agreement`: a "ready" comes last, only one direction is in use, and the last word under way is what the seat it came from shows. A page that keeps an inherited name has told nobody, and shows nothing the viewer draws |
| `SeatsAgree` | `Agreement` when the channels are empty |
| `LinksHold` | `HashInvariant`: the hash names the page's view unless the user has just written another or the page is `Astray`; `HashLeads` goes through what becomes of a hash (not read, kept, selected) and shows that only a misleading one leads astray a page that shows a mode |

`IfcProofs` proves, for every file with positive step ids and integer values
(`FilesAssumption`, what the parser makes), every set of paths and of measured variables,
and however often files are loaded, measured, exported, saved and viewed:

| Theorem | By |
|---|---|
| `AuditAlwaysAgrees` | for every file whatever: what lowers is ready (`LoweredIsReady`) and warned of just where its unit is assumed, and each check of lowering is one of the preflight or one of `PreflightGaps` (`ReadyLowers`) |
| `ExchangeAlwaysSound` | the inductive invariant `ExchangeSound`: files on disk are files of the parser, exports included; a session holds a world with the model of its own file, that loads; a page is of one file, the audited world being the drawn one |
| `DrawnPiecesAlwaysReady` | from the invariant and `LoweredIsReady` |
| `ReloadAlwaysReturnsBelief` | what an export keeps of a file's graph (`ModelKept`, `RecordsKept`), that the new step ids are new and tell their variables (`SigmaAtIs`, `OverIs`), that lengths and sigmas come back through the file's unit (`UnitsReturn`, `SigmaReturns`, `MeanReturns`), that the export lowers again (`ExportLowers`) and that the same module compiles (`SameModuleCompiles`) |

Attempts at `IfcProofs` failed for a reason and corrected the model: the gap of the
preflight and the exception of `PosteriorApart` that section 4 names, and an export that
drops the texts of a posterior set with its numbers, as the writer does. The files the
runs then knew had reached none of these; `WallStrength` and `SharePosterior` of `MCIfc`
reach the first two now.

`Induction` stands in for the library's induction theorems, whose parameters are
operators, which no prover here can instantiate. It states induction up to a number for
*sets*, and derives it from the well-foundedness of strict inclusion on the finite subsets
of an interval. With it recursive *functions* (replay, application of a composite, the
sweep over an order, the sum of a finite function) are reasoned about.

Model-checked only: liveness (`LoopsEnd` of `Deps`, `MessagesEnd` of `Instrument`), which
the prover cannot reach. What TLC refutes in the runs of section 4 is refuted by one
behaviour and needs no proof.

## 6. Not modelled, and the plan

Built in this order: ledger and session first, since every other part relies on them;
the algebra they run; the history they promise; propagation and dependency graph;
carriers; scan evidence and acceptance; the proof pipeline; IFC exchange; the beam
evaluator, decision files and the workbench. Next, in order:

1. Proofs: that an export of a file without dangling values is again `PosteriorApart`, so that
   the exception of `ReloadReturnsBelief` is one of foreign files only; the accounts the
   runs of section 4 give of what does hold beside each finding.
2. The causal builders (`causal.py` 287-405), which derive a record from an assessment.
3. Divisions and minima in propagated expressions, and the graph statistics.
4. The fields of material certificates and of the AISC tables.

Left out of what is modelled:

* IFC: the STEP text (lexer and parser), the numbers of a derived beam geometry (what
  is modelled is that one beam without GlobalId, or an angle unit that is not the
  radian, ends the derivation for all), space boundaries.
* Invariants TYPE-01, POSE-01 and the numerical ones: no modelled operation can break
  the first two, the others are about floating point.
* `forecast_process`; active inference, sampling, stability and sensitivity, which
  optimize in floating point and keep no state.
* Encodings and wording of responses, reports and snapshots; the parsing of a request's
  fields; `computational_equivalence` of snapshots.
* Proof pipeline: the encodings of requests, receipts and public
  values, the `execute` subcommand (it changes nothing), manifests without a computation
  digest or verified without a backend (they end as NOT_CHECKED), and the manifest's own
  integrity digest.
* The operator that colours a Blender scene: it never resets the colours of an earlier
  response, which no document promises, and Blender is not part of the repository.

Out of reach: floating-point factorizations, geometry kernels, registration and sampling
(real arithmetic); rendering and layout of reports, viewer and workbench.
