---------------------------- MODULE ScanEvidence ----------------------------
(***************************************************************************)
(* How a laser scan becomes evidence: a scene is derived from a world, a   *)
(* scan registered against it, the registration reported, the next         *)
(* inspection planned, the plan turned into a linearized likelihood, the   *)
(* likelihood run, and a receipt issued for what was committed             *)
(* (gat/geometry/registration.py, assurance.py, scan_likelihood.py,        *)
(* workflows/acceptance.py).                                               *)
(*                                                                         *)
(* Each of these is an object the caller keeps while the session moves on. *)
(* The hazard is a receipt for a chain whose links belong to different     *)
(* worlds or different scans.  A run is a transformation with the          *)
(* provenance it is recorded under; a cumulative probability is a percent. *)
(***************************************************************************)
EXTENDS Session, Engine, FiniteSetsExt

CONSTANTS
  Scans,          \* point clouds; each has an independent pose calibration
  Fits(_, _),     \* register(scan).accepted, against the scene of a world
  Checks,         \* the checks of the acceptance case, by their identifier
  Changes,        \* design changes the session may run
  Readings        \* support coordinates a scan may measure

VARIABLES
  scene,         \* the world of the GeometryScene last derived
  registration,  \* the last RegistrationResult
  evidence,      \* the last ScanEvidenceReport
  plan,          \* the last ClearanceEvidencePlan that selects a measurement
  likelihood,    \* the last ScanClearanceLikelihood
  result,        \* the last ExecutionResult the caller was given
  receipts       \* the EvidenceReceipts issued

objects == <<scene, registration, evidence, plan, likelihood, result, receipts>>
evidenceVars == <<world, ledger, trace, reply, objects>>

None == [none |-> TRUE]

-----------------------------------------------------------------------------
(* Decisions *)

Confidence == 95

(* The probability that a quantity reaches its minimum, by the margin of   *)
(* its mean: decided by the mean alone when sigma is zero.                 *)
PSatisfies(margin, isExact) ==
  IF isExact THEN IF margin >= 0 THEN 100 ELSE 0
  ELSE CASE margin > 0  -> 97
         [] margin = 0  -> 50
         [] OTHER       -> 3

(* Bounds on the probability that a check is satisfied.  The violations of *)
(* several elements may be correlated in any way, so their probabilities   *)
(* bound that of any violation by their maximum and their sum.             *)
Bounds(w, check) ==
  CASE check.kind = "clearance" ->
         LET risk(e) == 100 - PSatisfies(w.mean[e] - check.minimum, e \in w.exact)
             worst   == Max({risk(e) : e \in check.elements} \cup {0})
             total   == MapThenSumSet(risk, check.elements)
         IN  [lower |-> 100 - Min({100, total}), upper |-> 100 - worst]
    [] check.kind = "minimum" ->
         LET p == PSatisfies(w.mean[check.target] - check.minimum, check.target \in w.exact)
         IN  [lower |-> p, upper |-> p]
    [] check.kind = "difference" ->
         LET p == PSatisfies(w.mean[check.lhs] - w.mean[check.rhs] - check.minimum,
                             {check.lhs, check.rhs} \subseteq w.exact)
         IN  [lower |-> p, upper |-> p]

Assess(w, check) ==
  LET p == Bounds(w, check)
  IN  IF p.lower >= Confidence THEN "SATISFIED"
      ELSE IF 100 - p.upper >= Confidence THEN "VIOLATED"
      ELSE "UNRESOLVED"

-----------------------------------------------------------------------------
(* The session *)

NoProvenance == [kind |-> "none"]

ScanProvenance(scan, checks) ==
  [kind |-> "scan", calibration |-> scan, scan |-> scan, checks |-> checks]

RunOf(steps, provenance) == [steps |-> steps, provenance |-> provenance]

ExecuteRun(w, t) == ExecuteOn(w, t.steps)
EncodableRun(t)  == EncodableOp(t.steps)
ObservesRun(t)   == ObservesOp(t.steps)

(* adapt_clearance_likelihood's observation: bound to the exact world.     *)
Likelihood(w, scan, element, value) ==
  [scan |-> scan, scene |-> w,
   observation |-> [op |-> "observe_linearized", expected |-> w, var |-> element,
                    value |-> value, evidence |-> <<w, scan, value>>]]

Linearized(t) == Len(t.steps) = 1 /\ t.steps[1].op = "observe_linearized"

(* A session may be asked for any change and for any likelihood, whatever  *)
(* it is declared for, and only a likelihood is a linearized observation.  *)
Provenances ==
  {NoProvenance} \cup {ScanProvenance(scan, checks) :
                         scan \in Scans, checks \in (SUBSET Checks) \ {{}}}

LikelihoodRuns ==
  {RunOf(<<Likelihood(w, scan, element, value).observation>>, provenance) :
     w \in Worlds, scan \in Scans, element \in RawVars, value \in Readings,
     provenance \in Provenances}

ASSUME RunsAssumption ==
  /\ Changes \cup LikelihoodRuns \subseteq Transformations
  /\ \A t \in Changes : ~ Linearized(t)

(* One call of run, with provenance that can be recorded.  A rejection is  *)
(* returned as a result when the call was not strict and verification      *)
(* failed; otherwise the caller has only what an earlier call returned.    *)
Run(t) ==
  LET r == Execute(world, t)
      returned == [t |-> t, world |-> r.world, committed |-> r.tag = "committed"]
  IN  /\ \/ RunCommitted(t, TRUE)
         \/ RunRejected(t, TRUE)
         \/ RunUnrecorded(t, TRUE)
         \/ RunEscaped(t)
      /\ result' \in (CASE reply'.ending = "committed" -> {returned}
                        [] reply'.ending = "rejected" /\ r.error = "VerificationError" ->
                             {result, returned}
                        [] OTHER -> {result})
      /\ UNCHANGED <<scene, registration, evidence, plan, likelihood, receipts>>

RunChange(changes) == \E t \in changes : Run(t)

(* The caller says which checks the measurement is for, or says nothing.   *)
RunLikelihood ==
  /\ likelihood # None
  /\ \E provenance \in {NoProvenance} \cup
        {ScanProvenance(likelihood.scan, checks) : checks \in (SUBSET Checks) \ {{}}} :
       Run(RunOf(<<likelihood.observation>>, provenance))

-----------------------------------------------------------------------------
(* From a scan to a likelihood *)

DeriveScene ==
  /\ scene' = world
  /\ UNCHANGED <<world, ledger, trace, reply, registration, evidence, plan,
                 likelihood, result, receipts>>

(* Registration is deterministic in the scan and the scene.                *)
Register(scan) ==
  /\ registration' = [scan |-> scan, scene |-> scene, accepted |-> Fits(scan, scene)]
  /\ UNCHANGED <<world, ledger, trace, reply, scene, evidence, plan,
                 likelihood, result, receipts>>

(* evidence(): rejected registrations, and those of another scene, never   *)
(* produce a report.                                                       *)
ReportEvidence ==
  /\ registration # None /\ registration.accepted
  /\ registration.scene = scene
  /\ evidence' = [scan |-> registration.scan, scene |-> registration.scene]
  /\ UNCHANGED <<world, ledger, trace, reply, scene, registration, plan,
                 likelihood, result, receipts>>

(* plan_clearance_evidence, of an assessment of the scene the evidence     *)
(* belongs to: a decision that is resolved needs no measurement, and one   *)
(* is extracted for an element whose risk is open.  What the scan shows of *)
(* it may not suffice, and then no plan selects it.                        *)
PlanEvidence(check, element) ==
  /\ evidence # None
  /\ check.kind = "clearance" /\ element \in check.elements
  /\ Assess(evidence.scene, check) = "UNRESOLVED"
  /\ element \notin evidence.scene.exact
  /\ plan' = [scan |-> evidence.scan, scene |-> evidence.scene, element |-> element]
  /\ UNCHANGED <<world, ledger, trace, reply, scene, registration, evidence,
                 likelihood, result, receipts>>

(* Slip: the pose of another scan is accepted.                             *)
AdaptAnyPose(pose, value) ==
  /\ plan # None
  /\ plan.scene = scene /\ evidence.scene = scene /\ registration.scene = scene
  /\ plan.scan = evidence.scan /\ registration.accepted
  /\ likelihood' = Likelihood(scene, pose, plan.element, value)
  /\ UNCHANGED <<world, ledger, trace, reply, scene, registration, evidence,
                 plan, result, receipts>>

(* adapt_clearance_likelihood, when no gate raises: plan, report,          *)
(* registration and scene are of one world, and plan, report, registration *)
(* and independent pose of one scan.                                       *)
Adapt(pose, value) ==
  /\ plan # None
  /\ plan.scene = scene /\ evidence.scene = scene /\ registration.scene = scene
  /\ plan.scan = evidence.scan /\ evidence.scan = registration.scan
  /\ registration.scan = pose
  /\ registration.accepted
  /\ likelihood' = Likelihood(scene, pose, plan.element, value)
  /\ UNCHANGED <<world, ledger, trace, reply, scene, registration, evidence,
                 plan, result, receipts>>

-----------------------------------------------------------------------------
(* Receipts *)

(* An event of a chain is identified by its hash, and so by the chain up   *)
(* to it.                                                                  *)
EventHash(events, i) == SubSeq(events, 1, i)

(* What makes an event attest a scan transition.                           *)
Attests(e, prior, after, digest, calibration, checks) ==
  /\ e.kind = "transition" /\ e.prior = prior /\ e.result = after
  /\ e.verification = "passed"
  /\ Linearized(e.op) /\ e.op.steps[1].evidence = digest
  /\ e.op.provenance.kind = "scan"
  /\ e.op.provenance.calibration = calibration
  /\ e.op.provenance.checks = checks

Receipt(prior, after, digest, scan, checks, hash) ==
  [kind |-> "scan", prior |-> prior, result |-> after, evidence |-> digest,
   calibration |-> scan, checks |-> checks, event |-> hash]

(* Slip: the scope of the receipt is not compared with the event's.        *)
IssueWiderReceipt(i, checks) ==
  LET l == likelihood  e == ledger[i]
  IN  /\ l # None /\ result # None /\ checks # {}
      /\ result.committed
      /\ result.t.steps = <<l.observation>>
      /\ e.kind = "transition"
      /\ Attests(e, l.scene, result.world, l.observation.evidence, l.scan, e.op.provenance.checks)
      /\ receipts' = receipts \cup
           {Receipt(l.scene, result.world, l.observation.evidence, l.scan, checks,
                    EventHash(ledger, i))}
      /\ UNCHANGED <<world, ledger, trace, reply, scene, registration, evidence,
                     plan, likelihood, result>>

(* EvidenceReceipt.from_scan_likelihood, for some event of the ledger: the *)
(* result must be of a committed run of this very likelihood, and the      *)
(* event must attest it.                                                   *)
IssueReceipt(i, checks) ==
  LET l == likelihood  e == ledger[i]
  IN  /\ l # None /\ result # None /\ checks # {}
      /\ result.committed
      /\ result.t.steps = <<l.observation>>
      /\ l.scene = l.observation.expected
      /\ Attests(e, l.scene, result.world, l.observation.evidence, l.scan, checks)
      /\ e.op.provenance.scan = l.scan
      /\ receipts' = receipts \cup
           {Receipt(l.scene, result.world, l.observation.evidence, l.scan, checks,
                    EventHash(ledger, i))}
      /\ UNCHANGED <<world, ledger, trace, reply, scene, registration, evidence,
                     plan, likelihood, result>>

EvidenceInit ==
  /\ Init
  /\ scene = world
  /\ registration = None /\ evidence = None /\ plan = None
  /\ likelihood = None /\ result = None
  /\ receipts = {}

EvidenceStep(changes, scans) ==
  \/ RunChange(changes)
  \/ RunLikelihood
  \/ DeriveScene
  \/ \E scan \in scans : Register(scan)
  \/ ReportEvidence
  \/ \E check \in Checks, element \in RawVars : PlanEvidence(check, element)
  \/ \E pose \in scans, value \in Readings : Adapt(pose, value)
  \/ \E i \in DOMAIN ledger, checks \in SUBSET Checks : IssueReceipt(i, checks)

EvidenceNext == EvidenceStep(Changes, Scans)

EvidenceSpec == EvidenceInit /\ [][EvidenceNext]_evidenceVars

-----------------------------------------------------------------------------
(* Properties *)

(* Whatever order the caller worked in, and whatever moved in between: a   *)
(* receipt stands for a scan that fits the world it conditioned, measured  *)
(* because a clearance decision was open there, and conditioned on exactly *)
(* that world (the gates of scan_likelihood.py:175-196 and                 *)
(* acceptance.py:309-332).                                                 *)
ReceiptsAreCoherent ==
  \A r \in receipts :
    LET e == LedgerHead(r.event)  step == e.op.steps[1]
    IN  /\ step.expected = r.prior /\ step.evidence[1] = r.prior
        /\ Fits(r.calibration, r.prior)
        /\ \E check \in Checks :
             /\ check.kind = "clearance" /\ step.var \in check.elements
             /\ Assess(r.prior, check) = "UNRESOLVED"
=============================================================================
