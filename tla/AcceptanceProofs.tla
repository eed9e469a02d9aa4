-------------------------- MODULE AcceptanceProofs --------------------------
(***************************************************************************)
(* What receipts, headless acceptance and recorded outcomes are worth, for *)
(* any scans, checks, policies and readings, any executor, and any order   *)
(* in which the caller works with the objects it keeps.                    *)
(*                                                                         *)
(* The process that holds the session only drives the session: its steps   *)
(* implement those of module Session, so all that SessionProofs shows of a *)
(* session's ledger holds of its ledger.  The rest is an invariant about   *)
(* the objects: each links one scan, one world and one open decision.      *)
(***************************************************************************)
EXTENDS Acceptance, SessionProofs

Dispositions == {"ACCEPT", "REJECT", "REQUEST_EVIDENCE"}

(* A clearance decision that the position of an element keeps open in w.   *)
OpenFor(w, element) ==
  \E check \in Checks :
    /\ check.kind = "clearance" /\ element \in check.elements
    /\ Assess(w, check) = "UNRESOLVED"

(* What adapt_clearance_likelihood may have made of a scan that fits w.    *)
MeasuredAt(w, scan, element, value, likely) ==
  /\ likely = Likelihood(w, scan, element, value)
  /\ Fits(scan, w) /\ OpenFor(w, element)

Measured(likely) ==
  \E w \in Worlds, scan \in Scans, element \in RawVars, value \in Readings :
    MeasuredAt(w, scan, element, value, likely)

RegistrationSound ==
  registration # None =>
    /\ registration.scan \in Scans /\ registration.scene \in Worlds
    /\ registration.accepted => Fits(registration.scan, registration.scene)

EvidenceSound ==
  evidence # None =>
    /\ evidence.scan \in Scans /\ evidence.scene \in Worlds
    /\ Fits(evidence.scan, evidence.scene)

PlanSound ==
  plan # None =>
    /\ plan.scan \in Scans /\ plan.scene \in Worlds /\ plan.element \in RawVars
    /\ Fits(plan.scan, plan.scene) /\ OpenFor(plan.scene, plan.element)

LikelihoodSound == likelihood # None => Measured(likelihood)

(* The objects of the chain are each of one scan and one world.            *)
ChainSound ==
  /\ scene \in Worlds
  /\ RegistrationSound /\ EvidenceSound /\ PlanSound /\ LikelihoodSound

OutcomeTyped ==
  outcome # None =>
    /\ outcome.world \in Worlds /\ outcome.case \in Cases
    /\ outcome.disposition \in Dispositions
    /\ outcome.policy \in Policies /\ outcome.requests \in SUBSET Checks

-----------------------------------------------------------------------------
(* The chain *)

(* A report is made of an accepted registration, a plan of a report, and a *)
(* likelihood of a plan, a report, a registration and a pose that agree.   *)
LEMMA ChainStays ==
  ASSUME ChainSound, world \in Worlds,
         \/ DeriveScene \/ ReportEvidence
         \/ \E scan \in Scans : Register(scan)
         \/ \E check \in Checks, element \in RawVars : PlanEvidence(check, element)
         \/ \E pose \in Scans, value \in Readings : Adapt(pose, value)
         \/ UNCHANGED <<scene, registration, evidence, plan, likelihood>>
  PROVE  ChainSound'
<1>1. CASE DeriveScene
  BY <1>1 DEF DeriveScene, ChainSound, RegistrationSound, EvidenceSound, PlanSound,
              LikelihoodSound
<1>2. ASSUME NEW scan \in Scans, Register(scan) PROVE ChainSound'
  <2>1. registration' = [scan |-> scan, scene |-> scene, accepted |-> Fits(scan, scene)]
    BY <1>2 DEF Register
  <2>2. registration'.scan = scan /\ registration'.scene = scene
    BY <2>1
  <2>3. registration'.accepted = Fits(scan, scene)
    BY <2>1, Zenon
  <2>4. RegistrationSound'
    BY <2>2, <2>3 DEF RegistrationSound, ChainSound
  <2> QED BY <1>2, <2>4 DEF Register, ChainSound, EvidenceSound, PlanSound, LikelihoodSound
<1>3. CASE ReportEvidence
  <2>1. EvidenceSound'
    BY <1>3 DEF ReportEvidence, EvidenceSound, ChainSound, RegistrationSound
  <2> QED BY <1>3, <2>1 DEF ReportEvidence, ChainSound, RegistrationSound, PlanSound,
                            LikelihoodSound
<1>4. ASSUME NEW check \in Checks, NEW element \in RawVars, PlanEvidence(check, element)
      PROVE  ChainSound'
  <2>1. OpenFor(evidence.scene, element)
    BY <1>4 DEF PlanEvidence, OpenFor
  <2>2. PlanSound'
    BY <1>4, <2>1 DEF PlanEvidence, PlanSound, ChainSound, EvidenceSound
  <2> QED BY <1>4, <2>2 DEF PlanEvidence, ChainSound, RegistrationSound, EvidenceSound,
                            LikelihoodSound
<1>5. ASSUME NEW pose \in Scans, NEW value \in Readings, Adapt(pose, value)
      PROVE  ChainSound'
  <2>1. /\ plan.scene = scene /\ plan.scan = pose
        /\ likelihood' = Likelihood(scene, pose, plan.element, value)
    BY <1>5 DEF Adapt
  <2>2. /\ scene \in Worlds /\ plan.element \in RawVars
        /\ Fits(pose, scene) /\ OpenFor(scene, plan.element)
    BY <1>5, <2>1 DEF Adapt, ChainSound, PlanSound
  <2>3. Measured(likelihood')
    BY <2>1, <2>2 DEF Measured, MeasuredAt
  <2>4. LikelihoodSound'
    BY <2>3 DEF LikelihoodSound
  <2> QED BY <1>5, <2>4 DEF Adapt, ChainSound, RegistrationSound, EvidenceSound, PlanSound
<1>6. CASE UNCHANGED <<scene, registration, evidence, plan, likelihood>>
  BY <1>6 DEF ChainSound, RegistrationSound, EvidenceSound, PlanSound, LikelihoodSound
<1> QED BY <1>1, <1>2, <1>3, <1>4, <1>5, <1>6

(* What the session may be asked to run is an operation it knows.          *)
LEMMA LikelihoodKnown ==
  ASSUME NEW likely, Measured(likely),
         NEW provenance \in {NoProvenance} \cup
               {ScanProvenance(likely.scan, checks) : checks \in (SUBSET Checks) \ {{}}}
  PROVE  RunOf(<<likely.observation>>, provenance) \in Transformations
<1>1. PICK w \in Worlds, scan \in Scans, element \in RawVars, value \in Readings :
        likely = Likelihood(w, scan, element, value)
  BY DEF Measured, MeasuredAt
<1>2. likely.scan = scan
  BY <1>1 DEF Likelihood
<1>3. provenance \in Provenances
  BY <1>2 DEF Provenances
<1> QED BY <1>1, <1>3, RunsAssumption DEF LikelihoodRuns

-----------------------------------------------------------------------------
(* The process drives a session *)

(* A call of run is one of the session's.                                  *)
LEMMA RunIsSessions ==
  ASSUME NEW t \in Transformations, Run(t)
  PROVE  Next
  BY DEF Run, Next

(* An outcome, once it is recorded, is a causal record.                    *)
LEMMA OutcomeRecorded ==
  ASSUME OutcomeTyped, outcome # None, NEW type \in {"assessment", "policy"}
  PROVE  OutcomeRecord(type) \in CausalRecords
<1> DEFINE id == [case |-> outcome.case, disposition |-> outcome.disposition,
                  policy |-> outcome.policy, requests |-> outcome.requests]
<1>1. id \in OutcomeIds
  BY DEF OutcomeTyped, OutcomeIds, Dispositions
<1>2. id \in RecordIds
  BY <1>1, OutcomesAssumption
<1>3. outcome.world \in Worlds
  BY DEF OutcomeTyped
<1> HIDE DEF id
<1>4. [record_type |-> type, id |-> id, state |-> "VERDICT", world |-> outcome.world,
       authorized |-> FALSE] \in CausalRecords
  BY <1>2, <1>3 DEF CausalRecords
<1> QED BY <1>4 DEF OutcomeRecord, id

(* Every step of the process is a step of its session, or leaves it alone. *)
LEMMA StepIsSessions ==
  ASSUME ChainSound, OutcomeTyped, [AcceptanceNext]_acceptanceVars
  PROVE  [Next]_vars
<1>1. CASE RunChange(Changes)
  BY <1>1, RunIsSessions, RunsAssumption DEF RunChange
<1>2. CASE RunLikelihood
  <2>1. PICK provenance \in {NoProvenance} \cup
               {ScanProvenance(likelihood.scan, checks) : checks \in (SUBSET Checks) \ {{}}} :
          Run(RunOf(<<likelihood.observation>>, provenance))
    BY <1>2 DEF RunLikelihood
  <2>2. Measured(likelihood)
    BY <1>2 DEF RunLikelihood, ChainSound, LikelihoodSound
  <2> QED BY <2>1, <2>2, LikelihoodKnown, RunIsSessions
<1>3. ASSUME NEW type \in {"assessment", "policy"}, RecordOutcome(type)
      PROVE  Next
  <2>1. OutcomeRecord(type) \in CausalRecords
    BY <1>3, OutcomeRecorded DEF RecordOutcome
  <2> QED BY <1>3, <2>1 DEF RecordOutcome, Next
<1>4. CASE \/ DeriveScene \/ ReportEvidence
           \/ \E scan \in Scans : Register(scan)
           \/ \E check \in Checks, element \in RawVars : PlanEvidence(check, element)
           \/ \E pose \in Scans, value \in Readings : Adapt(pose, value)
           \/ \E i \in DOMAIN ledger, checks \in SUBSET Checks : IssueReceipt(i, checks)
  BY <1>4 DEF DeriveScene, ReportEvidence, Register, PlanEvidence, Adapt, IssueReceipt, vars
<1>5. CASE \/ \E check \in Checks : AssessCheck(check)
           \/ \E case \in Cases, given \in SUBSET receipts, policy \in Policies :
                Evaluate(case, given, policy)
           \/ UNCHANGED acceptanceVars
  BY <1>5 DEF AssessCheck, Evaluate, acceptanceVars, evidenceVars, vars
<1> QED BY <1>1, <1>2, <1>3, <1>4, <1>5 DEF AcceptanceNext, AcceptanceStep, EvidenceStep

(* What a step does to the objects.                                        *)
LEMMA ChainNext ==
  ASSUME ChainSound, world \in Worlds, [AcceptanceNext]_acceptanceVars
  PROVE  ChainSound'
<1>1. ASSUME NEW t, Run(t) PROVE ChainSound'
  BY <1>1, ChainStays DEF Run
<1>2. ASSUME NEW i, NEW checks, IssueReceipt(i, checks) PROVE ChainSound'
  BY <1>2, ChainStays DEF IssueReceipt
<1>3. ASSUME NEW type, RecordOutcome(type) PROVE ChainSound'
  BY <1>3, ChainStays DEF RecordOutcome, objects
<1>4. CASE \/ \E check \in Checks : AssessCheck(check)
           \/ \E case \in Cases, given \in SUBSET receipts, policy \in Policies :
                Evaluate(case, given, policy)
           \/ UNCHANGED acceptanceVars
  BY <1>4, ChainStays DEF AssessCheck, Evaluate, acceptanceVars, evidenceVars, objects
<1> QED BY <1>1, <1>2, <1>3, <1>4, ChainStays
        DEF AcceptanceNext, AcceptanceStep, EvidenceStep, RunChange, RunLikelihood

(* What only evaluating a case changes.                                    *)
LEMMA OutcomeStays ==
  ASSUME [AcceptanceNext]_acceptanceVars
  PROVE  \/ outcome' = outcome
         \/ \E case \in Cases, given \in SUBSET receipts, policy \in Policies :
              Evaluate(case, given, policy)
  BY DEF AcceptanceNext, AcceptanceStep, AssessCheck, RecordOutcome, acceptanceVars

(* An evaluated outcome is about the case, its world and its policy.       *)
LEMMA OutcomeTypedNext ==
  ASSUME OutcomeTyped, [AcceptanceNext]_acceptanceVars
  PROVE  OutcomeTyped'
<1>1. CASE outcome' = outcome
  BY <1>1 DEF OutcomeTyped
<1>2. ASSUME NEW case \in Cases, NEW given \in SUBSET receipts, NEW policy \in Policies,
             Evaluate(case, given, policy)
      PROVE  OutcomeTyped'
  <2>1. PICK w \in Worlds : outcome' = CaseOutcome(w, assessed, case, given, policy)
    BY <1>2 DEF Evaluate
  <2>2. Disposition(assessed, case, given, policy) \in Dispositions
    BY DEF Disposition, Dispositions
  <2>3. WithVerdict(assessed, case, "UNRESOLVED") \cup Uncovered(assessed, case, given, policy)
          \in SUBSET Checks
    BY DEF WithVerdict, Uncovered, Cases
  <2> QED BY <2>1, <2>2, <2>3 DEF CaseOutcome, OutcomeTyped
<1> QED BY <1>1, <1>2, OutcomeStays

Driven == TypeOK /\ ChainSound /\ OutcomeTyped

LEMMA DrivenInit == AcceptanceInit => Init /\ Driven
<1> SUFFICES ASSUME AcceptanceInit PROVE Init /\ Driven
  OBVIOUS
<1>1. Init /\ TypeOK
  BY InitTypes DEF AcceptanceInit, EvidenceInit
<1>2. ChainSound
  BY <1>1 DEF AcceptanceInit, EvidenceInit, TypeOK, ChainSound, RegistrationSound,
              EvidenceSound, PlanSound, LikelihoodSound
<1> QED BY <1>1, <1>2 DEF AcceptanceInit, Driven, OutcomeTyped

LEMMA DrivenNext ==
  Driven /\ [AcceptanceNext]_acceptanceVars => [Next]_vars /\ Driven'
<1> SUFFICES ASSUME Driven, [AcceptanceNext]_acceptanceVars PROVE [Next]_vars /\ Driven'
  OBVIOUS
<1>1. [Next]_vars
  BY StepIsSessions DEF Driven
<1>2. TypeOK'
  BY <1>1, NextTypes DEF Driven
<1> QED BY <1>1, <1>2, ChainNext, OutcomeTypedNext DEF Driven, TypeOK

(* The process that keeps scenes, scans, receipts and cases beside its     *)
(* session does nothing to the session that a session does not do: what    *)
(* holds of every session holds of this one.                               *)
THEOREM AcceptanceImplementsSession == AcceptanceSpec => Spec /\ []Driven
  BY DrivenInit, DrivenNext, PTL DEF AcceptanceSpec, Spec

-----------------------------------------------------------------------------
(* Receipts *)

(* What is needed of prefixes, in one place.                               *)
LEMMA PrefixFacts ==
  ASSUME NEW S, NEW s \in Seq(S), NEW j \in 1..Len(s)
  PROVE  /\ Len(SubSeq(s, 1, j)) = j /\ DOMAIN SubSeq(s, 1, j) = 1..j
         /\ \A i \in 1..j : SubSeq(s, 1, j)[i] = s[i]
         /\ \A i \in 1..j : SubSeq(SubSeq(s, 1, j), 1, i) = SubSeq(s, 1, i)
<1> DEFINE p == SubSeq(s, 1, j)
<1>1. /\ p \in Seq(S) /\ Len(p) = j /\ DOMAIN p = 1..j
      /\ \A i \in 1..j : p[i] = s[i]
  OBVIOUS
<1>2. ASSUME NEW i \in 1..j PROVE SubSeq(p, 1, i) = SubSeq(s, 1, i)
  <2> HIDE DEF p
  <2>1. /\ SubSeq(p, 1, i) \in Seq(S) /\ Len(SubSeq(p, 1, i)) = i
        /\ \A k \in 1..i : SubSeq(p, 1, i)[k] = p[k]
    BY <1>1
  <2>2. /\ SubSeq(s, 1, i) \in Seq(S) /\ Len(SubSeq(s, 1, i)) = i
        /\ \A k \in 1..i : SubSeq(s, 1, i)[k] = s[k]
    OBVIOUS
  <2>3. \A k \in 1..i : SubSeq(p, 1, i)[k] = SubSeq(s, 1, i)[k]
    BY <1>1, <2>1, <2>2
  <2> QED BY <2>1, <2>2, <2>3, SeqEqual
<1> QED BY <1>1, <1>2

(* A session's events stay where they are, with the chain up to them.      *)
LEMMA EventsStay ==
  ASSUME TypeOK, [Next]_vars
  PROVE  /\ \A i \in DOMAIN ledger : /\ i \in DOMAIN ledger' /\ ledger'[i] = ledger[i]
                                     /\ EventHash(ledger', i) = EventHash(ledger, i)
         /\ \A i \in DOMAIN ledger' : i \in DOMAIN ledger \/ i = Len(ledger) + 1
<1>1. CASE UNCHANGED <<world, ledger, trace>>
  BY <1>1 DEF EventHash
<1>2. ASSUME NEW e \in Events, NEW entry \in TraceEntries, Appends(e, entry)
      PROVE  \A i \in 1..Len(ledger) : EventHash(ledger', i) = EventHash(ledger, i)
  <2>1. ledger \in Seq(Events) /\ ledger' = Append(ledger, e)
    BY <1>2 DEF TypeOK, Appends
  <2> QED BY <2>1, PrefixOfAppend DEF EventHash
<1> QED BY <1>1, <1>2, StepEffect DEF vars

MeasuredStep(step) ==
  \E w \in Worlds, scan \in Scans, element \in RawVars, value \in Readings :
    /\ step = Likelihood(w, scan, element, value).observation
    /\ Fits(scan, w) /\ OpenFor(w, element)

(* Every linearized observation a session has committed was made of a scan *)
(* that fits the world it was made for.                                    *)
LedgerMeasured ==
  \A i \in DOMAIN ledger :
    (ledger[i].kind = "transition" /\ Linearized(ledger[i].op)) =>
      MeasuredStep(ledger[i].op.steps[1])

(* A receipt stands for one event, up to which the chain is as it was.     *)
StandsFor(r, events, i) ==
  /\ r.event = EventHash(events, i)
  /\ Attests(events[i], r.prior, r.result, r.evidence, r.calibration, r.checks)

ReceiptsSound ==
  \A r \in receipts :
    /\ \E i \in DOMAIN ledger : StandsFor(r, ledger, i)
    /\ \E value : r.evidence = <<r.prior, r.calibration, value>>

(* An event of a run carries the operation of the run.                     *)
LEMMA RunAppends ==
  ASSUME TypeOK, NEW t, Run(t), NEW i \in DOMAIN ledger', i \notin DOMAIN ledger
  PROVE  ledger'[i].op = t
<1>1. \/ ledger' = ledger
      \/ \E e : ledger' = Append(ledger, e) /\ e.op = t
  <2> DEFINE r == Execute(world, t)
  <2>1. CASE RunCommitted(t, TRUE)
    <3>1. ledger' = Append(ledger, TransitionEvent(world, t, r.world))
      BY <2>1 DEF RunCommitted
    <3>2. TransitionEvent(world, t, r.world).op = t
      BY DEF TransitionEvent, Event
    <3> QED BY <3>1, <3>2
  <2>2. CASE RunRejected(t, TRUE)
    <3>1. ledger' = Append(ledger, RejectionEvent(world, t, r.error))
      BY <2>2 DEF RunRejected
    <3>2. RejectionEvent(world, t, r.error).op = t
      BY DEF RejectionEvent, Event
    <3> QED BY <3>1, <3>2
  <2>3. CASE RunUnrecorded(t, TRUE) \/ RunEscaped(t)
    BY <2>3 DEF RunUnrecorded, RunEscaped
  <2> QED BY <2>1, <2>2, <2>3 DEF Run
<1>2. ASSUME NEW e, ledger' = Append(ledger, e)
      PROVE  ledger'[i] = e
  BY <1>2 DEF TypeOK
<1> QED BY <1>1, <1>2

LEMMA LedgerMeasuredNext ==
  ASSUME Driven, LedgerMeasured, [AcceptanceNext]_acceptanceVars
  PROVE  LedgerMeasured'
<1> SUFFICES ASSUME NEW i \in DOMAIN ledger', ledger'[i].kind = "transition",
                    Linearized(ledger'[i].op)
             PROVE  MeasuredStep(ledger'[i].op.steps[1])
  BY DEF LedgerMeasured, MeasuredStep, OpenFor
<1>1. CASE i \in DOMAIN ledger
  <2>1. ledger'[i] = ledger[i]
    BY <1>1, DrivenNext, EventsStay DEF Driven
  <2> QED BY <1>1, <2>1 DEF LedgerMeasured
<1>2. CASE i \notin DOMAIN ledger
  <2>1. CASE RunChange(Changes)
    <3>1. PICK t \in Changes : Run(t)
      BY <2>1 DEF RunChange
    <3>2. ledger'[i].op = t
      BY <1>2, <3>1, RunAppends DEF Driven
    <3> QED BY <3>2, RunsAssumption
  <2>2. CASE RunLikelihood
    <3>1. PICK provenance : Run(RunOf(<<likelihood.observation>>, provenance))
      BY <2>2 DEF RunLikelihood
    <3>2. ledger'[i].op = RunOf(<<likelihood.observation>>, provenance)
      BY <1>2, <3>1, RunAppends DEF Driven
    <3>3. ledger'[i].op.steps[1] = likelihood.observation
      BY <3>2 DEF RunOf
    <3>4. Measured(likelihood)
      BY <2>2 DEF RunLikelihood, Driven, ChainSound, LikelihoodSound
    <3> QED BY <3>3, <3>4 DEF Measured, MeasuredAt, MeasuredStep
  <2>3. ASSUME NEW type \in {"assessment", "policy"}, RecordOutcome(type) PROVE FALSE
    <3>1. CASE RecordCausal(OutcomeRecord(type), TRUE)
      <4> DEFINE e == CausalEvent(world, OutcomeRecord(type))
      <4>1. ledger' = Append(ledger, e)
        BY <3>1 DEF RecordCausal
      <4>2. ledger'[i] = e
        BY <1>2, <4>1 DEF Driven, TypeOK
      <4>3. e.kind = type
        BY DEF CausalEvent, Event, OutcomeRecord
      <4> QED BY <2>3, <4>2, <4>3
    <3>2. CASE RefuseCausal(OutcomeRecord(type), TRUE)
      BY <1>2, <3>2 DEF RefuseCausal
    <3> QED BY <2>3, <3>1, <3>2 DEF RecordOutcome
  <2>4. CASE UNCHANGED ledger
    BY <1>2, <2>4
  <2> QED BY <2>1, <2>2, <2>3, <2>4
          DEF AcceptanceNext, AcceptanceStep, EvidenceStep, DeriveScene, ReportEvidence,
              Register, PlanEvidence, Adapt, IssueReceipt, AssessCheck, Evaluate,
              acceptanceVars, evidenceVars
<1> QED BY <1>1, <1>2

(* What only issuing a receipt changes.                                    *)
LEMMA ReceiptsStay ==
  ASSUME [AcceptanceNext]_acceptanceVars
  PROVE  \/ receipts' = receipts
         \/ \E i \in DOMAIN ledger, checks \in SUBSET Checks : IssueReceipt(i, checks)
  BY DEF AcceptanceNext, AcceptanceStep, EvidenceStep, RunChange, RunLikelihood, Run,
         DeriveScene, ReportEvidence, Register, PlanEvidence, Adapt, AssessCheck, Evaluate,
         RecordOutcome, acceptanceVars, evidenceVars, objects

LEMMA ReceiptsSoundNext ==
  ASSUME Driven, ReceiptsSound, [AcceptanceNext]_acceptanceVars
  PROVE  ReceiptsSound'
<1>0. \A i \in DOMAIN ledger : /\ i \in DOMAIN ledger' /\ ledger'[i] = ledger[i]
                               /\ EventHash(ledger', i) = EventHash(ledger, i)
  BY DrivenNext, EventsStay DEF Driven
<1>1. ASSUME NEW r, NEW i \in DOMAIN ledger, StandsFor(r, ledger, i)
      PROVE  \E k \in DOMAIN ledger' : StandsFor(r, ledger', k)
  BY <1>0, <1>1 DEF StandsFor
<1>2. ASSUME NEW i \in DOMAIN ledger, NEW checks \in SUBSET Checks, IssueReceipt(i, checks),
             NEW r \in receipts', r \notin receipts
      PROVE  /\ StandsFor(r, ledger, i)
             /\ \E value : r.evidence = <<r.prior, r.calibration, value>>
  <2> DEFINE l == likelihood
  <2>1. /\ r = Receipt(l.scene, result.world, l.observation.evidence, l.scan, checks,
                       EventHash(ledger, i))
        /\ Attests(ledger[i], l.scene, result.world, l.observation.evidence, l.scan, checks)
        /\ l # None
    BY <1>2 DEF IssueReceipt
  <2>2. /\ r.prior = l.scene /\ r.result = result.world
        /\ r.evidence = l.observation.evidence /\ r.calibration = l.scan
        /\ r.checks = checks /\ r.event = EventHash(ledger, i)
    BY <2>1 DEF Receipt
  <2>3. PICK w \in Worlds, scan \in Scans, element \in RawVars, value \in Readings :
          l = Likelihood(w, scan, element, value)
    BY <2>1 DEF Driven, ChainSound, LikelihoodSound, Measured, MeasuredAt
  <2>4. l.scene = w /\ l.scan = scan /\ l.observation.evidence = <<w, scan, value>>
    BY <2>3 DEF Likelihood
  <2> QED BY <2>1, <2>2, <2>4 DEF StandsFor
<1>3. ASSUME NEW r \in receipts'
      PROVE  /\ \E k \in DOMAIN ledger' : StandsFor(r, ledger', k)
             /\ \E value : r.evidence = <<r.prior, r.calibration, value>>
  BY <1>1, <1>2, ReceiptsStay DEF ReceiptsSound
<1> QED BY <1>3 DEF ReceiptsSound, StandsFor, Attests, EventHash

(* A receipt that stands for a measured event is coherent.                 *)
LEMMA SoundIsCoherent ==
  ASSUME TypeOK, LedgerMeasured, ReceiptsSound
  PROVE  ReceiptsAreCoherent
<1> SUFFICES ASSUME NEW r \in receipts
             PROVE  LET e == LedgerHead(r.event)  step == e.op.steps[1]
                    IN  /\ step.expected = r.prior /\ step.evidence[1] = r.prior
                        /\ Fits(r.calibration, r.prior)
                        /\ OpenFor(r.prior, step.var)
  BY DEF ReceiptsAreCoherent, OpenFor
<1>1. PICK i \in DOMAIN ledger : StandsFor(r, ledger, i)
  BY DEF ReceiptsSound
<1>2. PICK v : r.evidence = <<r.prior, r.calibration, v>>
  BY DEF ReceiptsSound
<1> DEFINE e == LedgerHead(r.event)
           step == e.op.steps[1]
<1>3. e = ledger[i]
  <2>1. ledger \in Seq(Events) /\ i \in 1..Len(ledger)
    BY DEF TypeOK
  <2> QED BY <1>1, <2>1, PrefixFacts DEF StandsFor, EventHash, LedgerHead
<1>4. /\ e.kind = "transition" /\ Linearized(e.op) /\ step.evidence = r.evidence
  BY <1>1, <1>3 DEF StandsFor, Attests
<1>5. PICK w \in Worlds, scan \in Scans, element \in RawVars, value \in Readings :
        /\ step = Likelihood(w, scan, element, value).observation
        /\ Fits(scan, w) /\ OpenFor(w, element)
  BY <1>3, <1>4 DEF LedgerMeasured, MeasuredStep
<1>6. step.evidence = <<w, scan, value>> /\ step.expected = w /\ step.var = element
  BY <1>5 DEF Likelihood
<1>7. w = r.prior /\ scan = r.calibration /\ step.evidence[1] = r.prior
  BY <1>2, <1>4, <1>6
<1> QED BY <1>5, <1>6, <1>7

LEMMA AlwaysIssuedSoundly ==
  AcceptanceSpec => [](Driven /\ LedgerMeasured /\ ReceiptsSound)
<1>1. AcceptanceInit => LedgerMeasured /\ ReceiptsSound
  <2> SUFFICES ASSUME AcceptanceInit PROVE LedgerMeasured /\ ReceiptsSound
    OBVIOUS
  <2>1. PICK w \in GenesisWorlds : ledger = <<GenesisEvent(w)>>
    BY DEF AcceptanceInit, EvidenceInit, Init
  <2>2. \A i \in DOMAIN ledger : ledger[i].kind = "genesis"
    BY <2>1 DEF GenesisEvent, Event
  <2> QED BY <2>2 DEF AcceptanceInit, EvidenceInit, LedgerMeasured, ReceiptsSound
<1>2. ASSUME Driven, LedgerMeasured, ReceiptsSound, [AcceptanceNext]_acceptanceVars
      PROVE  LedgerMeasured' /\ ReceiptsSound'
  BY <1>2, LedgerMeasuredNext, ReceiptsSoundNext
<1> QED BY <1>1, <1>2, AcceptanceImplementsSession, PTL DEF AcceptanceSpec

(* Whatever order the caller worked in: a receipt stands for a scan that   *)
(* fits the world it conditioned, measured because a clearance decision    *)
(* was open there, and conditioned on exactly that world.                  *)
THEOREM ReceiptsAlwaysCoherent ==
  AcceptanceSpec => [](ReceiptsAreCoherent /\ IssuedReceiptsAreCoherent)
<1>1. ASSUME Driven, LedgerMeasured, ReceiptsSound
      PROVE  ReceiptsAreCoherent /\ IssuedReceiptsAreCoherent
  BY <1>1, SoundIsCoherent DEF Driven, IssuedReceiptsAreCoherent
<1> QED BY <1>1, AlwaysIssuedSoundly, PTL

-----------------------------------------------------------------------------
(* What accepting rests on *)

(* An assessment is one of three verdicts.                                 *)
LEMMA ThreeVerdicts ==
  ASSUME NEW w, NEW check
  PROVE  Assess(w, check) \in {"SATISFIED", "VIOLATED", "UNRESOLVED"}
  BY DEF Assess

(* Every check of a case is assessed in the world w.                       *)
OneWorld(at, case, w) == \A check \in case : at[check] = w

(* An accepted case has every check satisfied, and where evidence is       *)
(* required, covered by a receipt that refuses nothing.                    *)
LEMMA AcceptedCase ==
  ASSUME NEW w, NEW at, NEW case, NEW given, NEW policy,
         OneWorld(at, case, w),
         Disposition(at, case, given, policy) = "ACCEPT"
  PROVE  \A check \in case :
           /\ Assess(w, check) = "SATISFIED"
           /\ policy.required => \E r \in given : check \in r.checks
<1>1. /\ WithVerdict(at, case, "VIOLATED") = {} /\ WithVerdict(at, case, "UNRESOLVED") = {}
      /\ Uncovered(at, case, given, policy) = {}
  BY DEF Disposition
<1> SUFFICES ASSUME NEW check \in case
             PROVE  /\ Assess(w, check) = "SATISFIED"
                    /\ policy.required => \E r \in given : check \in r.checks
  OBVIOUS
<1>2. Assess(w, check) = "SATISFIED"
  BY <1>1, ThreeVerdicts DEF WithVerdict, OneWorld
<1>3. ASSUME policy.required PROVE \E r \in given : check \in r.checks
  <2>1. check \in WithVerdict(at, case, "SATISFIED")
    BY <1>2 DEF WithVerdict, OneWorld
  <2>2. check \in Covered(given, policy)
    BY <1>1, <1>3, <2>1 DEF Uncovered
  <2> QED BY <2>2 DEF Covered
<1> QED BY <1>2, <1>3

(* An event that attests a receipt is evidence for what the receipt        *)
(* covers, in the world the receipt is about.                              *)
LEMMA AttestedIsEvidence ==
  ASSUME TypeOK, OpensWithGenesis, Reproducible,
         NEW j \in DOMAIN ledger, NEW i \in 1..j, NEW r,
         Attests(ledger[i], r.prior, r.result, r.evidence, r.calibration, r.checks),
         NEW check \in r.checks
  PROVE  EvidenceFor(SubSeq(ledger, 1, j), r.result, check)
<1> DEFINE p == SubSeq(ledger, 1, j)
<1>1. ledger \in Seq(Events) /\ j \in 1..Len(ledger)
  BY DEF TypeOK
<1>2. /\ ledger[i].kind = "transition" /\ ledger[i].result = r.result
      /\ Linearized(ledger[i].op) /\ ledger[i].op.provenance.kind = "scan"
      /\ ledger[i].op.provenance.checks = r.checks
  BY DEF Attests
<1>3. i # 1
  BY <1>2 DEF OpensWithGenesis, GenesisEvent, Event
<1>4. i \in 2..Len(ledger) /\ i \in 2..j /\ i-1 \in 1..j
  BY <1>1, <1>3
<1>5. ReplaysFrom(ledger[i-1].result, ledger[i])
  BY <1>4 DEF Reproducible
<1>6. Len(p) = j /\ p[i] = ledger[i] /\ p[i-1] = ledger[i-1]
  BY <1>1, <1>4, PrefixFacts
<1> HIDE DEF p
<1>7. EvidenceFor(p, r.result, check)
  BY <1>2, <1>4, <1>5, <1>6 DEF EvidenceFor
<1> QED BY <1>7 DEF p

(* A trusted carrier holds the chain up to one of the session's events,    *)
(* and the world that event led to.                                        *)
LEMMA TrustedCarrier ==
  ASSUME NEW c \in Exported(ledger), c.trusted
  PROVE  \E j \in DOMAIN ledger : c.world = ledger[j].result /\ c.ledger = SubSeq(ledger, 1, j)
<1>1. CASE \E j \in DOMAIN ledger, trusted \in BOOLEAN :
             c = [world |-> ledger[j].result, ledger |-> SubSeq(ledger, 1, j), trusted |-> trusted]
  <2>1. PICK j \in DOMAIN ledger, trusted \in BOOLEAN :
          c = [world |-> ledger[j].result, ledger |-> SubSeq(ledger, 1, j), trusted |-> trusted]
    BY <1>1
  <2>2. c.world = ledger[j].result /\ c.ledger = SubSeq(ledger, 1, j)
    BY <2>1
  <2> QED BY <2>2
<1>2. CASE \E j \in DOMAIN ledger :
             c = [world |-> ledger[j].result, ledger |-> <<GenesisEvent(ledger[j].result)>>,
                  trusted |-> FALSE]
  BY <1>2
<1> QED BY <1>1, <1>2 DEF Exported

(* Where evidence is required, headless acceptance accepts only what the   *)
(* carrier's own ledger has evidence for, whatever the request says of the *)
(* receipts.                                                               *)
LEMMA AcceptedHeadless ==
  ASSUME TypeOK, OpensWithGenesis, Reproducible
  PROVE  HeadlessAcceptsOnEvidence
<1> SUFFICES ASSUME NEW c \in Exported(ledger), NEW given, NEW case \in Cases, NEW policy,
                    policy.required, ~ HeadlessRefuses(c, case, given),
                    HeadlessDisposition(c, case, given, policy) = "ACCEPT"
             PROVE  /\ c.trusted
                    /\ \A check \in case : /\ Assess(c.world, check) = "SATISFIED"
                                           /\ EvidenceFor(c.ledger, c.world, check)
  BY DEF HeadlessAcceptsOnEvidence
<1> DEFINE at == [check \in case |-> c.world]
<1>1. OneWorld(at, case, c.world)
  BY DEF OneWorld
<1>2. Disposition(at, case, given, policy) = "ACCEPT"
  BY DEF HeadlessDisposition
<1> HIDE DEF at
<1>3. \A check \in case : /\ Assess(c.world, check) = "SATISFIED"
                          /\ \E r \in given : check \in r.checks
  BY <1>1, <1>2, AcceptedCase
<1>4. case # {}
  BY DEF Cases
<1>5. c.trusted
  BY <1>3, <1>4 DEF HeadlessRefuses
<1>6. PICK j \in DOMAIN ledger : c.world = ledger[j].result /\ c.ledger = SubSeq(ledger, 1, j)
  BY <1>5, TrustedCarrier
<1>7. ledger \in Seq(Events) /\ j \in 1..Len(ledger)
  BY DEF TypeOK
<1>8. DOMAIN c.ledger = 1..j /\ \A i \in 1..j : c.ledger[i] = ledger[i]
  BY <1>6, <1>7, PrefixFacts
<1>9. ASSUME NEW check \in case PROVE EvidenceFor(c.ledger, c.world, check)
  <2>1. PICK r \in given : check \in r.checks
    BY <1>3
  <2>2. MatchesLedger(c.ledger, r) /\ r.result = c.world
    BY DEF HeadlessRefuses, Refuses
  <2>3. PICK i \in 1..j :
          Attests(ledger[i], r.prior, r.result, r.evidence, r.calibration, r.checks)
    BY <1>8, <2>2 DEF MatchesLedger
  <2> QED BY <1>6, <2>1, <2>2, <2>3, AttestedIsEvidence
<1> QED BY <1>3, <1>5, <1>9

(* Headless acceptance that requires evidence accepts only what the        *)
(* carrier's own ledger has evidence for, in exactly the world it holds.   *)
THEOREM HeadlessAlwaysAcceptsOnEvidence ==
  AcceptanceSpec => [](HeadlessAcceptsOnEvidence /\ AcceptsOnEvidenceOnly)
<1>1. ASSUME TypeOK, OpensWithGenesis, Reproducible
      PROVE  HeadlessAcceptsOnEvidence /\ AcceptsOnEvidenceOnly
  BY <1>1, AcceptedHeadless DEF AcceptsOnEvidenceOnly
<1> QED BY <1>1, AcceptanceImplementsSession, TypeCorrect, AlwaysOpensWithGenesis,
           EveryEventReproducible, PTL

(* A receipt the library issued is found again in every ledger that holds  *)
(* the event it stands for.                                                *)
LEMMA IssuedIsTaken ==
  ASSUME TypeOK, ReceiptsSound
  PROVE  HeadlessTakesIssuedReceipts
<1> SUFFICES ASSUME NEW c \in Exported(ledger), c.trusted, NEW case \in Cases,
                    NEW given \in SUBSET receipts,
                    \A r \in given : Len(r.event) <= Len(c.ledger) /\ ~ Refuses(r, c.world, case)
             PROVE  ~ HeadlessRefuses(c, case, given)
  BY DEF HeadlessTakesIssuedReceipts
<1>1. PICK j \in DOMAIN ledger : c.world = ledger[j].result /\ c.ledger = SubSeq(ledger, 1, j)
  BY TrustedCarrier
<1>2. ledger \in Seq(Events) /\ j \in 1..Len(ledger)
  BY DEF TypeOK
<1>3. /\ Len(c.ledger) = j /\ DOMAIN c.ledger = 1..j
      /\ \A i \in 1..j : c.ledger[i] = ledger[i]
      /\ \A i \in 1..j : EventHash(c.ledger, i) = EventHash(ledger, i)
  BY <1>1, <1>2, PrefixFacts DEF EventHash
<1>4. ASSUME NEW r \in given PROVE MatchesLedger(c.ledger, r)
  <2>1. PICK i \in DOMAIN ledger : StandsFor(r, ledger, i)
    BY DEF ReceiptsSound
  <2>2. i \in 1..Len(ledger) /\ Len(r.event) = i
    BY <1>2, <2>1, PrefixFacts DEF StandsFor, EventHash
  <2>3. i \in 1..j
    BY <1>2, <1>3, <2>2
  <2> QED BY <1>3, <2>1, <2>3 DEF StandsFor, MatchesLedger
<1> QED BY <1>4 DEF HeadlessRefuses

(* Receipts that the process holding the session could use in a case about *)
(* the carrier's world are good for a headless request too.                *)
THEOREM IssuedReceiptsAlwaysTaken ==
  AcceptanceSpec => [](HeadlessTakesIssuedReceipts /\ TakesIssuedReceipts)
<1>1. ASSUME Driven, LedgerMeasured, ReceiptsSound
      PROVE  HeadlessTakesIssuedReceipts /\ TakesIssuedReceipts
  BY <1>1, IssuedIsTaken DEF Driven, TakesIssuedReceipts
<1> QED BY <1>1, AlwaysIssuedSoundly, PTL

-----------------------------------------------------------------------------
(* Recorded outcomes *)

(* An outcome that accepts holds in its world, and the chain has the       *)
(* evidence its policy requires.                                           *)
OutcomeHolds ==
  (outcome # None /\ outcome.disposition = "ACCEPT") =>
    \A check \in outcome.case :
      /\ Assess(outcome.world, check) = "SATISFIED"
      /\ outcome.policy.required => EvidenceFor(ledger, outcome.world, check)

(* Evidence is never lost: a chain that grows keeps it.                    *)
LEMMA EvidenceStays ==
  ASSUME TypeOK, [Next]_vars, NEW w, NEW check, EvidenceFor(ledger, w, check)
  PROVE  EvidenceFor(ledger', w, check)
<1>1. PICK i \in 2..Len(ledger) :
        /\ ledger[i].kind = "transition" /\ ledger[i].result = w
        /\ Linearized(ledger[i].op) /\ ledger[i].op.provenance.kind = "scan"
        /\ check \in ledger[i].op.provenance.checks
        /\ ReplaysFrom(ledger[i-1].result, ledger[i])
  BY DEF EvidenceFor
<1>2. /\ i \in 2..Len(ledger')
      /\ ledger'[i] = ledger[i] /\ ledger'[i-1] = ledger[i-1]
  <2>1. Len(ledger) \in Nat /\ i \in DOMAIN ledger /\ i-1 \in DOMAIN ledger
    BY <1>1 DEF TypeOK
  <2>2. TypeOK'
    BY NextTypes
  <2>3. i \in DOMAIN ledger' /\ DOMAIN ledger' = 1..Len(ledger')
    BY <2>1, <2>2, EventsStay DEF TypeOK
  <2> QED BY <1>1, <2>1, <2>3, EventsStay
<1> QED BY <1>1, <1>2 DEF EvidenceFor

(* What an evaluation accepts, holds.                                      *)
LEMMA EvaluatedHolds ==
  ASSUME Driven, ReceiptsSound, OpensWithGenesis, Reproducible,
         NEW case \in Cases, NEW given \in SUBSET receipts, NEW policy \in Policies,
         Evaluate(case, given, policy)
  PROVE  OutcomeHolds'
<1>1. PICK w \in Worlds :
        /\ OneWorld(assessed, case, w)
        /\ \A r \in given : ~ Refuses(r, w, case)
        /\ outcome' = CaseOutcome(w, assessed, case, given, policy)
        /\ ledger' = ledger
  BY DEF Evaluate, evidenceVars, OneWorld
<1>2. /\ outcome'.world = w /\ outcome'.case = case /\ outcome'.policy = policy
      /\ outcome'.disposition = Disposition(assessed, case, given, policy)
  BY <1>1 DEF CaseOutcome
<1>3. SUFFICES ASSUME outcome'.disposition = "ACCEPT", NEW check \in case
               PROVE  /\ Assess(w, check) = "SATISFIED"
                      /\ policy.required => EvidenceFor(ledger, w, check)
  BY <1>1, <1>2 DEF OutcomeHolds
<1>4. /\ Assess(w, check) = "SATISFIED"
      /\ policy.required => \E r \in given : check \in r.checks
  <2>1. Disposition(assessed, case, given, policy) = "ACCEPT"
    BY <1>2, <1>3
  <2>2. \A c \in case : /\ Assess(w, c) = "SATISFIED"
                        /\ policy.required => \E r \in given : c \in r.checks
    BY <1>1, <2>1, AcceptedCase
  <2>3. check \in case
    BY <1>2, <1>3
  <2> QED BY <2>2, <2>3
<1>5. ASSUME NEW r \in given, check \in r.checks PROVE EvidenceFor(ledger, w, check)
  <2>1. PICK i \in DOMAIN ledger : StandsFor(r, ledger, i)
    BY DEF ReceiptsSound
  <2>2. /\ ledger \in Seq(Events) /\ Len(ledger) \in DOMAIN ledger /\ i \in 1..Len(ledger)
        /\ SubSeq(ledger, 1, Len(ledger)) = ledger
    BY LimitAssumption DEF Driven, TypeOK
  <2>3. r.result = w
    BY <1>1 DEF Refuses
  <2>4. EvidenceFor(SubSeq(ledger, 1, Len(ledger)), r.result, check)
    BY <1>5, <2>1, <2>2, AttestedIsEvidence DEF StandsFor, Driven
  <2> QED BY <2>2, <2>3, <2>4
<1> QED BY <1>4, <1>5

LEMMA OutcomeHoldsNext ==
  ASSUME Driven, ReceiptsSound, OpensWithGenesis, Reproducible, OutcomeHolds,
         [AcceptanceNext]_acceptanceVars
  PROVE  OutcomeHolds'
<1>1. CASE outcome' = outcome
  <2>1. TypeOK /\ [Next]_vars
    BY DrivenNext DEF Driven
  <2> SUFFICES ASSUME outcome # None, outcome.disposition = "ACCEPT", NEW check \in outcome.case
               PROVE  /\ Assess(outcome.world, check) = "SATISFIED"
                      /\ outcome.policy.required => EvidenceFor(ledger', outcome.world, check)
    BY <1>1 DEF OutcomeHolds
  <2> QED BY <2>1, EvidenceStays DEF OutcomeHolds
<1>2. CASE outcome' # outcome
  BY <1>2, OutcomeStays, EvaluatedHolds
<1> QED BY <1>1, <1>2

(* An event about an assessment or a policy records the outcome at hand.   *)
LEMMA OutcomeEvents ==
  ASSUME Driven, [AcceptanceNext]_acceptanceVars,
         NEW i \in DOMAIN ledger', i \notin DOMAIN ledger,
         ledger'[i].kind \in {"assessment", "policy"}
  PROVE  \E type \in {"assessment", "policy"} :
           /\ outcome # None /\ RecordCausal(OutcomeRecord(type), TRUE)
           /\ ledger'[i] = CausalEvent(world, OutcomeRecord(type))
<1>0. \A e : ledger' = Append(ledger, e) => ledger'[i] = e
  BY DEF Driven, TypeOK
<1>1. ASSUME NEW t, Run(t) PROVE FALSE
  <2> DEFINE r == Execute(world, t)
  <2>1. CASE RunCommitted(t, TRUE)
    <3>1. ledger'[i] = TransitionEvent(world, t, r.world)
      BY <1>0, <2>1 DEF RunCommitted
    <3> QED BY <3>1 DEF TransitionEvent, Event
  <2>2. CASE RunRejected(t, TRUE)
    <3>1. ledger'[i] = RejectionEvent(world, t, r.error)
      BY <1>0, <2>2 DEF RunRejected
    <3> QED BY <3>1 DEF RejectionEvent, Event
  <2>3. CASE RunUnrecorded(t, TRUE) \/ RunEscaped(t)
    BY <2>3 DEF RunUnrecorded, RunEscaped
  <2> QED BY <1>1, <2>1, <2>2, <2>3 DEF Run
<1>2. ASSUME NEW type \in {"assessment", "policy"}, RecordOutcome(type)
      PROVE  /\ outcome # None /\ RecordCausal(OutcomeRecord(type), TRUE)
             /\ ledger'[i] = CausalEvent(world, OutcomeRecord(type))
  <2>1. outcome # None /\ RecordCausal(OutcomeRecord(type), TRUE)
    BY <1>2 DEF RecordOutcome, RefuseCausal
  <2>2. ledger' = Append(ledger, CausalEvent(world, OutcomeRecord(type)))
    BY <2>1 DEF RecordCausal
  <2> QED BY <1>0, <2>1, <2>2
<1>3. CASE UNCHANGED ledger
  BY <1>3
<1> QED BY <1>1, <1>2, <1>3
        DEF AcceptanceNext, AcceptanceStep, EvidenceStep, RunChange, RunLikelihood,
            DeriveScene, ReportEvidence, Register, PlanEvidence, Adapt, IssueReceipt,
            AssessCheck, Evaluate, acceptanceVars, evidenceVars

LEMMA RecordedNext ==
  ASSUME Driven, OutcomeHolds, OutcomeHolds', RecordedAcceptancesHold,
         [AcceptanceNext]_acceptanceVars
  PROVE  RecordedAcceptancesHold'
<1>0. TypeOK /\ TypeOK' /\ [Next]_vars
  BY DrivenNext DEF Driven
<1> SUFFICES ASSUME NEW i \in DOMAIN ledger', ledger'[i].kind \in {"assessment", "policy"},
                    ledger'[i].rec.id.disposition = "ACCEPT",
                    NEW check \in ledger'[i].rec.id.case
             PROVE  /\ Assess(ledger'[i].result, check) = "SATISFIED"
                    /\ ledger'[i].rec.id.policy.required =>
                         EvidenceFor(EventHash(ledger', i), ledger'[i].result, check)
  BY DEF RecordedAcceptancesHold, EventHash
<1>1. CASE i \in DOMAIN ledger
  <2>1. ledger'[i] = ledger[i] /\ EventHash(ledger', i) = EventHash(ledger, i)
    BY <1>0, <1>1, EventsStay
  <2> QED BY <1>1, <2>1 DEF RecordedAcceptancesHold, EventHash
<1>2. CASE i \notin DOMAIN ledger
  <2>1. PICK type \in {"assessment", "policy"} :
          /\ outcome # None /\ RecordCausal(OutcomeRecord(type), TRUE)
          /\ ledger'[i] = CausalEvent(world, OutcomeRecord(type))
    BY <1>2, OutcomeEvents
  <2>2. outcome.world = world
    BY <2>1 DEF RecordCausal, CanRecordCausal, OutcomeRecord
  <2>3. /\ ledger'[i].result = world /\ ledger'[i].rec.id.case = outcome.case
        /\ ledger'[i].rec.id.disposition = outcome.disposition
        /\ ledger'[i].rec.id.policy = outcome.policy
    BY <2>1 DEF CausalEvent, Event, OutcomeRecord
  <2>4. EventHash(ledger', i) = ledger'
    <3>1. /\ ledger' \in Seq(Events) /\ i \in 1..Len(ledger') /\ Len(ledger) \in Nat
          /\ ledger' = Append(ledger, CausalEvent(world, OutcomeRecord(type)))
          /\ DOMAIN ledger = 1..Len(ledger)
      BY <1>0, <2>1 DEF TypeOK, RecordCausal
    <3>2. Len(ledger') = Len(ledger) + 1
      BY <1>0, <3>1 DEF TypeOK
    <3>3. i = Len(ledger')
      BY <1>2, <3>1, <3>2
    <3> QED BY <3>1, <3>3 DEF EventHash
  <2>5. /\ Assess(outcome.world, check) = "SATISFIED"
        /\ outcome.policy.required => EvidenceFor(ledger, outcome.world, check)
    BY <2>1, <2>3 DEF OutcomeHolds
  <2> QED BY <1>0, <2>2, <2>3, <2>4, <2>5, EvidenceStays
<1> QED BY <1>1, <1>2

(* An acceptance in the ledger is about the world it stands in: each check *)
(* of the case is satisfied there and, where the policy requires it,       *)
(* measured there before.                                                  *)
THEOREM RecordedAcceptancesAlwaysHold == AcceptanceSpec => []RecordedAcceptancesHold
<1>1. AcceptanceInit => OutcomeHolds /\ RecordedAcceptancesHold
  <2> SUFFICES ASSUME AcceptanceInit PROVE OutcomeHolds /\ RecordedAcceptancesHold
    OBVIOUS
  <2>1. PICK w \in GenesisWorlds : ledger = <<GenesisEvent(w)>>
    BY DEF AcceptanceInit, EvidenceInit, Init
  <2>2. \A i \in DOMAIN ledger : ledger[i].kind = "genesis"
    BY <2>1 DEF GenesisEvent, Event
  <2> QED BY <2>2 DEF AcceptanceInit, OutcomeHolds, RecordedAcceptancesHold
<1>2. ASSUME Driven, ReceiptsSound, OpensWithGenesis, Reproducible,
             OutcomeHolds, RecordedAcceptancesHold, [AcceptanceNext]_acceptanceVars
      PROVE  OutcomeHolds' /\ RecordedAcceptancesHold'
  BY <1>2, OutcomeHoldsNext, RecordedNext
<1> QED BY <1>1, <1>2, AlwaysIssuedSoundly, AcceptanceImplementsSession,
           AlwaysOpensWithGenesis, EveryEventReproducible, PTL DEF AcceptanceSpec
=============================================================================
