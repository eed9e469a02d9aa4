----------------------------- MODULE Acceptance -----------------------------
(***************************************************************************)
(* The process that holds the session evaluates acceptance cases           *)
(* (gat/workflows/acceptance.py) and records their outcomes                *)
(* (gat/causal.py): checks, cases, receipts and outcomes are objects it    *)
(* keeps while the session's world moves on.                               *)
(***************************************************************************)
EXTENDS Headless

VARIABLES
  assessed,    \* the world at which each check was last assessed
  outcome      \* the last AcceptanceOutcome of evaluate_acceptance_case

acceptanceVars == <<evidenceVars, assessed, outcome>>

(* A check is assessed in the session's world, a clearance in that of the  *)
(* scene at hand.                                                          *)
AssessCheck(check) ==
  /\ assessed' = [assessed EXCEPT ![check] =
                    IF check.kind = "clearance" THEN scene ELSE world]
  /\ UNCHANGED <<evidenceVars, outcome>>

(* Slip: the checks of a case may be of different worlds.                  *)
EvaluateMixed(case, given, policy) ==
  /\ \A check \in case : assessed[check] # None
  /\ \E w \in {assessed[check] : check \in case} :
       /\ \A r \in given : ~ Refuses(r, w, case)
       /\ outcome' = CaseOutcome(w, assessed, case, given, policy)
  /\ UNCHANGED <<evidenceVars, assessed>>

(* AcceptanceCase and evaluate_acceptance_case: all checks are of one      *)
(* world, and no receipt refuses it.                                       *)
Evaluate(case, given, policy) ==
  /\ \E w \in Worlds :
       /\ \A check \in case : assessed[check] = w
       /\ \A r \in given : ~ Refuses(r, w, case)
       /\ outcome' = CaseOutcome(w, assessed, case, given, policy)
  /\ UNCHANGED <<evidenceVars, assessed>>

(* The identifiers of acceptance records are among those of all records.   *)
OutcomeIds ==
  [case: Cases, disposition: {"ACCEPT", "REJECT", "REQUEST_EVIDENCE"},
   policy: Policies, requests: SUBSET Checks]

ASSUME OutcomesAssumption == OutcomeIds \subseteq RecordIds

(* acceptance_assessment_record and acceptance_policy_record: identified   *)
(* by what they say, and about the world of the case.                      *)
OutcomeRecord(type) ==
  [record_type |-> type,
   id |-> [case |-> outcome.case, disposition |-> outcome.disposition,
           policy |-> outcome.policy, requests |-> outcome.requests],
   state |-> "VERDICT", world |-> outcome.world, authorized |-> FALSE]

RecordOutcome(type) ==
  /\ outcome # None
  /\ RecordCausal(OutcomeRecord(type), TRUE) \/ RefuseCausal(OutcomeRecord(type), TRUE)
  /\ UNCHANGED <<objects, assessed, outcome>>

AcceptanceInit ==
  /\ EvidenceInit
  /\ assessed = [check \in Checks |-> None]
  /\ outcome = None

AcceptanceStep(changes, scans, policies) ==
  \/ EvidenceStep(changes, scans) /\ UNCHANGED <<assessed, outcome>>
  \/ \E check \in Checks : AssessCheck(check)
  \/ \E case \in Cases, given \in SUBSET receipts, policy \in policies :
       Evaluate(case, given, policy)
  \/ \E type \in {"assessment", "policy"} : RecordOutcome(type)

AcceptanceNext == AcceptanceStep(Changes, Scans, Policies)

AcceptanceSpec == AcceptanceInit /\ [][AcceptanceNext]_acceptanceVars

-----------------------------------------------------------------------------
(* Properties *)

(* An acceptance in the ledger is about the world it stands in, even       *)
(* though check, scene, receipt and outcome are objects the caller kept    *)
(* while the world moved: each check of the case is satisfied there, and,  *)
(* where the policy requires it, measured there before.                    *)
RecordedAcceptancesHold ==
  \A i \in DOMAIN ledger :
    (ledger[i].kind \in {"assessment", "policy"} /\ ledger[i].rec.id.disposition = "ACCEPT") =>
      \A check \in ledger[i].rec.id.case :
        /\ Assess(ledger[i].result, check) = "SATISFIED"
        /\ ledger[i].rec.id.policy.required =>
             EvidenceFor(SubSeq(ledger, 1, i), ledger[i].result, check)

(* ScanEvidence's and Headless' properties say nothing of checks and       *)
(* outcomes.  Every state extends one with neither and the same session,   *)
(* objects and receipts: it is enough to evaluate them there.              *)
Unassessed == outcome = None /\ \A check \in Checks : assessed[check] = None

(* Whatever the caller kept while the session moved on, issued receipts    *)
(* stand for one scan and one world (ScanEvidence's ReceiptsAreCoherent).  *)
IssuedReceiptsAreCoherent == Unassessed => ReceiptsAreCoherent

(* Headless acceptance that requires evidence never goes beyond what the   *)
(* carrier's ledger has (Headless' HeadlessAcceptsOnEvidence).             *)
AcceptsOnEvidenceOnly == Unassessed => HeadlessAcceptsOnEvidence

(* Issued receipts that serve the session serve a headless request         *)
(* (Headless' HeadlessTakesIssuedReceipts).                                *)
TakesIssuedReceipts == Unassessed => HeadlessTakesIssuedReceipts
=============================================================================
