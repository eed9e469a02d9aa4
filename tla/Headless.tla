------------------------------ MODULE Headless ------------------------------
(***************************************************************************)
(* How an acceptance case is decided (gat/workflows/acceptance.py), and    *)
(* the read-only evaluation of gat/headless.py, which knows of a session   *)
(* only what a carrier holds and of the receipts only what a request says. *)
(***************************************************************************)
EXTENDS ScanEvidence

CONSTANT Policies   \* acceptance policies: evidence required, of which kinds

-----------------------------------------------------------------------------
(* Evaluating a case *)

Cases == (SUBSET Checks) \ {{}}

(* Each check is assessed at a world of its own: at[check].                *)
WithVerdict(at, case, verdict) == {check \in case : Assess(at[check], check) = verdict}

(* A receipt that is out of the case's scope, or stale, refuses it.        *)
Refuses(r, w, case) == ~ r.checks \subseteq case \/ r.result # w

Covered(given, policy) == UNION {r.checks : r \in {g \in given : g.kind \in policy.kinds}}

Uncovered(at, case, given, policy) ==
  IF policy.required THEN WithVerdict(at, case, "SATISFIED") \ Covered(given, policy) ELSE {}

(* Slip: a violated check only asks for more evidence.                     *)
DispositionOpen(at, case, given, policy) ==
  IF WithVerdict(at, case, "UNRESOLVED") # {} \/ Uncovered(at, case, given, policy) # {}
    THEN "REQUEST_EVIDENCE" ELSE "ACCEPT"

Disposition(at, case, given, policy) ==
  IF WithVerdict(at, case, "VIOLATED") # {} THEN "REJECT"
  ELSE IF \/ WithVerdict(at, case, "UNRESOLVED") # {}
          \/ Uncovered(at, case, given, policy) # {} THEN "REQUEST_EVIDENCE"
  ELSE "ACCEPT"

(* evaluate_acceptance_case, of a case about the world w, when no receipt  *)
(* refuses it: each open check gets a request.                             *)
CaseOutcome(w, at, case, given, policy) ==
  [world |-> w, case |-> case, policy |-> policy,
   disposition |-> Disposition(at, case, given, policy),
   requests |-> WithVerdict(at, case, "UNRESOLVED") \cup Uncovered(at, case, given, policy)]

-----------------------------------------------------------------------------
(* Headless acceptance *)

(* The carriers the session has had occasion to export so far, at any of   *)
(* its events.  A signed OpenUSD carrier is trusted by the deployment, an  *)
(* unsigned one is not, and a snapshot leaves the ledger behind.           *)
Exported(events) ==
  LET w(i) == events[i].result
  IN  {[world |-> w(i), ledger |-> SubSeq(events, 1, i), trusted |-> trusted] :
         i \in {j \in DOMAIN events : Passes(w(j))}, trusted \in BOOLEAN}
      \cup {[world |-> w(i), ledger |-> <<GenesisEvent(w(i))>>, trusted |-> FALSE] :
         i \in {j \in DOMAIN events : Passes(w(j))}}

(* Slip: the scope a receipt claims is not compared.                       *)
MatchesInAnyScope(events, r) ==
  \E i \in DOMAIN events :
    /\ EventHash(events, i) = r.event
    /\ events[i].kind = "transition"
    /\ Attests(events[i], r.prior, r.result, r.evidence, r.calibration,
               events[i].op.provenance.checks)

(* _validate_receipt_against_ledger: the receipt resolves to one event of  *)
(* the state's ledger, which attests all it says.                          *)
MatchesLedger(events, r) ==
  \E i \in DOMAIN events :
    /\ EventHash(events, i) = r.event
    /\ Attests(events[i], r.prior, r.result, r.evidence, r.calibration, r.checks)

(* _acceptance assesses every check in the world of the carrier.          *)
HeadlessDisposition(carrier, case, given, policy) ==
  Disposition([check \in case |-> carrier.world], case, given, policy)

(* _acceptance raises, on the session a carrier resumes.                   *)
HeadlessRefuses(carrier, case, given) ==
  \/ \E r \in given : ~ MatchesLedger(carrier.ledger, r) \/ Refuses(r, carrier.world, case)
  \/ given # {} /\ ~ carrier.trusted

-----------------------------------------------------------------------------
(* Properties *)

(* There is evidence, up to an event of a ledger, that a check was         *)
(* measured in the world w: a reproducible scan transition that led to     *)
(* exactly w and was declared for the check.                               *)
EvidenceFor(events, w, check) ==
  \E i \in 2..Len(events) :
    /\ events[i].kind = "transition" /\ events[i].result = w
    /\ Linearized(events[i].op) /\ events[i].op.provenance.kind = "scan"
    /\ check \in events[i].op.provenance.checks
    /\ ReplaysFrom(events[i-1].result, events[i])

(* What a request may say of the receipts: what they say, or another       *)
(* scope, another event or another world.                                  *)
Presented(w) ==
  LET Said(r) == {r, [r EXCEPT !.result = w]}
                 \cup {[r EXCEPT !.checks = checks] : checks \in Cases}
                 \cup {[r EXCEPT !.event = EventHash(ledger, i)] : i \in DOMAIN ledger}
  IN  UNION {Said(r) : r \in receipts}

(* Whatever the carrier and the receipts: headless acceptance, where       *)
(* evidence is required, accepts only what the carrier's own ledger has    *)
(* evidence for, in exactly the world it holds ("One receipt covers only   *)
(* the check ids declared in its ledger provenance",                       *)
(* docs/workflow-deployment-v1.md:178).                                    *)
HeadlessAcceptsOnEvidence ==
  \A c \in Exported(ledger) : \A given \in SUBSET Presented(c.world) :
    \A case \in Cases, policy \in Policies :
      (/\ policy.required
       /\ ~ HeadlessRefuses(c, case, given)
       /\ HeadlessDisposition(c, case, given, policy) = "ACCEPT")
      => /\ c.trusted
         /\ \A check \in case : /\ Assess(c.world, check) = "SATISFIED"
                                /\ EvidenceFor(c.ledger, c.world, check)

(* The other way round, nothing is refused that should not be: receipts    *)
(* that the library issued for an event the carrier knows, and that the    *)
(* process holding the session could use in a case about the carrier's     *)
(* world, are good for a headless request too.  Two pieces of code check   *)
(* the same binding (acceptance.py:315-332, headless.py:469-483).          *)
HeadlessTakesIssuedReceipts ==
  \A c \in {x \in Exported(ledger) : x.trusted} :
    \A case \in Cases, given \in SUBSET receipts :
      (\A r \in given : Len(r.event) <= Len(c.ledger) /\ ~ Refuses(r, c.world, case))
      => ~ HeadlessRefuses(c, case, given)
=============================================================================
