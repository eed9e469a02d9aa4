------------------------------- MODULE Ledger -------------------------------
(***************************************************************************)
(* The execution ledger of gat/ledger.py: the events it admits, the        *)
(* lifecycles of approvals and external actions, what may be appended, how *)
(* a stored chain is validated and how it is replayed.                     *)
(*                                                                         *)
(* A world digest is modelled by the world it identifies (SHA-256 is taken *)
(* to be injective), and an event's sequence number and hash link by its   *)
(* position: the chain is the sequence itself.  A verification report is   *)
(* told apart only by being absent, passed or failed.                      *)
(***************************************************************************)
EXTENDS Naturals, Sequences

CONSTANTS
  Worlds,            \* the computational worlds
  Transformations,   \* the operations a session may be asked to run
  Execute(_, _),     \* gat.engine.executor.execute: world, operation -> outcome
  Passes(_),         \* run_invariants(world).passed
  Encodable(_),      \* encode_transformation(t) does not raise
  RecordIds,         \* identifiers of causal records
  MaxEvents          \* LEDGER_MAX_EVENTS

ErrorTypes == {"VerificationError", "BindingError", "ConditioningError",
               "NumericalError"}

(* What execute returns or raises; "escaped" is an exception outside the   *)
(* GatError hierarchy.                                                     *)
Outcomes ==
       [tag: {"committed"}, world: Worlds, error: {"none"}]
  \cup [tag: {"rejected"},  world: Worlds, error: ErrorTypes]
  \cup [tag: {"escaped"},   world: Worlds, error: {"none"}]

(* The executor returns a typed outcome and commits only a candidate that  *)
(* passes the invariant registry (executor.py:225-252).                    *)
ASSUME ExecuteAssumption ==
  \A w \in Worlds, t \in Transformations :
    /\ Execute(w, t) \in Outcomes
    /\ Execute(w, t).tag = "committed" => Passes(Execute(w, t).world)

ASSUME LimitAssumption == MaxEvents \in Nat \ {0}

-----------------------------------------------------------------------------
(* Causal records and their lifecycles *)

CausalKinds == {"assessment", "policy", "approval", "external_action"}

ApprovalDecisions == {"APPROVED", "REJECTED", "DEFERRED", "REVOKED"}

ActionStatuses == {"PROPOSED", "AUTHORIZED", "STARTED",
                   "COMPLETED", "FAILED", "CANCELLED"}

CausalRecords ==
       [record_type: {"assessment", "policy"}, id: RecordIds,
        state: {"VERDICT"}, world: Worlds, authorized: {FALSE}]
  \cup [record_type: {"approval"}, id: RecordIds,
        state: ApprovalDecisions, world: Worlds, authorized: {FALSE}]
  \cup [record_type: {"external_action"}, id: RecordIds,
        state: ActionStatuses, world: Worlds, authorized: BOOLEAN]

ApprovalTransition(previous, rec) ==
  \/ /\ previous \in {"NEW", "DEFERRED"}
     /\ rec.state \in {"APPROVED", "REJECTED", "DEFERRED"}
  \/ /\ previous = "APPROVED"
     /\ rec.state = "REVOKED"

(* Slip: the authorization reference is not asked for.                     *)
ActionWithoutReference(previous, rec) ==
  \/ previous = "NEW"        /\ rec.state = "PROPOSED"
  \/ previous = "PROPOSED"   /\ rec.state \in {"AUTHORIZED", "CANCELLED"}
  \/ previous = "AUTHORIZED" /\ rec.state \in {"STARTED", "CANCELLED"}
  \/ previous = "STARTED"    /\ rec.state \in {"COMPLETED", "FAILED", "CANCELLED"}

ActionTransition(previous, rec) ==
  /\ \/ previous = "NEW"        /\ rec.state = "PROPOSED"
     \/ previous = "PROPOSED"   /\ rec.state \in {"AUTHORIZED", "CANCELLED"}
     \/ previous = "AUTHORIZED" /\ rec.state \in {"STARTED", "CANCELLED"}
     \/ previous = "STARTED"    /\ rec.state \in {"COMPLETED", "FAILED", "CANCELLED"}
  /\ rec.state \in {"AUTHORIZED", "STARTED", "COMPLETED", "FAILED"} =>
       rec.authorized

-----------------------------------------------------------------------------
(* Events: the operation of an event is either a transformation or a       *)
(* causal record, kept here in two fields.                                 *)

NoOp     == <<>>
NoRecord == [record_type |-> "none"]

Event(kind, op, rec, prior, result, verification, error) ==
  [kind |-> kind, op |-> op, rec |-> rec, prior |-> prior, result |-> result,
   verification |-> verification, error |-> error]

GenesisEvent(w) ==
  Event("genesis", NoOp, NoRecord, w, w,
        IF Passes(w) THEN "passed" ELSE "failed", "none")

TransitionEvent(before, t, after) ==
  Event("transition", t, NoRecord, before, after, "passed", "none")

(* Slips: a rejection that forgets which error it was, and one filed as    *)
(* the committed transition it is not.                                     *)
RejectionOfOneKind(before, t, error) ==
  Event("rejection", t, NoRecord, before, before, "failed", "VerificationError")

RejectionAsTransition(before, t, error) ==
  Event("transition", t, NoRecord, before, before, "passed", "none")

RejectionEvent(before, t, error) ==
  Event("rejection", t, NoRecord, before, before,
        IF error = "VerificationError" THEN "failed" ELSE "absent", error)

CausalEvent(w, rec) ==
  Event(rec.record_type, NoOp, rec, w, w, "absent", "none")

LedgerHead(events) == events[Len(events)]

(* Slip: the scan for earlier records runs forwards.                       *)
FirstState(events, kind, id) ==
  LET earlier == {i \in DOMAIN events :
                    events[i].kind = kind /\ events[i].rec.id = id}
  IN  IF earlier = {}
        THEN "NEW"
        ELSE events[CHOOSE i \in earlier : \A j \in earlier : i <= j].rec.state

(* The last recorded state of an approval or action: "NEW" if there is     *)
(* none.                                                                   *)
LatestState(events, kind, id) ==
  LET earlier == {i \in DOMAIN events :
                    events[i].kind = kind /\ events[i].rec.id = id}
  IN  IF earlier = {}
        THEN "NEW"
        ELSE events[CHOOSE i \in earlier : \A j \in earlier : j <= i].rec.state

LifecycleAllows(events, rec) ==
  LET previous == LatestState(events, rec.record_type, rec.id)
  IN  /\ rec.record_type = "approval" => ApprovalTransition(previous, rec)
      /\ rec.record_type = "external_action" => ActionTransition(previous, rec)

-----------------------------------------------------------------------------
(* Appending, validating and replaying *)

(* _validate_operation_event: the fields of an event fit its kind, and its *)
(* operation decodes.                                                      *)
EventFits(e) ==
  \/ /\ e.kind \in CausalKinds
     /\ e.rec.record_type = e.kind
     /\ e.prior = e.result /\ e.rec.world = e.prior
     /\ e.verification = "absent" /\ e.error = "none"
  \/ /\ e.kind = "transition" /\ Encodable(e.op)
     /\ e.verification = "passed" /\ e.error = "none"
  \/ /\ e.kind = "rejection" /\ Encodable(e.op)
     /\ e.prior = e.result /\ e.error # "none"
     /\ e.verification = IF e.error = "VerificationError" THEN "failed"
                                                          ELSE "absent"

(* Slip: the limit is checked when reading only.                           *)
AppendPastLimit(events, e) == EventFits(e)

(* _append refuses a full ledger and an event whose fields do not fit.     *)
CanAppend(events, e) == Len(events) < MaxEvents /\ EventFits(e)

(* record_transition and record_rejection: the head must describe the      *)
(* world the operation was run from, the operation must lie in the closed  *)
(* algebra and the caller's provenance must be canonical JSON.             *)
CanRecordRun(events, before, t, e, provenanceOk) ==
  /\ LedgerHead(events).result = before
  /\ Encodable(t)
  /\ provenanceOk
  /\ CanAppend(events, e)

(* Slip: lifecycles are left to the reader.                                *)
RecordAnyState(events, w, rec, provenanceOk) ==
  /\ LedgerHead(events).result = w
  /\ rec.world = w
  /\ provenanceOk
  /\ CanAppend(events, CausalEvent(w, rec))

(* record_causal: the record must be about the exact current world and     *)
(* continue the lifecycle of its identifier.                               *)
CanRecordCausal(events, w, rec, provenanceOk) ==
  /\ LedgerHead(events).result = w
  /\ rec.world = w
  /\ LifecycleAllows(events, rec)
  /\ provenanceOk
  /\ CanAppend(events, CausalEvent(w, rec))

(* ExecutionLedger.validate, which every stored ledger goes through.       *)
ValidLedger(events) ==
  /\ Len(events) \in 1..MaxEvents
  /\ events[1].kind = "genesis" /\ events[1].prior = events[1].result
  /\ events[1].verification # "absent" /\ events[1].error = "none"
  /\ \A i \in 2..Len(events) :
       /\ events[i].prior = events[i-1].result
       /\ EventFits(events[i])
       /\ events[i].kind \in CausalKinds =>
            LifecycleAllows(SubSeq(events, 1, i-1), events[i].rec)

(* One iteration of the loop of replay_ledger, from the world reached so   *)
(* far: does running the event again give what the event says?             *)
ReplaysFrom(current, e) ==
  /\ e.prior = current
  /\ IF e.kind \in CausalKinds
       THEN e.rec.world = current /\ e.result = current
       ELSE LET r == Execute(current, e.op)
            IN  \/ /\ r.tag = "committed" /\ e.kind = "transition"
                   /\ e.result = r.world /\ e.verification = "passed"
                \/ /\ r.tag = "rejected" /\ e.kind = "rejection"
                   /\ e.result = current /\ e.error = r.error
                   /\ (e.verification = "failed") = (r.error = "VerificationError")

(* The outcome of replay_ledger: it stops at the first event that does not *)
(* replay, and otherwise returns the world the last event leads to.        *)
ReplayLedger(initial, events) ==
  LET reached[i \in 1..Len(events)] ==
        IF i = 1
          THEN [ok |-> events[1] = GenesisEvent(initial), world |-> initial]
          ELSE LET prev == reached[i-1]
               IN  IF prev.ok /\ ReplaysFrom(prev.world, events[i])
                     THEN [ok |-> TRUE, world |-> events[i].result]
                     ELSE [ok |-> FALSE, world |-> initial]
  IN  reached[Len(events)]
=============================================================================
