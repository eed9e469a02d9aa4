------------------------------ MODULE Session ------------------------------
(***************************************************************************)
(* One live GatSession (gat/session.py): the current world, its            *)
(* authoritative ledger, its human-readable trace, and what the last call  *)
(* told the caller.  The session is driven by one thread, so a call is one *)
(* step; each way a call can end is an action.                             *)
(*                                                                         *)
(* A call of run executes first, then records, then moves the world: what  *)
(* can go wrong between those three is what the properties are about.      *)
(***************************************************************************)
EXTENDS Ledger

CONSTANTS
  GenesisWorlds,   \* worlds a session may be opened on
  Observes(_)      \* "observe" in t.name: how the trace files a transition

ASSUME GenesisAssumption == GenesisWorlds \subseteq Worlds

VARIABLES
  world,    \* self.world
  ledger,   \* self.ledger.events
  trace,    \* self.trace.events: stage, verdict and digest of each
  reply     \* what the last call returned or raised

vars == <<world, ledger, trace, reply>>

TraceEvent(stage, verify, digest) ==
  [stage |-> stage, verify |-> verify, digest |-> digest]

(* _verdict; PASS stands for WARN too, which only words it differently.    *)
Verdict(w) == IF Passes(w) THEN "PASS" ELSE "FAIL"

Calls == {"open", "run", "record"}

Endings == {"opened", "committed", "rejected", "unrecorded", "escaped",
            "recorded", "refused"}

Reply(call, ending) == [call |-> call, ending |-> ending]

-----------------------------------------------------------------------------
(* GatSession.__init__: opening is not refused when the world fails its    *)
(* invariants.                                                             *)
Init ==
  \E w \in GenesisWorlds :
    /\ world = w
    /\ ledger = <<GenesisEvent(w)>>
    /\ trace = <<TraceEvent("compile", Verdict(w), w)>>
    /\ reply = Reply("open", "opened")

RunStage(t) == IF Observes(t) THEN "observe" ELSE "transform"

(* run, when the candidate is verified and the transition is recorded.     *)
RunCommitted(t, provenanceOk) ==
  LET r == Execute(world, t)
      e == TransitionEvent(world, t, r.world)
  IN  /\ r.tag = "committed"
      /\ CanRecordRun(ledger, world, t, e, provenanceOk)
      /\ ledger' = Append(ledger, e)
      /\ world' = r.world
      /\ trace' = Append(trace, TraceEvent(RunStage(t), "PASS", r.world))
      /\ reply' = Reply("run", "committed")

(* Slip: the trace of a rejection is forgotten.                            *)
RunRejectedUntraced(t, provenanceOk) ==
  LET r == Execute(world, t)
      e == RejectionEvent(world, t, r.error)
  IN  /\ r.tag = "rejected"
      /\ CanRecordRun(ledger, world, t, e, provenanceOk)
      /\ ledger' = Append(ledger, e)
      /\ reply' = Reply("run", "rejected")
      /\ UNCHANGED <<world, trace>>

(* run, when a GatError rejects the operation (raised when strict, a       *)
(* failed report returned when not) and the rejection is recorded.         *)
RunRejected(t, provenanceOk) ==
  LET r == Execute(world, t)
      e == RejectionEvent(world, t, r.error)
  IN  /\ r.tag = "rejected"
      /\ CanRecordRun(ledger, world, t, e, provenanceOk)
      /\ ledger' = Append(ledger, e)
      /\ trace' = Append(trace, TraceEvent("reject", "FAIL", world))
      /\ reply' = Reply("run", "rejected")
      /\ UNCHANGED world

(* Slip: run moves the world before it records.                            *)
RunUnrecordedMoves(t, provenanceOk) ==
  LET r == Execute(world, t)
      e == IF r.tag = "committed" THEN TransitionEvent(world, t, r.world)
                                  ELSE RejectionEvent(world, t, r.error)
  IN  /\ r.tag # "escaped"
      /\ ~ CanRecordRun(ledger, world, t, e, provenanceOk)
      /\ world' = r.world
      /\ reply' = Reply("run", "unrecorded")
      /\ UNCHANGED <<ledger, trace>>

(* run, when recording the outcome raises LedgerError: the call ends there *)
(* and nothing of it remains.                                              *)
RunUnrecorded(t, provenanceOk) ==
  LET r == Execute(world, t)
      e == IF r.tag = "committed" THEN TransitionEvent(world, t, r.world)
                                  ELSE RejectionEvent(world, t, r.error)
  IN  /\ r.tag # "escaped"
      /\ ~ CanRecordRun(ledger, world, t, e, provenanceOk)
      /\ reply' = Reply("run", "unrecorded")
      /\ UNCHANGED <<world, ledger, trace>>

(* run, when execution raises an exception that is not a GatError: it      *)
(* passes the handler by.                                                  *)
RunEscaped(t) ==
  /\ Execute(world, t).tag = "escaped"
  /\ reply' = Reply("run", "escaped")
  /\ UNCHANGED <<world, ledger, trace>>

CausalStage(rec) ==
  IF rec.record_type = "external_action" THEN "action" ELSE rec.record_type

(* record_assessment, record_policy, record_approval and                   *)
(* record_external_action.                                                 *)
RecordCausal(rec, provenanceOk) ==
  /\ CanRecordCausal(ledger, world, rec, provenanceOk)
  /\ ledger' = Append(ledger, CausalEvent(world, rec))
  /\ trace' = Append(trace, TraceEvent(CausalStage(rec), "-", world))
  /\ reply' = Reply("record", "recorded")
  /\ UNCHANGED world

RefuseCausal(rec, provenanceOk) ==
  /\ ~ CanRecordCausal(ledger, world, rec, provenanceOk)
  /\ reply' = Reply("record", "refused")
  /\ UNCHANGED <<world, ledger, trace>>

Next ==
  \/ \E t \in Transformations :
       \/ \E provenanceOk \in BOOLEAN :
            \/ RunCommitted(t, provenanceOk)
            \/ RunRejected(t, provenanceOk)
            \/ RunUnrecorded(t, provenanceOk)
       \/ RunEscaped(t)
  \/ \E rec \in CausalRecords, provenanceOk \in BOOLEAN :
       RecordCausal(rec, provenanceOk) \/ RefuseCausal(rec, provenanceOk)

Spec == Init /\ [][Next]_vars

-----------------------------------------------------------------------------
(* Properties *)

Events ==
       [kind: {"genesis"}, op: {NoOp}, rec: {NoRecord}, prior: Worlds,
        result: Worlds, verification: {"passed", "failed"}, error: {"none"}]
  \cup [kind: {"transition"}, op: Transformations, rec: {NoRecord}, prior: Worlds,
        result: Worlds, verification: {"passed"}, error: {"none"}]
  \cup [kind: {"rejection"}, op: Transformations, rec: {NoRecord}, prior: Worlds,
        result: Worlds, verification: {"failed", "absent"}, error: ErrorTypes]
  \cup [kind: CausalKinds, op: {NoOp}, rec: CausalRecords, prior: Worlds,
        result: Worlds, verification: {"absent"}, error: {"none"}]

Stages == {"compile", "observe", "transform", "reject", "assessment",
           "policy", "approval", "action"}

(* The type of the session's state.                                        *)
TypeOK ==
  /\ world \in Worlds
  /\ ledger \in Seq(Events) /\ Len(ledger) \in 1..MaxEvents
  /\ trace \in Seq([stage: Stages, verify: {"PASS", "FAIL", "-"}, digest: Worlds])
  /\ reply \in [call: Calls, ending: Endings]

(* The head of the ledger always describes the session's world, whatever   *)
(* call failed half-way: run records before it moves the world             *)
(* (session.py:212-214), so a failure to record leaves both where they     *)
(* were.                                                                   *)
HeadDescribesWorld == LedgerHead(ledger).result = world

(* Whatever a session appends, validate() accepts when the chain is read   *)
(* back: the checks made while recording (a backward scan for the latest   *)
(* state) and those made while reading (a forward fold) agree.             *)
LedgerStaysReadable == ValidLedger(ledger)

(* Each event, run again from the world the event before it led to, gives  *)
(* what the event says: transitions, rejections with their error, and      *)
(* causal records that leave the world alone.                              *)
Reproducible ==
  \A i \in 2..Len(ledger) : ReplaysFrom(ledger[i-1].result, ledger[i])

(* replay_ledger, given the genesis world and the session's ledger,        *)
(* returns the session's world.                                            *)
ReplayReturnsSession ==
  ReplayLedger(ledger[1].result, ledger) = [ok |-> TRUE, world |-> world]

(* A session may be opened on a world that fails its invariants, but once  *)
(* it has committed anything it holds only verified worlds.                *)
OnlyVerifiedWorlds ==
  (\E i \in DOMAIN ledger : ledger[i].kind = "transition") => Passes(world)

Terminal == {"REJECTED", "REVOKED", "COMPLETED", "FAILED", "CANCELLED"}

(* Approvals and actions that have ended are never reopened under the same *)
(* id, however many other events lie between.                              *)
TerminalIsFinal ==
  \A i, j \in DOMAIN ledger :
    (/\ i < j /\ ledger[i].kind \in {"approval", "external_action"}
     /\ ledger[j].kind = ledger[i].kind /\ ledger[j].rec.id = ledger[i].rec.id)
    => ledger[i].rec.state \notin Terminal

(* Field work is recorded as started or ended by work only after an        *)
(* authorized record that carries an authorization reference.              *)
WorkFollowsAuthorization ==
  \A j \in DOMAIN ledger :
    (/\ ledger[j].kind = "external_action"
     /\ ledger[j].rec.state \in {"STARTED", "COMPLETED", "FAILED"})
    => \E i \in 1..(j-1) :
         /\ ledger[i].kind = "external_action"
         /\ ledger[i].rec.id = ledger[j].rec.id
         /\ ledger[i].rec.state = "AUTHORIZED" /\ ledger[i].rec.authorized

(* The trace entry that tells of an event.                                 *)
Tells(entry, e) ==
  /\ entry.digest = e.result
  /\ CASE e.kind = "transition" -> entry.stage = RunStage(e.op) /\ entry.verify = "PASS"
       [] e.kind = "rejection"  -> entry.stage = "reject" /\ entry.verify = "FAIL"
       [] e.kind = "genesis"    -> entry.stage = "compile"
       [] OTHER                 -> entry.stage = CausalStage(e.rec)

(* The human-readable trace and the authoritative ledger of a session tell *)
(* the same story in the same order.                                       *)
TraceTellsLedger ==
  /\ Len(trace) = Len(ledger)
  /\ \A i \in DOMAIN ledger : Tells(trace[i], ledger[i])

(* The path of worlds a session's ledger records implements History.       *)
Hist == INSTANCE History
          WITH current <- world,
               path <- [i \in DOMAIN ledger |-> ledger[i].result]

HistorySpec == Hist!Spec

(* "run records both strict and non-strict rejections as well as           *)
(* successful transitions" (docs/execution-ledger-v1.md:88-89): while the  *)
(* ledger has room, a call of run with recordable provenance whose         *)
(* operation the executor committed or rejected is not left out of it.     *)
EveryRunIsRecorded ==
  [][Len(ledger) < MaxEvents =>
       \A t \in Transformations : ~ RunUnrecorded(t, TRUE)]_vars
=============================================================================
