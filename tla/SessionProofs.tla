--------------------------- MODULE SessionProofs ---------------------------
(***************************************************************************)
(* What a session's ledger guarantees for every executor that returns a    *)
(* typed outcome and commits only verified worlds, whatever the worlds,    *)
(* the operations, the identifiers and the size of the ledger.             *)
(***************************************************************************)
EXTENDS EngineSession, Induction, SequenceTheorems

(* What is needed of Append, in one place.                                 *)
LEMMA AppendFacts ==
  ASSUME NEW S, NEW s \in Seq(S), NEW e \in S
  PROVE  /\ Append(s, e) \in Seq(S)
         /\ Len(Append(s, e)) = Len(s) + 1
         /\ DOMAIN s = 1..Len(s)
         /\ DOMAIN Append(s, e) = 1..(Len(s) + 1)
         /\ \A i \in 1..Len(s) : Append(s, e)[i] = s[i]
         /\ Append(s, e)[Len(s) + 1] = e
  OBVIOUS

TraceEntries == [stage: Stages, verify: {"PASS", "FAIL", "-"}, digest: Worlds]

(* The events a call builds are well-typed.                                *)
LEMMA EventTypes ==
  ASSUME NEW w \in Worlds
  PROVE  /\ GenesisEvent(w) \in Events
         /\ \A t \in Transformations, v \in Worlds : TransitionEvent(w, t, v) \in Events
         /\ \A t \in Transformations, error \in ErrorTypes :
              RejectionEvent(w, t, error) \in Events
         /\ \A rec \in CausalRecords : CausalEvent(w, rec) \in Events
<1>1. GenesisEvent(w) \in Events
  BY DEF GenesisEvent, Event, Events
<1>2. \A t \in Transformations, v \in Worlds : TransitionEvent(w, t, v) \in Events
  BY DEF TransitionEvent, Event, Events
<1>3. ASSUME NEW t \in Transformations, NEW error \in ErrorTypes
      PROVE  RejectionEvent(w, t, error) \in Events
  BY DEF RejectionEvent, Event, Events
<1>4. ASSUME NEW rec \in CausalRecords
      PROVE  CausalEvent(w, rec) \in Events
  <2>1. rec.record_type \in CausalKinds
    BY DEF CausalRecords, CausalKinds
  <2> QED BY <2>1 DEF CausalEvent, Event, Events
<1> QED BY <1>1, <1>2, <1>3, <1>4

(* A step either leaves the session's durable state alone or appends one   *)
(* event about the world it started from, with its trace entry, the world  *)
(* becoming the event's result.                                            *)
Appends(e, entry) ==
  /\ CanAppend(ledger, e)
  /\ LedgerHead(ledger).result = world
  /\ e.prior = world /\ e.result = world'
  /\ ledger' = Append(ledger, e) /\ trace' = Append(trace, entry)
  /\ Tells(entry, e)
  /\ ReplaysFrom(world, e)
  /\ e.kind \in CausalKinds => LifecycleAllows(ledger, e.rec)
  /\ e.kind # "genesis"
  /\ e.kind = "transition" => Passes(e.result)
  /\ e.kind # "transition" => world' = world

(* A step leaves world, ledger and trace alone, or appends one event and   *)
(* the trace entry that tells of it.                                       *)
LEMMA StepShape ==
  ASSUME world \in Worlds, Next
  PROVE  \/ UNCHANGED <<world, ledger, trace>>
         \/ \E e \in Events, entry \in TraceEntries : Appends(e, entry)
<1>1. ASSUME NEW t \in Transformations, NEW provenanceOk \in BOOLEAN,
             RunCommitted(t, provenanceOk)
      PROVE  \E e \in Events, entry \in TraceEntries : Appends(e, entry)
  <2> DEFINE r == Execute(world, t)
             e == TransitionEvent(world, t, r.world)
             entry == TraceEvent(RunStage(t), "PASS", r.world)
  <2>1. r.world \in Worlds /\ Passes(r.world)
    BY <1>1, ExecuteAssumption DEF RunCommitted, Outcomes
  <2>2. e \in Events
    BY <2>1, EventTypes
  <2>3. entry \in TraceEntries
    BY <2>1 DEF TraceEntries, TraceEvent, Stages, RunStage
  <2>4. /\ e.kind = "transition" /\ e.op = t /\ e.prior = world
        /\ e.result = r.world /\ e.verification = "passed"
    BY DEF TransitionEvent, Event
  <2>5. /\ CanAppend(ledger, e) /\ LedgerHead(ledger).result = world
        /\ ledger' = Append(ledger, e) /\ trace' = Append(trace, entry)
        /\ world' = r.world /\ r.tag = "committed"
    BY <1>1 DEF RunCommitted, CanRecordRun
  <2>6. Tells(entry, e)
    BY <2>4 DEF Tells, TraceEvent
  <2>7. ReplaysFrom(world, e)
    BY <2>4, <2>5 DEF ReplaysFrom, CausalKinds
  <2>8. Appends(e, entry)
    BY <2>1, <2>4, <2>5, <2>6, <2>7 DEF Appends, CausalKinds
  <2> QED BY <2>2, <2>3, <2>8
<1>2. ASSUME NEW t \in Transformations, NEW provenanceOk \in BOOLEAN,
             RunRejected(t, provenanceOk)
      PROVE  \E e \in Events, entry \in TraceEntries : Appends(e, entry)
  <2> DEFINE r == Execute(world, t)
             e == RejectionEvent(world, t, r.error)
             entry == TraceEvent("reject", "FAIL", world)
  <2>1. r.error \in ErrorTypes
    BY <1>2, ExecuteAssumption DEF RunRejected, Outcomes
  <2>2. e \in Events
    BY <2>1, EventTypes
  <2>3. entry \in TraceEntries
    BY DEF TraceEntries, TraceEvent, Stages
  <2>4. /\ e.kind = "rejection" /\ e.op = t /\ e.prior = world
        /\ e.result = world /\ e.error = r.error
        /\ e.verification = IF r.error = "VerificationError" THEN "failed" ELSE "absent"
    BY DEF RejectionEvent, Event
  <2>5. /\ CanAppend(ledger, e) /\ LedgerHead(ledger).result = world
        /\ ledger' = Append(ledger, e) /\ trace' = Append(trace, entry)
        /\ world' = world /\ r.tag = "rejected"
    BY <1>2 DEF RunRejected, CanRecordRun
  <2>6. Tells(entry, e)
    BY <2>4 DEF Tells, TraceEvent
  <2>7. ReplaysFrom(world, e)
    BY <2>4, <2>5 DEF ReplaysFrom, CausalKinds
  <2>8. Appends(e, entry)
    BY <2>4, <2>5, <2>6, <2>7 DEF Appends, CausalKinds
  <2> QED BY <2>2, <2>3, <2>8
<1>3. ASSUME NEW rec \in CausalRecords, NEW provenanceOk \in BOOLEAN,
             RecordCausal(rec, provenanceOk)
      PROVE  \E e \in Events, entry \in TraceEntries : Appends(e, entry)
  <2> DEFINE e == CausalEvent(world, rec)
             entry == TraceEvent(CausalStage(rec), "-", world)
  <2>1. rec.record_type \in CausalKinds
    BY DEF CausalRecords, CausalKinds
  <2>2. e \in Events
    BY EventTypes
  <2>3. entry \in TraceEntries
    BY <2>1 DEF TraceEntries, TraceEvent, Stages, CausalStage, CausalKinds
  <2>4. /\ e.kind = rec.record_type /\ e.rec = rec /\ e.prior = world
        /\ e.result = world
    BY DEF CausalEvent, Event
  <2>5. /\ CanAppend(ledger, e) /\ LedgerHead(ledger).result = world
        /\ ledger' = Append(ledger, e) /\ trace' = Append(trace, entry)
        /\ world' = world /\ LifecycleAllows(ledger, rec) /\ rec.world = world
    BY <1>3 DEF RecordCausal, CanRecordCausal
  <2>6. Tells(entry, e)
    BY <2>1, <2>4 DEF Tells, TraceEvent, CausalKinds
  <2>7. ReplaysFrom(world, e)
    BY <2>1, <2>4, <2>5 DEF ReplaysFrom
  <2>8. Appends(e, entry)
    BY <2>1, <2>4, <2>5, <2>6, <2>7 DEF Appends, CausalKinds
  <2> QED BY <2>2, <2>3, <2>8
<1>4. ASSUME NEW t \in Transformations, NEW provenanceOk \in BOOLEAN,
             RunUnrecorded(t, provenanceOk)
      PROVE  UNCHANGED <<world, ledger, trace>>
  BY <1>4 DEF RunUnrecorded
<1>5. ASSUME NEW t \in Transformations, RunEscaped(t)
      PROVE  UNCHANGED <<world, ledger, trace>>
  BY <1>5 DEF RunEscaped
<1>6. ASSUME NEW rec \in CausalRecords, NEW provenanceOk \in BOOLEAN,
             RefuseCausal(rec, provenanceOk)
      PROVE  UNCHANGED <<world, ledger, trace>>
  BY <1>6 DEF RefuseCausal
<1> QED BY <1>1, <1>2, <1>3, <1>4, <1>5, <1>6 DEF Next

-----------------------------------------------------------------------------
(* Type correctness *)

(* A session opens well-typed.                                             *)
LEMMA InitTypes == Init => TypeOK
<1> SUFFICES ASSUME NEW w \in GenesisWorlds, world = w,
                    ledger = <<GenesisEvent(w)>>,
                    trace = <<TraceEvent("compile", Verdict(w), w)>>,
                    reply = Reply("open", "opened")
             PROVE  TypeOK
  BY DEF Init
<1>1. w \in Worlds
  BY GenesisAssumption
<1>2. GenesisEvent(w) \in Events
  BY <1>1, EventTypes
<1>3. TraceEvent("compile", Verdict(w), w) \in TraceEntries
  BY <1>1 DEF TraceEvent, Verdict, TraceEntries, Stages
<1>4. reply \in [call: Calls, ending: Endings]
  BY DEF Reply, Calls, Endings
<1>5. /\ ledger \in Seq(Events) /\ Len(ledger) = 1
      /\ trace \in Seq(TraceEntries)
  BY <1>2, <1>3
<1> QED BY <1>1, <1>4, <1>5, LimitAssumption DEF TypeOK, TraceEntries

(* Every call answers with one of the endings.                             *)
LEMMA ReplyTypes == Next => reply' \in [call: Calls, ending: Endings]
  BY DEF Next, RunCommitted, RunRejected, RunUnrecorded, RunEscaped,
         RecordCausal, RefuseCausal, Reply, Calls, Endings

(* What a step does to the ledger and the trace, index by index.           *)
LEMMA StepEffect ==
  ASSUME TypeOK, Next
  PROVE  \/ UNCHANGED <<world, ledger, trace>>
         \/ \E e \in Events, entry \in TraceEntries :
              /\ Appends(e, entry)
              /\ Len(ledger) \in Nat \ {0} /\ Len(ledger) < MaxEvents
              /\ ledger' \in Seq(Events) /\ Len(ledger') = Len(ledger) + 1
              /\ DOMAIN ledger = 1..Len(ledger)
              /\ DOMAIN ledger' = 1..(Len(ledger) + 1)
              /\ \A i \in 1..Len(ledger) : ledger'[i] = ledger[i]
              /\ ledger'[Len(ledger) + 1] = e
              /\ trace' \in Seq(TraceEntries) /\ Len(trace') = Len(trace) + 1
              /\ \A i \in 1..Len(trace) : trace'[i] = trace[i]
              /\ trace'[Len(trace) + 1] = entry
<1>1. /\ world \in Worlds /\ ledger \in Seq(Events) /\ trace \in Seq(TraceEntries)
      /\ Len(ledger) \in Nat \ {0}
  BY LimitAssumption DEF TypeOK, TraceEntries
<1>2. ASSUME NEW e \in Events, NEW entry \in TraceEntries, Appends(e, entry)
      PROVE  /\ Len(ledger) < MaxEvents
             /\ ledger' \in Seq(Events) /\ Len(ledger') = Len(ledger) + 1
             /\ DOMAIN ledger = 1..Len(ledger)
             /\ DOMAIN ledger' = 1..(Len(ledger) + 1)
             /\ \A i \in 1..Len(ledger) : ledger'[i] = ledger[i]
             /\ ledger'[Len(ledger) + 1] = e
             /\ trace' \in Seq(TraceEntries) /\ Len(trace') = Len(trace) + 1
             /\ \A i \in 1..Len(trace) : trace'[i] = trace[i]
             /\ trace'[Len(trace) + 1] = entry
  <2>1. /\ Len(ledger) < MaxEvents
        /\ ledger' = Append(ledger, e) /\ trace' = Append(trace, entry)
    BY <1>2 DEF Appends, CanAppend
  <2>2. /\ ledger' \in Seq(Events) /\ Len(ledger') = Len(ledger) + 1
        /\ DOMAIN ledger = 1..Len(ledger)
        /\ DOMAIN ledger' = 1..(Len(ledger) + 1)
        /\ \A i \in 1..Len(ledger) : ledger'[i] = ledger[i]
        /\ ledger'[Len(ledger) + 1] = e
    BY <1>1, <2>1, AppendFacts
  <2>3. /\ trace' \in Seq(TraceEntries) /\ Len(trace') = Len(trace) + 1
        /\ \A i \in 1..Len(trace) : trace'[i] = trace[i]
        /\ trace'[Len(trace) + 1] = entry
    BY <1>1, <2>1, AppendFacts
  <2> QED BY <2>1, <2>2, <2>3
<1>3. CASE UNCHANGED <<world, ledger, trace>>
  BY <1>3
<1>4. CASE \E e \in Events, entry \in TraceEntries : Appends(e, entry)
  <2>1. PICK e \in Events, entry \in TraceEntries : Appends(e, entry)
    BY <1>4
  <2> QED BY <1>1, <1>2, <2>1, Zenon
<1> QED BY <1>1, <1>3, <1>4, StepShape

(* A step keeps the state well-typed.                                      *)
LEMMA NextTypes ==
  ASSUME TypeOK, [Next]_vars
  PROVE  TypeOK'
<1>1. CASE UNCHANGED vars
  BY <1>1 DEF TypeOK, vars
<1>2. CASE Next
  <2>1. reply' \in [call: Calls, ending: Endings]
    BY <1>2, ReplyTypes
  <2>2. CASE UNCHANGED <<world, ledger, trace>>
    BY <2>1, <2>2 DEF TypeOK
  <2>3. ASSUME NEW e \in Events, NEW entry \in TraceEntries,
               Appends(e, entry), Len(ledger) \in Nat \ {0}, Len(ledger) < MaxEvents,
               ledger' \in Seq(Events), Len(ledger') = Len(ledger) + 1,
               trace' \in Seq(TraceEntries)
        PROVE  TypeOK'
    <3>1. world' \in Worlds
      BY <2>3 DEF Appends, Events
    <3>2. Len(ledger') \in 1..MaxEvents
      BY <2>3, LimitAssumption
    <3> QED BY <2>1, <2>3, <3>1, <3>2 DEF TypeOK, TraceEntries
  <2> QED BY <1>2, <2>2, <2>3, StepEffect
<1> QED BY <1>1, <1>2

(* The session's state is always well-typed: in particular the world is a  *)
(* world the executor knows and the ledger never exceeds its limit.        *)
THEOREM TypeCorrect == Spec => []TypeOK
  BY InitTypes, NextTypes, PTL DEF Spec

-----------------------------------------------------------------------------
(* The ledger describes the session *)

(* Whatever call fails half-way, the last event describes the session's    *)
(* world.                                                                  *)
THEOREM HeadAlwaysDescribesWorld == Spec => []HeadDescribesWorld
<1>1. Init => HeadDescribesWorld
  BY DEF Init, HeadDescribesWorld, LedgerHead, GenesisEvent, Event
<1>2. ASSUME TypeOK, HeadDescribesWorld, [Next]_vars
      PROVE  HeadDescribesWorld'
  <2>1. CASE UNCHANGED <<world, ledger, trace>>
    BY <1>2, <2>1 DEF HeadDescribesWorld, LedgerHead
  <2>2. ASSUME NEW e \in Events, NEW entry \in TraceEntries, Appends(e, entry),
               Len(ledger') = Len(ledger) + 1, ledger'[Len(ledger) + 1] = e
        PROVE  HeadDescribesWorld'
    BY <2>2 DEF HeadDescribesWorld, LedgerHead, Appends
  <2> QED BY <1>2, <2>1, <2>2, StepEffect DEF vars
<1> QED BY <1>1, <1>2, TypeCorrect, PTL DEF Spec

(* Running any recorded event again from the world before it gives what    *)
(* the event records.                                                      *)
THEOREM EveryEventReproducible == Spec => []Reproducible
<1>1. Init => Reproducible
  <2> SUFFICES ASSUME Init PROVE Reproducible
    OBVIOUS
  <2>1. Len(ledger) = 1
    BY DEF Init
  <2> QED BY <2>1 DEF Reproducible
<1>2. ASSUME TypeOK, Reproducible, [Next]_vars
      PROVE  Reproducible'
  <2>1. CASE UNCHANGED <<world, ledger, trace>>
    BY <1>2, <2>1 DEF Reproducible, ReplaysFrom
  <2>2. ASSUME NEW e \in Events, NEW entry \in TraceEntries, Appends(e, entry),
               Len(ledger) \in Nat \ {0}, Len(ledger') = Len(ledger) + 1,
               \A i \in 1..Len(ledger) : ledger'[i] = ledger[i],
               ledger'[Len(ledger) + 1] = e
        PROVE  Reproducible'
    <3> SUFFICES ASSUME NEW i \in 2..(Len(ledger) + 1)
                 PROVE  ReplaysFrom(ledger'[i-1].result, ledger'[i])
      BY <2>2 DEF Reproducible, ReplaysFrom
    <3>1. CASE i \in 2..Len(ledger)
      <4>1. ledger'[i] = ledger[i] /\ ledger'[i-1] = ledger[i-1]
        BY <2>2, <3>1
      <4> QED BY <1>2, <3>1, <4>1 DEF Reproducible
    <3>2. CASE i = Len(ledger) + 1
      <4>1. ledger'[i] = e /\ ledger'[i-1] = ledger[Len(ledger)]
        BY <2>2, <3>2
      <4>2. ledger[Len(ledger)].result = world /\ ReplaysFrom(world, e)
        BY <2>2 DEF Appends, LedgerHead
      <4> QED BY <4>1, <4>2
    <3> QED BY <2>2, <3>1, <3>2
  <2> QED BY <1>2, <2>1, <2>2, StepEffect DEF vars
<1> QED BY <1>1, <1>2, TypeCorrect, PTL DEF Spec

(* Once anything has been committed, the session's world satisfies its     *)
(* invariants, even if it was opened on one that does not.                 *)
THEOREM CommittedWorldsVerified == Spec => []OnlyVerifiedWorlds
<1>1. Init => OnlyVerifiedWorlds
  BY DEF Init, OnlyVerifiedWorlds, GenesisEvent, Event
<1>2. ASSUME TypeOK, OnlyVerifiedWorlds, [Next]_vars
      PROVE  OnlyVerifiedWorlds'
  <2>1. CASE UNCHANGED <<world, ledger, trace>>
    BY <1>2, <2>1 DEF OnlyVerifiedWorlds
  <2>2. ASSUME NEW e \in Events, NEW entry \in TraceEntries, Appends(e, entry),
               Len(ledger) \in Nat \ {0},
               DOMAIN ledger = 1..Len(ledger), DOMAIN ledger' = 1..(Len(ledger) + 1),
               \A i \in 1..Len(ledger) : ledger'[i] = ledger[i],
               ledger'[Len(ledger) + 1] = e
        PROVE  OnlyVerifiedWorlds'
    <3>1. CASE e.kind = "transition"
      BY <2>2, <3>1 DEF Appends, OnlyVerifiedWorlds
    <3>2. CASE e.kind # "transition"
      <4>1. world' = world
        BY <2>2, <3>2 DEF Appends
      <4> QED BY <1>2, <2>2, <3>2, <4>1 DEF OnlyVerifiedWorlds
    <3> QED BY <3>1, <3>2
  <2> QED BY <1>2, <2>1, <2>2, StepEffect DEF vars
<1> QED BY <1>1, <1>2, TypeCorrect, PTL DEF Spec

(* The trace tells of every event of the ledger, in order, and of nothing  *)
(* else.                                                                   *)
THEOREM TraceAlwaysTellsLedger == Spec => []TraceTellsLedger
<1>1. Init => TraceTellsLedger
  BY DEF Init, TraceTellsLedger, Tells, GenesisEvent, TraceEvent, Event
<1>2. ASSUME TypeOK, TraceTellsLedger, [Next]_vars
      PROVE  TraceTellsLedger'
  <2>1. CASE UNCHANGED <<world, ledger, trace>>
    BY <1>2, <2>1 DEF TraceTellsLedger, Tells
  <2>2. ASSUME NEW e \in Events, NEW entry \in TraceEntries, Appends(e, entry),
               Len(ledger) \in Nat \ {0}, Len(ledger') = Len(ledger) + 1,
               DOMAIN ledger = 1..Len(ledger), DOMAIN ledger' = 1..(Len(ledger) + 1),
               \A i \in 1..Len(ledger) : ledger'[i] = ledger[i],
               ledger'[Len(ledger) + 1] = e, Len(trace') = Len(trace) + 1,
               \A i \in 1..Len(trace) : trace'[i] = trace[i],
               trace'[Len(trace) + 1] = entry
        PROVE  TraceTellsLedger'
    <3>1. Len(trace) = Len(ledger) /\ Len(trace') = Len(ledger')
      BY <1>2, <2>2 DEF TraceTellsLedger
    <3>2. ASSUME NEW i \in 1..(Len(ledger) + 1)
          PROVE  Tells(trace'[i], ledger'[i])
      <4>1. CASE i \in 1..Len(ledger)
        <5>1. trace'[i] = trace[i] /\ ledger'[i] = ledger[i]
          BY <2>2, <3>1, <4>1
        <5>2. Tells(trace[i], ledger[i])
          BY <1>2, <2>2, <4>1 DEF TraceTellsLedger
        <5> QED BY <5>1, <5>2
      <4>2. CASE i = Len(ledger) + 1
        <5>1. trace'[i] = entry /\ ledger'[i] = e
          BY <2>2, <3>1, <4>2
        <5> QED BY <2>2, <5>1 DEF Appends
      <4> QED BY <2>2, <4>1, <4>2
    <3> QED BY <2>2, <3>1, <3>2 DEF TraceTellsLedger, Tells
  <2> QED BY <1>2, <2>1, <2>2, StepEffect DEF vars
<1> QED BY <1>1, <1>2, TypeCorrect, PTL DEF Spec

-----------------------------------------------------------------------------
(* Lifecycles *)

LifecycleKinds == {"approval", "external_action"}

About(i, kind, id) ==
  i \in DOMAIN ledger /\ ledger[i].kind = kind /\ ledger[i].rec.id = id

LatestAbout(i, kind, id) ==
  About(i, kind, id) /\ \A j \in DOMAIN ledger : About(j, kind, id) => j <= i

(* Whoever has been spoken about has a last event about it: this carries   *)
(* the existence of the maximum that LatestState chooses.                  *)
LatestExists ==
  \A k \in DOMAIN ledger : ledger[k].kind \in LifecycleKinds =>
    \E i \in DOMAIN ledger : LatestAbout(i, ledger[k].kind, ledger[k].rec.id)

(* An authorization is recorded only with its reference.                   *)
AuthorizationsReferenced ==
  \A i \in DOMAIN ledger :
    (ledger[i].kind = "external_action" /\ ledger[i].rec.state = "AUTHORIZED")
    => ledger[i].rec.authorized

(* The last event about a subject is the one LatestState reads.            *)
LEMMA LatestStateIs ==
  ASSUME TypeOK, NEW kind, NEW id, NEW m, LatestAbout(m, kind, id)
  PROVE  LatestState(ledger, kind, id) = ledger[m].rec.state
<1> DEFINE earlier == {i \in DOMAIN ledger : ledger[i].kind = kind /\ ledger[i].rec.id = id}
           c == CHOOSE i \in earlier : \A j \in earlier : j <= i
<1>1. m \in earlier /\ \A j \in earlier : j <= m
  BY DEF LatestAbout, About
<1>2. c \in earlier /\ \A j \in earlier : j <= c
  BY <1>1
<1>3. earlier \subseteq Nat
  BY DEF TypeOK
<1>4. c = m
  <2> HIDE DEF c, earlier
  <2> QED BY <1>1, <1>2, <1>3
<1>5. earlier # {}
  BY <1>1
<1> QED BY <1>4, <1>5 DEF LatestState

(* A subject nothing was recorded about is new.                            *)
LEMMA NoneIsNew ==
  ASSUME TypeOK, NEW kind, NEW id, \A i \in DOMAIN ledger : ~ About(i, kind, id)
  PROVE  LatestState(ledger, kind, id) = "NEW"
  BY DEF LatestState, About

(* Nobody is spoken about in a ledger of a genesis only.                   *)
LEMMA LatestInit == Init => LatestExists
  BY DEF Init, LatestExists, GenesisEvent, Event, LifecycleKinds

(* After an event is appended, it is the last about its subject, and every *)
(* other subject keeps its last event.                                     *)
LEMMA LatestNext ==
  ASSUME TypeOK, LatestExists, [Next]_vars
  PROVE  LatestExists'
<1>1. CASE UNCHANGED <<world, ledger, trace>>
  BY <1>1 DEF LatestExists, LatestAbout, About
<1>2. ASSUME NEW e \in Events, Len(ledger) \in Nat \ {0},
             DOMAIN ledger = 1..Len(ledger), DOMAIN ledger' = 1..(Len(ledger) + 1),
             \A i \in 1..Len(ledger) : ledger'[i] = ledger[i],
             ledger'[Len(ledger) + 1] = e
      PROVE  LatestExists'
  <2>0. PICK n \in Nat \ {0} : n = Len(ledger)
    BY <1>2
  <2> SUFFICES ASSUME NEW k \in 1..(n + 1), ledger'[k].kind \in LifecycleKinds
               PROVE  \E i \in 1..(n + 1) :
                        LatestAbout(i, ledger[k].kind, ledger[k].rec.id)'
    BY <1>2, <2>0 DEF LatestExists
  <2>1. CASE e.kind = ledger'[k].kind /\ e.rec.id = ledger'[k].rec.id
    <3>1. LatestAbout(n + 1, ledger[k].kind, ledger[k].rec.id)'
      BY <1>2, <2>0, <2>1 DEF LatestAbout, About
    <3> QED BY <1>2, <2>0, <3>1
  <2>2. CASE ~ (e.kind = ledger'[k].kind /\ e.rec.id = ledger'[k].rec.id)
    <3>1. k \in 1..n /\ ledger'[k] = ledger[k]
      BY <1>2, <2>0, <2>2
    <3>2. PICK i \in 1..n : LatestAbout(i, ledger[k].kind, ledger[k].rec.id)
      BY <1>2, <2>0, <3>1 DEF LatestExists
    <3>3. LatestAbout(i, ledger[k].kind, ledger[k].rec.id)'
      BY <1>2, <2>0, <2>2, <3>1, <3>2 DEF LatestAbout, About
    <3> QED BY <1>2, <2>0, <3>3
  <2> QED BY <2>1, <2>2
<1> QED BY <1>1, <1>2, StepEffect DEF vars

(* An approval that was rejected or revoked, and an action that completed, *)
(* failed or was cancelled, is never spoken about again under its id.      *)
THEOREM EndedStaysEnded == Spec => []TerminalIsFinal
<1>1. Init => TerminalIsFinal
  BY DEF Init, TerminalIsFinal, GenesisEvent, Event
<1>2. ASSUME TypeOK, TerminalIsFinal, [Next]_vars
      PROVE  TerminalIsFinal'
  <2>1. CASE UNCHANGED <<world, ledger, trace>>
    BY <1>2, <2>1 DEF TerminalIsFinal
  <2>2. ASSUME NEW e \in Events, NEW entry \in TraceEntries, Appends(e, entry),
               Len(ledger) \in Nat \ {0},
               DOMAIN ledger = 1..Len(ledger), DOMAIN ledger' = 1..(Len(ledger) + 1),
               \A i \in 1..Len(ledger) : ledger'[i] = ledger[i],
               ledger'[Len(ledger) + 1] = e
        PROVE  TerminalIsFinal'
    <3> SUFFICES ASSUME NEW i \in 1..(Len(ledger) + 1), NEW j \in 1..(Len(ledger) + 1),
                        i < j, ledger'[i].kind \in LifecycleKinds,
                        ledger'[j].kind = ledger'[i].kind,
                        ledger'[j].rec.id = ledger'[i].rec.id,
                        ledger'[i].rec.state \in Terminal
                 PROVE  FALSE
      BY <2>2 DEF TerminalIsFinal, LifecycleKinds
    <3>1. i \in 1..Len(ledger) /\ ledger'[i] = ledger[i]
      BY <2>2
    <3>2. CASE j \in 1..Len(ledger)
      BY <1>2, <2>2, <3>1, <3>2 DEF TerminalIsFinal, LifecycleKinds
    <3>3. CASE j = Len(ledger) + 1
      <4>1. LatestAbout(i, e.kind, e.rec.id)
        BY <1>2, <2>2, <3>1, <3>3 DEF LatestAbout, About, TerminalIsFinal, LifecycleKinds
      <4>2. LatestState(ledger, e.kind, e.rec.id) \in Terminal
        BY <1>2, <3>1, <4>1, LatestStateIs
      <4>3. e.kind \in LifecycleKinds
        BY <2>2, <3>1, <3>3
      <4>4. e.rec.record_type = e.kind /\ LifecycleAllows(ledger, e.rec)
        BY <2>2, <4>3 DEF Appends, CanAppend, EventFits, LifecycleKinds, CausalKinds
      <4> QED BY <4>2, <4>3, <4>4
            DEF LifecycleAllows, ApprovalTransition, ActionTransition, Terminal, LifecycleKinds
    <3> QED BY <2>2, <3>2, <3>3
  <2> QED BY <1>2, <2>1, <2>2, StepEffect DEF vars
<1> QED BY <1>1, <1>2, TypeCorrect, PTL DEF Spec

(* Every external action recorded as started, completed or failed was      *)
(* recorded as authorized, with its reference, before.                     *)
THEOREM WorkAlwaysAuthorized == Spec => []WorkFollowsAuthorization
<1> DEFINE IInv == LatestExists /\ AuthorizationsReferenced /\ WorkFollowsAuthorization
<1>1. Init => IInv
  BY LatestInit DEF Init, AuthorizationsReferenced, WorkFollowsAuthorization,
                    GenesisEvent, Event
<1>2. ASSUME TypeOK, IInv, [Next]_vars
      PROVE  IInv'
  <2>1. LatestExists'
    BY <1>2, LatestNext
  <2>2. CASE UNCHANGED <<world, ledger, trace>>
    BY <1>2, <2>1, <2>2 DEF AuthorizationsReferenced, WorkFollowsAuthorization
  <2>3. ASSUME NEW e \in Events, NEW entry \in TraceEntries, Appends(e, entry),
               Len(ledger) \in Nat \ {0},
               DOMAIN ledger = 1..Len(ledger), DOMAIN ledger' = 1..(Len(ledger) + 1),
               \A i \in 1..Len(ledger) : ledger'[i] = ledger[i],
               ledger'[Len(ledger) + 1] = e
        PROVE  AuthorizationsReferenced' /\ WorkFollowsAuthorization'
    <3> DEFINE n == Len(ledger)
               previous == LatestState(ledger, e.kind, e.rec.id)
               Working == {"STARTED", "COMPLETED", "FAILED"}
    <3>1. e.kind = "external_action" => ActionTransition(previous, e.rec)
      BY <2>3 DEF Appends, CanAppend, EventFits, LifecycleAllows, CausalKinds
    <3>2. AuthorizationsReferenced'
      <4>1. (e.kind = "external_action" /\ e.rec.state = "AUTHORIZED") => e.rec.authorized
        BY <3>1 DEF ActionTransition
      <4> QED BY <1>2, <2>3, <4>1 DEF AuthorizationsReferenced
    <3>3. ASSUME NEW j \in 1..n, ledger[j].kind = "external_action",
                 ledger[j].rec.state \in Working
          PROVE  \E i \in 1..(j-1) :
                    /\ ledger'[i].kind = "external_action"
                    /\ ledger'[i].rec.id = ledger[j].rec.id
                    /\ ledger'[i].rec.state = "AUTHORIZED" /\ ledger'[i].rec.authorized
      <4>1. PICK i \in 1..(j-1) :
                    /\ ledger[i].kind = "external_action"
                    /\ ledger[i].rec.id = ledger[j].rec.id
                    /\ ledger[i].rec.state = "AUTHORIZED" /\ ledger[i].rec.authorized
        BY <1>2, <2>3, <3>3 DEF WorkFollowsAuthorization
      <4>2. ledger'[i] = ledger[i]
        BY <2>3
      <4> QED BY <4>1, <4>2
    <3>4. ASSUME e.kind = "external_action", e.rec.state \in Working
          PROVE  \E i \in 1..n :
                    /\ ledger'[i].kind = "external_action"
                    /\ ledger'[i].rec.id = e.rec.id
                    /\ ledger'[i].rec.state = "AUTHORIZED" /\ ledger'[i].rec.authorized
      <4>1. previous \in {"AUTHORIZED", "STARTED"}
        BY <3>1, <3>4 DEF ActionTransition
      <4>2. PICK k \in 1..n : About(k, e.kind, e.rec.id)
        BY <1>2, <2>3, <4>1, NoneIsNew
      <4>3. PICK m \in 1..n : LatestAbout(m, e.kind, e.rec.id)
        BY <1>2, <2>3, <3>4, <4>2 DEF LatestExists, About, LifecycleKinds
      <4>4. previous = ledger[m].rec.state /\ ledger'[m] = ledger[m]
            /\ ledger[m].kind = e.kind /\ ledger[m].rec.id = e.rec.id
        BY <1>2, <2>3, <4>3, LatestStateIs DEF LatestAbout, About
      <4>5. CASE previous = "AUTHORIZED"
        BY <1>2, <2>3, <3>4, <4>4, <4>5 DEF AuthorizationsReferenced
      <4>6. CASE previous = "STARTED"
        <5>1. PICK i \in 1..(m-1) :
                    /\ ledger'[i].kind = "external_action"
                    /\ ledger'[i].rec.id = ledger[m].rec.id
                    /\ ledger'[i].rec.state = "AUTHORIZED" /\ ledger'[i].rec.authorized
          BY <3>3, <3>4, <4>4, <4>6
        <5> QED BY <4>4, <5>1
      <4> QED BY <4>1, <4>5, <4>6
    <3>5. WorkFollowsAuthorization'
      <4> SUFFICES ASSUME NEW j \in 1..(n + 1), ledger'[j].kind = "external_action",
                          ledger'[j].rec.state \in Working
                   PROVE  \E i \in 1..(j-1) :
                            /\ ledger'[i].kind = "external_action"
                            /\ ledger'[i].rec.id = ledger'[j].rec.id
                            /\ ledger'[i].rec.state = "AUTHORIZED"
                            /\ ledger'[i].rec.authorized
        BY <2>3 DEF WorkFollowsAuthorization
      <4>1. CASE j \in 1..n
        BY <2>3, <3>3, <4>1
      <4>2. CASE j = n + 1
        BY <2>3, <3>4, <4>2
      <4> QED BY <2>3, <4>1, <4>2
    <3> QED BY <3>2, <3>5
  <2> QED BY <1>2, <2>1, <2>2, <2>3, StepEffect DEF vars
<1>3. Spec => []IInv
  BY <1>1, <1>2, TypeCorrect, PTL DEF Spec
<1> QED BY <1>3, PTL

-----------------------------------------------------------------------------
(* Reading the ledger back *)

(* Appending leaves every prefix of a sequence as it was.                  *)
LEMMA PrefixOfAppend ==
  ASSUME NEW S, NEW s \in Seq(S), NEW e \in S, NEW k \in 0..Len(s)
  PROVE  SubSeq(Append(s, e), 1, k) = SubSeq(s, 1, k)
<1>1. /\ Append(s, e) \in Seq(S) /\ Len(Append(s, e)) = Len(s) + 1
      /\ \A i \in 1..Len(s) : Append(s, e)[i] = s[i]
  BY AppendFacts
<1>2. /\ SubSeq(s, 1, k) \in Seq(S) /\ Len(SubSeq(s, 1, k)) = k
      /\ \A i \in 1..k : SubSeq(s, 1, k)[i] = s[i]
  OBVIOUS
<1>3. /\ SubSeq(Append(s, e), 1, k) \in Seq(S) /\ Len(SubSeq(Append(s, e), 1, k)) = k
      /\ \A i \in 1..k : SubSeq(Append(s, e), 1, k)[i] = Append(s, e)[i]
  BY <1>1
<1>4. \A i \in 1..k : SubSeq(Append(s, e), 1, k)[i] = SubSeq(s, 1, k)[i]
  BY <1>1, <1>2, <1>3
<1> QED BY <1>2, <1>3, <1>4, SeqEqual

(* What a session appends, validate() accepts when the chain is read back. *)
LEMMA ReadableAppend ==
  ASSUME ledger \in Seq(Events), ValidLedger(ledger),
         NEW e \in Events, NEW entry, Appends(e, entry)
  PROVE  ValidLedger(ledger')
<1>1. /\ Len(ledger) \in Nat \ {0} /\ Len(ledger) < MaxEvents
      /\ ledger' = Append(ledger, e) /\ EventFits(e)
  BY LimitAssumption DEF Appends, CanAppend, ValidLedger
<1>2. /\ Len(ledger') = Len(ledger) + 1
      /\ \A i \in 1..Len(ledger) : ledger'[i] = ledger[i]
      /\ ledger'[Len(ledger) + 1] = e
  BY <1>1, AppendFacts
<1>3. /\ Len(ledger') \in 1..MaxEvents /\ ledger'[1] = ledger[1]
  BY <1>1, <1>2, LimitAssumption
<1>4. ASSUME NEW i \in 2..(Len(ledger) + 1)
      PROVE  /\ ledger'[i].prior = ledger'[i-1].result
             /\ EventFits(ledger'[i])
             /\ ledger'[i].kind \in CausalKinds =>
                  LifecycleAllows(SubSeq(ledger', 1, i-1), ledger'[i].rec)
  <2>1. SubSeq(ledger', 1, i-1) = SubSeq(ledger, 1, i-1)
    BY <1>1, PrefixOfAppend
  <2>2. CASE i \in 2..Len(ledger)
    <3>1. ledger'[i] = ledger[i] /\ ledger'[i-1] = ledger[i-1]
      BY <1>2, <2>2
    <3> QED BY <2>1, <2>2, <3>1 DEF ValidLedger
  <2>3. CASE i = Len(ledger) + 1
    <3>1. ledger'[i] = e /\ ledger'[i-1] = ledger[Len(ledger)]
      BY <1>1, <1>2, <2>3
    <3>2. SubSeq(ledger, 1, i-1) = ledger
      BY <1>1, <2>3
    <3>3. /\ e.prior = ledger[Len(ledger)].result
          /\ e.kind \in CausalKinds => LifecycleAllows(ledger, e.rec)
      BY DEF Appends, LedgerHead
    <3> QED BY <1>1, <2>1, <3>1, <3>2, <3>3
  <2> QED BY <1>1, <2>2, <2>3
<1> QED BY <1>2, <1>3, <1>4 DEF ValidLedger

(* A chain of one genesis event is readable.                               *)
LEMMA ReadableGenesis ==
  ASSUME NEW w \in Worlds
  PROVE  ValidLedger(<<GenesisEvent(w)>>)
<1> DEFINE led == <<GenesisEvent(w)>>
<1>1. Len(led) = 1 /\ led[1] = GenesisEvent(w)
  OBVIOUS
<1>2. /\ led[1].kind = "genesis" /\ led[1].prior = led[1].result
      /\ led[1].verification # "absent" /\ led[1].error = "none"
  BY <1>1 DEF GenesisEvent, Event
<1> HIDE DEF led
<1> QED BY <1>1, <1>2, LimitAssumption DEF ValidLedger, led

(* Every ledger a session builds is one that validate() accepts: a saved   *)
(* session can always be read back.                                        *)
THEOREM LedgerAlwaysReadable == Spec => []LedgerStaysReadable
<1>1. Init => LedgerStaysReadable
  BY ReadableGenesis, GenesisAssumption DEF Init, LedgerStaysReadable
<1>2. ASSUME TypeOK, LedgerStaysReadable, [Next]_vars
      PROVE  LedgerStaysReadable'
  <2>1. CASE UNCHANGED <<world, ledger, trace>>
    BY <1>2, <2>1 DEF LedgerStaysReadable, ValidLedger
  <2>2. ASSUME NEW e \in Events, NEW entry \in TraceEntries, Appends(e, entry)
        PROVE  LedgerStaysReadable'
    <3>1. ValidLedger(ledger')
      BY <1>2, <2>2, ReadableAppend DEF TypeOK, LedgerStaysReadable
    <3> QED BY <3>1 DEF LedgerStaysReadable, ValidLedger
  <2> QED BY <1>2, <2>1, <2>2, StepEffect DEF vars
<1> QED BY <1>1, <1>2, TypeCorrect, PTL DEF Spec

(* What one turn of replay_ledger's loop makes of the turn before it.      *)
ReplayStep(initial, prev, e) ==
  IF prev.ok /\ ReplaysFrom(prev.world, e)
    THEN [ok |-> TRUE, world |-> e.result]
    ELSE [ok |-> FALSE, world |-> initial]

ReplayFirst(initial, events) == [ok |-> events[1] = GenesisEvent(initial), world |-> initial]

(* The sequence of worlds the loop passes through.                         *)
ReplaysThrough(reached, initial, events) ==
  /\ reached[1] = ReplayFirst(initial, events)
  /\ \A i \in 2..Len(events) :
       reached[i] = ReplayStep(initial, reached[i-1], events[i])

(* replay_ledger's loop is well defined: there is the sequence of worlds   *)
(* it passes through, and it returns the last of them.                     *)
LEMMA ReplayDefined ==
  ASSUME NEW initial, NEW events, Len(events) \in Nat \ {0}
  PROVE  \E reached : /\ ReplayLedger(initial, events) = reached[Len(events)]
                      /\ ReplaysThrough(reached, initial, events)
<1> DEFINE n == Len(events)
           Defining(f, k) == f = [i \in 1..k |->
                                   IF i = 1 THEN ReplayFirst(initial, events)
                                            ELSE ReplayStep(initial, f[i-1], events[i])]
           Defined == {k \in 0..n : \E f : Defining(f, k)}
<1>1. 0 \in Defined
  <2>1. Defining([i \in 1..0 |-> 0], 0) /\ 0 \in 0..n
    OBVIOUS
  <2> HIDE DEF Defining
  <2> QED BY <2>1
<1>2. ASSUME NEW k \in 0..(n - 1), k \in Defined
      PROVE  k + 1 \in Defined
  <2>1. PICK f : Defining(f, k)
    BY <1>2
  <2> DEFINE next == IF k = 0 THEN ReplayFirst(initial, events)
                              ELSE ReplayStep(initial, f[k], events[k + 1])
             g == [i \in 1..(k + 1) |-> IF i = k + 1 THEN next ELSE f[i]]
  <2>2. \A i \in 1..(k + 1) :
          g[i] = IF i = 1 THEN ReplayFirst(initial, events)
                          ELSE ReplayStep(initial, g[i-1], events[i])
    <3> SUFFICES ASSUME NEW i \in 1..(k + 1)
                 PROVE  g[i] = IF i = 1 THEN ReplayFirst(initial, events)
                                        ELSE ReplayStep(initial, g[i-1], events[i])
      OBVIOUS
    <3>1. CASE i = k + 1
      <4>1. g[i] = next
        BY <3>1
      <4>2. CASE k = 0
        BY <3>1, <4>1, <4>2
      <4>3. CASE k # 0
        <5>1. g[i-1] = f[k]
          BY <3>1, <4>3
        <5> QED BY <3>1, <4>1, <4>3, <5>1
      <4> QED BY <4>2, <4>3
    <3>2. CASE i # k + 1
      <4>1. i \in 1..k /\ g[i] = f[i] /\ (i # 1 => g[i-1] = f[i-1])
        BY <3>2
      <4>2. f[i] = IF i = 1 THEN ReplayFirst(initial, events)
                            ELSE ReplayStep(initial, f[i-1], events[i])
        BY <2>1, <4>1
      <4> QED BY <4>1, <4>2
    <3> QED BY <3>1, <3>2
  <2>3. Defining(g, k + 1) /\ k + 1 \in 0..n
    BY <2>2
  <2> QED BY <2>3
<1>3. n \in Nat /\ n \in Defined
  <2>1. n \in Nat /\ n \in 0..n
    OBVIOUS
  <2> HIDE DEF Defined, n
  <2> QED BY <1>1, <1>2, <2>1, InductionUpTo
<1> DEFINE reached == CHOOSE f : Defining(f, n)
<1>4. Defining(reached, n)
  BY <1>3
<1>5. ReplayLedger(initial, events) = reached[n]
  BY DEF ReplayLedger, ReplayFirst, ReplayStep
<1>6. ReplaysThrough(reached, initial, events)
  <2> HIDE DEF reached
  <2>1. \A i \in 1..n : reached[i] = IF i = 1 THEN ReplayFirst(initial, events)
                                     ELSE ReplayStep(initial, reached[i-1], events[i])
    BY <1>4
  <2> QED BY <2>1 DEF ReplaysThrough
<1> QED BY <1>5, <1>6

(* A ledger that opens on a world and whose every event can be run again   *)
(* from the world before it replays to the world its head describes.       *)
LEMMA ReplayMeaning ==
  ASSUME NEW initial, NEW events, Len(events) \in Nat \ {0},
         events[1] = GenesisEvent(initial),
         \A i \in 2..Len(events) : ReplaysFrom(events[i-1].result, events[i])
  PROVE  ReplayLedger(initial, events) = [ok |-> TRUE, world |-> LedgerHead(events).result]
<1>1. PICK reached : /\ ReplayLedger(initial, events) = reached[Len(events)]
                     /\ ReplaysThrough(reached, initial, events)
  BY ReplayDefined
<1> DEFINE n == Len(events)
           Right == {k \in 0..n : k # 0 => reached[k] = [ok |-> TRUE, world |-> events[k].result]}
<1>2. 0 \in Right
  OBVIOUS
<1>3. ASSUME NEW k \in 0..(n - 1), k \in Right
      PROVE  k + 1 \in Right
  <2>1. CASE k = 0
    <3>1. events[1].result = initial
      BY DEF GenesisEvent, Event
    <3>2. (events[1] = GenesisEvent(initial)) = TRUE
      OBVIOUS
    <3>3. reached[1] = [ok |-> TRUE, world |-> events[1].result]
      BY <1>1, <3>1, <3>2, Zenon DEF ReplaysThrough, ReplayFirst
    <3>4. k + 1 = 1 /\ 1 \in 0..n
      BY <2>1
    <3> QED BY <3>3, <3>4
  <2>2. CASE k # 0
    <3>1. k + 1 \in 2..n /\ reached[k] = [ok |-> TRUE, world |-> events[k].result]
      BY <1>3, <2>2
    <3>2. ReplaysFrom(events[k].result, events[k + 1])
      BY <3>1
    <3>3. reached[k + 1] = ReplayStep(initial, reached[k], events[k + 1])
      BY <1>1, <3>1 DEF ReplaysThrough
    <3>4. reached[k].ok /\ reached[k].world = events[k].result
      BY <3>1
    <3>5. reached[k + 1] = [ok |-> TRUE, world |-> events[k + 1].result]
      BY <3>2, <3>3, <3>4 DEF ReplayStep
    <3> QED BY <3>1, <3>5
  <2> QED BY <2>1, <2>2
<1>4. n \in Nat \ {0} /\ n \in Right
  <2>1. n \in Nat \ {0} /\ n \in 0..n
    OBVIOUS
  <2> HIDE DEF Right, n
  <2> QED BY <1>2, <1>3, <2>1, InductionUpTo
<1> QED BY <1>1, <1>4 DEF LedgerHead

(* A session's ledger opens with the genesis event of its own result.      *)
OpensWithGenesis == ledger[1] = GenesisEvent(ledger[1].result)

LEMMA AlwaysOpensWithGenesis == Spec => []OpensWithGenesis
<1>1. Init => OpensWithGenesis
  BY DEF Init, OpensWithGenesis, GenesisEvent, Event
<1>2. ASSUME TypeOK, OpensWithGenesis, [Next]_vars
      PROVE  OpensWithGenesis'
  <2>1. CASE UNCHANGED <<world, ledger, trace>>
    BY <1>2, <2>1 DEF OpensWithGenesis, GenesisEvent
  <2>2. ASSUME Len(ledger) \in Nat \ {0}, \A i \in 1..Len(ledger) : ledger'[i] = ledger[i]
        PROVE  OpensWithGenesis'
    BY <1>2, <2>2 DEF OpensWithGenesis, GenesisEvent
  <2> QED BY <1>2, <2>1, <2>2, StepEffect DEF vars
<1> QED BY <1>1, <1>2, TypeCorrect, PTL DEF Spec

(* replay_ledger, given the genesis world and the ledger of a session,     *)
(* returns the session's world, whatever the session was asked to do.      *)
THEOREM ReplayAlwaysReturnsSession == Spec => []ReplayReturnsSession
<1>1. ASSUME TypeOK, OpensWithGenesis, Reproducible, HeadDescribesWorld
      PROVE  ReplayReturnsSession
  <2>1. Len(ledger) \in Nat \ {0}
    BY <1>1, LimitAssumption DEF TypeOK
  <2>2. /\ ledger[1] = GenesisEvent(ledger[1].result)
        /\ \A i \in 2..Len(ledger) : ReplaysFrom(ledger[i-1].result, ledger[i])
    BY <1>1 DEF OpensWithGenesis, Reproducible
  <2>3. ReplayLedger(ledger[1].result, ledger) = [ok |-> TRUE, world |-> LedgerHead(ledger).result]
    BY <2>1, <2>2, ReplayMeaning
  <2> QED BY <1>1, <2>3 DEF ReplayReturnsSession, HeadDescribesWorld
<1> QED BY <1>1, TypeCorrect, AlwaysOpensWithGenesis, EveryEventReproducible,
           HeadAlwaysDescribesWorld, PTL

-----------------------------------------------------------------------------
(* The executor's operations *)

(* What one step of a composite makes of the belief before it.             *)
ApplyNext(b, s) == IF b.error # "none" THEN b ELSE ApplyStep(b, s)

(* The beliefs a composite passes through.                                 *)
AppliesThrough(after, w, t) ==
  /\ after[0] = Applied(w.mean, w.exact)
  /\ \A i \in 1..Len(t) : after[i] = ApplyNext(after[i-1], t[i])

(* Applying a composite is well defined: there is the sequence of beliefs  *)
(* it passes through, and its result is the last of them.                  *)
LEMMA ApplyDefined ==
  ASSUME NEW w, NEW t, Len(t) \in Nat
  PROVE  \E after : Apply(w, t) = after[Len(t)] /\ AppliesThrough(after, w, t)
<1> DEFINE n == Len(t)
           Defining(f, k) == f = [i \in 0..k |-> IF i = 0 THEN Applied(w.mean, w.exact)
                                                ELSE ApplyNext(f[i-1], t[i])]
           Defined == {k \in 0..n : \E f : Defining(f, k)}
<1>1. 0 \in Defined
  <2>1. Defining([i \in 0..0 |-> Applied(w.mean, w.exact)], 0) /\ 0 \in 0..n
    OBVIOUS
  <2> HIDE DEF Defining
  <2> QED BY <2>1
<1>2. ASSUME NEW k \in 0..(n - 1), k \in Defined
      PROVE  k + 1 \in Defined
  <2>1. PICK f : Defining(f, k)
    BY <1>2
  <2> DEFINE g == [i \in 0..(k + 1) |->
                    IF i = k + 1 THEN ApplyNext(f[k], t[k + 1]) ELSE f[i]]
  <2>2. \A i \in 0..(k + 1) :
          g[i] = IF i = 0 THEN Applied(w.mean, w.exact) ELSE ApplyNext(g[i-1], t[i])
    <3> SUFFICES ASSUME NEW i \in 0..(k + 1)
                 PROVE  g[i] = IF i = 0 THEN Applied(w.mean, w.exact)
                                        ELSE ApplyNext(g[i-1], t[i])
      OBVIOUS
    <3>1. CASE i = k + 1
      <4>1. g[i] = ApplyNext(f[k], t[k + 1]) /\ g[i-1] = f[k]
        BY <3>1
      <4> QED BY <3>1, <4>1
    <3>2. CASE i # k + 1
      <4>1. i \in 0..k /\ g[i] = f[i] /\ (i # 0 => g[i-1] = f[i-1])
        BY <3>2
      <4>2. f[i] = IF i = 0 THEN Applied(w.mean, w.exact) ELSE ApplyNext(f[i-1], t[i])
        BY <2>1, <4>1
      <4> QED BY <4>1, <4>2
    <3> QED BY <3>1, <3>2
  <2>3. Defining(g, k + 1) /\ k + 1 \in 0..n
    BY <2>2
  <2> QED BY <2>3
<1>3. n \in Nat /\ n \in Defined
  <2>1. n \in Nat /\ n \in 0..n
    OBVIOUS
  <2> HIDE DEF Defined, n
  <2> QED BY <1>1, <1>2, <2>1, InductionUpTo
<1> DEFINE after == CHOOSE f : Defining(f, n)
<1>4. Defining(after, n)
  BY <1>3
<1>5. Apply(w, t) = after[n]
  BY DEF Apply, ApplyNext
<1>6. AppliesThrough(after, w, t)
  <2> HIDE DEF after
  <2>1. \A i \in 0..n : after[i] = IF i = 0 THEN Applied(w.mean, w.exact)
                                   ELSE ApplyNext(after[i-1], t[i])
    BY <1>4
  <2> QED BY <2>1 DEF AppliesThrough
<1> QED BY <1>5, <1>6

(* The first steps of a composite lead where they lead on their own.       *)
LEMMA FirstStepsAlone ==
  ASSUME NEW w, NEW t, NEW u, NEW after, NEW other,
         Len(t) \in Nat, Len(u) \in 0..Len(t), \A i \in 1..Len(u) : t[i] = u[i],
         AppliesThrough(after, w, t), AppliesThrough(other, w, u)
  PROVE  after[Len(u)] = other[Len(u)]
<1> DEFINE n == Len(u)
           Same == {k \in 0..n : after[k] = other[k]}
<1>1. 0 \in Same
  BY DEF AppliesThrough
<1>2. ASSUME NEW k \in 0..(n - 1), k \in Same
      PROVE  k + 1 \in Same
  <2>1. k + 1 \in 1..n /\ k + 1 \in 1..Len(t) /\ k + 1 \in 1..Len(u) /\ (k + 1) - 1 = k
    OBVIOUS
  <2>2. after[k + 1] = ApplyNext(after[k], t[k + 1])
    BY <2>1 DEF AppliesThrough
  <2>3. other[k + 1] = ApplyNext(other[k], u[k + 1])
    BY <2>1 DEF AppliesThrough
  <2> QED BY <1>2, <2>1, <2>2, <2>3
<1>3. n \in Same
  <2>1. n \in Nat /\ n \in 0..n
    OBVIOUS
  <2> HIDE DEF Same, n
  <2> QED BY <1>1, <1>2, <2>1, InductionUpTo
<1> QED BY <1>3

(* An error stays: a composite that ends without one has had none on the   *)
(* way.                                                                    *)
LEMMA NoErrorOnTheWay ==
  ASSUME NEW w, NEW t, NEW after, Len(t) \in Nat, AppliesThrough(after, w, t),
         after[Len(t)].error = "none"
  PROVE  \A i \in 0..Len(t) : after[i].error = "none"
<1> DEFINE n == Len(t)
           Clean == {k \in 0..n : after[n - k].error = "none"}
<1>1. 0 \in Clean
  OBVIOUS
<1>2. ASSUME NEW k \in 0..(n - 1), k \in Clean
      PROVE  k + 1 \in Clean
  <2> DEFINE i == n - k
  <2>1. i \in 1..n /\ n - (k + 1) = i - 1 /\ k + 1 \in 0..n
    OBVIOUS
  <2>2. after[i] = ApplyNext(after[i-1], t[i]) /\ after[i].error = "none"
    BY <1>2, <2>1 DEF AppliesThrough
  <2>3. after[i-1].error = "none"
    BY <2>2 DEF ApplyNext
  <2> QED BY <2>1, <2>3
<1>3. 0..n \subseteq Clean
  <2>1. n \in Nat
    OBVIOUS
  <2> HIDE DEF Clean, n
  <2> QED BY <1>1, <1>2, <2>1, InductionUpTo
<1>4. ASSUME NEW i \in 0..n PROVE after[i].error = "none"
  <2>1. n - i \in 0..n /\ n - (n - i) = i
    OBVIOUS
  <2> QED BY <1>3, <2>1
<1> QED BY <1>4

(* A linearized step that does not stop its composite was calibrated at    *)
(* the belief it conditions.                                               *)
LEMMA LinearizedAtItsBelief ==
  ASSUME NEW b, NEW s, s.op = "observe_linearized", b.error = "none",
         ApplyNext(b, s).error = "none"
  PROVE  s.expected = World(b)
<1>1. ApplyStep(b, s).error = "none"
  BY DEF ApplyNext
<1>2. s.var \in RawVars
  <2> SUFFICES ASSUME s.var \notin RawVars PROVE FALSE
    OBVIOUS
  <2>1. ApplyStep(b, s) = Stopped("BindingError")
    BY DEF ApplyStep
  <2> QED BY <1>1, <2>1 DEF Stopped
<1>3. s.expected # World(b) => ApplyStep(b, s) = Stopped("BindingError")
  BY <1>2 DEF ApplyStep
<1> QED BY <1>1, <1>3 DEF Stopped

(* What execute commits has been calibrated against the world it was run   *)
(* from, step by step.                                                     *)
LEMMA CommittedIsCalibrated ==
  ASSUME NEW w, NEW t, IsComposite(t),
         ExecuteOn(w, t).tag = "committed",
         NEW i \in DOMAIN t, t[i].op = "observe_linearized"
  PROVE  /\ t[i].expected = w
         /\ World(Apply(w, SubSeq(t, 1, i-1))) = w
<1> DEFINE n == Len(t)
<1>0. PICK u : u = SubSeq(t, 1, i-1)
  OBVIOUS
<1>1. n \in Nat /\ i \in 1..n /\ i - 1 \in 0..n
  BY DEF IsComposite
<1>2. Len(u) = i - 1 /\ \A j \in 1..(i-1) : t[j] = u[j]
  BY <1>0, <1>1 DEF IsComposite
<1>3. ProvenanceCurrent(w, t) /\ Apply(w, t).error = "none"
  BY DEF ExecuteOn, Stopped
<1>4. PICK after : Apply(w, t) = after[n] /\ AppliesThrough(after, w, t)
  BY <1>1, ApplyDefined
<1>5. PICK other : Apply(w, u) = other[Len(u)] /\ AppliesThrough(other, w, u)
  <2>1. Len(u) \in Nat
    BY <1>1, <1>2
  <2> QED BY <2>1, ApplyDefined
<1>6. after[i-1].error = "none" /\ after[i].error = "none"
  BY <1>1, <1>3, <1>4, NoErrorOnTheWay
<1>7. after[i] = ApplyNext(after[i-1], t[i])
  BY <1>1, <1>4 DEF AppliesThrough
<1>8. t[i].expected = World(after[i-1])
  BY <1>6, <1>7, LinearizedAtItsBelief
<1>9. after[i-1] = other[i-1]
  <2>1. Len(t) \in Nat /\ Len(u) \in 0..Len(t) /\ \A j \in 1..Len(u) : t[j] = u[j]
    BY <1>1, <1>2
  <2>2. after[Len(u)] = other[Len(u)]
    BY <1>4, <1>5, <2>1, FirstStepsAlone
  <2> QED BY <1>2, <2>2
<1>10. t[i].expected = w
  BY <1>3 DEF ProvenanceCurrent
<1> QED BY <1>0, <1>2, <1>5, <1>8, <1>9, <1>10

(* Where sessions run the engine: no committed operation has conditioned a *)
(* belief other than the one its likelihood was calibrated at, however     *)
(* deep in a composite the likelihood stands.                              *)
THEOREM LinearizationsAlwaysCurrent ==
  ASSUME RunsEngine
  PROVE  Spec => []NoStaleLinearization
<1>1. ASSUME TypeOK, OpensWithGenesis, Reproducible
      PROVE  NoStaleLinearization
  <2> SUFFICES ASSUME NEW k \in DOMAIN ledger, ledger[k].kind = "transition",
                      NEW i \in DOMAIN ledger[k].op,
                      ledger[k].op[i].op = "observe_linearized"
               PROVE  /\ ledger[k].op[i].expected = ledger[k].prior
                      /\ World(Apply(ledger[k].prior, SubSeq(ledger[k].op, 1, i-1)))
                           = ledger[k].prior
    BY DEF NoStaleLinearization
  <2> DEFINE e == ledger[k]
  <2>1. /\ Len(ledger) \in Nat \ {0} /\ k \in 1..Len(ledger)
        /\ e \in Events
    BY <1>1, LimitAssumption DEF TypeOK
  <2>2. k # 1
    BY <1>1 DEF OpensWithGenesis, GenesisEvent, Event
  <2>3. ReplaysFrom(ledger[k-1].result, e)
    BY <1>1, <2>1, <2>2 DEF Reproducible
  <2>4. Execute(e.prior, e.op).tag = "committed"
    BY <2>3 DEF ReplaysFrom, CausalKinds
  <2>5. e.prior \in Worlds /\ e.op \in Transformations
    BY <2>1 DEF Events, CausalKinds
  <2>6. ExecuteOn(e.prior, e.op).tag = "committed"
    BY <2>4, <2>5 DEF RunsEngine
  <2>7. IsComposite(e.op)
    BY <2>5 DEF RunsEngine
  <2> QED BY <2>6, <2>7, CommittedIsCalibrated
<1> QED BY <1>1, TypeCorrect, AlwaysOpensWithGenesis, EveryEventReproducible, PTL

-----------------------------------------------------------------------------
(* Refinement *)

Path == [i \in DOMAIN ledger |-> ledger[i].result]

(* Appending an event appends its result to the path.                      *)
LEMMA PathExtends ==
  ASSUME ledger \in Seq(Events), NEW e \in Events, ledger' = Append(ledger, e)
  PROVE  Path' = Append(Path, e.result)
<1>1. /\ ledger' \in Seq(Events) /\ Len(ledger) \in Nat /\ Len(ledger') = Len(ledger) + 1
      /\ DOMAIN ledger = 1..Len(ledger) /\ DOMAIN ledger' = 1..(Len(ledger) + 1)
      /\ \A i \in 1..Len(ledger) : ledger'[i] = ledger[i]
      /\ ledger'[Len(ledger) + 1] = e
  BY AppendFacts
<1>2. \A f \in Events : f.result \in Worlds
  BY DEF Events
<1>3. /\ Path \in Seq(Worlds) /\ Len(Path) = Len(ledger)
      /\ \A i \in 1..Len(ledger) : Path[i] = ledger[i].result
  BY <1>1, <1>2 DEF Path
<1>4. /\ Path' \in Seq(Worlds) /\ Len(Path') = Len(ledger) + 1
      /\ \A i \in 1..(Len(ledger) + 1) : Path'[i] = ledger'[i].result
  BY <1>1, <1>2 DEF Path
<1>5. /\ Append(Path, e.result) \in Seq(Worlds)
      /\ Len(Append(Path, e.result)) = Len(ledger) + 1
      /\ \A i \in 1..Len(ledger) : Append(Path, e.result)[i] = Path[i]
      /\ Append(Path, e.result)[Len(ledger) + 1] = e.result
  BY <1>2, <1>3, AppendFacts
<1>6. \A i \in 1..(Len(ledger) + 1) : Path'[i] = Append(Path, e.result)[i]
  BY <1>1, <1>3, <1>4, <1>5
<1> QED BY <1>4, <1>5, <1>6, SeqEqual

(* A session implements History: it moves its world only by committing an  *)
(* operation that executed to a verified world, and everything else it     *)
(* records is about a world that stays.                                    *)
THEOREM ImplementsHistory == Spec => HistorySpec
<1>1. Init => Hist!Init
  <2> SUFFICES ASSUME NEW w \in GenesisWorlds, world = w, ledger = <<GenesisEvent(w)>>
               PROVE  Path = <<w>>
    BY DEF Init, Hist!Init, Path
  <2>1. DOMAIN ledger = 1..1 /\ ledger[1].result = w
    BY DEF GenesisEvent, Event
  <2> QED BY <2>1 DEF Path
<1>2. ASSUME TypeOK, [Next]_vars
      PROVE  [Hist!Next]_<<world, Path>>
  <2>1. CASE UNCHANGED <<world, ledger, trace>>
    BY <2>1 DEF Path
  <2>2. ASSUME NEW e \in Events, NEW entry \in TraceEntries, Appends(e, entry)
        PROVE  Hist!Next
    <3>1. /\ ledger \in Seq(Events) /\ ledger' = Append(ledger, e)
          /\ e.prior = world /\ e.result = world' /\ ReplaysFrom(world, e)
      BY <1>2, <2>2 DEF TypeOK, Appends
    <3>2. Path' = Append(Path, world')
      BY <3>1, PathExtends
    <3>3. CASE e.kind = "transition"
      <4>1. /\ e.op \in Transformations /\ Passes(world')
            /\ Execute(world, e.op).tag = "committed" /\ Execute(world, e.op).world = world'
        BY <2>2, <3>1, <3>3 DEF Events, Appends, ReplaysFrom, CausalKinds
      <4> QED BY <3>2, <4>1 DEF Hist!Next, Hist!Commit, Path
    <3>4. CASE e.kind # "transition"
      <4>1. world' = world
        BY <2>2, <3>4 DEF Appends
      <4> QED BY <3>2, <4>1 DEF Hist!Next, Hist!Note, Path
    <3> QED BY <3>3, <3>4
  <2>3. UNCHANGED vars => UNCHANGED <<world, ledger, trace>>
    BY DEF vars
  <2> QED BY <1>2, <2>1, <2>2, <2>3, StepShape DEF TypeOK
<1>3. Path = [i \in DOMAIN ledger |-> ledger[i].result]
  BY DEF Path
<1> QED BY <1>1, <1>2, <1>3, TypeCorrect, PTL DEF Spec, HistorySpec, Hist!Spec, Path
=============================================================================
