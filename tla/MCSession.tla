----------------------------- MODULE MCSession -----------------------------
(***************************************************************************)
(* Small instances of EngineSession: a two-parameter module with a wall    *)
(* width w >= 0 that may not exceed its height h.                          *)
(***************************************************************************)
EXTENDS EngineSession, TLC

MCRawVars     == {"w", "h"}
MCNonNegative == {"w"}
MCLessEqual   == {<<"w", "h">>}

WorldOf(w, h, exact) == [mean |-> [w |-> w, h |-> h], exact |-> exact]

MCWorlds == {WorldOf(w, h, exact) : w \in 0..2, h \in 1..2, exact \in {{}, {"w"}}}

(* One world fails its invariants, one knows w exactly.                    *)
MCGenesisWorlds == {WorldOf(2, 1, {}), WorldOf(1, 1, {}), WorldOf(1, 2, {"w"}),
                    WorldOf(1, 2, {})}

SetP(v, value, sigma) == [op |-> "set_parameter", var |-> v, value |-> value, sigma |-> sigma]
Shift(v, delta)       == [op |-> "shift_parameter", var |-> v, delta |-> delta]
ScaleP(v, factor)     == [op |-> "scale_parameter", var |-> v, factor |-> factor]
Evolve(v, f, b, noisy) == [op |-> "evolve_linear_gaussian", var |-> v,
                           transition |-> f, offset |-> b, noisy |-> noisy]
Observe(v, value, noise) == [op |-> "observe_quantity", var |-> v, value |-> value, noise |-> noise]
Linearized(expected, v, value) == [op |-> "observe_linearized", expected |-> expected,
                                   var |-> v, value |-> value]

Calibrated == {WorldOf(1, 1, {}), WorldOf(0, 2, {})}

Single == {SetP("w", 0, "positive"), SetP("h", 2, "positive"), SetP("w", 1, "overflow"),
           SetP("w", 1, "infinite"), SetP("w", 1, "underflow"), Shift("w", 1), Shift("x", 1), ScaleP("w", -1),
           Evolve("w", 0, 1, FALSE), Evolve("w", 1, 1, TRUE),
           Observe("w", 2, "positive"), Observe("w", 0, "zero"), Observe("w", 0, "underflow"), Observe("h", 1, "overflow")}
       \cup {Linearized(c, "w", 2) : c \in Calibrated}

Composite == {<<SetP("h", 1, "positive"), Evolve("w", 0, 1, FALSE)>>,
              <<Shift("w", 2), Shift("w", -2)>>,
              <<Observe("w", 0, "positive"), Linearized(WorldOf(1, 1, {}), "w", 2)>>,
              <<Linearized(WorldOf(1, 1, {}), "w", 2), Linearized(WorldOf(0, 2, {}), "w", 2)>>,
              <<Evolve("w", 0, 1, FALSE), Observe("w", 1, "zero")>>}

MCTransformations == {<<s>> : s \in Single} \cup Composite

(* A session opened on the last world is asked for records besides, and to *)
(* run one operation that moves the world and one that is refused.  The    *)
(* others are asked for every operation, as long as three fit the ledger.  *)
FewTransformations == {<<Shift("w", 1)>>, <<ScaleP("w", -1)>>}
FewWorlds          == {WorldOf(w, 2, {}) : w \in {1, 2}}
FewRecords         == {rec \in CausalRecords : rec.world \in FewWorlds}
RecordsBesides     == ledger[1].result = WorldOf(1, 2, {})

CallRun(t) ==
  \/ \E provenanceOk \in BOOLEAN : \/ RunCommitted(t, provenanceOk)
                                  \/ RunRejected(t, provenanceOk)
                                  \/ RunUnrecorded(t, provenanceOk)
  \/ RunEscaped(t)

CallRecord(rec) ==
  \E provenanceOk \in BOOLEAN :
    RecordCausal(rec, provenanceOk) \/ RefuseCausal(rec, provenanceOk)

MCNext ==
  IF RecordsBesides
    THEN \/ \E t \in FewTransformations : CallRun(t)
         \/ \E rec \in FewRecords : CallRecord(rec)
    ELSE (\E t \in Transformations : CallRun(t)) /\ Len(ledger') <= 4

MCSpec == Init /\ [][MCNext]_vars

(* What the proofs about EngineSession assume of its constants.            *)
ASSUME MCRunsEngine == RunsEngine

RecordSymmetry == Permutations(RecordIds)
=============================================================================
