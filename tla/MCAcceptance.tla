---------------------------- MODULE MCAcceptance ----------------------------
(***************************************************************************)
(* Small instances of Acceptance: a route that must clear a wall a, beside *)
(* a duct b that must have a width of one unit.                            *)
(***************************************************************************)
EXTENDS Acceptance, TLC

MCRawVars     == {"a", "b"}
MCNonNegative == {"a", "b"}

WorldOf(a, b) == [mean |-> [a |-> a, b |-> b], exact |-> {}]
MCWorlds  == {WorldOf(a, b) : a \in 0..3, b \in 0..3}
MCGenesis == {WorldOf(1, 2), WorldOf(1, 3)}

Route == [kind |-> "clearance", elements |-> {"a"}, minimum |-> 1]
Width == [kind |-> "minimum", target |-> "b", minimum |-> 1]
MCChecks == {Route, Width}

Shift(v, delta) == RunOf(<<[op |-> "shift_parameter", var |-> v, delta |-> delta]>>, NoProvenance)
EachChange == {Shift("b", -1), Shift("a", -1)}
OneChange  == {Shift("b", -3)}
MCChanges  == EachChange \cup OneChange

MCTransformations == MCChanges \cup LikelihoodRuns
MCRecordIds       == OutcomeIds

Required   == [required |-> TRUE, kinds |-> {"scan"}]
MCPolicies == {Required, [required |-> FALSE, kinds |-> {"scan"}]}

(* The first scan was taken of a building whose duct sits low, the second  *)
(* of the one designed first; the third fits any world.                    *)
MCFits(scan, w) ==
  CASE scan = "s1" -> w.mean["b"] = 1
    [] scan = "s2" -> w.mean["b"] = 2
    [] scan = "s3" -> TRUE

(* From the first genesis, all that carriers and receipts can hold; from   *)
(* the second, where the duct is either wide enough or missing, the cases  *)
(* the process that holds the session evaluates and records.               *)
Assessing == ledger[1].result = WorldOf(1, 3)

MCNext ==
  IF Assessing
    THEN AcceptanceStep(OneChange, {"s3"}, {Required})
    ELSE EvidenceStep(EachChange, {"s1", "s2"}) /\ UNCHANGED <<assessed, outcome>>

MCSpec == AcceptanceInit /\ [][MCNext]_acceptanceVars
=============================================================================
