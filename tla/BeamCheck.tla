----------------------------- MODULE BeamCheck -----------------------------
(***************************************************************************)
(* The bending check of a beam and what moves it: gat/engineering/beam.py, *)
(* assess_decision of gat/engine/decision.py, the evidence of              *)
(* gat/evidence.py and gat/engineering/material_certificate.py, the        *)
(* parameter changes of gat/engine/transform.py.                           *)
(*                                                                         *)
(* A world is the source its module names and an integer belief over the   *)
(* yield strength and the section modulus of each beam; a digest is what   *)
(* it is taken of.  Covariances keep what the check depends on: whether    *)
(* the strengths of two beams, or strength and section of one, go          *)
(* together.                                                               *)
(***************************************************************************)
EXTENDS Integers, FiniteSets

CONSTANT Beams

Raw == Beams \X {"fy", "z"}

None == [none |-> TRUE]

Fy(beam) == <<beam, "fy">>
Z(beam)  == <<beam, "z">>

(* The raw variables under DesignMomentCapacity, by the dependency graph.  *)
Dependencies(beam) == {Fy(beam), Z(beam)}

World(source, mean, cov) == [source |-> source, mean |-> mean, cov |-> cov]

-----------------------------------------------------------------------------
(* Transformations *)

(* ObserveQuantity with a noise as uncertain as the prior: half the gain.  *)
Observed(w, v, value) ==
  LET twice == 2 * w.cov[v][v]
  IN  [w EXCEPT
         !.mean = [u \in Raw |-> @[u] + (w.cov[u][v] * (value - w.mean[v])) \div twice],
         !.cov  = [t \in Raw |-> [u \in Raw |->
                     @[t][u] - (w.cov[t][v] * w.cov[u][v]) \div twice]]]

(* SetParameter: the variable is decided anew, apart from all others.      *)
Decided(w, v, value, variance) ==
  [w EXCEPT
     !.mean[v] = value,
     !.cov = [t \in Raw |-> [u \in Raw |->
                IF v \notin {t, u} THEN @[t][u]
                ELSE IF t = u THEN variance ELSE 0]]]

Shifted(w, v, delta) == [w EXCEPT !.mean[v] = @ + delta]

(* Sigma' = D Sigma D^T.                                                   *)
Scaled(w, v, factor) ==
  LET d(u) == IF u = v THEN factor ELSE 1
  IN  [w EXCEPT !.mean[v] = @ * factor,
                !.cov = [t \in Raw |-> [u \in Raw |-> d(t) * d(u) * @[t][u]]]]

Applied(w, t) ==
  CASE t.op = "observe"         -> Observed(w, t.target, t.value)
    [] t.op = "set_parameter"   -> Decided(w, t.target, t.value, t.variance)
    [] t.op = "shift_parameter" -> Shifted(w, t.target, t.delta)
    [] t.op = "scale_parameter" -> Scaled(w, t.target, t.factor)

(* run_invariants: strengths and sections are under NonNegative.           *)
Failures(w) == {v \in Raw : w.mean[v] < 0}

Passes(w) == Failures(w) = {}

-----------------------------------------------------------------------------
(* assess_decision, of the design capacity against a demand *)

CapacityMean(w, beam) == w.mean[Fy(beam)] * w.mean[Z(beam)]

(* First order: the row of the Jacobian on both sides of the covariance.   *)
CapacityVariance(w, beam) ==
  LET x == Fy(beam)  y == Z(beam)  a == w.mean[y]  b == w.mean[x]
  IN  a * a * w.cov[x][x] + 2 * a * b * w.cov[x][y] + b * b * w.cov[y][y]

(* A confidence is the number of sigmas it asks for, squared: a margin of  *)
(* that many sigmas is one the Gaussian satisfies, or violates, with it.   *)
Verdict(margin, variance, confidence) ==
  IF margin * margin < confidence * variance THEN "UNRESOLVED"
  ELSE IF margin >= 0 THEN "SATISFIED" ELSE "VIOLATED"

Assess(w, check) ==
  LET mean     == CapacityMean(w, check.beam)
      variance == CapacityVariance(w, check.beam)
  IN  [mean |-> mean, variance |-> variance,
       verdict |-> Verdict(mean - check.demand, variance, check.confidence)]

-----------------------------------------------------------------------------
(* BeamBendingEvaluator *)

(* Slip: each dependency by its own mean and sigma.                        *)
SliceOfMarginals(w, beam) ==
  [v \in Dependencies(beam) |-> <<w.mean[v], w.cov[v][v]>>]

(* _dependency_payload: the means and the block of the covariance.         *)
Slice(w, beam) ==
  LET rows == Dependencies(beam)
  IN  [mean |-> [v \in rows |-> w.mean[v]],
       cov  |-> [v \in rows |-> [u \in rows |-> w.cov[v][u]]]]

(* Model contract, validation profile, dependency payload.                 *)
Key(w, check) ==
  [model   |-> [module |-> w.source, subject |-> check.beam, demand |-> check.demand],
   profile |-> check.confidence,
   slice   |-> Slice(w, check.beam)]

(* The calculation a cache holds under a key, or the one made now; either  *)
(* way the result is bound to the world it was asked of.                   *)
Evaluation(cache, w, check) ==
  LET key == Key(w, check)
      hit == key \in DOMAIN cache
  IN  [check |-> check, world |-> w, recomputed |-> ~ hit,
       calculation |-> IF hit THEN cache[key] ELSE Assess(w, check)]

Remembered(cache, result) ==
  LET key == Key(result.world, result.check)
  IN  [k \in DOMAIN cache \cup {key} |->
         IF k = key THEN result.calculation ELSE cache[k]]

-----------------------------------------------------------------------------
(* explain_beam_decision_change *)

(* The raw variables of which a marginal differs, which is what            *)
(* preview_change tells of; here it would be a slip.                       *)
ChangedMarginals(before, after) ==
  {v \in Raw : \/ before.mean[v] # after.mean[v]
               \/ before.cov[v][v] # after.cov[v][v]}

(* The raw variables whose mean, sigma or row of the covariance differs.   *)
ChangedBeliefs(before, after) ==
  {v \in Raw : before.mean[v] # after.mean[v] \/ before.cov[v] # after.cov[v]}

(* Transition is the ExecutionResult handed in, [world, targets].          *)
MayExplain(before, after, subject, transition, prior, revised) ==
  /\ transition.world = after
  /\ prior.world = before
  /\ revised.world = after
  /\ subject \in transition.targets

Explanation(before, after, prior, revised) ==
  [prior |-> prior, revised |-> revised,
   changed |-> ChangedBeliefs(before, after),
   verdictChanged |-> prior.calculation.verdict # revised.calculation.verdict]
=============================================================================
