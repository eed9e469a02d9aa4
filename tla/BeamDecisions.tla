--------------------------- MODULE BeamDecisions ---------------------------
(***************************************************************************)
(* A session whose beams are checked as its belief moves                   *)
(* (gat/engineering/beam.py, used as gat/demo/beam_assurance.py and the    *)
(* headless runner use it): one evaluator is kept over all of its worlds,  *)
(* and results already held may be explained at any time.                  *)
(***************************************************************************)
EXTENDS BeamCheck, Sequences

CONSTANTS
  Genesis,      \* worlds a session may be loaded with
  Checks,       \* [beam, demand, confidence]
  Operations,   \* what the session may run
  MaxRuns,      \* bound of the model: transitions of the session
  MaxChecks     \* bound of the model: evaluations

ASSUME ChecksAssumption == \A check \in Checks : check.beam \in Beams

VARIABLES
  path,       \* ExecutionResults of the session, [world, targets]; first the load
  cache,      \* the evaluator's _cache
  results,    \* BeamCheckResults held
  change      \* the BeamDecisionChange last made

beamVars == <<path, cache, results, change>>

Now == path[Len(path)].world

BeamInit ==
  /\ \E w \in Genesis : path = <<[world |-> w, targets |-> {}]>>
  /\ cache = [k \in {} |-> None]
  /\ results = {} /\ change = None

(* session.run: a candidate that fails verification is not committed.      *)
Run(t) ==
  /\ Len(path) <= MaxRuns
  /\ Passes(Applied(Now, t))
  /\ path' = Append(path, [world |-> Applied(Now, t), targets |-> {t.target}])
  /\ UNCHANGED <<cache, results, change>>

(* evaluate, in any world the session went through.                        *)
EvaluateCheck(i, check) ==
  LET result == Evaluation(cache, path[i].world, check)
  IN  /\ Cardinality(results) < MaxChecks
      /\ results' = results \cup {result}
      /\ cache' = Remembered(cache, result)
      /\ UNCHANGED <<path, change>>

Explain(i, subject, prior, revised) ==
  /\ MayExplain(prior.world, revised.world, subject, path[i], prior, revised)
  /\ change' = Explanation(prior.world, revised.world, prior, revised)
  /\ UNCHANGED <<path, cache, results>>

BeamNext ==
  \/ \E t \in Operations : Run(t)
  \/ \E i \in DOMAIN path, check \in Checks : EvaluateCheck(i, check)
  \/ \E i \in DOMAIN path, v \in Raw, p, r \in results : Explain(i, v, p, r)

BeamSpec == BeamInit /\ [][BeamNext]_beamVars

-----------------------------------------------------------------------------
(* Properties *)

(* Whatever the session ran between two evaluations, and however often the *)
(* cache answered, a result is what a fresh assessment of the world it is  *)
(* bound to gives.                                                         *)
ResultsAreOfTheirWorlds ==
  \A r \in results : r.calculation = Assess(r.world, r.check)

(* "Exact causal explanation for a beam decision revision" (beam.py:150):  *)
(* where two results of one check differ, the explanation names a belief   *)
(* that the check depends on and that has changed.  (Nothing keeps a       *)
(* caller from handing in results of different checks.)                    *)
ChangesAreExplained ==
  (/\ change # None
   /\ change.prior.check = change.revised.check
   /\ change.prior.calculation # change.revised.calculation)
  => change.changed \cap Dependencies(change.revised.check.beam) # {}
=============================================================================
