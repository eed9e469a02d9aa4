------------------------------- MODULE Engine -------------------------------
(***************************************************************************)
(* The transformation algebra of gat/engine/transform.py, dynamics.py and  *)
(* gaussian/condition.py under the propagate-and-verify contract of        *)
(* gat/engine/executor.py.                                                 *)
(*                                                                         *)
(* A world is its raw belief: integer means and, of the covariance, the    *)
(* set of raw variables known exactly (zero variance), which is what makes *)
(* an observation degenerate.  Derived quantities and correlations are the *)
(* subject of module Propagation.                                          *)
(***************************************************************************)
EXTENDS Integers, Sequences

CONSTANTS
  RawVars,        \* raw variables of the compiled module
  NonNegative,    \* raw variables under a NonNegative constraint
  LessEqual       \* pairs <<lhs, rhs>> under a LessEqual constraint

ASSUME EngineAssumption ==
  NonNegative \subseteq RawVars /\ LessEqual \subseteq RawVars \X RawVars

(* What applying steps has led to: a belief, or the error that stopped it. *)
Applied(mean, exact)  == [mean |-> mean, exact |-> exact, error |-> "none"]
Stopped(error)        == [mean |-> <<>>, exact |-> {}, error |-> error]

Moved(b, var, m, isExact) ==
  Applied([b.mean EXCEPT ![var] = m],
          IF isExact THEN b.exact \cup {var} ELSE b.exact \ {var})

(* condition(): the posterior of a scalar observation of one raw variable. *)
(* The gain of a noisy observation is modelled as one half.  A variable    *)
(* already known exactly does not move, and observing it exactly again     *)
(* makes the innovation covariance singular.  The square of a tiny sigma   *)
(* underflows to zero: what looks noisy is then exact.                     *)
Condition(b, var, value, noise) ==
  IF noise \in {"zero", "underflow"}
    THEN IF var \in b.exact THEN Stopped("ConditioningError")
                            ELSE Moved(b, var, value, TRUE)
    ELSE IF var \in b.exact THEN b
         ELSE Moved(b, var, (b.mean[var] + value) \div 2, FALSE)

World(b) == [mean |-> b.mean, exact |-> b.exact]

(* One step of the algebra.  Squaring an enormous noise or design sigma    *)
(* raises OverflowError, which is not a GatError; an infinite design sigma *)
(* leaves a covariance that GaussianState refuses.                         *)
ApplyStep(b, s) ==
  IF s.var \notin RawVars THEN Stopped("BindingError")
  ELSE CASE s.op = "set_parameter" ->
              (CASE s.sigma = "overflow" -> Stopped("escaped")
                 [] s.sigma = "infinite" -> Stopped("NumericalError")
                 [] OTHER -> Moved(b, s.var, s.value, s.sigma = "underflow"))
         [] s.op = "shift_parameter" ->
              Moved(b, s.var, b.mean[s.var] + s.delta, s.var \in b.exact)
         [] s.op = "scale_parameter" ->
              Moved(b, s.var, b.mean[s.var] * s.factor, s.var \in b.exact)
         [] s.op = "evolve_linear_gaussian" ->
              Moved(b, s.var, b.mean[s.var] * s.transition + s.offset,
                    ~ s.noisy /\ (s.var \in b.exact \/ s.transition = 0))
         [] s.op = "observe_quantity" ->
              IF s.noise = "overflow" THEN Stopped("escaped")
                                      ELSE Condition(b, s.var, s.value, s.noise)
         [] s.op = "observe_linearized" ->
              IF s.expected # World(b) THEN Stopped("BindingError")
                                       ELSE Condition(b, s.var, s.value, "positive")

(* CompositeTransformation.apply: the steps in order, each from the belief *)
(* the one before it left.  A single operation is a composite of one step. *)
Apply(w, t) ==
  LET after[i \in 0..Len(t)] ==
        IF i = 0 THEN Applied(w.mean, w.exact)
        ELSE IF after[i-1].error # "none" THEN after[i-1]
        ELSE ApplyStep(after[i-1], t[i])
  IN  after[Len(t)]

(* Slip: a linearized step is looked for at the top only.                  *)
ProvenanceCurrentAtTop(w, t) ==
  Len(t) = 1 /\ t[1].op = "observe_linearized" => t[1].expected = w

(* _assert_observation_provenance: every linearized step, however deep,    *)
(* must have been calibrated against this exact world.                     *)
ProvenanceCurrent(w, t) ==
  \A i \in DOMAIN t : t[i].op = "observe_linearized" => t[i].expected = w

(* run_invariants: CONS-01 and CONS-02 at the mean.                        *)
PassesInvariants(w) ==
  /\ \A v \in NonNegative : w.mean[v] >= 0
  /\ \A p \in LessEqual : w.mean[p[1]] <= w.mean[p[2]]

(* execute: preview, then commit the candidate only if it passes.          *)
ExecuteOn(w, t) ==
  LET b == IF ProvenanceCurrent(w, t) THEN Apply(w, t) ELSE Stopped("BindingError")
      error == IF b.error = "none" /\ ~ PassesInvariants(b)
                 THEN "VerificationError" ELSE b.error
  IN  CASE error = "none"    -> [tag |-> "committed", world |-> World(b), error |-> "none"]
        [] error = "escaped" -> [tag |-> "escaped", world |-> w, error |-> "none"]
        [] OTHER             -> [tag |-> "rejected", world |-> w, error |-> error]

(* encode_transformation: ledger-v1 admits finite numbers and strictly     *)
(* positive sigmas only.                                                   *)
EncodableOp(t) ==
  \A i \in DOMAIN t :
    /\ t[i].op = "observe_quantity" => t[i].noise # "zero"
    /\ t[i].op = "set_parameter" => t[i].sigma # "infinite"

(* "observe" in t.name: a composite is named "composite", whatever it      *)
(* holds.                                                                  *)
ObservesOp(t) == Len(t) = 1 /\ t[1].op \in {"observe_quantity", "observe_linearized"}
=============================================================================
