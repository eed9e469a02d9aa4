--------------------------- MODULE EngineSession ---------------------------
(***************************************************************************)
(* A session over the executor of module Engine: Session's constants       *)
(* Execute, Passes, Encodable and Observes are given Engine's operators.   *)
(***************************************************************************)
EXTENDS Session, Engine

(* An operation is the sequence of its steps.                              *)
IsComposite(t) == t \in Seq({t[i] : i \in DOMAIN t})

(* Session's constants are given as the module's comment says.             *)
RunsEngine ==
  /\ \A w \in Worlds, t \in Transformations : Execute(w, t) = ExecuteOn(w, t)
  /\ \A t \in Transformations : IsComposite(t)

(* A linearized likelihood conditions only the belief it was calibrated    *)
(* at: the world it was run from, with no earlier step of a composite      *)
(* having moved it (executor.py:255-265, transform.py:342-345).            *)
NoStaleLinearization ==
  \A k \in DOMAIN ledger : ledger[k].kind = "transition" =>
    LET e == ledger[k]
    IN  \A i \in DOMAIN e.op : e.op[i].op = "observe_linearized" =>
          /\ e.op[i].expected = e.prior
          /\ World(Apply(e.prior, SubSeq(e.op, 1, i-1))) = e.prior
=============================================================================
