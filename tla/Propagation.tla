---------------------------- MODULE Propagation ----------------------------
(***************************************************************************)
(* How a world follows its raw belief: gat/engine/propagate.py,            *)
(* gat/ir/deps.py and World of gat/engine/executor.py.  Every change of    *)
(* the raw belief is pushed forward incrementally from the caches of the   *)
(* world before it; the complete push-forward is the reference.            *)
(*                                                                         *)
(* Numbers are integers, so rounding is out of sight; a mean also keeps    *)
(* the sign of a zero, which == does not see and a digest does.  The full  *)
(* covariance is kept doubled, so that symmetrizing it stays integral.     *)
(***************************************************************************)
EXTENDS Integers, Sequences, FiniteSets, Functions

CONSTANTS
  RawVars,   \* raw variables
  Topo,      \* derived variables, in topological order
  Expr,      \* each derived variable's definition: [op, left, right]
  Means,     \* raw mean vectors a belief may take
  Sigmas     \* raw covariance matrices a belief may take

DerivedVars == {Topo[i] : i \in DOMAIN Topo}
All == RawVars \cup DerivedVars

Parents(v) == {Expr[v].left, Expr[v].right}

(* What _topo_sort leaves: every derived variable once, parents first.     *)
ASSUME TopoAssumption ==
  /\ Topo \in Seq(DerivedVars)
  /\ RawVars \cap DerivedVars = {}
  /\ \A i, j \in DOMAIN Topo : Topo[i] = Topo[j] => i = j
  /\ \A i \in DOMAIN Topo :
       Parents(Topo[i]) \subseteq RawVars \cup {Topo[j] : j \in 1..(i-1)}

(* A belief gives every raw variable a number, every pair of them another. *)
ASSUME NumbersAssumption ==
  /\ IsFiniteSet(RawVars)
  /\ Means \subseteq [RawVars -> [m: Int, neg: BOOLEAN]]
  /\ Sigmas \subseteq [RawVars -> [RawVars -> Int]]

VARIABLES
  belief,     \* [mean, sigma] over the raw variables
  full,       \* [mean, cov2] over all variables
  jacobian,   \* cached d(all)/d(raw), or NoCache
  left,       \* cached jacobian * sigma, or NoCache
  work        \* how the last world was pushed forward, and what that touched

worldVars == <<belief, full, jacobian, left, work>>

(* Before World.compile there is nothing to propagate.                     *)
NoWorld == [none |-> TRUE]

Compiled == work # NoWorld

NoCache == <<>>

-----------------------------------------------------------------------------
(* Numbers with a signed zero *)

Num(m, neg) == [m |-> m, neg |-> neg]

Negative(x) == x.m < 0 \/ x.neg

Plus(x, y)  == Num(x.m + y.m, x.m = 0 /\ y.m = 0 /\ x.neg /\ y.neg)

Times(x, y) == Num(x.m * y.m, x.m * y.m = 0 /\ Negative(x) # Negative(y))

-----------------------------------------------------------------------------
(* deps.py *)

(* Slip: only the variables that mention a changed one directly.           *)
AffectedDirectly(moved) ==
  {v \in DerivedVars : Parents(v) \cap moved # {}}

(* affected_set: the derived variables reachable from the changed ones,    *)
(* found here by one pass in topological order.                            *)
AffectedSet(moved) ==
  LET found[i \in 0..Len(Topo)] ==
        IF i = 0 THEN {}
        ELSE found[i-1] \cup
               {v \in {Topo[i]} : Parents(v) \cap (moved \cup found[i-1]) # {}}
  IN  found[Len(Topo)]

Value(v, env) ==
  LET x == env[Expr[v].left]  y == env[Expr[v].right]
  IN  IF Expr[v].op = "add" THEN Plus(x, y) ELSE Times(x, y)

(* The chain rule: the row of a derived variable from its parents' rows.   *)
Row(v, env, rows) ==
  LET x == Expr[v].left  y == Expr[v].right
  IN  [r \in RawVars |->
         IF Expr[v].op = "add" THEN rows[x][r] + rows[y][r]
         ELSE env[y].m * rows[x][r] + env[x].m * rows[y][r]]

(* One pass over the derived variables in topological order, recomputing   *)
(* the value and the Jacobian row of the given nodes and keeping the rest. *)
Sweep(env, rows, nodes) ==
  LET after[i \in 0..Len(Topo)] ==
        IF i = 0 THEN [env |-> env, rows |-> rows]
        ELSE LET v == Topo[i]  p == after[i-1]
             IN  IF v \notin nodes THEN p
                 ELSE [env  |-> [p.env EXCEPT ![v] = Value(v, p.env)],
                       rows |-> [p.rows EXCEPT ![v] = Row(v, p.env, p.rows)]]
  IN  after[Len(Topo)]

-----------------------------------------------------------------------------
(* propagate.py *)

UnitRow(v) == [r \in RawVars |-> IF r = v THEN 1 ELSE 0]

LeftRow(jac, sigma, v) ==
  [r \in RawVars |-> SumFunction([s \in RawVars |-> jac[v][s] * sigma[s][r]])]

(* (left * jacobian^T)[v][w]                                               *)
Cross(lft, jac, v, w) == SumFunction([r \in RawVars |-> lft[v][r] * jac[w][r]])

(* push_forward_with_jacobian                                              *)
PushForward(b) ==
  LET start == [v \in All |-> IF v \in RawVars THEN b.mean[v] ELSE Num(0, FALSE)]
      swept == Sweep(start, [v \in All |-> UnitRow(v)], DerivedVars)
      jac   == swept.rows
      lft   == [v \in All |-> LeftRow(jac, b.sigma, v)]
  IN  [full |-> [mean |-> swept.env,
                 cov2 |-> [v \in All |-> [w \in All |->
                            Cross(lft, jac, v, w) + Cross(lft, jac, w, v)]]],
       jacobian |-> jac, left |-> lft, mode |-> "full", rows |-> All]

ChangedMeans(old, new) == {v \in RawVars : new.mean[v].m # old.mean[v].m}

(* Slip: only a changed variance is noticed, not a changed correlation.    *)
ChangedVariances(old, new) == {v \in RawVars : new.sigma[v][v] # old.sigma[v][v]}

ChangedRows(old, new) == {v \in RawVars : \E w \in RawVars : new.sigma[v][w] # old.sigma[v][w]}

(* push_forward_incremental, from a world's belief, full view and caches.  *)
PushForwardIncremental(old, new, prev, jac, lft) ==
  LET means   == ChangedMeans(old, new)
      rows    == ChangedRows(old, new)
      stale   == AffectedSet(means)
      hit     == rows \cup AffectedSet(rows) \cup stale
      swept   == Sweep([v \in All |-> IF v \in RawVars THEN new.mean[v] ELSE prev.mean[v]],
                       [v \in All |-> IF v \in RawVars THEN UnitRow(v) ELSE jac[v]],
                       stale)
      jac2    == swept.rows
      lft2    == [v \in All |-> IF rows # {} \/ v \in stale
                                  THEN LeftRow(jac2, new.sigma, v) ELSE lft[v]]
      block(v, w) == Cross(lft2, jac2, v, w) + Cross(lft2, jac2, w, v)
  IN  IF jac = NoCache \/ lft = NoCache
        THEN [PushForward(new) EXCEPT !.mode = "full-cache-miss"]
      ELSE IF hit = All
        THEN [PushForward(new) EXCEPT !.mode = "full-invalidated"]
      ELSE [full |-> [mean |-> swept.env,
                      cov2 |-> [v \in All |-> [w \in All |->
                        IF v \in hit THEN block(v, w)
                        ELSE IF w \in hit THEN block(w, v) ELSE prev.cov2[v][w]]]],
            jacobian |-> jac2, left |-> lft2, mode |-> "incremental", rows |-> hit]

-----------------------------------------------------------------------------
(* World and preview *)

Beliefs == [mean: Means, sigma: Sigmas]

(* World.compile; a world put together by hand carries no caches.          *)
CompiledWorlds ==
  {LET p == PushForward(b)
   IN  [belief |-> b, full |-> p.full,
        jacobian |-> IF cached THEN p.jacobian ELSE NoCache,
        left |-> IF cached THEN p.left ELSE NoCache] :
     b \in Beliefs, cached \in BOOLEAN}

WorldInit ==
  /\ belief = NoWorld /\ full = NoWorld /\ jacobian = NoWorld
  /\ left = NoWorld /\ work = NoWorld

Compile ==
  /\ ~ Compiled
  /\ \E w \in CompiledWorlds :
       /\ belief' = w.belief /\ full' = w.full
       /\ jacobian' = w.jacobian /\ left' = w.left
  /\ work' = [mode |-> "full", selective |-> TRUE]

(* with_belief_incremental, of a candidate that is then committed.         *)
Propagate(b, selective) ==
  LET p == PushForwardIncremental(belief, b, full, jacobian, left)
  IN  /\ belief' = b /\ full' = p.full
      /\ jacobian' = p.jacobian /\ left' = p.left
      /\ work' = [mode |-> p.mode, selective |-> selective]

(* _assert_selectivity: nothing but the targets and what they reach moved. *)
Selective(targets, b) ==
  LET p == PushForwardIncremental(belief, b, full, jacobian, left)
  IN  \A v \in All : p.full.mean[v].m # full.mean[v].m =>
                       v \in targets \cup AffectedSet(targets)

(* A transformation declares at least the variables whose means it moves;  *)
(* setting and scaling also move covariances.  One that turns out not to   *)
(* be selective is refused.                                                *)
Transform(b) ==
  IF Selective(ChangedMeans(belief, b), b)
    THEN Propagate(b, TRUE)
    ELSE /\ work' = [work EXCEPT !.selective = FALSE]
         /\ UNCHANGED <<belief, full, jacobian, left>>

(* An observation moves every variable correlated with what it observes    *)
(* and is not held to its declared targets.                                *)
Observe(b) == Propagate(b, TRUE)

WorldNext ==
  \/ Compile
  \/ Compiled /\ \E b \in Beliefs : Transform(b) \/ Observe(b)

WorldSpec == WorldInit /\ [][WorldNext]_worldVars

-----------------------------------------------------------------------------
(* Properties *)

(* However long the chain of incremental steps, the full view and the      *)
(* caches the next step will trust are those the complete push-forward     *)
(* computes from the raw belief.                                           *)
IncrementalMatchesComplete ==
  Compiled =>
    LET p == PushForward(belief)
    IN  /\ full.cov2 = p.full.cov2
        /\ \A v \in All : full.mean[v].m = p.full.mean[v].m
        /\ jacobian # NoCache => jacobian = p.jacobian /\ left = p.left

(* "Incremental and complete paths produce bitwise-identical means and     *)
(* covariance on the same runtime"                                         *)
(* (docs/incremental-propagation-v1.md, Equivalence contract).             *)
BitwiseIdentical ==
  Compiled => full = PushForward(belief).full
=============================================================================
