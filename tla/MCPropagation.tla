--------------------------- MODULE MCPropagation ---------------------------
(***************************************************************************)
(* Every graph of three derived quantities is sorted by Deps, in which one *)
(* number stands for all raw variables.  The module below is then compiled *)
(* into a world and followed by Propagation, over the order of its sort:   *)
(* an area p = a * b, q = p + b (which b reaches along two paths and a     *)
(* through p only), and r = c * c that nothing else reaches.               *)
(***************************************************************************)
EXTENDS Deps, Propagation, TLC

a == 4  b == 5  c == 6
p == 1  q == 2  r == 3

MCTopo == <<p, q, r>>
Def(op, x, y) == [op |-> op, left |-> x, right |-> y]
MCExpr == p :> Def("mul", a, b) @@ q :> Def("add", p, b) @@ r :> Def("mul", c, c)

N(m, neg) == [m |-> m, neg |-> neg]
MCMeans == {a :> x @@ b :> N(y, FALSE) @@ c :> N(z, FALSE) :
              x \in {N(0, FALSE), N(0, TRUE), N(2, FALSE)}, y \in {1, 3}, z \in {1, 2}}

Sym(aa, bb, cc, ab, ac) ==
  a :> (a :> aa @@ b :> ab @@ c :> ac) @@
  b :> (a :> ab @@ b :> bb @@ c :> 0) @@
  c :> (a :> ac @@ b :> 0  @@ c :> cc)
MCSigmas == {Sym(1, 1, 1, 0, 0), Sym(2, 2, 1, 0, 0), Sym(2, 2, 1, 1, 0),
             Sym(2, 2, 2, 1, 1)}

MCRawVars == {a, b, c}

(* The graph of the module, its raw variables taken for one.               *)
MCParents == [v \in Derived |-> {IF x \in Derived THEN x ELSE a : x \in Parents(v)}]

(* World.compile is called on a module whose graph was built.              *)
ModuleSorted == phase = "sorted" /\ parents = MCParents /\ order = Topo

MCInit == Init /\ WorldInit

MCNext ==
  \/ ~ Compiled /\ Next /\ UNCHANGED worldVars
  \/ ModuleSorted /\ WorldNext /\ UNCHANGED vars

MCSpec == MCInit /\ [][MCNext]_<<vars, worldVars>>
            /\ WF_vars(TakeReady \/ FinishSort) /\ WF_vars(Visit \/ Answer)
=============================================================================
