-------------------------------- MODULE Deps --------------------------------
(***************************************************************************)
(* The dependency graph of gat/ir/deps.py: Kahn's topological sort of the  *)
(* derived variables as it runs, one pop of the heap at a time, for every  *)
(* graph, cyclic ones included, and the search of affected_set over what   *)
(* the sort built.                                                         *)
(*                                                                         *)
(* A variable is a number; < is the order of VarId.  A graph gives each    *)
(* derived variable the set of variables its expression mentions.          *)
(***************************************************************************)
EXTENDS Integers, Sequences, FiniteSets

CONSTANTS Raw, Derived

ASSUME DepsAssumption ==
  /\ Raw \subseteq Nat /\ Derived \subseteq Nat
  /\ IsFiniteSet(Raw) /\ IsFiniteSet(Derived)
  /\ Raw \cap Derived = {}

Known == Raw \cup Derived

VARIABLES
  parents,    \* self._parents
  phase,      \* which loop runs, or how it ended
  indeg,      \* derived parents not yet taken
  ready,      \* the heap
  order,      \* the topological order so far
  changed,    \* the argument of affected_set
  frontier,   \* variables whose children are to be visited
  reached     \* derived variables found

vars == <<parents, phase, indeg, ready, order, changed, frontier, reached>>

Children(v) == {d \in Derived : v \in parents[d]}

Init ==
  /\ parents \in [Derived -> SUBSET Known]
  /\ phase = "sort"
  /\ indeg = [v \in Derived |-> Cardinality(parents[v] \cap Derived)]
  /\ ready = {v \in Derived : indeg[v] = 0}
  /\ order = <<>>
  /\ changed = {} /\ frontier = {} /\ reached = {}

(* Slip: the count of a child that gets ready is not compared with zero.   *)
ReleasedEarly(v) == Children(v)

(* The children whose last unplaced parent is v.                           *)
Released(v) == {c \in Children(v) : indeg[c] = 1}

(* Slip: the heap is not one.                                              *)
TakeAnyReady ==
  /\ phase = "sort"
  /\ \E v \in ready :
       /\ order' = Append(order, v)
       /\ indeg' = [c \in Derived |-> IF c \in Children(v) THEN indeg[c] - 1 ELSE indeg[c]]
       /\ ready' = (ready \ {v}) \cup Released(v)
  /\ UNCHANGED <<parents, phase, changed, frontier, reached>>

(* One turn of the loop of _topo_sort: the smallest ready variable is      *)
(* placed and its children have one parent less to wait for.               *)
TakeReady ==
  /\ phase = "sort"
  /\ \E v \in ready :
       /\ \A u \in ready : v <= u
       /\ order' = Append(order, v)
       /\ indeg' = [c \in Derived |-> IF c \in Children(v) THEN indeg[c] - 1 ELSE indeg[c]]
       /\ ready' = (ready \ {v}) \cup Released(v)
  /\ UNCHANGED <<parents, phase, changed, frontier, reached>>

(* Slip: an incomplete order is taken for a complete one.                  *)
FinishUnchecked ==
  /\ phase = "sort" /\ ready = {}
  /\ phase' = "sorted"
  /\ UNCHANGED <<parents, indeg, ready, order, changed, frontier, reached>>

(* Slip: the loop runs until every variable is placed.                     *)
FinishWhenPlaced ==
  /\ phase = "sort" /\ Len(order) = Cardinality(Derived)
  /\ phase' = "sorted"
  /\ UNCHANGED <<parents, indeg, ready, order, changed, frontier, reached>>

(* The loop ends: a variable that never got ready lies on, or behind, a    *)
(* cycle, and LoweringError is raised.                                     *)
FinishSort ==
  /\ phase = "sort" /\ ready = {}
  /\ phase' = IF Len(order) = Cardinality(Derived) THEN "sorted" ELSE "cyclic"
  /\ UNCHANGED <<parents, indeg, ready, order, changed, frontier, reached>>

(* affected_set is called on a graph that could be built.                  *)
AskAffected ==
  /\ phase = "sorted"
  /\ changed' \in SUBSET Known
  /\ frontier' = changed' /\ reached' = {}
  /\ phase' = "search"
  /\ UNCHANGED <<parents, indeg, ready, order>>

(* Slip: what was found is not searched from.                              *)
VisitOneDeep ==
  /\ phase = "search"
  /\ \E v \in frontier :
       /\ reached' = reached \cup Children(v)
       /\ frontier' = frontier \ {v}
  /\ UNCHANGED <<parents, phase, indeg, ready, order, changed>>

(* One turn of its loop: one variable is popped (which one depends on the  *)
(* order of the arguments and is left open) and children not seen before   *)
(* are to be visited in turn.                                              *)
Visit ==
  /\ phase = "search"
  /\ \E v \in frontier :
       /\ reached' = reached \cup Children(v)
       /\ frontier' = (frontier \ {v}) \cup (Children(v) \ reached)
  /\ UNCHANGED <<parents, phase, indeg, ready, order, changed>>

(* affected_set returns the reached variables in topological order.        *)
Answer ==
  /\ phase = "search" /\ frontier = {}
  /\ phase' = "answered"
  /\ UNCHANGED <<parents, indeg, ready, order, changed, frontier, reached>>

Next == TakeReady \/ FinishSort \/ AskAffected \/ Visit \/ Answer

(* A loop that has begun runs on: nothing waits or yields between its      *)
(* turns.  Nobody has to call affected_set.                                *)
Spec == Init /\ [][Next]_vars
             /\ WF_vars(TakeReady \/ FinishSort) /\ WF_vars(Visit \/ Answer)

-----------------------------------------------------------------------------
(* Properties *)

(* The type of the state.                                                  *)
TypeOK ==
  /\ parents \in [Derived -> SUBSET Known]
  /\ phase \in {"sort", "sorted", "cyclic", "search", "answered"}
  /\ indeg \in [Derived -> Nat]
  /\ ready \subseteq Derived
  /\ order \in Seq(Derived) /\ Len(order) <= Cardinality(Derived)
  /\ changed \subseteq Known /\ frontier \subseteq Known
  /\ reached \subseteq Derived

Built == phase \in {"sorted", "search", "answered"}

Placed == {order[i] : i \in DOMAIN order}

(* The invariant of the sort: a variable's count is the number of its      *)
(* derived parents not yet placed, those with none are ready or placed,    *)
(* and none is placed twice.                                               *)
SortInvariant ==
  /\ \A v \in Derived : indeg[v] = Cardinality((parents[v] \cap Derived) \ Placed)
  /\ ready = {v \in Derived \ Placed : indeg[v] = 0}
  /\ Cardinality(Placed) = Len(order)

(* Every derived variable comes after all the variables it is computed     *)
(* from, so evaluate, total_jacobian and the incremental pass read only    *)
(* what they have already computed.                                        *)
OrderIsTopological ==
  /\ \A i \in DOMAIN order :
       parents[order[i]] \cap Derived \subseteq {order[j] : j \in 1..(i-1)}
  /\ Built => Placed = Derived

(* "a deterministic topological order (Kahn's algorithm, ready set kept    *)
(* sorted by VarId)": each place holds the smallest variable that could    *)
(* stand there, so two runs on one graph cannot differ, and with them the  *)
(* rows of every Jacobian.                                                 *)
OrderIsSmallest ==
  \A i \in DOMAIN order :
    LET before == {order[j] : j \in 1..(i-1)}
    IN  \A v \in Derived \ before :
          parents[v] \cap Derived \subseteq before => order[i] <= v

(* A module is refused exactly when some derived quantities are defined in *)
(* terms of each other.                                                    *)
Cyclic == \E S \in SUBSET Derived : S # {} /\ \A v \in S : parents[v] \cap S # {}

RefusedIffCyclic == (phase = "cyclic" => Cyclic) /\ (Built => ~ Cyclic)

Closed(S) == \A v \in changed \cup S : Children(v) \subseteq S

(* affected_set answers with the least set of derived variables that       *)
(* contains whatever is computed from a changed or an affected one.        *)
AffectedIsLeastClosed ==
  phase = "answered" =>
    /\ Closed(reached)
    /\ \A S \in SUBSET Derived : Closed(S) => reached \subseteq S

(* Sort and search end, on every graph.                                    *)
LoopsEnd ==
  /\ phase = "sort" ~> phase \in {"sorted", "cyclic"}
  /\ phase = "search" ~> phase = "answered"
=============================================================================
