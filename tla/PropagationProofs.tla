-------------------------- MODULE PropagationProofs -------------------------
(***************************************************************************)
(* The topological sort and the affected set of module Deps are right on   *)
(* every graph over finitely many variables; and over every order such a   *)
(* sort gives, a chain of incremental push-forwards of module Propagation  *)
(* ends where the complete push-forward does.                              *)
(***************************************************************************)
EXTENDS Deps, Propagation, Induction

-----------------------------------------------------------------------------
(* The sort                                                                *)

Waiting(v) == (parents[v] \cap Derived) \ Placed

(* The part of the order that comes before place i.                        *)
Before(i) == {order[j] : j \in 1..(i-1)}

(* Any set of derived variables can be counted.                            *)
LEMMA DerivedFinite ==
  \A S \in SUBSET Derived :
    IsFiniteSet(S) /\ Cardinality(S) \in Nat /\ Cardinality(S) <= Cardinality(Derived)
  BY DepsAssumption, FS_Subset, FS_CardinalityType

(* The counts of the sort invariant, in terms of sets: a variable counts   *)
(* zero when it waits for nobody.                                          *)
LEMMA ZeroMeansNoneWaiting ==
  ASSUME TypeOK, SortInvariant, NEW v \in Derived
  PROVE  /\ IsFiniteSet(Waiting(v)) /\ indeg[v] = Cardinality(Waiting(v))
         /\ indeg[v] = 0 <=> Waiting(v) = {}
<1>1. Waiting(v) \subseteq Derived
  BY DEF Waiting
<1> QED BY <1>1, DerivedFinite, FS_EmptySet DEF SortInvariant, Waiting

(* Placing one more variable.                                              *)
LEMMA PlacedGrows ==
  ASSUME TypeOK, NEW v \in Derived, order' = Append(order, v)
  PROVE  /\ Placed' = Placed \cup {v}
         /\ Len(order') = Len(order) + 1 /\ order' \in Seq(Derived)
         /\ DOMAIN order = 1..Len(order) /\ DOMAIN order' = 1..(Len(order) + 1)
         /\ \A i \in 1..Len(order) : order'[i] = order[i] /\ Before(i)' = Before(i)
         /\ order'[Len(order) + 1] = v
         /\ \A n : n = Len(order) + 1 => Before(n)' = Placed
<1>1. /\ Len(order') = Len(order) + 1 /\ order' \in Seq(Derived) /\ Len(order) \in Nat
      /\ DOMAIN order = 1..Len(order) /\ DOMAIN order' = 1..(Len(order) + 1)
      /\ \A i \in 1..Len(order) : order'[i] = order[i]
      /\ order'[Len(order) + 1] = v
  BY DEF TypeOK
<1>2. Placed' = Placed \cup {v}
  BY <1>1 DEF Placed
<1>3. \A i \in 1..Len(order) : Before(i)' = Before(i)
  BY <1>1 DEF Before
<1>4. ASSUME NEW n, n = Len(order) + 1
      PROVE  Before(n)' = Placed
  <2>1. Before(n)' = {order'[j] : j \in 1..Len(order)}
    BY <1>1, <1>4 DEF Before
  <2>2. {order'[j] : j \in 1..Len(order)} = {order[j] : j \in 1..Len(order)}
    BY <1>1
  <2> QED BY <1>1, <2>1, <2>2 DEF Placed
<1> QED BY <1>1, <1>2, <1>3, <1>4

(* What the sort maintains, in the words of this module.                   *)
Sorting ==
  /\ SortInvariant
  /\ \A i \in DOMAIN order : parents[order[i]] \cap Derived \subseteq Before(i)
  /\ \A i \in DOMAIN order : \A v \in Derived \ Before(i) :
       parents[v] \cap Derived \subseteq Before(i) => order[i] <= v

(* A placed variable waits for nobody.                                     *)
LEMMA PlacedHaveParents ==
  ASSUME TypeOK, Sorting, NEW v \in Placed
  PROVE  parents[v] \cap Derived \subseteq Placed /\ v \in Derived
<1>1. PICK i \in DOMAIN order : order[i] = v
  BY DEF Placed
<1>2. DOMAIN order = 1..Len(order) /\ i \in 1..Len(order) /\ Len(order) \in Nat
  BY <1>1 DEF TypeOK
<1>3. Before(i) \subseteq Placed
  BY <1>2 DEF Before, Placed
<1> QED BY <1>1, <1>2, <1>3 DEF Sorting, TypeOK

(* Placing a ready variable keeps the counts, the heap and the order.      *)
LEMMA TakeReadySorts ==
  ASSUME TypeOK, Sorting, TakeReady
  PROVE  TypeOK' /\ Sorting'
<1>1. PICK v \in ready :
        /\ \A u \in ready : v <= u
        /\ order' = Append(order, v)
        /\ indeg' = [c \in Derived |-> IF c \in Children(v) THEN indeg[c] - 1 ELSE indeg[c]]
        /\ ready' = (ready \ {v}) \cup Released(v)
  BY DEF TakeReady
<1>2. UNCHANGED <<parents, phase, changed, frontier, reached>>
  BY DEF TakeReady
<1>3. v \in Derived \ Placed /\ indeg[v] = 0 /\ Waiting(v) = {}
  BY <1>1, ZeroMeansNoneWaiting DEF Sorting, SortInvariant
<1>4. parents[v] \cap Derived \subseteq Placed
  BY <1>3 DEF Waiting
<1>5. /\ Placed' = Placed \cup {v}
      /\ Len(order') = Len(order) + 1 /\ order' \in Seq(Derived)
      /\ DOMAIN order = 1..Len(order) /\ DOMAIN order' = 1..(Len(order) + 1)
      /\ \A i \in 1..Len(order) : order'[i] = order[i] /\ Before(i)' = Before(i)
      /\ order'[Len(order) + 1] = v
      /\ \A n : n = Len(order) + 1 => Before(n)' = Placed
  BY <1>1, <1>3, PlacedGrows
<1>6. ASSUME NEW c \in Derived
      PROVE  /\ indeg'[c] = Cardinality(Waiting(c)') /\ indeg'[c] \in Nat
             /\ c \in Children(v) => Waiting(c) # {} /\ indeg[c] # 0
  <2>1. Waiting(c)' = Waiting(c) \ {v}
    BY <1>2, <1>5 DEF Waiting
  <2>2. v \in Waiting(c) <=> c \in Children(v)
    BY <1>3 DEF Waiting, Children
  <2>3. IsFiniteSet(Waiting(c)) /\ indeg[c] = Cardinality(Waiting(c))
    BY ZeroMeansNoneWaiting DEF Sorting
  <2>4. Cardinality(Waiting(c) \ {v}) =
          IF v \in Waiting(c) THEN Cardinality(Waiting(c)) - 1 ELSE Cardinality(Waiting(c))
    BY <2>3, FS_RemoveElement
  <2>5. indeg[c] \in Nat /\ (indeg[c] = 0 <=> Waiting(c) = {})
    BY ZeroMeansNoneWaiting DEF Sorting, TypeOK
  <2>6. indeg'[c] = IF c \in Children(v) THEN indeg[c] - 1 ELSE indeg[c]
    BY <1>1
  <2> QED BY <2>1, <2>2, <2>3, <2>4, <2>5, <2>6
<1>7. /\ \A c \in Derived : indeg'[c] = Cardinality((parents'[c] \cap Derived) \ Placed')
      /\ indeg' \in [Derived -> Nat]
  BY <1>1, <1>6 DEF Waiting
<1>8. ready' = {u \in Derived \ Placed' : indeg'[u] = 0}
  <2>1. Released(v) \cap Placed = {} /\ v \notin Released(v)
    <3>1. ASSUME NEW c \in Released(v), c \in Placed
          PROVE  FALSE
      <4>1. parents[c] \cap Derived \subseteq Placed
        BY <3>1, PlacedHaveParents
      <4> QED BY <1>3, <3>1, <4>1 DEF Released, Children
    <3>2. v \notin Released(v)
      BY <1>3 DEF Released
    <3> QED BY <3>1, <3>2
  <2>2. ready = {u \in Derived \ Placed : indeg[u] = 0} /\ indeg \in [Derived -> Nat]
    BY DEF Sorting, SortInvariant, TypeOK
  <2>3. \A u \in Derived : indeg'[u] = 0 <=>
          (u \in Released(v) \/ (u \notin Children(v) /\ indeg[u] = 0))
    BY <1>1, <1>6, <2>2 DEF Released, Children
  <2>4. \A u \in Derived : indeg[u] = 0 => u \notin Children(v)
    BY <1>6
  <2>5. Released(v) \subseteq Derived
    BY DEF Released, Children
  <2> QED BY <1>1, <1>5, <2>1, <2>2, <2>3, <2>4, <2>5
<1>9. Cardinality(Placed') = Len(order') /\ Len(order') <= Cardinality(Derived)
  <2>1. Placed \subseteq Derived /\ Placed' \subseteq Derived
    BY <1>3, <1>5 DEF TypeOK, Placed
  <2>2. IsFiniteSet(Placed) /\ Cardinality(Placed) = Len(order)
    BY <2>1, DerivedFinite DEF Sorting, SortInvariant
  <2>3. Cardinality(Placed') = Cardinality(Placed) + 1
    BY <1>3, <1>5, <2>2, FS_AddElement
  <2> QED BY <1>5, <2>1, <2>2, <2>3, DerivedFinite
<1>10. TypeOK'
  BY <1>2, <1>5, <1>7, <1>8, <1>9 DEF TypeOK
<1>11. SortInvariant'
  BY <1>7, <1>8, <1>9 DEF SortInvariant
<1>12. ASSUME NEW i \in DOMAIN order'
       PROVE  /\ parents'[order'[i]] \cap Derived \subseteq Before(i)'
              /\ \A u \in Derived \ Before(i)' :
                   parents'[u] \cap Derived \subseteq Before(i)' => order'[i] <= u
  <2>1. CASE i \in 1..Len(order)
    BY <1>2, <1>5, <2>1 DEF Sorting
  <2>2. CASE i = Len(order) + 1
    <3>1. order'[i] = v /\ Before(i)' = Placed
      BY <1>5, <2>2
    <3>2. ASSUME NEW u \in Derived \ Placed, parents[u] \cap Derived \subseteq Placed
          PROVE  v <= u
      <4>1. Waiting(u) = {}
        BY <3>2 DEF Waiting
      <4>2. u \in ready
        BY <4>1, ZeroMeansNoneWaiting DEF Sorting, SortInvariant
      <4> QED BY <1>1, <4>2
    <3> QED BY <1>2, <1>4, <3>1, <3>2
  <2>3. Len(order) \in Nat
    BY DEF TypeOK
  <2> QED BY <1>5, <1>12, <2>1, <2>2, <2>3
<1> QED BY <1>10, <1>11, <1>12 DEF Sorting

(* The other steps of the sort and of the search leave the order alone.    *)
LEMMA RestSorts ==
  ASSUME TypeOK, Sorting, FinishSort \/ AskAffected \/ Visit \/ Answer \/ UNCHANGED vars
  PROVE  TypeOK' /\ Sorting'
<1>1. UNCHANGED <<parents, indeg, ready, order>>
  BY DEF FinishSort, AskAffected, Visit, Answer, vars
<1>2. Placed' = Placed /\ \A i : Before(i)' = Before(i)
  BY <1>1 DEF Placed, Before
<1>3. Sorting'
  BY <1>1, <1>2 DEF Sorting, SortInvariant
<1>4. /\ phase' \in {"sort", "sorted", "cyclic", "search", "answered"}
      /\ changed' \subseteq Known /\ frontier' \subseteq Known /\ reached' \subseteq Derived
  <2>1. \A v : Children(v) \subseteq Known /\ Children(v) \subseteq Derived
    BY DEF Children, Known
  <2>2. CASE FinishSort
    BY <2>2 DEF FinishSort, TypeOK
  <2>3. CASE AskAffected
    BY <2>3 DEF AskAffected, TypeOK
  <2>4. CASE Visit
    BY <2>1, <2>4 DEF Visit, TypeOK
  <2>5. CASE Answer \/ UNCHANGED vars
    BY <2>5 DEF Answer, vars, TypeOK
  <2> QED BY <2>2, <2>3, <2>4, <2>5
<1> QED BY <1>1, <1>3, <1>4 DEF TypeOK

(* Before its first turn the sort has placed nothing.                      *)
LEMMA InitSorts ==
  ASSUME Init
  PROVE  TypeOK /\ Sorting
<1>1. Placed = {} /\ order = <<>> /\ Len(order) = 0 /\ DOMAIN order = {}
  BY DEF Init, Placed
<1>2. Cardinality(Placed) = 0 /\ Cardinality(Derived) \in Nat
  BY <1>1, FS_EmptySet, DerivedFinite
<1>3. \A v \in Derived : Cardinality(parents[v] \cap Derived) \in Nat
  BY DerivedFinite
<1>4. TypeOK
  BY <1>1, <1>2, <1>3 DEF Init, TypeOK
<1>5. SortInvariant
  BY <1>1, <1>2 DEF Init, SortInvariant
<1> QED BY <1>1, <1>4, <1>5 DEF Sorting

(* The invariant of the sort holds of every execution.                     *)
LEMMA SortInductive == Spec => [](TypeOK /\ Sorting)
<1>1. Init => TypeOK /\ Sorting
  BY InitSorts
<1>2. TypeOK /\ Sorting /\ [Next]_vars => (TypeOK /\ Sorting)'
  BY TakeReadySorts, RestSorts DEF Next
<1> QED BY <1>1, <1>2, PTL DEF Spec

(* The state keeps its type, on every graph.                               *)
THEOREM TypeCorrect == Spec => []TypeOK
  BY SortInductive, PTL

(* The counts, the heap and the order tell the same story between any two  *)
(* turns of the loop of _topo_sort.                                        *)
THEOREM SortsCorrectly == Spec => []SortInvariant
<1>1. TypeOK /\ Sorting => SortInvariant
  BY DEF Sorting
<1> QED BY <1>1, SortInductive, PTL

(* Each place of the order holds the smallest variable that could stand    *)
(* there: the order is a function of the graph.                            *)
THEOREM SmallestFirst == Spec => []OrderIsSmallest
<1>1. TypeOK /\ Sorting => OrderIsSmallest
  BY DEF Sorting, OrderIsSmallest, Before
<1> QED BY <1>1, SortInductive, PTL

-----------------------------------------------------------------------------
(* What the end of the sort establishes.                                   *)

(* In every set of placed variables one has no parent in the set.          *)
Founded ==
  \A S \in SUBSET Placed : S # {} => \E v \in S : parents[v] \cap S = {}

(* What is known once the sort has ended.                                  *)
Ended ==
  /\ Built => Placed = Derived
  /\ phase = "cyclic" => ready = {} /\ Placed # Derived

(* A variable placed last has no child among those placed before.          *)
LEMMA TakeReadyFounded ==
  ASSUME TypeOK, Sorting, Founded, TakeReady
  PROVE  Founded'
<1>1. PICK v \in ready : order' = Append(order, v)
  BY DEF TakeReady
<1>2. v \in Derived \ Placed /\ parents[v] \cap Derived \subseteq Placed
  BY <1>1, ZeroMeansNoneWaiting DEF Sorting, SortInvariant, Waiting
<1>3. Placed' = Placed \cup {v} /\ parents' = parents
  BY <1>1, <1>2, PlacedGrows DEF TakeReady
<1>4. ASSUME NEW S \in SUBSET (Placed \cup {v}), S # {}
      PROVE  \E u \in S : parents[u] \cap S = {}
  <2>1. CASE v \notin S
    BY <1>4, <2>1 DEF Founded
  <2>2. CASE S = {v}
    BY <1>2, <2>2
  <2>3. CASE v \in S /\ S # {v}
    <3>0. S \ {v} \in SUBSET Placed /\ S \ {v} # {}
      BY <1>4, <2>3
    <3>1. PICK u \in S \ {v} : parents[u] \cap (S \ {v}) = {}
      BY ONLY <3>0, Founded DEF Founded
    <3>2. parents[u] \cap Derived \subseteq Placed
      BY <1>4, <3>1, PlacedHaveParents
    <3> QED BY <1>2, <3>1, <3>2
  <2> QED BY <2>1, <2>2, <2>3
<1> QED BY <1>3, <1>4 DEF Founded

(* The sort ends with all variables placed, or with none ready.            *)
LEMMA FinishSortEnds ==
  ASSUME TypeOK, Sorting, FinishSort
  PROVE  Ended'
<1>1. Placed' = Placed /\ ready' = ready /\ ready = {} /\ order' = order
  BY DEF FinishSort, Placed
<1>2. Placed \subseteq Derived
  BY DEF TypeOK, Placed
<1>3. Cardinality(Placed) = Len(order)
  BY DEF Sorting, SortInvariant
<1>4. Len(order) = Cardinality(Derived) <=> Placed = Derived
  BY <1>2, <1>3, DepsAssumption, FS_Subset
<1>5. phase' = IF Placed = Derived THEN "sorted" ELSE "cyclic"
  BY <1>4 DEF FinishSort
<1> QED BY <1>1, <1>5 DEF Ended, Built

SortEnds == TypeOK /\ Sorting /\ Founded /\ Ended

(* All of it holds of every execution.                                     *)
LEMMA EndInductive == Spec => []SortEnds
<1>1. Init => SortEnds
  <2>1. Init => Founded /\ Ended
    BY DEF Init, Founded, Ended, Built, Placed
  <2> QED BY <2>1, InitSorts DEF SortEnds
<1>2. SortEnds /\ [Next]_vars => SortEnds'
  <2> SUFFICES ASSUME SortEnds, [Next]_vars PROVE SortEnds'
    OBVIOUS
  <2>1. TypeOK /\ Sorting /\ Founded /\ Ended
    BY DEF SortEnds
  <2>2. CASE TakeReady
    <3>1. Ended'
      BY <2>2 DEF TakeReady, Ended, Built
    <3> QED BY <2>1, <2>2, <3>1, TakeReadySorts, TakeReadyFounded DEF SortEnds
  <2>3. CASE FinishSort \/ AskAffected \/ Visit \/ Answer \/ UNCHANGED vars
    <3>1. Placed' = Placed /\ parents' = parents /\ ready' = ready
      BY <2>3 DEF FinishSort, AskAffected, Visit, Answer, vars, Placed
    <3>2. Founded'
      BY <2>1, <3>1 DEF Founded
    <3>3. CASE FinishSort
      BY <2>1, <2>3, <3>2, <3>3, FinishSortEnds, RestSorts DEF SortEnds
    <3>4. CASE AskAffected \/ Visit \/ Answer \/ UNCHANGED vars
      <4>1. (Built' => Built) /\ (phase' = "cyclic" => phase = "cyclic")
        BY <3>4 DEF AskAffected, Visit, Answer, vars, Built
      <4>2. Ended'
        BY <2>1, <3>1, <4>1 DEF Ended
      <4> QED BY <2>1, <2>3, <3>2, <4>2, RestSorts DEF SortEnds
    <3> QED BY <2>3, <3>3, <3>4
  <2> QED BY <2>2, <2>3 DEF Next
<1> QED BY <1>1, <1>2, PTL DEF Spec

(* Every derived variable comes after all the variables it is computed     *)
(* from, and a graph that was built has them all in its order.             *)
THEOREM OrderCorrect == Spec => []OrderIsTopological
<1>1. SortEnds => OrderIsTopological
  BY DEF SortEnds, Sorting, Ended, OrderIsTopological, Before
<1> QED BY <1>1, EndInductive, PTL

(* LoweringError is raised for the cyclic graphs and for no other.         *)
THEOREM CyclesRefused == Spec => []RefusedIffCyclic
<1>1. SortEnds => RefusedIffCyclic
  <2> SUFFICES ASSUME SortEnds PROVE RefusedIffCyclic
    OBVIOUS
  <2>1. CASE phase = "cyclic"
    <3> DEFINE S == Derived \ Placed
    <3>1. ready = {} /\ Placed # Derived /\ Placed \subseteq Derived
      BY <2>1 DEF SortEnds, Ended, TypeOK, Placed
    <3>2. \A v \in S : Waiting(v) # {}
      BY <3>1, ZeroMeansNoneWaiting DEF SortEnds, Sorting, SortInvariant
    <3>3. \A v \in S : parents[v] \cap S # {}
      BY <3>2 DEF Waiting
    <3>4. S # {} /\ S \in SUBSET Derived
      BY <3>1
    <3> QED BY <2>1, <3>3, <3>4 DEF RefusedIffCyclic, Cyclic, Built
  <2>2. CASE Built
    BY <2>2 DEF SortEnds, Founded, Ended, RefusedIffCyclic, Cyclic, Built
  <2> QED BY <2>1, <2>2 DEF RefusedIffCyclic
<1> QED BY <1>1, EndInductive, PTL

-----------------------------------------------------------------------------
(* The search of affected_set.                                             *)

(* What was found has its children found too or is still to be visited,    *)
(* and no closed set lacks any of it.                                      *)
Searching ==
  phase \in {"search", "answered"} =>
    /\ frontier \subseteq changed \cup reached
    /\ \A v \in (changed \cup reached) \ frontier : Children(v) \subseteq reached
    /\ \A S \in SUBSET Derived : Closed(S) => reached \subseteq S
    /\ phase = "answered" => frontier = {}

(* Visiting a variable keeps the search inside every closed set.           *)
LEMMA VisitSearches ==
  ASSUME Searching, Visit
  PROVE  Searching'
<1>1. PICK v \in frontier :
        /\ reached' = reached \cup Children(v)
        /\ frontier' = (frontier \ {v}) \cup (Children(v) \ reached)
  BY DEF Visit
<1>2. phase = "search" /\ UNCHANGED <<parents, phase, changed>>
  BY DEF Visit
<1>3. \A u : Children(u)' = Children(u)
  BY <1>2 DEF Children
<1>4. frontier' \subseteq changed \cup reached' /\ v \in changed \cup reached
  BY <1>1, <1>2 DEF Searching
<1>5. \A u \in (changed \cup reached') \ frontier' : Children(u) \subseteq reached'
  BY <1>1, <1>2 DEF Searching
<1>6. ASSUME NEW S \in SUBSET Derived, Closed(S)
      PROVE  reached' \subseteq S
  <2>1. reached \subseteq S
    BY <1>2, <1>6 DEF Searching
  <2>2. Children(v) \subseteq S
    BY <1>4, <1>6, <2>1 DEF Closed
  <2> QED BY <1>1, <2>1, <2>2
<1>7. \A S : Closed(S)' = Closed(S)
  BY <1>2, <1>3 DEF Closed
<1> QED BY <1>2, <1>3, <1>4, <1>5, <1>6, <1>7 DEF Searching

(* The invariant of the search holds of every execution.                   *)
LEMMA SearchInductive == Spec => []Searching
<1>1. Init => Searching
  BY DEF Init, Searching
<1>2. Searching /\ [Next]_vars => Searching'
  <2> SUFFICES ASSUME Searching, [Next]_vars PROVE Searching'
    OBVIOUS
  <2>1. CASE TakeReady \/ FinishSort
    BY <2>1 DEF TakeReady, FinishSort, Searching
  <2>2. CASE AskAffected
    BY <2>2 DEF AskAffected, Searching
  <2>3. CASE Visit
    BY <2>3, VisitSearches
  <2>4. CASE Answer \/ UNCHANGED vars
    <3>1. UNCHANGED <<parents, changed, frontier, reached>>
      BY <2>4 DEF Answer, vars
    <3>2. /\ \A u : Children(u)' = Children(u)
          /\ \A S : Closed(S)' = Closed(S)
      BY <3>1 DEF Children, Closed
    <3>3. \/ phase = "search" /\ frontier = {}
          \/ phase' = phase
      BY <2>4 DEF Answer, vars
    <3> QED BY <3>1, <3>2, <3>3 DEF Searching
  <2> QED BY <2>1, <2>2, <2>3, <2>4 DEF Next
<1> QED BY <1>1, <1>2, PTL DEF Spec

(* affected_set answers with the least set of derived variables that       *)
(* contains whatever is computed from a changed or an affected one.        *)
THEOREM AffectedCorrect == Spec => []AffectedIsLeastClosed
<1>1. Searching => AffectedIsLeastClosed
  BY DEF Searching, AffectedIsLeastClosed, Closed
<1> QED BY <1>1, SearchInductive, PTL

-----------------------------------------------------------------------------
(* The topological order *)

(* The first i derived variables.                                          *)
First(i) == {Topo[j] : j \in 1..i}

LEMMA TopoFacts ==
  /\ Len(Topo) \in Nat /\ DOMAIN Topo = 1..Len(Topo)
  /\ DerivedVars = First(Len(Topo)) /\ First(0) = {}
  /\ \A i \in 1..Len(Topo) : Topo[i] \in DerivedVars /\ Topo[i] \in All /\ Topo[i] \notin RawVars
  /\ \A i \in 1..Len(Topo) : Topo[i] \notin First(i-1) /\ First(i) = First(i-1) \cup {Topo[i]}
  /\ \A i \in 1..Len(Topo) : Parents(Topo[i]) \subseteq RawVars \cup First(i-1)
<1>1. Len(Topo) \in Nat /\ DOMAIN Topo = 1..Len(Topo)
  BY TopoAssumption
<1>2. DerivedVars = First(Len(Topo)) /\ First(0) = {}
  BY <1>1 DEF DerivedVars, First
<1>3. \A i \in 1..Len(Topo) : Topo[i] \in DerivedVars /\ Topo[i] \in All /\ Topo[i] \notin RawVars
  BY <1>1, TopoAssumption DEF DerivedVars, All
<1>4. \A i \in 1..Len(Topo) : Topo[i] \notin First(i-1) /\ First(i) = First(i-1) \cup {Topo[i]}
  <2> SUFFICES ASSUME NEW i \in 1..Len(Topo)
               PROVE  Topo[i] \notin First(i-1) /\ First(i) = First(i-1) \cup {Topo[i]}
    OBVIOUS
  <2>1. \A j \in 1..(i-1) : j \in 1..Len(Topo) /\ j # i
    BY <1>1
  <2>2. Topo[i] \notin First(i-1)
    BY <1>1, <2>1, TopoAssumption DEF First
  <2>3. 1..i = (1..(i-1)) \cup {i}
    BY <1>1
  <2>4. First(i) = First(i-1) \cup {Topo[i]}
    BY <2>3 DEF First
  <2> QED BY <2>2, <2>4
<1>5. \A i \in 1..Len(Topo) : Parents(Topo[i]) \subseteq RawVars \cup First(i-1)
  BY <1>1, TopoAssumption DEF First
<1> QED BY <1>1, <1>2, <1>3, <1>4, <1>5

LEMMA FirstIsDerived ==
  ASSUME NEW i \in 0..Len(Topo)
  PROVE  First(i) \subseteq DerivedVars /\ First(i) \subseteq All
<1>1. \A j \in 1..i : j \in 1..Len(Topo)
  BY TopoFacts
<1> QED BY <1>1, TopoFacts DEF First

(* No variable is a parent of itself or of one before it.                  *)
LEMMA ParentsPrecede ==
  ASSUME NEW i \in 1..Len(Topo), NEW v \in First(i)
  PROVE  Topo[i] \notin Parents(v)
<1>1. PICK j \in 1..i : v = Topo[j]
  BY DEF First
<1>2. j \in 1..Len(Topo) /\ Parents(v) \subseteq RawVars \cup First(j-1)
  BY <1>1, TopoFacts
<1>3. First(j-1) \subseteq First(i-1)
  BY <1>1, TopoFacts DEF First
<1> QED BY <1>2, <1>3, TopoFacts

(* What holds of the raw variables, and of a derived variable if it holds  *)
(* of its parents, holds of every variable.                                *)
LEMMA TopoInduction ==
  ASSUME NEW S, RawVars \subseteq S,
         \A v \in DerivedVars : Parents(v) \subseteq S => v \in S
  PROVE  All \subseteq S
<1> DEFINE n == Len(Topo)
           D == {k \in 0..n : First(k) \subseteq S}
<1>1. n \in Nat /\ n \in 0..n /\ 0 \in 0..n
  BY TopoFacts
<1>2. 0 \in D
  BY <1>1, TopoFacts
<1>3. ASSUME NEW k \in 0..(n-1), k \in D
      PROVE  k + 1 \in D
  <2>1. k + 1 \in 1..n /\ k + 1 \in 0..n /\ (k + 1) - 1 = k
    BY <1>1
  <2>2. Parents(Topo[k+1]) \subseteq S /\ First(k+1) = First(k) \cup {Topo[k+1]}
    BY <2>1, <1>3, TopoFacts
  <2>3. Topo[k+1] \in S
    BY <2>1, <2>2, TopoFacts
  <2> QED BY <2>1, <2>2, <2>3, <1>3
<1>4. 0..n \subseteq D
  <2> HIDE DEF D
  <2> QED BY <1>1, <1>2, <1>3, InductionUpTo
<1> QED BY <1>1, <1>4, TopoFacts DEF All

(* The parents of a variable are variables.                                *)
LEMMA ParentsKnown ==
  ASSUME NEW v \in DerivedVars
  PROVE  Parents(v) \subseteq All
<1>1. PICK i \in 1..Len(Topo) : v = Topo[i]
  BY TopoFacts DEF First
<1>2. i - 1 \in 0..Len(Topo)
  BY TopoFacts
<1> QED BY <1>1, <1>2, TopoFacts, FirstIsDerived DEF All

-----------------------------------------------------------------------------
(* The affected set *)

(* One step of the pass of AffectedSet.                                    *)
FoundThen(moved, found, i) ==
  found[i-1] \cup {v \in {Topo[i]} : Parents(v) \cap (moved \cup found[i-1]) # {}}

DefinesFound(moved, f, k) ==
  f = [i \in 0..k |-> IF i = 0 THEN {} ELSE FoundThen(moved, f, i)]

LEMMA FoundExists ==
  ASSUME NEW moved
  PROVE  \E f : DefinesFound(moved, f, Len(Topo))
<1> DEFINE n == Len(Topo)
           D == {k \in 0..n : \E f : DefinesFound(moved, f, k)}
<1>1. n \in Nat /\ n \in 0..n /\ 0 \in 0..n
  BY TopoFacts
<1>2. 0 \in D
  <2>1. DefinesFound(moved, [i \in 0..0 |-> {}], 0)
    BY DEF DefinesFound
  <2> QED BY <1>1, <2>1
<1>3. ASSUME NEW k \in 0..(n-1), k \in D
      PROVE  k + 1 \in D
  <2>1. PICK f : DefinesFound(moved, f, k)
    BY <1>3
  <2> DEFINE g == [i \in 0..(k+1) |-> IF i = k + 1 THEN FoundThen(moved, f, k+1) ELSE f[i]]
  <2>2. /\ k \in Nat /\ k + 1 \in 0..n /\ k + 1 # 0 /\ k + 1 \in 0..(k+1)
        /\ (k + 1) - 1 = k /\ k # k + 1 /\ k \in 0..(k+1)
    BY <1>1
  <2>3. \A i \in 0..(k+1) : g[i] = IF i = 0 THEN {} ELSE FoundThen(moved, g, i)
    <3> SUFFICES ASSUME NEW i \in 0..(k+1)
                 PROVE  g[i] = IF i = 0 THEN {} ELSE FoundThen(moved, g, i)
      OBVIOUS
    <3>1. CASE i = k + 1
      <4>1. g[k] = f[k] /\ g[k+1] = FoundThen(moved, f, k+1)
        BY <2>2
      <4>2. FoundThen(moved, g, k+1) = FoundThen(moved, f, k+1)
        BY <4>1, <2>2 DEF FoundThen
      <4> QED BY <3>1, <4>1, <4>2, <2>2
    <3>2. CASE i # k + 1
      <4>1. i \in 0..k /\ g[i] = f[i]
        BY <3>2, <2>2
      <4>2. f[i] = IF i = 0 THEN {} ELSE FoundThen(moved, f, i)
        BY <4>1, <2>1 DEF DefinesFound
      <4>3. i # 0 => i - 1 \in 0..(k+1) /\ i - 1 # k + 1
        BY <4>1, <2>2
      <4>4. i # 0 => g[i-1] = f[i-1]
        BY <4>3
      <4>5. i # 0 => FoundThen(moved, g, i) = FoundThen(moved, f, i)
        BY <4>4 DEF FoundThen
      <4> QED BY <4>1, <4>2, <4>5
    <3> QED BY <3>1, <3>2
  <2>4. DefinesFound(moved, g, k+1)
    BY <2>3 DEF DefinesFound
  <2> QED BY <2>2, <2>4
<1>4. 0..n \subseteq D
  <2> HIDE DEF D
  <2> QED BY <1>1, <1>2, <1>3, InductionUpTo
<1> QED BY <1>1, <1>4

(* AffectedSet is a fixpoint: a variable is affected when a parent has     *)
(* moved or is affected.                                                   *)
LEMMA AffectedFixpoint ==
  ASSUME NEW moved
  PROVE  /\ AffectedSet(moved) \subseteq DerivedVars
         /\ \A v \in DerivedVars : v \in AffectedSet(moved) <=>
              Parents(v) \cap (moved \cup AffectedSet(moved)) # {}
<1> DEFINE n == Len(Topo)
           f == CHOOSE g : DefinesFound(moved, g, n)
           OK(k, A) == /\ A \subseteq First(k)
                       /\ \A v \in First(k) : v \in A <=> Parents(v) \cap (moved \cup A) # {}
           D == {k \in 0..n : OK(k, f[k])}
<1>1. n \in Nat /\ n \in 0..n /\ 0 \in 0..n
  BY TopoFacts
<1>2. AffectedSet(moved) = f[n]
  BY DEF AffectedSet, DefinesFound, FoundThen
<1>3. \A i \in 0..n : f[i] = IF i = 0 THEN {} ELSE FoundThen(moved, f, i)
  <2>1. DefinesFound(moved, f, n)
    BY FoundExists
  <2> HIDE DEF f
  <2> QED BY <2>1 DEF DefinesFound
<1> HIDE DEF f
<1>4. 0 \in D
  BY <1>1, <1>3, TopoFacts
<1>5. ASSUME NEW k \in 0..(n-1), k \in D
      PROVE  k + 1 \in D
  <2> DEFINE A == f[k]  B == f[k+1]  t == Topo[k+1]
  <2>1. k + 1 \in 1..n /\ k + 1 \in 0..n /\ k + 1 # 0 /\ (k + 1) - 1 = k /\ k \in 0..n
    BY <1>1
  <2>2. B = A \cup {v \in {t} : Parents(v) \cap (moved \cup A) # {}}
    <3>1. f[k+1] = FoundThen(moved, f, k+1)
      BY <2>1, <1>3
    <3>2. f[(k+1) - 1] = f[k]
      BY <2>1
    <3> QED BY <3>1, <3>2, Zenon DEF FoundThen
  <2>3. First(k+1) = First(k) \cup {t} /\ t \notin First(k) /\ t \notin RawVars
    BY <2>1, TopoFacts
  <2>4. OK(k, A)
    BY <1>5
  <2>5. \A v \in First(k+1) : t \notin Parents(v)
    BY <2>1, ParentsPrecede
  <2>6. t \notin A
    BY <2>3, <2>4
  <2> HIDE DEF A, B, t
  <2>7. \A v \in First(k+1) : Parents(v) \cap (moved \cup B) = Parents(v) \cap (moved \cup A)
    BY <2>2, <2>5
  <2>8. B \subseteq First(k+1)
    BY <2>2, <2>3, <2>4
  <2>9. \A v \in First(k+1) : v \in B <=> Parents(v) \cap (moved \cup A) # {}
    <3> SUFFICES ASSUME NEW v \in First(k+1)
                 PROVE  v \in B <=> Parents(v) \cap (moved \cup A) # {}
      OBVIOUS
    <3>1. CASE v = t
      BY <3>1, <2>2, <2>6
    <3>2. CASE v # t
      BY <3>2, <2>2, <2>3, <2>4
    <3> QED BY <3>1, <3>2
  <2>10. OK(k+1, B)
    BY <2>7, <2>8, <2>9
  <2> QED BY <2>1, <2>10 DEF B
<1>6. 0..n \subseteq D
  <2> HIDE DEF D
  <2> QED BY <1>1, <1>4, <1>5, InductionUpTo
<1>7. OK(n, f[n])
  BY <1>1, <1>6
<1> QED BY <1>2, <1>7, TopoFacts

(* And the least one: whatever is closed under children holds it.          *)
LEMMA AffectedIsLeast ==
  ASSUME NEW moved, NEW S,
         \A v \in DerivedVars : Parents(v) \cap (moved \cup S) # {} => v \in S
  PROVE  AffectedSet(moved) \subseteq S
<1> DEFINE A == AffectedSet(moved)
           T == {v \in All : v \in A => v \in S}
<1>1. /\ A \subseteq DerivedVars
      /\ \A v \in DerivedVars : v \in A <=> Parents(v) \cap (moved \cup A) # {}
  BY AffectedFixpoint
<1> HIDE DEF A
<1>2. RawVars \subseteq T
  BY <1>1, TopoAssumption DEF All
<1>3. ASSUME NEW v \in DerivedVars, Parents(v) \subseteq T
      PROVE  v \in T
  <2>1. v \in A => Parents(v) \cap (moved \cup S) # {}
    BY <1>1, <1>3
  <2> QED BY <2>1 DEF All
<1>4. All \subseteq T
  <2> HIDE DEF T
  <2> QED BY <1>2, <1>3, TopoInduction
<1> QED BY <1>1, <1>4 DEF A, All

-----------------------------------------------------------------------------
(* Values and Jacobian rows *)

OnAll(f) == f = [v \in All |-> f[v]]

(* Two environments, or two sets of rows, agree on the parents of v.       *)
SameValues(v, e, f) == \A x \in Parents(v) : e[x] = f[x]
SameMeans(v, e, f)  == \A x \in Parents(v) : e[x].m = f[x].m

(* Values and rows depend on the parents only, and not on signs of zeros.  *)
LEMMA ValueOfParents ==
  ASSUME NEW v, NEW e, NEW f, SameValues(v, e, f)
  PROVE  Value(v, e) = Value(v, f)
BY DEF Value, Parents, SameValues

LEMMA MeanOfParents ==
  ASSUME NEW v, NEW e, NEW f, SameMeans(v, e, f)
  PROVE  Value(v, e).m = Value(v, f).m
BY DEF Value, Parents, Plus, Times, Num, SameMeans

LEMMA RowOfParents ==
  ASSUME NEW v, NEW e, NEW f, NEW r1, NEW r2, SameMeans(v, e, f), SameValues(v, r1, r2)
  PROVE  Row(v, e, r1) = Row(v, f, r2)
<1>1. /\ r1[Expr[v].left] = r2[Expr[v].left] /\ r1[Expr[v].right] = r2[Expr[v].right]
      /\ e[Expr[v].left].m = f[Expr[v].left].m /\ e[Expr[v].right].m = f[Expr[v].right].m
  BY DEF Parents, SameMeans, SameValues
<1> QED BY <1>1, Zenon DEF Row

(* One step of the pass of Sweep.                                          *)
SweepThen(nodes, after, i) ==
  LET v == Topo[i]  p == after[i-1]
  IN  IF v \notin nodes THEN p
      ELSE [env  |-> [p.env EXCEPT ![v] = Value(v, p.env)],
            rows |-> [p.rows EXCEPT ![v] = Row(v, p.env, p.rows)]]

DefinesSweep(env, rows, nodes, f, k) ==
  f = [i \in 0..k |-> IF i = 0 THEN [env |-> env, rows |-> rows] ELSE SweepThen(nodes, f, i)]

LEMMA SweepExists ==
  ASSUME NEW env, NEW rows, NEW nodes
  PROVE  \E f : DefinesSweep(env, rows, nodes, f, Len(Topo))
<1> DEFINE n == Len(Topo)
           D == {k \in 0..n : \E f : DefinesSweep(env, rows, nodes, f, k)}
           start == [env |-> env, rows |-> rows]
<1>1. n \in Nat /\ n \in 0..n /\ 0 \in 0..n
  BY TopoFacts
<1>2. 0 \in D
  <2>1. DefinesSweep(env, rows, nodes, [i \in 0..0 |-> start], 0)
    BY DEF DefinesSweep
  <2> QED BY <1>1, <2>1
<1>3. ASSUME NEW k \in 0..(n-1), k \in D
      PROVE  k + 1 \in D
  <2>1. PICK f : DefinesSweep(env, rows, nodes, f, k)
    BY <1>3
  <2> DEFINE g == [i \in 0..(k+1) |-> IF i = k + 1 THEN SweepThen(nodes, f, k+1) ELSE f[i]]
  <2>2. /\ k \in Nat /\ k + 1 \in 0..n /\ k + 1 # 0 /\ k + 1 \in 0..(k+1)
        /\ (k + 1) - 1 = k /\ k # k + 1 /\ k \in 0..(k+1)
    BY <1>1
  <2>3. \A i \in 0..(k+1) : g[i] = IF i = 0 THEN start ELSE SweepThen(nodes, g, i)
    <3> SUFFICES ASSUME NEW i \in 0..(k+1)
                 PROVE  g[i] = IF i = 0 THEN start ELSE SweepThen(nodes, g, i)
      OBVIOUS
    <3>1. CASE i = k + 1
      <4>1. g[k] = f[k] /\ g[k+1] = SweepThen(nodes, f, k+1)
        BY <2>2
      <4>2. SweepThen(nodes, g, k+1) = SweepThen(nodes, f, k+1)
        BY <4>1, <2>2, Zenon DEF SweepThen
      <4> QED BY <3>1, <4>1, <4>2, <2>2
    <3>2. CASE i # k + 1
      <4>1. i \in 0..k /\ g[i] = f[i]
        BY <3>2, <2>2
      <4>2. f[i] = IF i = 0 THEN start ELSE SweepThen(nodes, f, i)
        BY <4>1, <2>1 DEF DefinesSweep
      <4>3. i # 0 => i - 1 \in 0..(k+1) /\ i - 1 # k + 1
        BY <4>1, <2>2
      <4>4. i # 0 => g[i-1] = f[i-1]
        BY <4>3
      <4>5. i # 0 => SweepThen(nodes, g, i) = SweepThen(nodes, f, i)
        BY <4>4, Zenon DEF SweepThen
      <4> QED BY <4>1, <4>2, <4>5
    <3> QED BY <3>1, <3>2
  <2>4. DefinesSweep(env, rows, nodes, g, k+1)
    BY <2>3 DEF DefinesSweep
  <2> QED BY <2>2, <2>4
<1>4. 0..n \subseteq D
  <2> HIDE DEF D
  <2> QED BY <1>1, <1>2, <1>3, InductionUpTo
<1> QED BY <1>1, <1>4

(* What a pass leaves once it has handled a set of variables: those of the *)
(* given nodes follow from their parents, everything else is kept.         *)
Recomputed(env, rows, done, s) ==
  /\ OnAll(s.env) /\ OnAll(s.rows)
  /\ \A v \in All \ done : s.env[v] = env[v] /\ s.rows[v] = rows[v]
  /\ \A v \in done : s.env[v] = Value(v, s.env) /\ s.rows[v] = Row(v, s.env, s.rows)

(* One more variable whose parents were handled before.                    *)
LEMMA RecomputeOne ==
  ASSUME NEW env, NEW rows, NEW done, NEW p, Recomputed(env, rows, done, p),
         done \subseteq DerivedVars, NEW t \in DerivedVars, t \notin done,
         \A v \in done \cup {t} : t \notin Parents(v),
         NEW s, s = [env  |-> [p.env EXCEPT ![t] = Value(t, p.env)],
                     rows |-> [p.rows EXCEPT ![t] = Row(t, p.env, p.rows)]]
  PROVE  Recomputed(env, rows, done \cup {t}, s)
<1>0. t \in All
  BY DEF All
<1>1. /\ s.env = [p.env EXCEPT ![t] = Value(t, p.env)]
      /\ s.rows = [p.rows EXCEPT ![t] = Row(t, p.env, p.rows)]
  OBVIOUS
<1>2. OnAll(p.env) /\ OnAll(p.rows)
  BY DEF Recomputed
<1>3. OnAll(s.env) /\ s.env[t] = Value(t, p.env)
      /\ \A v \in All \ {t} : s.env[v] = p.env[v]
  <2> DEFINE x == Value(t, p.env)  e == p.env
  <2>1. s.env = [e EXCEPT ![t] = x] /\ e = [v \in All |-> e[v]]
    BY <1>1, <1>2 DEF OnAll
  <2> HIDE DEF x, e
  <2>2. s.env = [v \in All |-> IF v = t THEN x ELSE e[v]]
    BY <2>1
  <2>3. OnAll(s.env) /\ s.env[t] = x /\ \A v \in All \ {t} : s.env[v] = e[v]
    BY <2>2, <1>0 DEF OnAll
  <2> QED BY <2>3 DEF x, e
<1>4. OnAll(s.rows) /\ s.rows[t] = Row(t, p.env, p.rows)
      /\ \A v \in All \ {t} : s.rows[v] = p.rows[v]
  <2> DEFINE x == Row(t, p.env, p.rows)  e == p.rows
  <2>1. s.rows = [e EXCEPT ![t] = x] /\ e = [v \in All |-> e[v]]
    BY <1>1, <1>2 DEF OnAll
  <2> HIDE DEF x, e
  <2>2. s.rows = [v \in All |-> IF v = t THEN x ELSE e[v]]
    BY <2>1
  <2>3. OnAll(s.rows) /\ s.rows[t] = x /\ \A v \in All \ {t} : s.rows[v] = e[v]
    BY <2>2, <1>0 DEF OnAll
  <2> QED BY <2>3 DEF x, e
<1>5. ASSUME NEW v \in done \cup {t}
      PROVE  Value(v, s.env) = Value(v, p.env) /\ Row(v, s.env, s.rows) = Row(v, p.env, p.rows)
  <2>1. Parents(v) \subseteq All /\ t \notin Parents(v)
    BY ParentsKnown
  <2>2. SameValues(v, s.env, p.env) /\ SameValues(v, s.rows, p.rows) /\ SameMeans(v, s.env, p.env)
    BY <2>1, <1>3, <1>4 DEF SameValues, SameMeans
  <2> QED BY <2>2, ValueOfParents, RowOfParents
<1>6. ASSUME NEW v \in done \cup {t}
      PROVE  s.env[v] = Value(v, s.env) /\ s.rows[v] = Row(v, s.env, s.rows)
  <2>1. CASE v = t
    BY <2>1, <1>3, <1>4, <1>5
  <2>2. CASE v # t
    <3>1. v \in done /\ v \in All
      BY <2>2 DEF All
    <3>2. p.env[v] = Value(v, p.env) /\ p.rows[v] = Row(v, p.env, p.rows)
      BY <3>1 DEF Recomputed
    <3>3. s.env[v] = p.env[v] /\ s.rows[v] = p.rows[v]
      BY <2>2, <3>1, <1>3, <1>4
    <3> QED BY <3>2, <3>3, <1>5
  <2> QED BY <2>1, <2>2
<1>7. ASSUME NEW v \in All \ (done \cup {t})
      PROVE  s.env[v] = env[v] /\ s.rows[v] = rows[v]
  BY <1>3, <1>4 DEF Recomputed
<1> QED BY <1>3, <1>4, <1>6, <1>7 DEF Recomputed

LEMMA SweepRecomputes ==
  ASSUME NEW env, NEW rows, OnAll(env), OnAll(rows),
         NEW nodes, nodes \subseteq DerivedVars
  PROVE  Recomputed(env, rows, nodes, Sweep(env, rows, nodes))
<1> DEFINE n == Len(Topo)
           f == CHOOSE g : DefinesSweep(env, rows, nodes, g, n)
           D == {k \in 0..n : Recomputed(env, rows, nodes \cap First(k), f[k])}
<1>1. n \in Nat /\ n \in 0..n /\ 0 \in 0..n
  BY TopoFacts
<1>2. Sweep(env, rows, nodes) = f[n]
  BY DEF Sweep, DefinesSweep, SweepThen
<1>3. \A i \in 0..n : f[i] = IF i = 0 THEN [env |-> env, rows |-> rows] ELSE SweepThen(nodes, f, i)
  <2>1. DefinesSweep(env, rows, nodes, f, n)
    BY SweepExists
  <2> HIDE DEF f
  <2> QED BY <2>1 DEF DefinesSweep
<1> HIDE DEF f
<1>4. 0 \in D
  <2>1. f[0] = [env |-> env, rows |-> rows] /\ nodes \cap First(0) = {}
    BY <1>1, <1>3, TopoFacts
  <2>2. f[0].env = env /\ f[0].rows = rows
    BY <2>1
  <2>3. Recomputed(env, rows, {}, f[0])
    BY <2>2 DEF Recomputed
  <2> QED BY <1>1, <2>1, <2>3
<1>5. ASSUME NEW k \in 0..(n-1), k \in D
      PROVE  k + 1 \in D
  <2> DEFINE p == f[k]  s == f[k+1]  t == Topo[k+1]  done == nodes \cap First(k)
  <2>1. k + 1 \in 1..n /\ k + 1 \in 0..n /\ k + 1 # 0 /\ (k + 1) - 1 = k /\ k \in 0..n
    BY <1>1
  <2>2. s = IF t \notin nodes THEN p
            ELSE [env  |-> [p.env EXCEPT ![t] = Value(t, p.env)],
                  rows |-> [p.rows EXCEPT ![t] = Row(t, p.env, p.rows)]]
    <3>1. s = SweepThen(nodes, f, k+1)
      BY <2>1, <1>3
    <3>2. f[(k+1) - 1] = f[k]
      BY <2>1
    <3> QED BY <3>1, <3>2, Zenon DEF SweepThen
  <2>3. First(k+1) = First(k) \cup {t} /\ t \notin First(k) /\ t \in DerivedVars
    BY <2>1, TopoFacts
  <2>4. Recomputed(env, rows, done, p)
    BY <1>5
  <2>5. \A v \in First(k+1) : t \notin Parents(v)
    BY <2>1, ParentsPrecede
  <2> HIDE DEF p, s, t
  <2>6. CASE t \notin nodes
    <3>1. nodes \cap First(k+1) = done
      BY <2>6, <2>3
    <3> QED BY <3>1, <2>2, <2>4, <2>6, <2>1 DEF s
  <2>7. CASE t \in nodes
    <3>1. nodes \cap First(k+1) = done \cup {t} /\ t \notin done /\ done \subseteq DerivedVars
      BY <2>7, <2>3
    <3>2. \A v \in done \cup {t} : t \notin Parents(v)
      BY <2>5, <2>3
    <3> HIDE DEF done
    <3>3. Recomputed(env, rows, done \cup {t}, s)
      BY <3>1, <3>2, <2>2, <2>3, <2>4, <2>7, RecomputeOne
    <3> QED BY <3>1, <3>3, <2>1 DEF s
  <2> QED BY <2>6, <2>7
<1>6. 0..n \subseteq D
  <2> HIDE DEF D
  <2> QED BY <1>1, <1>4, <1>5, InductionUpTo
<1>7. nodes \cap First(n) = nodes
  BY TopoFacts
<1> QED BY <1>1, <1>2, <1>6, <1>7

-----------------------------------------------------------------------------
(* The complete push-forward *)

(* Values e and Jacobian j follow from belief b.                           *)
Follow(b, e, j) ==
  /\ OnAll(e) /\ OnAll(j)
  /\ \A v \in RawVars : e[v] = b.mean[v] /\ j[v] = UnitRow(v)
  /\ \A v \in DerivedVars : e[v] = Value(v, e) /\ j[v] = Row(v, e, j)

(* The covariance rows and blocks of a Jacobian.                           *)
LeftOf(j, sigma) == [v \in All |-> LeftRow(j, sigma, v)]
BlockOf(l, j) == [v \in All |-> [w \in All |-> Cross(l, j, v, w) + Cross(l, j, w, v)]]

LEMMA PushForwardFollows ==
  ASSUME NEW b
  PROVE  LET p == PushForward(b)
         IN  /\ Follow(b, p.full.mean, p.jacobian)
             /\ p.left = LeftOf(p.jacobian, b.sigma)
             /\ p.full.cov2 = BlockOf(p.left, p.jacobian)
             /\ p = [full |-> p.full, jacobian |-> p.jacobian, left |-> p.left,
                     mode |-> "full", rows |-> All]
<1> DEFINE start == [v \in All |-> IF v \in RawVars THEN b.mean[v] ELSE Num(0, FALSE)]
           units == [v \in All |-> UnitRow(v)]
           swept == Sweep(start, units, DerivedVars)
           p == PushForward(b)
<1>1. Recomputed(start, units, DerivedVars, swept)
  <2>1. OnAll(start) /\ OnAll(units)
    BY DEF OnAll
  <2> HIDE DEF start, units
  <2> QED BY <2>1, SweepRecomputes
<1>2. Follow(b, swept.env, swept.rows)
  <2>1. \A v \in RawVars : v \in All \ DerivedVars /\ start[v] = b.mean[v] /\ units[v] = UnitRow(v)
    BY TopoAssumption DEF All
  <2> HIDE DEF start, units, swept
  <2> QED BY <1>1, <2>1 DEF Recomputed, Follow
<1>3. /\ p.full.mean = swept.env /\ p.jacobian = swept.rows
      /\ p.left = LeftOf(swept.rows, b.sigma)
      /\ p.full.cov2 = BlockOf(p.left, p.jacobian)
      /\ p = [full |-> p.full, jacobian |-> p.jacobian, left |-> p.left,
              mode |-> "full", rows |-> All]
  <2> DEFINE l == LeftOf(swept.rows, b.sigma)
             c == BlockOf(l, swept.rows)
  <2>1. p = [full |-> [mean |-> swept.env, cov2 |-> c],
             jacobian |-> swept.rows, left |-> l, mode |-> "full", rows |-> All]
    BY Zenon DEF PushForward, LeftOf, BlockOf
  <2> HIDE DEF swept, l, c, p
  <2>2. p.full = [mean |-> swept.env, cov2 |-> c] /\ p.jacobian = swept.rows /\ p.left = l
    BY <2>1
  <2>3. p.full.mean = swept.env /\ p.full.cov2 = BlockOf(p.left, p.jacobian)
    BY <2>2 DEF l, c
  <2> QED BY <2>1, <2>2, <2>3 DEF l
<1> HIDE DEF p, swept
<1> QED BY <1>2, <1>3 DEF p

(* Outside of what the changed means reach nothing changes but the changed *)
(* means themselves.                                                       *)
LEMMA UnreachedUnchanged ==
  ASSUME NEW b, NEW c, NEW e, NEW j, NEW f, NEW k, Follow(b, e, j), Follow(c, f, k)
  PROVE  /\ \A v \in DerivedVars \ AffectedSet(ChangedMeans(b, c)) :
              \A x \in Parents(v) : e[x].m = f[x].m /\ j[x] = k[x]
         /\ \A v \in All \ AffectedSet(ChangedMeans(b, c)) :
              j[v] = k[v] /\ (v \notin ChangedMeans(b, c) => e[v].m = f[v].m)
<1> DEFINE M == ChangedMeans(b, c)
           A == AffectedSet(M)
           S == {v \in All : v \notin A => j[v] = k[v] /\ (v \notin M => e[v].m = f[v].m)}
<1>0. M \subseteq RawVars /\ \A v \in RawVars \ M : b.mean[v].m = c.mean[v].m
  BY DEF ChangedMeans
<1>1. /\ A \subseteq DerivedVars
      /\ \A v \in DerivedVars : v \in A <=> Parents(v) \cap (M \cup A) # {}
  <2> HIDE DEF M
  <2> QED BY <1>0, AffectedFixpoint
<1> HIDE DEF A, M
<1>2. RawVars \subseteq S
  BY <1>0 DEF Follow, All
<1>3. ASSUME NEW v \in DerivedVars, Parents(v) \subseteq S
      PROVE  v \in S
  <2> SUFFICES ASSUME v \notin A PROVE j[v] = k[v] /\ e[v].m = f[v].m
    BY DEF All
  <2>1. \A x \in Parents(v) : e[x].m = f[x].m /\ j[x] = k[x]
    BY <1>1, <1>3
  <2>2. SameMeans(v, e, f) /\ SameValues(v, j, k)
    BY <2>1 DEF SameMeans, SameValues
  <2>3. Value(v, e).m = Value(v, f).m /\ Row(v, e, j) = Row(v, f, k)
    BY <2>2, MeanOfParents, RowOfParents
  <2> QED BY <2>3 DEF Follow
<1>4. All \subseteq S
  <2> HIDE DEF S
  <2> QED BY <1>2, <1>3, TopoInduction
<1>5. ASSUME NEW v \in DerivedVars \ A
      PROVE  \A x \in Parents(v) : e[x].m = f[x].m /\ j[x] = k[x]
  BY <1>1, <1>4, <1>5, ParentsKnown
<1> QED BY <1>4, <1>5 DEF A, M

(* The incremental pass over what the changed means reach gives the values *)
(* and the Jacobian of the new belief, up to signs of zeros.               *)
LEMMA IncrementalPass ==
  ASSUME NEW b, NEW c, NEW e, NEW j, NEW f, NEW k, Follow(b, e, j), Follow(c, f, k),
         NEW env, OnAll(env), \A v \in RawVars : env[v] = c.mean[v],
         \A v \in DerivedVars : env[v].m = e[v].m,
         NEW rows, OnAll(rows), \A v \in RawVars : rows[v] = UnitRow(v),
         \A v \in DerivedVars : rows[v] = j[v]
  PROVE  LET s == Sweep(env, rows, AffectedSet(ChangedMeans(b, c)))
         IN  s.rows = k /\ OnAll(s.env) /\ \A v \in All : s.env[v].m = f[v].m
<1> DEFINE A == AffectedSet(ChangedMeans(b, c))
           s == Sweep(env, rows, A)
           S == {v \in All : s.rows[v] = k[v] /\ s.env[v].m = f[v].m}
<1>1. A \subseteq DerivedVars
  BY AffectedFixpoint DEF ChangedMeans
<1>2. /\ \A v \in DerivedVars \ A : e[v].m = f[v].m /\ j[v] = k[v]
      /\ \A v \in RawVars : v \notin A /\ v \notin DerivedVars
  <2>1. \A v \in All \ A : j[v] = k[v] /\ (v \notin ChangedMeans(b, c) => e[v].m = f[v].m)
    BY UnreachedUnchanged
  <2>2. \A v \in DerivedVars : v \in All /\ v \notin ChangedMeans(b, c)
    BY TopoAssumption DEF All, ChangedMeans
  <2>3. \A v \in RawVars : v \notin A /\ v \notin DerivedVars
    BY <1>1, TopoAssumption
  <2> HIDE DEF A
  <2> QED BY <2>1, <2>2, <2>3
<1> HIDE DEF A
<1>3. Recomputed(env, rows, A, s)
  BY <1>1, SweepRecomputes
<1> HIDE DEF s
<1>4. RawVars \subseteq S
  BY <1>2, <1>3 DEF Recomputed, Follow, All
<1>5. ASSUME NEW v \in DerivedVars, Parents(v) \subseteq S
      PROVE  v \in S
  <2>0. v \in All
    BY DEF All
  <2>1. SameMeans(v, s.env, f) /\ SameValues(v, s.rows, k)
    BY <1>5 DEF SameMeans, SameValues
  <2>2. Value(v, s.env).m = Value(v, f).m /\ Row(v, s.env, s.rows) = Row(v, f, k)
    BY <2>1, MeanOfParents, RowOfParents
  <2>3. f[v] = Value(v, f) /\ k[v] = Row(v, f, k)
    BY DEF Follow
  <2>4. CASE v \in A
    <3>1. s.env[v] = Value(v, s.env) /\ s.rows[v] = Row(v, s.env, s.rows)
      BY <2>4, <1>3 DEF Recomputed
    <3> QED BY <2>0, <2>2, <2>3, <3>1
  <2>5. CASE v \notin A
    <3>1. s.env[v] = env[v] /\ s.rows[v] = rows[v]
      BY <2>0, <2>5, <1>3 DEF Recomputed
    <3> QED BY <2>0, <2>5, <3>1, <1>2
  <2> QED BY <2>4, <2>5
<1>6. All \subseteq S
  <2> HIDE DEF S
  <2> QED BY <1>4, <1>5, TopoInduction
<1>7. OnAll(s.rows) /\ OnAll(s.env) /\ OnAll(k)
  BY <1>3 DEF Recomputed, Follow
<1>8. s.rows = k
  BY <1>6, <1>7 DEF OnAll
<1> QED BY <1>6, <1>7, <1>8 DEF s, A

-----------------------------------------------------------------------------
(* Sums *)

(* One step of the fold that adds up the values of f over a set.           *)
SumThen(f, sum, T) ==
  LET x == CHOOSE y \in T : TRUE IN f[x] + sum[T \ {x}]

(* g adds up the values of f over the subsets of S of at most k members.   *)
AddsUp(f, S, g, k) ==
  /\ g \in [SUBSET S -> Int]
  /\ \A T \in SUBSET S : Cardinality(T) <= k =>
       g[T] = IF T = {} THEN 0 ELSE SumThen(f, g, T)

LEMMA SubsetsCounted ==
  ASSUME NEW S, IsFiniteSet(S), NEW T \in SUBSET S
  PROVE  /\ Cardinality(T) \in Nat /\ Cardinality(T) <= Cardinality(S)
         /\ Cardinality(T) = 0 <=> T = {}
         /\ T # {} => LET x == CHOOSE y \in T : TRUE
                      IN  /\ x \in T /\ T \ {x} \in SUBSET S
                          /\ Cardinality(T \ {x}) = Cardinality(T) - 1
<1>1. IsFiniteSet(T) /\ Cardinality(T) \in Nat /\ Cardinality(T) <= Cardinality(S)
  BY FS_Subset, FS_CardinalityType
<1>2. Cardinality(T) = 0 <=> T = {}
  BY <1>1, FS_EmptySet
<1>3. ASSUME T # {}, NEW x, x = CHOOSE y \in T : TRUE
      PROVE  x \in T /\ T \ {x} \in SUBSET S /\ Cardinality(T \ {x}) = Cardinality(T) - 1
  <2>1. x \in T
    BY <1>3
  <2>2. Cardinality(T \ {x}) = Cardinality(T) - 1
    BY <1>1, <2>1, FS_RemoveElement
  <2> QED BY <2>1, <2>2
<1> QED BY <1>1, <1>2, <1>3

LEMMA SumExists ==
  ASSUME NEW S, IsFiniteSet(S), NEW f \in [S -> Int]
  PROVE  \E g : AddsUp(f, S, g, Cardinality(S))
<1> DEFINE n == Cardinality(S)
           D == {k \in 0..n : \E g : AddsUp(f, S, g, k)}
<1>1. n \in Nat /\ n \in 0..n /\ 0 \in 0..n
  BY FS_CardinalityType
<1>2. 0 \in D
  <2> DEFINE g == [T \in SUBSET S |-> 0]
  <2>1. \A T \in SUBSET S : Cardinality(T) <= 0 => T = {}
    <3>1. \A T \in SUBSET S : Cardinality(T) \in Nat /\ (Cardinality(T) = 0 <=> T = {})
      BY SubsetsCounted
    <3> QED BY <3>1
  <2>2. AddsUp(f, S, g, 0)
    BY <2>1 DEF AddsUp
  <2> QED BY <1>1, <2>2
<1>3. ASSUME NEW k \in 0..(n-1), k \in D
      PROVE  k + 1 \in D
  <2>1. PICK g : AddsUp(f, S, g, k)
    BY <1>3
  <2> DEFINE h == [T \in SUBSET S |-> IF Cardinality(T) = k + 1 THEN SumThen(f, g, T) ELSE g[T]]
  <2>2. k \in Nat /\ k + 1 \in 0..n
    BY <1>1
  <2>3. ASSUME NEW T \in SUBSET S, T # {}
        PROVE  SumThen(f, g, T) \in Int /\ (Cardinality(T) <= k + 1 => SumThen(f, h, T) = SumThen(f, g, T))
    <3> DEFINE x == CHOOSE y \in T : TRUE
    <3>1. /\ x \in T /\ x \in S /\ T \ {x} \in SUBSET S /\ Cardinality(T) \in Nat
          /\ Cardinality(T \ {x}) = Cardinality(T) - 1
      BY <2>3, SubsetsCounted
    <3>2. g[T \ {x}] \in Int /\ f[x] \in Int
      BY <3>1, <2>1 DEF AddsUp
    <3>3. Cardinality(T) <= k + 1 => h[T \ {x}] = g[T \ {x}]
      BY <3>1, <2>2
    <3> HIDE DEF h
    <3> QED BY <3>2, <3>3 DEF SumThen
  <2>4. h \in [SUBSET S -> Int]
    <3> SUFFICES ASSUME NEW T \in SUBSET S PROVE h[T] \in Int
      OBVIOUS
    <3>1. CASE Cardinality(T) = k + 1
      <4>1. T # {}
        BY <3>1, <2>2, SubsetsCounted
      <4> QED BY <3>1, <4>1, <2>3
    <3>2. CASE Cardinality(T) # k + 1
      BY <3>2, <2>1 DEF AddsUp
    <3> QED BY <3>1, <3>2
  <2>5. ASSUME NEW T \in SUBSET S, Cardinality(T) <= k + 1
        PROVE  h[T] = IF T = {} THEN 0 ELSE SumThen(f, h, T)
    <3>1. Cardinality(T) \in Nat /\ (Cardinality(T) = 0 <=> T = {})
      BY SubsetsCounted
    <3>2. CASE Cardinality(T) = k + 1
      <4>1. T # {} /\ h[T] = SumThen(f, g, T)
        BY <3>1, <3>2, <2>2
      <4> HIDE DEF h
      <4> QED BY <4>1, <2>3, <2>5
    <3>3. CASE Cardinality(T) # k + 1
      <4>1. h[T] = g[T] /\ Cardinality(T) <= k
        BY <3>1, <3>3, <2>2, <2>5
      <4>2. g[T] = IF T = {} THEN 0 ELSE SumThen(f, g, T)
        BY <4>1, <2>1 DEF AddsUp
      <4> HIDE DEF h
      <4> QED BY <4>1, <4>2, <2>3, <2>5
    <3> QED BY <3>2, <3>3
  <2>6. AddsUp(f, S, h, k + 1)
    <3> HIDE DEF h
    <3> QED BY <2>4, <2>5 DEF AddsUp
  <2> QED BY <2>2, <2>6
<1>4. 0..n \subseteq D
  <2> HIDE DEF D
  <2> QED BY <1>1, <1>2, <1>3, InductionUpTo
<1> QED BY <1>1, <1>4

(* A sum of integers is an integer.                                        *)
LEMMA SumIsInt ==
  ASSUME NEW S, IsFiniteSet(S), NEW f \in [S -> Int]
  PROVE  SumFunction(f) \in Int
<1> DEFINE Sums(g) == g = [T \in SUBSET S |-> IF T = {} THEN 0 ELSE SumThen(f, g, T)]
           sum == CHOOSE g : Sums(g)
           n == Cardinality(S)
           D == {k \in 0..n : \A T \in SUBSET S : Cardinality(T) <= k => sum[T] \in Int}
<1>1. SumFunction(f) = sum[S]
  <2>1. DOMAIN f = S
    OBVIOUS
  <2> QED BY <2>1, Zenon DEF SumFunction, SumFunctionOnSet, FoldFunctionOnSet, MapThenFoldSet, SumThen
<1>2. \E g : Sums(g)
  <2>1. PICK g : AddsUp(f, S, g, n)
    BY SumExists
  <2>2. \A T \in SUBSET S : g[T] = IF T = {} THEN 0 ELSE SumThen(f, g, T)
    BY <2>1, SubsetsCounted DEF AddsUp
  <2>3. Sums(g)
    BY <2>1, <2>2 DEF AddsUp
  <2> QED BY <2>3
<1>3. Sums(sum)
  <2> HIDE DEF Sums
  <2> QED BY <1>2
<1>4. \A T \in SUBSET S : sum[T] = IF T = {} THEN 0 ELSE SumThen(f, sum, T)
  <2> HIDE DEF sum
  <2> QED BY <1>3
<1> HIDE DEF sum
<1>5. n \in Nat /\ n \in 0..n /\ 0 \in 0..n
  BY FS_CardinalityType
<1>6. 0 \in D
  <2>1. \A T \in SUBSET S : Cardinality(T) <= 0 => T = {}
    <3>1. \A T \in SUBSET S : Cardinality(T) \in Nat /\ (Cardinality(T) = 0 <=> T = {})
      BY SubsetsCounted
    <3> QED BY <3>1
  <2> QED BY <1>4, <1>5, <2>1
<1>7. ASSUME NEW k \in 0..(n-1), k \in D
      PROVE  k + 1 \in D
  <2>1. k \in Nat /\ k + 1 \in 0..n
    BY <1>5
  <2>2. ASSUME NEW T \in SUBSET S, Cardinality(T) <= k + 1
        PROVE  sum[T] \in Int
    <3>1. CASE T = {}
      BY <3>1, <1>4
    <3>2. CASE T # {}
      <4> DEFINE x == CHOOSE y \in T : TRUE
      <4>1. /\ x \in T /\ x \in S /\ T \ {x} \in SUBSET S /\ Cardinality(T) \in Nat
            /\ Cardinality(T \ {x}) = Cardinality(T) - 1
        BY <3>2, SubsetsCounted
      <4>2. Cardinality(T \ {x}) <= k
        BY <4>1, <2>1, <2>2
      <4>3. sum[T \ {x}] \in Int /\ f[x] \in Int
        BY <4>1, <4>2, <1>7
      <4>4. sum[T] = f[x] + sum[T \ {x}]
        BY <3>2, <1>4 DEF SumThen
      <4> QED BY <4>3, <4>4
    <3> QED BY <3>1, <3>2
  <2> QED BY <2>1, <2>2
<1>8. 0..n \subseteq D
  <2> HIDE DEF D
  <2> QED BY <1>5, <1>6, <1>7, InductionUpTo
<1>9. Cardinality(S) <= n
  BY <1>5
<1> QED BY <1>1, <1>5, <1>8, <1>9

-----------------------------------------------------------------------------
(* Types, and the zeros of a Jacobian *)

IntRows(j) == \A v \in All : j[v] \in [RawVars -> Int]

LEMMA FollowTyped ==
  ASSUME NEW b \in Beliefs, NEW e, NEW j, Follow(b, e, j)
  PROVE  IntRows(j) /\ \A v \in All : e[v].m \in Int
<1> DEFINE S == {v \in All : e[v].m \in Int /\ j[v] \in [RawVars -> Int]}
<1>1. ASSUME NEW v \in RawVars
      PROVE  v \in S
  <2>1. b.mean[v].m \in Int
    BY NumbersAssumption DEF Beliefs
  <2>2. UnitRow(v) \in [RawVars -> Int]
    BY DEF UnitRow
  <2> QED BY <2>1, <2>2 DEF Follow, All
<1>2. ASSUME NEW v \in DerivedVars, Parents(v) \subseteq S
      PROVE  v \in S
  <2> DEFINE x == Expr[v].left  y == Expr[v].right
  <2>1. e[x].m \in Int /\ e[y].m \in Int /\ j[x] \in [RawVars -> Int] /\ j[y] \in [RawVars -> Int]
    BY <1>2 DEF Parents
  <2>2. Value(v, e).m \in Int
    BY <2>1 DEF Value, Plus, Times, Num
  <2>3. Row(v, e, j) \in [RawVars -> Int]
    <3>1. \A r \in RawVars : j[x][r] \in Int /\ j[y][r] \in Int
      BY <2>1
    <3> HIDE DEF x, y
    <3>2. \A r \in RawVars : (IF Expr[v].op = "add" THEN j[x][r] + j[y][r]
                              ELSE e[y].m * j[x][r] + e[x].m * j[y][r]) \in Int
      BY <2>1, <3>1
    <3> QED BY <3>2 DEF Row, x, y
  <2>4. e[v] = Value(v, e) /\ j[v] = Row(v, e, j) /\ v \in All
    BY DEF Follow, All
  <2> QED BY <2>2, <2>3, <2>4
<1>3. All \subseteq S
  <2> HIDE DEF S
  <2> QED BY <1>1, <1>2, TopoInduction
<1> QED BY <1>3 DEF IntRows

(* Structural zeros: what is not reached from C does not depend on it.     *)
LEMMA UnreachedIsZero ==
  ASSUME NEW b \in Beliefs, NEW e, NEW j, Follow(b, e, j), NEW C, C \subseteq RawVars
  PROVE  \A v \in All \ (C \cup AffectedSet(C)) : \A s \in C : j[v][s] = 0
<1> DEFINE A == AffectedSet(C)
           S == {v \in All : v \notin C \cup A => \A s \in C : j[v][s] = 0}
<1>1. /\ A \subseteq DerivedVars
      /\ \A v \in DerivedVars : v \in A <=> Parents(v) \cap (C \cup A) # {}
  BY AffectedFixpoint
<1> HIDE DEF A
<1>2. ASSUME NEW v \in RawVars
      PROVE  v \in S
  BY DEF Follow, UnitRow, All
<1>3. ASSUME NEW v \in DerivedVars, Parents(v) \subseteq S
      PROVE  v \in S
  <2> SUFFICES ASSUME v \notin A, NEW s \in C PROVE j[v][s] = 0
    BY DEF All
  <2> DEFINE x == Expr[v].left  y == Expr[v].right
  <2>1. x \in Parents(v) /\ y \in Parents(v) /\ x \in All /\ y \in All
    BY ParentsKnown DEF Parents
  <2>2. j[x][s] = 0 /\ j[y][s] = 0
    BY <2>1, <1>1, <1>3
  <2>3. e[x].m \in Int /\ e[y].m \in Int
    BY <2>1, FollowTyped
  <2>4. j[v] = Row(v, e, j) /\ s \in RawVars
    BY DEF Follow
  <2>5. j[v][s] = IF Expr[v].op = "add" THEN j[x][s] + j[y][s]
                  ELSE e[y].m * j[x][s] + e[x].m * j[y][s]
    BY <2>4 DEF Row
  <2> HIDE DEF x, y
  <2>6. e[y].m * 0 = 0 /\ e[x].m * 0 = 0
    BY <2>3
  <2> QED BY <2>2, <2>5, <2>6
<1>4. All \subseteq S
  <2> HIDE DEF S
  <2> QED BY <1>2, <1>3, TopoInduction
<1> QED BY <1>4 DEF A

-----------------------------------------------------------------------------
(* Covariances *)

Products(row, sigma, r) == [s \in RawVars |-> row[s] * sigma[s][r]]

LEMMA LeftRowIs ==
  ASSUME NEW j, NEW sigma, NEW v
  PROVE  LeftRow(j, sigma, v) = [r \in RawVars |-> SumFunction(Products(j[v], sigma, r))]
BY Zenon DEF LeftRow, Products

LEMMA LeftRowTyped ==
  ASSUME NEW j, IntRows(j), NEW sigma \in Sigmas, NEW v \in All
  PROVE  LeftRow(j, sigma, v) \in [RawVars -> Int]
<1>1. ASSUME NEW r \in RawVars
      PROVE  SumFunction(Products(j[v], sigma, r)) \in Int
  <2>1. \A s \in RawVars : j[v][s] \in Int /\ sigma[s][r] \in Int
    BY NumbersAssumption DEF IntRows
  <2>2. Products(j[v], sigma, r) \in [RawVars -> Int]
    BY <2>1 DEF Products
  <2> QED BY <2>2, SumIsInt, NumbersAssumption
<1>2. \A r \in RawVars : SumFunction(Products(j[v], sigma, r)) \in Int
  BY <1>1
<1>3. [r \in RawVars |-> SumFunction(Products(j[v], sigma, r))] \in [RawVars -> Int]
  BY <1>2
<1> QED BY <1>3, LeftRowIs

LEMMA LeftRowSame ==
  ASSUME NEW j, NEW k, NEW sigma, NEW v, j[v] = k[v]
  PROVE  LeftRow(j, sigma, v) = LeftRow(k, sigma, v)
<1>1. /\ LeftRow(j, sigma, v) = [r \in RawVars |-> SumFunction(Products(j[v], sigma, r))]
      /\ LeftRow(k, sigma, v) = [r \in RawVars |-> SumFunction(Products(k[v], sigma, r))]
  BY LeftRowIs
<1> QED BY <1>1, Zenon

(* A row that has zeros for all changed covariances gives the same sums.   *)
LEMMA LeftRowUnhit ==
  ASSUME NEW b \in Beliefs, NEW c \in Beliefs, NEW j, IntRows(j), NEW v \in All,
         \A s \in ChangedRows(b, c) : j[v][s] = 0
  PROVE  LeftRow(j, b.sigma, v) = LeftRow(j, c.sigma, v)
<1>0. b.sigma \in Sigmas /\ c.sigma \in Sigmas
  BY DEF Beliefs
<1>1. ASSUME NEW r \in RawVars
      PROVE  Products(j[v], b.sigma, r) = Products(j[v], c.sigma, r)
  <2>1. ASSUME NEW s \in RawVars
        PROVE  j[v][s] * b.sigma[s][r] = j[v][s] * c.sigma[s][r]
    <3>1. b.sigma[s][r] \in Int /\ c.sigma[s][r] \in Int /\ j[v][s] \in Int
      BY <1>0, NumbersAssumption DEF IntRows
    <3>2. CASE s \in ChangedRows(b, c)
      BY <3>1, <3>2
    <3>3. CASE s \notin ChangedRows(b, c)
      BY <3>3 DEF ChangedRows
    <3> QED BY <3>2, <3>3
  <2> QED BY <2>1 DEF Products
<1>2. [r \in RawVars |-> SumFunction(Products(j[v], b.sigma, r))]
      = [r \in RawVars |-> SumFunction(Products(j[v], c.sigma, r))]
  <2> DEFINE P(r) == Products(j[v], b.sigma, r)  Q(r) == Products(j[v], c.sigma, r)
  <2>1. \A r \in RawVars : P(r) = Q(r)
    BY <1>1
  <2> HIDE DEF P, Q
  <2>2. \A r \in RawVars : SumFunction(P(r)) = SumFunction(Q(r))
    BY <2>1
  <2>3. [r \in RawVars |-> SumFunction(P(r))] = [r \in RawVars |-> SumFunction(Q(r))]
    BY <2>2
  <2> QED BY <2>3 DEF P, Q
<1> QED BY <1>2, LeftRowIs

LEMMA CrossTyped ==
  ASSUME NEW j, IntRows(j), NEW l, IntRows(l), NEW v \in All, NEW w \in All
  PROVE  Cross(l, j, v, w) \in Int
<1>1. [r \in RawVars |-> l[v][r] * j[w][r]] \in [RawVars -> Int]
  BY DEF IntRows
<1> QED BY <1>1, SumIsInt, NumbersAssumption DEF Cross

LEMMA CrossSame ==
  ASSUME NEW j, NEW k, NEW l, NEW m, NEW v, NEW w, l[v] = m[v], j[w] = k[w]
  PROVE  Cross(l, j, v, w) = Cross(m, k, v, w)
BY Zenon DEF Cross

-----------------------------------------------------------------------------
(* One incremental step *)

(* A full view and caches are, up to signs of zeros, those of a belief.    *)
Matches(b, view, jac, lft) ==
  LET p == PushForward(b)
  IN  /\ view.cov2 = p.full.cov2
      /\ \A v \in All : view.mean[v].m = p.full.mean[v].m
      /\ jac # NoCache => jac = p.jacobian /\ lft = p.left

(* The left rows and the covariance of the incremental path, in terms of   *)
(* what it recomputes.                                                     *)
LeftAfter(b, c, k, lft) ==
  [v \in All |-> IF ChangedRows(b, c) # {} \/ v \in AffectedSet(ChangedMeans(b, c))
                   THEN LeftRow(k, c.sigma, v) ELSE lft[v]]

Hit(b, c) == ChangedRows(b, c) \cup AffectedSet(ChangedRows(b, c))
               \cup AffectedSet(ChangedMeans(b, c))

BlockAt(l, k, v, w) == Cross(l, k, v, w) + Cross(l, k, w, v)

CovAfter(b, c, k, l, cov2) ==
  [v \in All |-> [w \in All |->
     IF v \in Hit(b, c) THEN BlockAt(l, k, v, w)
     ELSE IF w \in Hit(b, c) THEN BlockAt(l, k, w, v) ELSE cov2[v][w]]]

(* The left rows that are kept are those of the new belief.                *)
LEMMA LeftRowsKept ==
  ASSUME NEW b \in Beliefs, NEW c \in Beliefs, NEW e, NEW j, NEW f, NEW k,
         Follow(b, e, j), Follow(c, f, k)
  PROVE  LeftAfter(b, c, k, LeftOf(j, b.sigma)) = LeftOf(k, c.sigma)
<1> DEFINE A == AffectedSet(ChangedMeans(b, c))
<1>1. ASSUME NEW v \in All, ChangedRows(b, c) = {}, v \notin A
      PROVE  LeftRow(j, b.sigma, v) = LeftRow(k, c.sigma, v)
  <2>1. j[v] = k[v]
    <3>1. \A u \in All \ A : j[u] = k[u]
      BY UnreachedUnchanged
    <3> QED BY <1>1, <3>1
  <2>2. IntRows(j)
    BY FollowTyped
  <2>3. LeftRow(j, b.sigma, v) = LeftRow(j, c.sigma, v)
    BY <1>1, <2>2, LeftRowUnhit
  <2> QED BY <2>1, <2>3, LeftRowSame
<1>2. \A v \in All : LeftOf(j, b.sigma)[v] = LeftRow(j, b.sigma, v)
  BY DEF LeftOf
<1> QED BY <1>1, <1>2, Zenon DEF LeftAfter, LeftOf

(* The block of two variables that are not hit does not change.            *)
LEMMA UnhitBlock ==
  ASSUME NEW b \in Beliefs, NEW c \in Beliefs, NEW e, NEW j, NEW f, NEW k,
         Follow(b, e, j), Follow(c, f, k),
         NEW v \in All \ Hit(b, c), NEW w \in All \ Hit(b, c)
  PROVE  BlockAt(LeftOf(j, b.sigma), j, v, w) = BlockAt(LeftOf(k, c.sigma), k, v, w)
<1> DEFINE R == ChangedRows(b, c)
<1>1. ASSUME NEW u \in All \ Hit(b, c)
      PROVE  j[u] = k[u] /\ LeftOf(j, b.sigma)[u] = LeftOf(k, c.sigma)[u]
  <2>1. u \in All /\ u \notin AffectedSet(ChangedMeans(b, c)) /\ u \notin R \cup AffectedSet(R)
    BY DEF Hit
  <2>2. j[u] = k[u]
    <3>1. \A x \in All \ AffectedSet(ChangedMeans(b, c)) : j[x] = k[x]
      BY UnreachedUnchanged
    <3> QED BY <2>1, <3>1
  <2>3. \A s \in R : j[u][s] = 0
    <3>1. R \subseteq RawVars
      BY DEF ChangedRows
    <3>2. \A x \in All \ (R \cup AffectedSet(R)) : \A s \in R : j[x][s] = 0
      <4> HIDE DEF R
      <4> QED BY <3>1, UnreachedIsZero
    <3> HIDE DEF R
    <3> QED BY <2>1, <3>2
  <2>4. LeftRow(j, b.sigma, u) = LeftRow(j, c.sigma, u)
    BY <2>1, <2>3, FollowTyped, LeftRowUnhit
  <2>5. LeftRow(j, b.sigma, u) = LeftRow(k, c.sigma, u)
    BY <2>2, <2>4, LeftRowSame
  <2> QED BY <2>1, <2>2, <2>5 DEF LeftOf
<1>2. /\ Cross(LeftOf(j, b.sigma), j, v, w) = Cross(LeftOf(k, c.sigma), k, v, w)
      /\ Cross(LeftOf(j, b.sigma), j, w, v) = Cross(LeftOf(k, c.sigma), k, w, v)
  <2>1. /\ j[v] = k[v] /\ LeftOf(j, b.sigma)[v] = LeftOf(k, c.sigma)[v]
        /\ j[w] = k[w] /\ LeftOf(j, b.sigma)[w] = LeftOf(k, c.sigma)[w]
    BY <1>1
  <2> QED BY <2>1, CrossSame
<1> QED BY <1>2 DEF BlockAt

(* Rows, columns and kept entries make the covariance of the new belief.   *)
LEMMA CovarianceAssembled ==
  ASSUME NEW b \in Beliefs, NEW c \in Beliefs, NEW e, NEW j, NEW f, NEW k,
         Follow(b, e, j), Follow(c, f, k)
  PROVE  CovAfter(b, c, k, LeftOf(k, c.sigma), BlockOf(LeftOf(j, b.sigma), j))
           = BlockOf(LeftOf(k, c.sigma), k)
<1> DEFINE l == LeftOf(k, c.sigma)  old == BlockOf(LeftOf(j, b.sigma), j)
<1>1. IntRows(k) /\ IntRows(l)
  <2>1. IntRows(k) /\ c.sigma \in Sigmas
    BY FollowTyped DEF Beliefs
  <2>2. \A v \in All : l[v] = LeftRow(k, c.sigma, v)
    BY DEF LeftOf
  <2>3. \A v \in All : LeftRow(k, c.sigma, v) \in [RawVars -> Int]
    BY <2>1, LeftRowTyped
  <2> QED BY <2>1, <2>2, <2>3 DEF IntRows
<1>2. ASSUME NEW v \in All, NEW w \in All
      PROVE  BlockAt(l, k, w, v) = BlockAt(l, k, v, w)
  <2>1. Cross(l, k, v, w) \in Int /\ Cross(l, k, w, v) \in Int
    <3> HIDE DEF l
    <3> QED BY <1>1, CrossTyped
  <2> HIDE DEF l
  <2> QED BY <2>1 DEF BlockAt
<1>3. ASSUME NEW v \in All, NEW w \in All, v \notin Hit(b, c), w \notin Hit(b, c)
      PROVE  old[v][w] = BlockAt(l, k, v, w)
  <2>1. old[v][w] = BlockAt(LeftOf(j, b.sigma), j, v, w)
    BY DEF BlockOf, BlockAt
  <2>2. BlockAt(LeftOf(j, b.sigma), j, v, w) = BlockAt(l, k, v, w)
    BY <1>3, UnhitBlock
  <2> QED BY <2>1, <2>2
<1>4. BlockOf(l, k) = [v \in All |-> [w \in All |-> BlockAt(l, k, v, w)]]
  BY Zenon DEF BlockOf, BlockAt
<1> HIDE DEF l, old
<1>5. CovAfter(b, c, k, l, old) = BlockOf(l, k)
  <2>1. ASSUME NEW v \in All, NEW w \in All
        PROVE  (IF v \in Hit(b, c) THEN BlockAt(l, k, v, w)
                ELSE IF w \in Hit(b, c) THEN BlockAt(l, k, w, v) ELSE old[v][w])
               = BlockAt(l, k, v, w)
    BY <1>2, <1>3
  <2> QED BY <2>1, <1>4, Zenon DEF CovAfter
<1> QED BY <1>5 DEF l, old

LEMMA IncrementalIsComplete ==
  ASSUME NEW b \in Beliefs, NEW c \in Beliefs, NEW view, NEW jac, NEW lft,
         Matches(b, view, jac, lft)
  PROVE  LET q == PushForwardIncremental(b, c, view, jac, lft)
         IN  Matches(c, q.full, q.jacobian, q.left)
<1> DEFINE q == PushForwardIncremental(b, c, view, jac, lft)
           o == PushForward(b)
           n == PushForward(c)
           A == AffectedSet(ChangedMeans(b, c))
           env  == [v \in All |-> IF v \in RawVars THEN c.mean[v] ELSE view.mean[v]]
           rows == [v \in All |-> IF v \in RawVars THEN UnitRow(v) ELSE jac[v]]
           s == Sweep(env, rows, A)
           l == LeftAfter(b, c, s.rows, lft)
<1>1. /\ Follow(c, n.full.mean, n.jacobian) /\ n.left = LeftOf(n.jacobian, c.sigma)
      /\ n.full.cov2 = BlockOf(n.left, n.jacobian)
      /\ n = [full |-> n.full, jacobian |-> n.jacobian, left |-> n.left,
              mode |-> "full", rows |-> All]
  BY PushForwardFollows, Zenon
<1>2. CASE jac = NoCache \/ lft = NoCache \/ Hit(b, c) = All
  <2>1. \E md : q = [n EXCEPT !.mode = md]
    BY <1>2, Zenon DEF PushForwardIncremental, Hit
  <2> HIDE DEF q, n
  <2>2. q.full = n.full /\ q.jacobian = n.jacobian /\ q.left = n.left
    BY <1>1, <2>1
  <2> QED BY <2>2 DEF Matches, q, n
<1>3. CASE jac # NoCache /\ lft # NoCache /\ Hit(b, c) # All
  <2>1. /\ Follow(b, o.full.mean, o.jacobian) /\ o.left = LeftOf(o.jacobian, b.sigma)
        /\ o.full.cov2 = BlockOf(o.left, o.jacobian)
    BY PushForwardFollows, Zenon
  <2>2. /\ jac = o.jacobian /\ lft = o.left /\ view.cov2 = o.full.cov2
        /\ \A v \in All : view.mean[v].m = o.full.mean[v].m
    BY <1>3, Zenon DEF Matches
  <2>3. q = [full |-> [mean |-> s.env, cov2 |-> CovAfter(b, c, s.rows, l, view.cov2)],
             jacobian |-> s.rows, left |-> l, mode |-> "incremental", rows |-> Hit(b, c)]
    BY <1>3, Zenon DEF PushForwardIncremental, Hit, LeftAfter, CovAfter, BlockAt
  <2> HIDE DEF o, n, q
  <2>4. /\ OnAll(env) /\ \A v \in RawVars : env[v] = c.mean[v]
        /\ \A v \in DerivedVars : env[v].m = o.full.mean[v].m
        /\ OnAll(rows) /\ \A v \in RawVars : rows[v] = UnitRow(v)
        /\ \A v \in DerivedVars : rows[v] = o.jacobian[v]
    <3>1. \A v \in DerivedVars : v \in All /\ v \notin RawVars
      BY TopoAssumption DEF All
    <3>2. \A v \in RawVars : v \in All
      BY DEF All
    <3> QED BY <2>2, <3>1, <3>2 DEF OnAll
  <2>5. s.rows = n.jacobian /\ \A v \in All : s.env[v].m = n.full.mean[v].m
    <3> HIDE DEF env, rows
    <3> QED BY <1>1, <2>1, <2>4, IncrementalPass
  <2> HIDE DEF s
  <2>6. l = n.left
    BY <1>1, <2>1, <2>2, <2>5, LeftRowsKept
  <2>7. CovAfter(b, c, s.rows, l, view.cov2) = n.full.cov2
    <3> HIDE DEF l
    <3> QED BY <1>1, <2>1, <2>2, <2>5, <2>6, CovarianceAssembled
  <2> HIDE DEF l
  <2>8. /\ q.full.mean = s.env /\ q.full.cov2 = n.full.cov2
        /\ q.jacobian = n.jacobian /\ q.left = n.left
    BY <2>3, <2>5, <2>6, <2>7
  <2> QED BY <2>5, <2>8 DEF Matches, n, q
<1> QED BY <1>2, <1>3

-----------------------------------------------------------------------------
(* Every execution *)

(* There is no world yet, or its caches are those of its belief, which is  *)
(* one the numbers of which are known.                                     *)
CachesHeld == Compiled => belief \in Beliefs /\ Matches(belief, full, jacobian, left)

(* What World.compile returns, with caches or without.                     *)
LEMMA CompileHolds ==
  ASSUME Compile
  PROVE  CachesHeld'
<1>1. PICK b \in Beliefs, cached \in BOOLEAN :
        LET p == PushForward(b)
        IN  /\ belief' = b /\ full' = p.full
            /\ jacobian' = (IF cached THEN p.jacobian ELSE NoCache)
            /\ left' = (IF cached THEN p.left ELSE NoCache)
  BY DEF Compile, CompiledWorlds
<1>2. Matches(belief', full', jacobian', left')
  BY <1>1, Zenon DEF Matches
<1> QED BY <1>1, <1>2 DEF CachesHeld

(* A commit of the incremental path.                                       *)
LEMMA PropagateHolds ==
  ASSUME CachesHeld, Compiled, NEW c \in Beliefs, NEW selective, Propagate(c, selective)
  PROVE  CachesHeld'
<1> DEFINE q == PushForwardIncremental(belief, c, full, jacobian, left)
<1>1. Matches(c, q.full, q.jacobian, q.left)
  BY IncrementalIsComplete DEF CachesHeld
<1>2. belief' = c /\ full' = q.full /\ jacobian' = q.jacobian /\ left' = q.left
  BY DEF Propagate
<1> HIDE DEF q
<1>3. Matches(belief', full', jacobian', left')
  BY <1>1, <1>2
<1> QED BY <1>2, <1>3 DEF CachesHeld

LEMMA CachesInductive == WorldSpec => []CachesHeld
<1>1. WorldInit => CachesHeld
  BY DEF WorldInit, CachesHeld, Compiled
<1>2. CachesHeld /\ [WorldNext]_worldVars => CachesHeld'
  <2> SUFFICES ASSUME CachesHeld, [WorldNext]_worldVars PROVE CachesHeld'
    OBVIOUS
  <2>1. CASE Compile
    BY <2>1, CompileHolds
  <2>2. ASSUME Compiled, NEW b \in Beliefs, Transform(b) \/ Observe(b)
        PROVE  CachesHeld'
    <3>1. CASE \E sel \in BOOLEAN : Propagate(b, sel)
      BY <2>2, <3>1, PropagateHolds
    <3>2. CASE UNCHANGED <<belief, full, jacobian, left>>
      BY <2>2, <3>2 DEF CachesHeld
    <3> QED BY <2>2, <3>1, <3>2 DEF Transform, Observe
  <2>3. CASE UNCHANGED worldVars
    BY <2>3 DEF worldVars, CachesHeld, Compiled
  <2> QED BY <2>1, <2>2, <2>3 DEF WorldNext
<1> QED BY <1>1, <1>2, PTL DEF WorldSpec

(* However long the chain of incremental steps, over any graph and from    *)
(* any caches World.compile left, the view is the one push_forward would   *)
(* compute and the caches are those the next step may trust.               *)
THEOREM IncrementalAlwaysMatches == WorldSpec => []IncrementalMatchesComplete
<1>1. CachesHeld => IncrementalMatchesComplete
  BY Zenon DEF CachesHeld, Matches, IncrementalMatchesComplete
<1> QED BY <1>1, CachesInductive, PTL

(* _assert_selectivity never refuses: whichever path computed a candidate, *)
(* only what moved and what it reaches has another mean than before.       *)
TransformsAreSelective == Compiled => work.selective = TRUE

LEMMA OnlyReachedMeansMove ==
  ASSUME CachesHeld, Compiled, NEW c \in Beliefs
  PROVE  Selective(ChangedMeans(belief, c), c)
<1> DEFINE q == PushForwardIncremental(belief, c, full, jacobian, left)
           o == PushForward(belief)
           n == PushForward(c)
           M == ChangedMeans(belief, c)
<1>1. Matches(belief, full, jacobian, left) /\ Matches(c, q.full, q.jacobian, q.left)
  BY IncrementalIsComplete DEF CachesHeld
<1>2. \A v \in All : full.mean[v].m = o.full.mean[v].m /\ q.full.mean[v].m = n.full.mean[v].m
  <2> HIDE DEF q
  <2> QED BY <1>1, Zenon DEF Matches
<1>3. Follow(belief, o.full.mean, o.jacobian) /\ Follow(c, n.full.mean, n.jacobian)
  BY PushForwardFollows, Zenon
<1> HIDE DEF q, o, n
<1>4. \A v \in All \ AffectedSet(M) : v \notin M => o.full.mean[v].m = n.full.mean[v].m
  BY <1>3, UnreachedUnchanged
<1> HIDE DEF M
<1>5. \A v \in All : q.full.mean[v].m # full.mean[v].m => v \in M \cup AffectedSet(M)
  BY <1>2, <1>4
<1> QED BY <1>5, Zenon DEF Selective, q, M

THEOREM TransformsAlwaysSelective == WorldSpec => []TransformsAreSelective
<1>1. WorldInit => TransformsAreSelective
  BY DEF WorldInit, TransformsAreSelective, Compiled
<1>2. CachesHeld /\ TransformsAreSelective /\ [WorldNext]_worldVars => TransformsAreSelective'
  <2> SUFFICES ASSUME CachesHeld, TransformsAreSelective, [WorldNext]_worldVars
               PROVE  TransformsAreSelective'
    OBVIOUS
  <2>1. CASE Compile
    BY <2>1 DEF Compile, TransformsAreSelective
  <2>2. ASSUME Compiled, NEW b \in Beliefs, Transform(b) \/ Observe(b)
        PROVE  TransformsAreSelective'
    <3>1. Propagate(b, TRUE)
      BY <2>2, OnlyReachedMeansMove DEF Transform, Observe
    <3>2. \E md : work' = [mode |-> md, selective |-> TRUE]
      BY <3>1, Zenon DEF Propagate
    <3> QED BY <3>2 DEF TransformsAreSelective
  <2>3. CASE UNCHANGED worldVars
    BY <2>3 DEF worldVars, TransformsAreSelective, Compiled
  <2> QED BY <2>1, <2>2, <2>3 DEF WorldNext
<1> QED BY <1>1, <1>2, CachesInductive, PTL DEF WorldSpec

-----------------------------------------------------------------------------
(* What the loops of Deps give to Propagation *)

(* A graph that was built leaves an order of the kind Propagation assumes  *)
(* of Topo: each derived variable once, after all its parents.             *)
OrderFits ==
  Built =>
    /\ order \in Seq(Derived) /\ Placed = Derived
    /\ \A i, j \in DOMAIN order : order[i] = order[j] => i = j
    /\ \A i \in DOMAIN order : parents[order[i]] \subseteq Raw \cup {order[j] : j \in 1..(i-1)}

THEOREM SortFitsPropagation == Spec => []OrderFits
<1>1. SortEnds => OrderFits
  <2> SUFFICES ASSUME SortEnds, Built PROVE OrderFits
    BY DEF OrderFits
  <2>1. TypeOK /\ Sorting /\ Placed = Derived
    BY DEF SortEnds, Ended
  <2>2. order \in Seq(Derived) /\ Len(order) \in Nat /\ DOMAIN order = 1..Len(order)
    BY <2>1 DEF TypeOK
  <2>3. \A i, j \in DOMAIN order : order[i] = order[j] => i = j
    <3> DEFINE S == 1..Len(order)
    <3>1. IsFiniteSet(S) /\ Cardinality(S) = Len(order)
      BY <2>2, FS_Interval
    <3>2. Cardinality(S) = Cardinality(Placed)
      BY <2>1, <3>1 DEF Sorting, SortInvariant
    <3>3. order \in Surjection(S, Placed)
      <4>1. order \in [S -> Placed]
        BY <2>1, <2>2
      <4>2. \A t \in Placed : \E s \in S : order[s] = t
        BY <2>2 DEF Placed
      <4> QED BY <4>1, <4>2 DEF Surjection
    <3>4. order \in Injection(S, Placed)
      <4> HIDE DEF S
      <4> QED BY <3>1, <3>2, <3>3, FS_SurjSameCardinalityImpliesInj
    <3>5. \A i, j \in S : order[i] = order[j] => i = j
      BY <3>4 DEF Injection, IsInjective
    <3> QED BY <2>2, <3>5
  <2>4. ASSUME NEW i \in DOMAIN order
        PROVE  parents[order[i]] \subseteq Raw \cup {order[j] : j \in 1..(i-1)}
    <3>1. parents[order[i]] \subseteq Known
      BY <2>1, <2>2 DEF TypeOK
    <3>2. parents[order[i]] \cap Derived \subseteq Before(i)
      BY <2>1 DEF Sorting
    <3> QED BY <3>1, <3>2 DEF Known, Before
  <2> QED BY <2>1, <2>2, <2>3, <2>4 DEF OrderFits
<1> QED BY <1>1, EndInductive, PTL

(* On the graph of the definitions Propagation follows, the search of      *)
(* affected_set answers what AffectedSet finds in one pass.                *)
AnswerIsAffectedSet ==
  phase = "answered" /\ Derived = DerivedVars /\ parents = [v \in Derived |-> Parents(v)]
    => reached = AffectedSet(changed)

THEOREM SearchAnswersAffectedSet == Spec => []AnswerIsAffectedSet
<1>1. TypeOK /\ AffectedIsLeastClosed => AnswerIsAffectedSet
  <2> SUFFICES ASSUME TypeOK, AffectedIsLeastClosed, phase = "answered", Derived = DerivedVars,
                      parents = [v \in Derived |-> Parents(v)]
               PROVE  reached = AffectedSet(changed)
    BY DEF AnswerIsAffectedSet
  <2> DEFINE A == AffectedSet(changed)
  <2>1. /\ A \subseteq Derived
        /\ \A v \in Derived : v \in A <=> Parents(v) \cap (changed \cup A) # {}
    BY AffectedFixpoint
  <2>2. \A v : Children(v) = {d \in Derived : v \in Parents(d)}
    BY DEF Children
  <2>3. Closed(reached) /\ \A S \in SUBSET Derived : Closed(S) => reached \subseteq S
    BY DEF AffectedIsLeastClosed
  <2>4. A \subseteq reached
    <3>1. \A v \in DerivedVars : Parents(v) \cap (changed \cup reached) # {} => v \in reached
      BY <2>2, <2>3 DEF Closed
    <3> QED BY <3>1, AffectedIsLeast
  <2>5. reached \subseteq A
    <3> HIDE DEF A
    <3>1. Closed(A)
      BY <2>1, <2>2 DEF Closed
    <3> QED BY <2>1, <2>3, <3>1
  <2> QED BY <2>4, <2>5
<1> QED BY <1>1, TypeCorrect, AffectedCorrect, PTL
=============================================================================
