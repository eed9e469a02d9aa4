------------------------------ MODULE History ------------------------------
(***************************************************************************)
(* What a session promises to those who rely on it, whatever it records    *)
(* besides: a current world and the worlds that led to it, which only      *)
(* grow, and which move only by committing an operation that verified.     *)
(***************************************************************************)
EXTENDS Naturals, Sequences

CONSTANTS Worlds, Transformations, Execute(_, _), Passes(_), GenesisWorlds

VARIABLES current, path

Init == \E w \in GenesisWorlds : current = w /\ path = <<w>>

(* An operation that executes to a verified world is committed.            *)
Commit ==
  /\ path' = Append(path, current')
  /\ \E t \in Transformations :
       /\ Execute(current, t).tag = "committed"
       /\ Passes(Execute(current, t).world)
       /\ current' = Execute(current, t).world

(* Something about the current world is noted; the world stays.            *)
Note == path' = Append(path, current) /\ UNCHANGED current

Next == Note \/ Commit

Spec == Init /\ [][Next]_<<current, path>>
=============================================================================
