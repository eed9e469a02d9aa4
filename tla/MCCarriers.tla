---------------------------- MODULE MCCarriers -----------------------------
(***************************************************************************)
(* Small instances of Carriers over the executor of module Engine, with    *)
(* two keys published under one identifier: a rotated key.                 *)
(*                                                                         *)
(* A world is Engine's, with the full view of its means as module          *)
(* Propagation leaves it: a width w, a height h, an offset o that is zero, *)
(* and the derived product o * h, each with the sign of a zero.  Two       *)
(* worlds of one raw belief may differ in the sign of the product.         *)
(***************************************************************************)
EXTENDS Carriers, Engine, TLC

MCRawVars     == {"w", "h", "o"}
MCNonNegative == {"w"}
MCLessEqual   == {<<"w", "h">>}

(* The push-forward of gat/engine/propagate.py; nothing covaries.          *)
Full == INSTANCE Propagation WITH
  RawVars <- MCRawVars, Topo <- <<"oh">>,
  Expr <- "oh" :> [op |-> "mul", left |-> "o", right |-> "h"],
  Means <- {}, Sigmas <- {},
  belief <- <<>>, full <- <<>>, jacobian <- <<>>, left <- <<>>, work <- <<>>

BeliefOf(view) ==
  [mean  |-> [v \in MCRawVars |-> view[v]],
   sigma |-> [v \in MCRawVars |-> [x \in MCRawVars |-> 0]]]

WorldSeen(view) ==
  [mean |-> [v \in MCRawVars |-> view[v].m], exact |-> {}, view |-> view]

RecompiledWorld(w) == WorldSeen(Full!PushForward(BeliefOf(w.view)).full.mean)

(* The raw means after a step, with their signs.                           *)
Stepped(mean, s) ==
  [mean EXCEPT ![s.var] =
     IF s.op = "shift_parameter" THEN Full!Plus(@, Full!Num(s.delta, FALSE))
                                 ELSE Full!Times(@, Full!Num(s.factor, FALSE))]

(* preview: the operation's steps move the raw belief, with_belief_        *)
(* incremental then the full view, from caches that are up to date.        *)
Followed(w, t) ==
  LET old     == BeliefOf(w.view)
      cache   == Full!PushForward(old)
      moved[i \in 0..Len(t)] == IF i = 0 THEN old.mean ELSE Stepped(moved[i-1], t[i])
  IN  WorldSeen(Full!PushForwardIncremental(
        old, [old EXCEPT !.mean = moved[Len(t)]], [cache.full EXCEPT !.mean = w.view],
        cache.jacobian, cache.left).full.mean)

(* Engine decides what becomes of the operation.                           *)
ExecuteFollowed(w, t) ==
  LET r == ExecuteOn(World(w), t)
  IN  [r EXCEPT !.world = IF r.tag = "committed" THEN Followed(w, t) ELSE w]

Seen(width, neg, productNeg) ==
  WorldSeen("w" :> Full!Num(width, FALSE) @@ "h" :> Full!Num(1, FALSE) @@
            "o" :> Full!Num(0, neg) @@ "oh" :> Full!Num(0, productNeg))

MCWorlds  == {Seen(n, neg, productNeg) : n \in 0..2, neg, productNeg \in BOOLEAN}
MCGenesis == {Seen(n, FALSE, FALSE) : n \in {1, 2}}

(* A step narrower, and where a zero is to change its sign, mirrored.      *)
Narrow == [op |-> "shift_parameter", var |-> "w", delta |-> -1]
Mirror == [op |-> "scale_parameter", var |-> "o", factor |-> -1]

Narrowing         == {<<Narrow>>}
MCTransformations == {<<Narrow, Mirror>>}

MCKeyId(k) == "site"

CarrierSymmetry == Permutations(Paths) \cup Permutations(Keys)
=============================================================================
