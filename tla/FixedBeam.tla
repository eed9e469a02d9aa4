----------------------------- MODULE FixedBeam -----------------------------
(***************************************************************************)
(* The fixed-point beam claim, computed twice: by gat/sp1_beam.py over     *)
(* unbounded integers with range checks, and by the guest of               *)
(* sp1/beam/lib/src/lib.rs over checked u64 and u128 integers.             *)
(*                                                                         *)
(* A mean or a demand is a whole number of grains, Grain of them to one    *)
(* unit of the fixed-point scale.  A SHA-256 digest is the value digested. *)
(* The resistance factor and the numeric profile are the pinned v1 ones.   *)
(***************************************************************************)
EXTENDS Integers

CONSTANTS
  UMax,      \* the largest u64
  WMax,      \* the largest u128
  Million,   \* the denominator of a factor in ppm
  Phi,       \* the resistance factor of the v1 guest, in ppm
  Grain      \* grains of a belief in one unit of its scale

ASSUME WidthAssumption ==
  /\ UMax \in Nat \ {0}
  /\ WMax = UMax * UMax + 2 * UMax     \* twice the bits

ASSUME FactorAssumption ==
  /\ Million \in Nat \ {0}
  /\ Phi \in 1..Million
  /\ 2 * Million <= WMax

ASSUME GrainAssumption == Grain \in Nat \ {0}

-----------------------------------------------------------------------------
(* Rounding and quantization *)

(* Slip: a tie rounds up.                                                  *)
RoundHalfUp(n, d) ==
  IF 2 * (n % d) >= d THEN (n \div d) + 1 ELSE n \div d

RoundDivTiesEven(n, d) ==
  LET q     == n \div d
      twice == 2 * (n % d)
  IN  IF twice > d \/ (twice = d /\ q % 2 = 1) THEN q + 1 ELSE q

(* Slip: the decimal is truncated.                                         *)
Truncate(grains) == grains \div Grain

Quantize(grains) == RoundDivTiesEven(grains, Grain)

-----------------------------------------------------------------------------
(* The Python evaluation *)

Input(fy, zx, demand, evidence) ==
  [fy |-> fy, zx |-> zx, demand |-> demand, evidence |-> evidence]

(* Slip: the upper bound of the range is not checked.                      *)
InputPositive(i) ==
  /\ i.fy >= 1
  /\ i.zx >= 1
  /\ i.demand >= 0

InputAccepted(i) ==
  /\ i.fy \in 1..UMax
  /\ i.zx \in 1..UMax
  /\ i.demand \in 0..UMax

Claim(i, nominal, available) ==
  [input |-> i, nominal |-> nominal, available |-> available,
   verdict |-> IF available >= i.demand THEN "PASS" ELSE "FAIL"]

EvaluationFits(i) ==
  /\ i.fy * i.zx <= WMax
  /\ i.fy * i.zx * Phi <= WMax

Evaluate(i) ==
  Claim(i, i.fy * i.zx, RoundDivTiesEven(i.fy * i.zx * Phi, Million))

-----------------------------------------------------------------------------
(* The guest evaluation: a checked operation succeeds when its result fits *)

Checked(x) == x \in 0..WMax

GuestRoundsUp(n) ==
  \/ 2 * (n % Million) > Million
  \/ 2 * (n % Million) = Million /\ (n \div Million) % 2 = 1

GuestRoundFits(n) ==
  /\ Checked(2 * (n % Million))
  /\ GuestRoundsUp(n) => Checked((n \div Million) + 1)

GuestRounded(n) == IF GuestRoundsUp(n) THEN (n \div Million) + 1 ELSE n \div Million

GuestAccepts(i) ==
  /\ {i.fy, i.zx, i.demand} \subseteq 0..UMax
  /\ i.fy # 0
  /\ i.zx # 0
  /\ Checked(i.fy * i.zx)
  /\ Checked(i.fy * i.zx * Phi)
  /\ GuestRoundFits(i.fy * i.zx * Phi)

GuestEvaluate(i) ==
  LET available == GuestRounded(i.fy * i.zx * Phi)
  IN  [input |-> i, nominal |-> i.fy * i.zx, available |-> available,
       verdict |-> IF available >= i.demand THEN "PASS" ELSE "FAIL"]
=============================================================================
