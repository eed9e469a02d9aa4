----------------------------- MODULE BeamProofs -----------------------------
(***************************************************************************)
(* What is proved of the fixed-point claim (module FixedBeam) and of the   *)
(* proof pipeline (module BeamProof), for every width, factor, grain and   *)
(* length of the ledger.                                                   *)
(***************************************************************************)
EXTENDS BeamProof, TLAPS

-----------------------------------------------------------------------------
(* Arithmetic *)

(* Division with remainder, as the rounding uses it.                       *)
LEMMA DivMod ==
  ASSUME NEW n \in Nat, NEW d \in Nat \ {0}
  PROVE  /\ n \div d \in Nat
         /\ n % d \in 0..(d - 1)
         /\ n = d * (n \div d) + (n % d)
  OBVIOUS

LEMMA MulMonotone ==
  ASSUME NEW a \in Nat, NEW b \in Nat, NEW c \in Nat, a <= b
  PROVE  a * c <= b * c
<1>1. (b - a) * c \in Nat
  OBVIOUS
<1>2. (b - a) * c = b * c - a * c
  OBVIOUS
<1> QED
  BY <1>1, <1>2

(* _round_div_ties_even returns a nearest integer: twice the distance to   *)
(* the exact quotient is at most the denominator.  Of the two integers     *)
(* that are equally near, when the quotient ends in a half, it returns the *)
(* even one, which rounding half up does not.                              *)
THEOREM RoundingIsNearest ==
  ASSUME NEW n \in Nat, NEW d \in Nat \ {0}
  PROVE  /\ RoundDivTiesEven(n, d) \in Nat
         /\ 2 * d * RoundDivTiesEven(n, d) <= 2 * n + d
         /\ 2 * n <= 2 * d * RoundDivTiesEven(n, d) + d
         /\ RoundDivTiesEven(n, d) <= n
         /\ 2 * (n % d) = d => RoundDivTiesEven(n, d) % 2 = 0
<1> DEFINE q == n \div d
           r == n % d
<1>1. q \in Nat /\ r \in 0..(d - 1) /\ n = d * q + r
  BY DivMod
<1>2. q <= n
  <2>1. 1 * q <= d * q
    BY <1>1, MulMonotone
  <2> QED
    BY <2>1, <1>1
<1>3. CASE 2 * r > d \/ (2 * r = d /\ q % 2 = 1)
  <2>1. RoundDivTiesEven(n, d) = q + 1
    BY <1>3 DEF RoundDivTiesEven
  <2>2. 2 * r = d => (q + 1) % 2 = 0
    BY <1>1, <1>3
  <2> QED
    BY <2>1, <2>2, <1>1, <1>3
<1>4. CASE ~(2 * r > d \/ (2 * r = d /\ q % 2 = 1))
  <2>1. RoundDivTiesEven(n, d) = q
    BY <1>4 DEF RoundDivTiesEven
  <2>2. 2 * r = d => q % 2 = 0
    BY <1>1, <1>4
  <2> QED
    BY <2>1, <2>2, <1>1, <1>2, <1>4
<1> QED
  BY <1>3, <1>4

(* The u128 check on the nominal capacity is dead code in both languages:  *)
(* a product of two u64 numbers always fits.                               *)
THEOREM NominalNeverOverflows ==
  ASSUME NEW i, InputAccepted(i)
  PROVE  i.fy * i.zx \in 1..WMax
<1>1. /\ i.fy \in Nat /\ i.zx \in Nat /\ UMax \in Nat
      /\ 1 <= i.fy /\ i.fy <= UMax
      /\ 1 <= i.zx /\ i.zx <= UMax
  BY WidthAssumption DEF InputAccepted
<1>2. i.fy * i.zx <= UMax * i.zx
  BY <1>1, MulMonotone
<1>3. i.zx * UMax <= UMax * UMax
  BY <1>1, MulMonotone
<1>4. UMax * i.zx = i.zx * UMax
  BY <1>1
<1>5. 1 * i.zx <= i.fy * i.zx
  BY <1>1, MulMonotone
<1>6. i.fy * i.zx \in Nat /\ UMax * UMax \in Nat /\ UMax * i.zx \in Nat
  BY <1>1
<1>7. UMax * UMax <= WMax /\ WMax \in Nat
  BY <1>1, <1>6, WidthAssumption
<1> QED
  BY <1>1, <1>2, <1>3, <1>4, <1>5, <1>6, <1>7

(* What the numerator is, and that its rounded quotient fits.              *)
LEMMA NumeratorFits ==
  ASSUME NEW i, InputAccepted(i), EvaluationFits(i)
  PROVE  /\ i.fy * i.zx * Phi \in 0..WMax
         /\ RoundDivTiesEven(i.fy * i.zx * Phi, Million) \in 0..WMax
<1>1. i.fy * i.zx \in Nat /\ Phi \in Nat /\ Million \in Nat \ {0} /\ WMax \in Nat
  BY NominalNeverOverflows, FactorAssumption, WidthAssumption
<1>2. i.fy * i.zx * Phi \in Nat
  BY <1>1
<1>3. i.fy * i.zx * Phi <= WMax
  BY DEF EvaluationFits
<1>4. /\ RoundDivTiesEven(i.fy * i.zx * Phi, Million) \in Nat
      /\ RoundDivTiesEven(i.fy * i.zx * Phi, Million) <= i.fy * i.zx * Phi
  BY <1>1, <1>2, RoundingIsNearest
<1> QED
  BY <1>1, <1>2, <1>3, <1>4

(* Python and the guest agree on every input of the v1 widths: the guest   *)
(* accepts exactly the inputs Python evaluates, and returns the same       *)
(* capacities and the same verdict.                                        *)
THEOREM EvaluationsAgree ==
  ASSUME NEW i, InputAccepted(i)
  PROVE  /\ GuestAccepts(i) <=> EvaluationFits(i)
         /\ EvaluationFits(i) => GuestEvaluate(i) = Evaluate(i)
<1> DEFINE n == i.fy * i.zx * Phi
<1>1. i.fy * i.zx \in 1..WMax
  BY NominalNeverOverflows
<1>2. Phi \in Nat /\ Million \in Nat \ {0} /\ WMax \in Nat /\ 2 * Million <= WMax
  BY FactorAssumption, WidthAssumption
<1>3. n \in Nat
  BY <1>1, <1>2
<1>4. /\ n \div Million \in Nat
      /\ n % Million \in 0..(Million - 1)
      /\ n = Million * (n \div Million) + (n % Million)
  BY <1>2, <1>3, DivMod
<1>5. RoundDivTiesEven(n, Million) = GuestRounded(n)
  BY DEF RoundDivTiesEven, GuestRounded, GuestRoundsUp
<1>6. GuestAccepts(i) => EvaluationFits(i)
  BY DEF GuestAccepts, EvaluationFits, Checked
<1>7. ASSUME EvaluationFits(i)
      PROVE  GuestAccepts(i)
  <2>1. Checked(i.fy * i.zx) /\ Checked(n)
    BY <1>1, <1>7, NumeratorFits DEF Checked
  <2>2. Checked(2 * (n % Million))
    BY <1>2, <1>4 DEF Checked
  <2>3. GuestRoundsUp(n) => Checked((n \div Million) + 1)
    <3>1. GuestRoundsUp(n) => GuestRounded(n) = (n \div Million) + 1
      BY DEF GuestRounded
    <3>2. GuestRounded(n) \in 0..WMax
      BY <1>5, <1>7, NumeratorFits
    <3> QED
      BY <3>1, <3>2 DEF Checked
  <2>4. {i.fy, i.zx, i.demand} \subseteq 0..UMax /\ i.fy # 0 /\ i.zx # 0
    BY WidthAssumption DEF InputAccepted
  <2> QED
    BY <2>1, <2>2, <2>3, <2>4 DEF GuestAccepts, GuestRoundFits
<1>8. GuestEvaluate(i) = Evaluate(i)
  BY <1>5 DEF GuestEvaluate, Evaluate, Claim
<1> QED
  BY <1>6, <1>7, <1>8

-----------------------------------------------------------------------------
(* Types *)

LEMMA EvaluateType ==
  ASSUME NEW i \in InputType, EvaluationFits(i)
  PROVE  Evaluate(i) \in ClaimType
<1>1. InputAccepted(i)
  BY DEF InputType, InputAccepted
<1>2. i.fy * i.zx \in 0..WMax
  BY <1>1, NominalNeverOverflows
<1>3. RoundDivTiesEven(i.fy * i.zx * Phi, Million) \in 0..WMax
  BY <1>1, NumeratorFits
<1>4. Evaluate(i).input = i
  BY DEF Evaluate, Claim
<1> QED
  BY <1>2, <1>3, <1>4 DEF Evaluate, Claim, ClaimType

LEMMA ClaimInputType ==
  ASSUME NEW w, NEW e \in Evidence, CanClaim(w, e)
  PROVE  ClaimInput(w, result.demand, e) \in InputType
  BY DEF CanClaim, InputAccepted, ClaimInput, Input, InputType

LEMMA WorldType ==
  ASSUME TypeOK
  PROVE  World \in Worlds
<1>1. events \in Seq(EventType) /\ Len(events) \in 1..Len(events)
  BY MaxEventsAssumption DEF TypeOK
<1>2. events[Len(events)] \in EventType
  BY <1>1
<1> QED
  BY <1>2 DEF World, EventType

LEMMA AppendType ==
  ASSUME TypeOK,
         NEW kind \in {"transition", "rejection", "assessment"},
         NEW w \in Worlds, NEW c \in ClaimType \cup {None},
         Append1(Event(kind, w, c))
  PROVE  events' \in Seq(EventType) /\ Len(events') \in 1..MaxEvents
<1>1. Event(kind, w, c) \in EventType
  BY DEF Event, EventType
<1> QED
  BY <1>1, MaxEventsAssumption DEF TypeOK, Append1

LEMMA TypeInit == Init => TypeOK
<1> SUFFICES ASSUME Init PROVE TypeOK
  OBVIOUS
<1>1. Event("genesis", Genesis, None) \in EventType
  BY WorldAssumption DEF Event, EventType
<1>2. prover.tag = "none"
  BY DEF Init, None
<1> QED
  BY <1>1, <1>2, MaxEventsAssumption DEF Init, TypeOK

LEMMA TypeNext == TypeOK /\ [Next]_vars => TypeOK'
<1> SUFFICES ASSUME TypeOK, [Next]_vars PROVE TypeOK'
  OBVIOUS
<1> USE DEF sessionVars, fileVars, hostVars
<1>1. ASSUME NEW w \in Worlds, RunTransition(w) PROVE TypeOK'
  BY <1>1, AppendType DEF RunTransition, TypeOK
<1>2. CASE RunRejection
  BY <1>2, AppendType, WorldType DEF RunRejection, TypeOK
<1>3. ASSUME NEW d \in Demands, EvaluateBeam(d) PROVE TypeOK'
  BY <1>3, WorldType DEF EvaluateBeam, TypeOK
<1>4. CASE RecordBeamCheck
  BY <1>4, AppendType, WorldType DEF RecordBeamCheck, TypeOK
<1>5. ASSUME NEW e \in Evidence, BuildClaim(e) PROVE TypeOK'
  <2>1. CanClaim(World, e)
    BY <1>5 DEF BuildClaim
  <2>2. Evaluate(ClaimInput(World, result.demand, e)) \in ClaimType
    BY <2>1, ClaimInputType, EvaluateType DEF CanClaim
  <2> QED
    BY <1>5, <2>2 DEF BuildClaim, TypeOK
<1>6. CASE RecordFixedClaim
  BY <1>6, AppendType, WorldType DEF RecordFixedClaim, TypeOK
<1>7. ASSUME NEW seq \in DOMAIN events, WriteRequest(seq) PROVE TypeOK'
  BY <1>7 DEF WriteRequest, TypeOK
<1>8. CASE StartProve
  BY <1>8 DEF StartProve, TypeOK
<1>9. CASE SaveProof
  BY <1>9 DEF SaveProof, TypeOK
<1>10. CASE WriteReceipt
  BY <1>10 DEF WriteReceipt, TypeOK, None
<1>11. CASE ProverStops
  BY <1>11 DEF ProverStops, TypeOK, None
<1>12. ASSUME NEW ledger, CreateManifest(ledger) PROVE TypeOK'
  BY <1>12 DEF CreateManifest, TypeOK
<1>13. ASSUME NEW ledger, StartVerify(ledger) PROVE TypeOK'
  BY <1>13 DEF StartVerify, TypeOK
<1>14. CASE EndVerify
  BY <1>14 DEF EndVerify, TypeOK
<1>15. CASE VerifyTimesOut
  BY <1>15 DEF VerifyTimesOut, TypeOK
<1>16. ASSUME NEW prog \in Programs, RebuildGuest(prog) PROVE TypeOK'
  BY <1>16 DEF RebuildGuest, TypeOK
<1>17. CASE UNCHANGED vars
  BY <1>17 DEF vars, TypeOK
<1> QED
  BY <1>1, <1>2, <1>3, <1>4, <1>5, <1>6, <1>7, <1>8, <1>9, <1>10, <1>11, <1>12,
     <1>13, <1>14, <1>15, <1>16, <1>17 DEF Next, SessionNext, ProverNext, HostNext

(* Every variable keeps to its set; in particular every claim built is one *)
(* whose outputs fit the widths of the public values.                      *)
THEOREM TypeCorrect == Spec => []TypeOK
  BY TypeInit, TypeNext, PTL DEF Spec

-----------------------------------------------------------------------------
(* The distance of a verdict from the means *)

LEMMA QuantizeNear ==
  ASSUME NEW g \in Nat
  PROVE  /\ Quantize(g) \in Nat
         /\ 2 * Grain * Quantize(g) <= 2 * g + Grain
         /\ 2 * g <= 2 * Grain * Quantize(g) + Grain
  BY RoundingIsNearest, GrainAssumption DEF Quantize

LEMMA PassArithmetic ==
  ASSUME NEW G \in Nat \ {0}, NEW M \in Nat \ {0}, NEW F \in Nat,
         NEW a \in Nat, NEW b \in Nat, NEW d \in Nat,
         NEW x \in Nat, NEW z \in Nat, NEW D \in Nat, NEW A \in Nat,
         2 * G * x <= 2 * a + G,  2 * G * z <= 2 * b + G,
         2 * d <= 2 * G * D + G,  2 * M * A <= 2 * (x * z * F) + M,
         D <= A
  PROVE  4 * G * M * d <= F * (2 * a + G) * (2 * b + G) + 4 * G * G * M
<1>1. (2 * G * x) * (2 * G * z) <= (2 * a + G) * (2 * b + G)
  <2>1. (2 * G * x) * (2 * G * z) <= (2 * a + G) * (2 * G * z)
    BY MulMonotone
  <2>2. (2 * G * z) * (2 * a + G) <= (2 * b + G) * (2 * a + G)
    BY MulMonotone
  <2> QED
    BY <2>1, <2>2
<1>2. ((2 * G * x) * (2 * G * z)) * F <= ((2 * a + G) * (2 * b + G)) * F
  BY <1>1, MulMonotone
<1>3. (2 * M * A) * (2 * G * G) <= (2 * (x * z * F) + M) * (2 * G * G)
  BY MulMonotone
<1>4. (2 * d) * (2 * G * M) <= (2 * G * D + G) * (2 * G * M)
  BY MulMonotone
<1>5. D * (4 * G * G * M) <= A * (4 * G * G * M)
  BY MulMonotone
<1> DEFINE ggm == G * G * M
           dd  == D * ggm
           aa  == A * ggm
           xx  == x * z * F * G * G
<1>6. (2 * d) * (2 * G * M) = 4 * G * M * d
  OBVIOUS
<1>7. (2 * G * D + G) * (2 * G * M) = 4 * dd + 2 * ggm
  OBVIOUS
<1>8. D * (4 * G * G * M) = 4 * dd /\ A * (4 * G * G * M) = 4 * aa
  OBVIOUS
<1>9. /\ (2 * M * A) * (2 * G * G) = 4 * aa
      /\ (2 * (x * z * F) + M) * (2 * G * G) = 4 * xx + 2 * ggm
  OBVIOUS
<1>10. /\ ((2 * G * x) * (2 * G * z)) * F = 4 * xx
       /\ ((2 * a + G) * (2 * b + G)) * F = F * (2 * a + G) * (2 * b + G)
  OBVIOUS
<1>11. 4 * G * G * M = 4 * ggm
  OBVIOUS
<1>12. /\ ggm \in Nat /\ dd \in Nat /\ aa \in Nat /\ xx \in Nat
       /\ 4 * G * M * d \in Nat /\ F * (2 * a + G) * (2 * b + G) \in Nat
  OBVIOUS
<1> HIDE DEF ggm, dd, aa, xx
<1> QED
  BY <1>2, <1>3, <1>4, <1>5, <1>6, <1>7, <1>8, <1>9, <1>10, <1>11, <1>12

LEMMA FailArithmetic ==
  ASSUME NEW G \in Nat \ {0}, NEW M \in Nat \ {0}, NEW F \in Nat,
         NEW a \in Nat, NEW b \in Nat, NEW d \in Nat,
         NEW x \in Nat \ {0}, NEW z \in Nat \ {0}, NEW D \in Nat, NEW A \in Nat,
         2 * a <= 2 * G * x + G,  2 * b <= 2 * G * z + G,
         2 * G * x <= 2 * a + G,  2 * G * z <= 2 * b + G,
         2 * G * D <= 2 * d + G,  2 * (x * z * F) <= 2 * M * A + M,
         A + 1 <= D
  PROVE  F * (2 * a - G) * (2 * b - G) <= 4 * G * M * d
<1>1. 2 * a - G \in Nat /\ 2 * b - G \in Nat
  <2>1. 1 * (2 * G) <= x * (2 * G) /\ 1 * (2 * G) <= z * (2 * G)
    BY MulMonotone
  <2>2. x * (2 * G) = 2 * G * x /\ z * (2 * G) = 2 * G * z
    OBVIOUS
  <2> QED
    BY <2>1, <2>2
<1>2. (2 * a - G) * (2 * b - G) <= (2 * G * x) * (2 * G * z)
  <2>1. 2 * a - G <= 2 * G * x /\ 2 * b - G <= 2 * G * z
    OBVIOUS
  <2>2. (2 * a - G) * (2 * b - G) <= (2 * G * x) * (2 * b - G)
    BY <1>1, <2>1, MulMonotone
  <2>3. (2 * b - G) * (2 * G * x) <= (2 * G * z) * (2 * G * x)
    BY <1>1, <2>1, MulMonotone
  <2> QED
    BY <1>1, <2>2, <2>3
<1>3. ((2 * a - G) * (2 * b - G)) * F <= ((2 * G * x) * (2 * G * z)) * F
  BY <1>1, <1>2, MulMonotone
<1>4. (2 * (x * z * F)) * (2 * G * G) <= (2 * M * A + M) * (2 * G * G)
  BY MulMonotone
<1>5. (2 * G * D) * (2 * G * M) <= (2 * d + G) * (2 * G * M)
  BY MulMonotone
<1>6. (A + 1) * (4 * G * G * M) <= D * (4 * G * G * M)
  BY MulMonotone
<1> DEFINE ggm == G * G * M
           dd  == D * ggm
           aa  == A * ggm
           xx  == x * z * F * G * G
           gmd == G * M * d
<1>7. (2 * G * D) * (2 * G * M) = 4 * dd /\ (2 * d + G) * (2 * G * M) = 4 * gmd + 2 * ggm
  OBVIOUS
<1>8. D * (4 * G * G * M) = 4 * dd /\ (A + 1) * (4 * G * G * M) = 4 * aa + 4 * ggm
  OBVIOUS
<1>9. /\ (2 * M * A + M) * (2 * G * G) = 4 * aa + 2 * ggm
      /\ (2 * (x * z * F)) * (2 * G * G) = 4 * xx
  OBVIOUS
<1>10. /\ ((2 * G * x) * (2 * G * z)) * F = 4 * xx
       /\ ((2 * a - G) * (2 * b - G)) * F = F * (2 * a - G) * (2 * b - G)
  BY <1>1
<1>11. 4 * G * M * d = 4 * gmd
  OBVIOUS
<1>12. /\ ggm \in Nat /\ dd \in Nat /\ aa \in Nat /\ xx \in Nat /\ gmd \in Nat
       /\ F * (2 * a - G) * (2 * b - G) \in Int
  BY <1>1
<1> HIDE DEF ggm, dd, aa, xx, gmd
<1> QED
  BY <1>3, <1>4, <1>5, <1>6, <1>7, <1>8, <1>9, <1>10, <1>11, <1>12

-----------------------------------------------------------------------------
(* The ledger: every claim it records was made of the world it is recorded *)
(* for.  An assessment is never recorded in a world that has moved on, so  *)
(* this survives whatever the session does between building a claim and    *)
(* recording it.                                                           *)

MadeOf(c, w) ==
  \E d \in Demands, e \in Evidence :
    LET i == ClaimInput(w, d, e)
    IN  InputAccepted(i) /\ EvaluationFits(i) /\ c = Evaluate(i)

LedgerInv ==
  \A k \in DOMAIN events :
    events[k].computation # None => MadeOf(events[k].computation, events[k].result)

LEMMA AppendKeepsLedger ==
  ASSUME TypeOK, LedgerInv, NEW kind, NEW w, NEW c,
         Append1(Event(kind, w, c)),
         c # None => MadeOf(c, w)
  PROVE  LedgerInv'
<1> DEFINE new == Event(kind, w, c)
<1>1. events \in Seq(EventType) /\ events' = Append(events, new)
  BY DEF TypeOK, Append1
<1>2. DOMAIN events' = 1..(Len(events) + 1) /\ DOMAIN events = 1..Len(events)
  BY <1>1
<1>3. events'[Len(events) + 1] = new
  BY <1>1
<1>4. \A k \in DOMAIN events : events'[k] = events[k]
  BY <1>1
<1>5. new.computation = c /\ new.result = w
  BY DEF Event
<1> HIDE DEF new
<1> SUFFICES ASSUME NEW k \in DOMAIN events', events'[k].computation # None
             PROVE  MadeOf(events'[k].computation, events'[k].result)
  BY DEF LedgerInv, MadeOf
<1>6. CASE k = Len(events) + 1
  BY <1>3, <1>5, <1>6
<1>7. CASE k \in DOMAIN events
  BY <1>4, <1>7 DEF LedgerInv
<1> QED
  BY <1>2, <1>6, <1>7

LEMMA LedgerInit == Init => LedgerInv
<1> SUFFICES ASSUME Init PROVE LedgerInv
  OBVIOUS
<1>1. DOMAIN events = {1} /\ events[1].computation = None
  BY DEF Init, Event
<1> QED
  BY <1>1 DEF LedgerInv

LEMMA LedgerNext == TypeOK /\ LedgerInv /\ [Next]_vars => LedgerInv'
<1> SUFFICES ASSUME TypeOK, LedgerInv, [Next]_vars PROVE LedgerInv'
  OBVIOUS
<1>1. ASSUME NEW w \in Worlds, RunTransition(w) PROVE LedgerInv'
  BY <1>1, AppendKeepsLedger DEF RunTransition
<1>2. CASE RunRejection
  BY <1>2, AppendKeepsLedger DEF RunRejection
<1>3. CASE RecordBeamCheck
  BY <1>3, AppendKeepsLedger DEF RecordBeamCheck
<1>4. CASE RecordFixedClaim
  <2>1. /\ claim \in ClaimType
        /\ CanClaim(World, claim.input.evidence)
        /\ claim = Evaluate(ClaimInput(World, result.demand, claim.input.evidence))
    BY <1>4 DEF RecordFixedClaim, RecordsClaim, TypeOK
  <2>2. claim.input.evidence \in Evidence
    BY <2>1 DEF ClaimType, InputType
  <2>3. result.demand \in Demands
    BY <2>1 DEF CanClaim, TypeOK
  <2>4. MadeOf(claim, World)
    BY <2>1, <2>2, <2>3 DEF MadeOf, CanClaim
  <2> QED
    BY <1>4, <2>4, AppendKeepsLedger DEF RecordFixedClaim
<1>5. CASE UNCHANGED events
  BY <1>5 DEF LedgerInv, MadeOf
<1> QED
  BY <1>1, <1>2, <1>3, <1>4, <1>5
  DEF Next, SessionNext, ProverNext, HostNext, vars, sessionVars, fileVars, hostVars,
      EvaluateBeam, BuildClaim, WriteRequest, StartProve, SaveProof, WriteReceipt,
      ProverStops, CreateManifest, StartVerify, EndVerify, VerifyTimesOut, RebuildGuest

LEMMA MadeClaimIsNear ==
  ASSUME NEW w \in Worlds, NEW c, MadeOf(c, w), NEW d \in Demands,
         c.input.demand = Quantize(d)
  PROVE  IF c.verdict = "PASS" THEN PassIsNear(w, d) ELSE FailIsNear(w, d)
<1>1. PICK d0 \in Demands, e \in Evidence :
        LET i == ClaimInput(w, d0, e)
        IN  InputAccepted(i) /\ EvaluationFits(i) /\ c = Evaluate(i)
  BY DEF MadeOf
<1> DEFINE x == Quantize(w.fy)
           z == Quantize(w.zx)
           D == Quantize(d)
           n == x * z * Phi
           A == RoundDivTiesEven(n, Million)
<1>2. /\ c.input.fy = x /\ c.input.zx = z /\ c.input.demand = Quantize(d0)
      /\ c.verdict = IF A >= Quantize(d0) THEN "PASS" ELSE "FAIL"
      /\ x \in 1..UMax /\ z \in 1..UMax
  BY <1>1 DEF Evaluate, Claim, ClaimInput, Input, InputAccepted
<1>3. c.verdict = IF A >= D THEN "PASS" ELSE "FAIL"
  BY <1>2
<1>4. w.fy \in Nat /\ w.zx \in Nat /\ d \in Nat
  BY WorldAssumption
<1>5. /\ x \in Nat \ {0} /\ 2 * Grain * x <= 2 * w.fy + Grain
      /\ 2 * w.fy <= 2 * Grain * x + Grain
      /\ z \in Nat \ {0} /\ 2 * Grain * z <= 2 * w.zx + Grain
      /\ 2 * w.zx <= 2 * Grain * z + Grain
  BY <1>2, <1>4, QuantizeNear
<1>6. D \in Nat /\ 2 * Grain * D <= 2 * d + Grain /\ 2 * d <= 2 * Grain * D + Grain
  BY <1>4, QuantizeNear
<1>7. Phi \in Nat /\ Million \in Nat \ {0} /\ Grain \in Nat \ {0}
  BY FactorAssumption, GrainAssumption
<1>8. n \in Nat
  BY <1>5, <1>7
<1>9. A \in Nat /\ 2 * Million * A <= 2 * n + Million /\ 2 * n <= 2 * Million * A + Million
  BY <1>7, <1>8, RoundingIsNearest
<1> HIDE DEF x, z, D, A
<1>10. CASE A >= D
  <2>1. PassIsNear(w, d)
    BY <1>4, <1>5, <1>6, <1>7, <1>9, <1>10, PassArithmetic DEF PassIsNear
  <2> QED
    BY <1>3, <1>10, <2>1
<1>11. CASE ~(A >= D)
  <2>1. A + 1 <= D
    BY <1>6, <1>9, <1>11
  <2>2. FailIsNear(w, d)
    BY <1>4, <1>5, <1>6, <1>7, <1>9, <2>1, FailArithmetic DEF FailIsNear
  <2> QED
    BY <1>3, <1>11, <2>2
<1> QED
  BY <1>10, <1>11

(* No verdict the ledger records is wrong by more than the rounding of the *)
(* two means, the demand and the capacity can explain.                     *)
THEOREM VerdictsAreNear == Spec => []VerdictWithinRounding
<1>1. TypeOK /\ LedgerInv => VerdictWithinRounding
  <2> SUFFICES ASSUME TypeOK, LedgerInv,
                      NEW k \in DOMAIN events, NEW d \in Demands,
                      events[k].computation # None,
                      events[k].computation.input.demand = Quantize(d)
               PROVE  IF events[k].computation.verdict = "PASS"
                        THEN PassIsNear(events[k].result, d)
                        ELSE FailIsNear(events[k].result, d)
    BY DEF VerdictWithinRounding
  <2>1. events \in Seq(EventType)
    BY DEF TypeOK
  <2>2. events[k] \in EventType
    BY <2>1
  <2>3. events[k].result \in Worlds
    BY <2>2 DEF EventType
  <2>4. MadeOf(events[k].computation, events[k].result)
    BY DEF LedgerInv
  <2> QED
    BY <2>3, <2>4, MadeClaimIsNear
<1> QED
  BY <1>1, TypeInit, TypeNext, LedgerInit, LedgerNext, PTL DEF Spec

-----------------------------------------------------------------------------
(* The request file and the guest *)

Shaped(s) == s = Statement(s.head, s.seq, s.computation)

RequestInv ==
  request # None =>
    /\ request.claim \in ClaimType
    /\ request.statement.computation = request.claim
    /\ Shaped(request.statement)
    /\ request.statement.head \in Seq(EventType)
    /\ IsTransition(request.statement.head, request.statement.seq)

LEMMA RequestNext == TypeOK /\ RequestInv /\ [Next]_vars => RequestInv'
<1> SUFFICES ASSUME TypeOK, RequestInv, [Next]_vars PROVE RequestInv'
  OBVIOUS
<1>1. ASSUME NEW seq \in DOMAIN events, WriteRequest(seq) PROVE RequestInv'
  <2>1. claim \in ClaimType
    BY <1>1 DEF WriteRequest, TypeOK
  <2>2. request' = [statement |-> Statement(events, seq, claim), claim |-> claim]
    BY <1>1 DEF WriteRequest
  <2>3. request'.claim \in ClaimType /\ request'.statement = Statement(events, seq, claim)
    BY <2>1, <2>2
  <2>4. events \in Seq(EventType) /\ IsTransition(events, seq)
    BY <1>1 DEF WriteRequest, TypeOK
  <2> QED
    BY <2>2, <2>3, <2>4 DEF RequestInv, Shaped, Statement, IsTransition
<1>2. CASE UNCHANGED request
  BY <1>2 DEF RequestInv, IsTransition, Shaped, Statement
<1> QED
  BY <1>1, <1>2
  DEF Next, SessionNext, ProverNext, HostNext, vars, sessionVars, fileVars, hostVars,
      RunTransition, RunRejection, EvaluateBeam, RecordBeamCheck, BuildClaim,
      RecordFixedClaim, StartProve, SaveProof, WriteReceipt, ProverStops,
      CreateManifest, StartVerify, EndVerify, VerifyTimesOut, RebuildGuest

LEMMA ClaimsAreRead ==
  ASSUME NEW r, r.claim \in ClaimType
  PROVE  ReadsRequest(r)
<1>1. /\ r.claim.input \in InputType
      /\ EvaluationFits(r.claim.input)
      /\ r.claim = Evaluate(r.claim.input)
  BY DEF ClaimType
<1>2. InputAccepted(r.claim.input)
  BY <1>1 DEF InputType, InputAccepted
<1>3. GuestAccepts(r.claim.input) /\ GuestEvaluate(r.claim.input) = Evaluate(r.claim.input)
  BY <1>1, <1>2, EvaluationsAgree
<1> QED
  BY <1>1, <1>3 DEF ReadsRequest

(* Whatever the widths, the factor and the means, the guest reads every    *)
(* request Python has written and computes the same claim from it.         *)
THEOREM GuestAcceptsEverything == Spec => []GuestAcceptsEveryRequest
<1>1. Init => RequestInv
  BY DEF Init, RequestInv
<1>2. RequestInv => GuestAcceptsEveryRequest
  BY ClaimsAreRead DEF RequestInv, GuestAcceptsEveryRequest
<1> QED
  BY <1>1, <1>2, TypeInit, TypeNext, RequestNext, PTL DEF Spec

-----------------------------------------------------------------------------
(* The host.  What a verification found bound stays so while its backend   *)
(* runs: it works on the ledger and the artifact in its hands.             *)

ManifestInv ==
  manifest # None => request # None /\ Shaped(manifest.statement)

JobInv ==
  job # None =>
    /\ job.ledger \in Exported
    /\ Bound(job.manifest, job.ledger, job.artifact)
    /\ manifest # None
    /\ job.manifest = manifest
    /\ job.manifest.statement = job.request.statement
    /\ job.manifest.statement.computation = job.request.claim
    /\ job.request.claim \in ClaimType

LEMMA RequestIsNotNone ==
  ASSUME NEW s, NEW c
  PROVE  [statement |-> s, claim |-> c] # None
<1>1. "claim" \in DOMAIN [statement |-> s, claim |-> c]
  OBVIOUS
<1>2. "claim" \notin DOMAIN None
  BY DEF None
<1> QED
  BY <1>1, <1>2

LEMMA ManifestNext == ManifestInv /\ [Next]_vars => ManifestInv'
<1> SUFFICES ASSUME ManifestInv, [Next]_vars PROVE ManifestInv'
  OBVIOUS
<1>1. ASSUME NEW ledger, CreateManifest(ledger) PROVE ManifestInv'
  <2>1. manifest'.statement =
          Statement(ledger, request.statement.seq, request.claim)
    BY <1>1 DEF CreateManifest
  <2>2. request' # None
    BY <1>1 DEF CreateManifest, fileVars
  <2> QED
    BY <2>1, <2>2 DEF ManifestInv, Shaped, Statement
<1>2. ASSUME NEW seq \in DOMAIN events, WriteRequest(seq) PROVE ManifestInv'
  BY <1>2, RequestIsNotNone DEF WriteRequest, ManifestInv, Shaped, hostVars
<1>3. CASE UNCHANGED <<manifest, request>>
  BY <1>3 DEF ManifestInv, Shaped
<1> QED
  BY <1>1, <1>2, <1>3
  DEF Next, SessionNext, ProverNext, HostNext, vars, sessionVars, fileVars, hostVars,
      RunTransition, RunRejection, EvaluateBeam, RecordBeamCheck, BuildClaim,
      RecordFixedClaim, StartProve, SaveProof, WriteReceipt, ProverStops,
      StartVerify, EndVerify, VerifyTimesOut, RebuildGuest

(* An exported ledger remains a prefix of the session's.                   *)
LEMMA ExportsRemain ==
  ASSUME TypeOK, [Next]_vars, NEW ledger \in Exported
  PROVE  ledger \in Exported'
<1>1. events \in Seq(EventType)
  BY DEF TypeOK
<1>2. PICK n \in 1..Len(events) : ledger = SubSeq(events, 1, n)
  BY DEF Exported
<1>3. ASSUME NEW event, Append1(event) PROVE ledger \in Exported'
  <2>1. events' = Append(events, event)
    BY <1>3 DEF Append1
  <2>2. SubSeq(events', 1, n) = SubSeq(events, 1, n) /\ n \in 1..Len(events')
    BY <1>1, <2>1
  <2> QED
    BY <1>2, <2>2 DEF Exported
<1>4. CASE UNCHANGED events
  BY <1>4 DEF Exported
<1> QED
  BY <1>3, <1>4
  DEF Next, SessionNext, ProverNext, HostNext, vars, sessionVars, fileVars, hostVars,
      RunTransition, RunRejection, EvaluateBeam, RecordBeamCheck, BuildClaim,
      RecordFixedClaim, WriteRequest, StartProve, SaveProof, WriteReceipt, ProverStops,
      CreateManifest, StartVerify, EndVerify, VerifyTimesOut, RebuildGuest

LEMMA JobNext == TypeOK /\ RequestInv /\ ManifestInv /\ JobInv /\ [Next]_vars => JobInv'
<1> SUFFICES ASSUME TypeOK, RequestInv, ManifestInv, JobInv, [Next]_vars PROVE JobInv'
  OBVIOUS
<1>1. ASSUME NEW ledger \in Exported, StartVerify(ledger), job' # None
      PROVE  JobInv'
  <2>1. job = None /\ manifest # None /\ manifest' = manifest
    BY <1>1 DEF StartVerify
  <2>2. /\ Bound(manifest, ledger, proof)
        /\ manifest.statement = request.statement
        /\ manifest.statement.computation = request.claim
        /\ job' = [manifest |-> manifest, ledger |-> ledger,
                   artifact |-> proof, request |-> request]
    BY <1>1, <2>1 DEF StartVerify
  <2>3. request.claim \in ClaimType
    BY <2>1 DEF RequestInv, ManifestInv
  <2>4. ledger \in Exported'
    BY ExportsRemain
  <2> QED
    BY <2>1, <2>2, <2>3, <2>4 DEF JobInv, Bound, IsTransition, CommitsResult
<1>2. CASE UNCHANGED <<job, manifest>>
  <2>1. job # None => job.ledger \in Exported'
    BY ExportsRemain DEF JobInv
  <2> QED
    BY <1>2, <2>1 DEF JobInv, Bound, IsTransition, CommitsResult
<1>3. CASE job' = None
  BY <1>3 DEF JobInv
<1> QED
  BY <1>1, <1>2, <1>3
  DEF Next, SessionNext, ProverNext, HostNext, vars, sessionVars, fileVars, hostVars,
      RunTransition, RunRejection, EvaluateBeam, RecordBeamCheck, BuildClaim,
      RecordFixedClaim, WriteRequest, StartProve, SaveProof, WriteReceipt, ProverStops,
      CreateManifest, EndVerify, VerifyTimesOut, RebuildGuest

LEMMA ClaimIsNotNone ==
  ASSUME NEW c \in ClaimType
  PROVE  c # None
<1>1. "input" \in DOMAIN c
  BY DEF ClaimType
<1>2. "input" \notin DOMAIN None
  BY DEF None
<1> QED
  BY <1>1, <1>2

(* An assessment in an exported ledger is one of the session's.            *)
LEMMA BoundComputation ==
  ASSUME TypeOK, LedgerInv, NEW ledger \in Exported, NEW seq, NEW c \in ClaimType,
         IsTransition(ledger, seq), CommitsResult(ledger, seq, c)
  PROVE  AboutWorld(c, ledger[seq].result)
<1>1. events \in Seq(EventType)
  BY DEF TypeOK
<1>2. PICK n \in 1..Len(events) : ledger = SubSeq(events, 1, n)
  BY DEF Exported
<1>3. seq \in 1..n /\ Len(ledger) = n
  BY <1>1, <1>2 DEF IsTransition
<1>4. PICK k \in seq + 1 .. Len(ledger) :
        ledger[k].result = ledger[seq].result /\ ledger[k].computation = c
  BY DEF CommitsResult
<1>5. k \in 1..n /\ k \in DOMAIN events
  BY <1>1, <1>3, <1>4
<1>6. ledger[k] = events[k]
  BY <1>1, <1>2, <1>5
<1>7. MadeOf(c, events[k].result)
  BY <1>4, <1>5, <1>6, ClaimIsNotNone DEF LedgerInv
<1>8. AboutWorld(c, events[k].result)
  BY <1>7 DEF MadeOf, AboutWorld, Evaluate, Claim, ClaimInput, Input
<1> QED
  BY <1>4, <1>6, <1>8

(* The facts about one verification that has passed.                       *)
LEMMA PassBinds ==
  ASSUME TypeOK, LedgerInv, ManifestInv, JobInv, EndVerify, report'.verdict = "PASS"
  PROVE  VerifiedProofsBindTheirWorld'
<1> DEFINE m      == job.manifest
           ledger == job.ledger
           seq    == m.statement.seq
           c      == m.statement.computation
<1>1. /\ ledger \in Exported /\ Bound(m, ledger, job.artifact)
      /\ manifest # None /\ m = manifest
      /\ c \in ClaimType
  BY DEF EndVerify, JobInv
<1>2. /\ report' = Report(m, ledger, job.artifact, "PASS")
      /\ ReceiptMatches(m, job.request, Receipt(program, job.artifact))
  BY DEF EndVerify, Report
<1>3. job.artifact.public = PublicValues(m.statement, c)
  BY <1>2 DEF ReceiptMatches, Receipt
<1>4. /\ job.artifact.public.output = c
      /\ job.artifact.public.statement = m.statement
  BY <1>3 DEF PublicValues
<1>5. /\ IsTransition(ledger, seq) /\ m.statement.head = ledger
      /\ CommitsResult(ledger, seq, c)
  BY <1>1 DEF Bound
<1>6. m.statement = Statement(ledger, seq, c)
  BY <1>1, <1>5 DEF ManifestInv, Shaped
<1>7. AboutWorld(c, ledger[seq].result)
  BY <1>1, <1>5, BoundComputation
<1>8. \E k \in seq + 1 .. Len(ledger) :
        ledger[k].result = ledger[seq].result /\ ledger[k].computation = c
  BY <1>5 DEF CommitsResult
<1>9. /\ report'.ledger = ledger /\ report'.manifest = m
      /\ report'.artifact = job.artifact
  BY <1>2 DEF Report
<1>10. ledger \in Exported'
  BY <1>1, ExportsRemain DEF EndVerify, Next, HostNext
<1>11. /\ report'.manifest.statement.seq = seq
       /\ report'.artifact.public.output = c
       /\ report'.artifact.public.statement = Statement(ledger, seq, c)
  BY <1>4, <1>6, <1>9
<1> HIDE DEF m, ledger, seq, c
<1> QED
  BY <1>5, <1>7, <1>8, <1>9, <1>10, <1>11
  DEF VerifiedProofsBindTheirWorld, IsTransition, AboutWorld, Statement

LEMMA ReportNext ==
  TypeOK /\ LedgerInv /\ ManifestInv /\ JobInv /\ VerifiedProofsBindTheirWorld /\ [Next]_vars
    => VerifiedProofsBindTheirWorld'
<1> SUFFICES ASSUME TypeOK, LedgerInv, ManifestInv, JobInv,
                    VerifiedProofsBindTheirWorld, [Next]_vars
             PROVE  VerifiedProofsBindTheirWorld'
  OBVIOUS
<1>1. CASE EndVerify
  <2>1. CASE report'.verdict = "PASS"
    BY <1>1, <2>1, PassBinds
  <2>2. CASE report'.verdict # "PASS"
    BY <2>2 DEF VerifiedProofsBindTheirWorld
  <2> QED
    BY <2>1, <2>2
<1>2. CASE VerifyTimesOut
  BY <1>2 DEF VerifyTimesOut, Report, VerifiedProofsBindTheirWorld
<1>3. CASE UNCHANGED report
  <2>1. report # None /\ report.verdict = "PASS" => report.ledger \in Exported'
    BY ExportsRemain DEF VerifiedProofsBindTheirWorld
  <2> QED
    BY <1>3, <2>1 DEF VerifiedProofsBindTheirWorld, IsTransition, AboutWorld, Statement
<1>4. ASSUME NEW ledger \in Exported, StartVerify(ledger), report' # report
      PROVE  VerifiedProofsBindTheirWorld'
  <2>1. report'.verdict # "PASS"
    BY <1>4 DEF StartVerify, Report
  <2> QED
    BY <2>1 DEF VerifiedProofsBindTheirWorld
<1> QED
  BY <1>1, <1>2, <1>3, <1>4
  DEF Next, SessionNext, ProverNext, HostNext, vars, sessionVars, fileVars, hostVars,
      RunTransition, RunRejection, EvaluateBeam, RecordBeamCheck, BuildClaim,
      RecordFixedClaim, WriteRequest, StartProve, SaveProof, WriteReceipt, ProverStops,
      CreateManifest, RebuildGuest

IInv == TypeOK /\ LedgerInv /\ RequestInv /\ ManifestInv /\ JobInv

LEMMA Inductive == Spec => []IInv
<1>1. Init => RequestInv /\ ManifestInv /\ JobInv
  BY DEF Init, RequestInv, ManifestInv, JobInv
<1>2. Init => IInv
  BY <1>1, TypeInit, LedgerInit DEF IInv
<1>3. IInv /\ [Next]_vars => IInv'
  BY TypeNext, LedgerNext, RequestNext, ManifestNext, JobNext DEF IInv
<1> QED
  BY <1>2, <1>3, PTL DEF Spec

(* A proof that verifies is bound to the ledger, the transition, the world *)
(* and the recorded claim, for any number of worlds, observations, builds  *)
(* and events.                                                             *)
THEOREM VerifiedProofsBind == Spec => []VerifiedProofsBindTheirWorld
<1>1. Init => VerifiedProofsBindTheirWorld
  BY DEF Init, VerifiedProofsBindTheirWorld
<1>2. IInv /\ VerifiedProofsBindTheirWorld /\ [Next]_vars => VerifiedProofsBindTheirWorld'
  BY ReportNext DEF IInv
<1> QED
  BY <1>1, <1>2, Inductive, PTL DEF Spec

(* The program of a verified proof is the one the manifest names and the   *)
(* backend was built with, at the moment it verifies.                      *)
THEOREM NamedGuestVerifies == Spec => VerifiedByNamedGuest
<1>1. ASSUME [Next]_vars, report' # report, report'.verdict = "PASS"
      PROVE  report'.artifact.program = program /\ report'.manifest.program = program
  <2>1. CASE EndVerify
    <3>1. /\ report' = Report(job.manifest, job.ledger, job.artifact, "PASS")
          /\ BackendVerifies(job.artifact)
          /\ ReceiptMatches(job.manifest, job.request, Receipt(program, job.artifact))
      BY <1>1, <2>1 DEF EndVerify, Report
    <3> QED
      BY <3>1 DEF Report, BackendVerifies, ReceiptMatches, Receipt
  <2>2. CASE VerifyTimesOut
    BY <1>1, <2>2 DEF VerifyTimesOut, Report
  <2>3. ASSUME NEW ledger \in Exported, StartVerify(ledger) PROVE FALSE
    BY <1>1, <2>3 DEF StartVerify, Report
  <2> QED
    BY <1>1, <2>1, <2>2, <2>3
    DEF Next, SessionNext, ProverNext, HostNext, vars, sessionVars, fileVars, hostVars,
        RunTransition, RunRejection, EvaluateBeam, RecordBeamCheck, BuildClaim,
        RecordFixedClaim, WriteRequest, StartProve, SaveProof, WriteReceipt, ProverStops,
        CreateManifest, RebuildGuest
<1> QED
  BY <1>1, PTL DEF Spec, VerifiedByNamedGuest

LEMMA SettledFacts ==
  ASSUME IInv, Settled
  PROVE  /\ manifest.statement = request.statement
         /\ manifest.statement.computation = request.claim
         /\ GuestEvaluate(request.claim.input) = request.claim
         /\ ReadsRequest(request)
         /\ proof.public = PublicValues(request.statement, request.claim)
         /\ proof.program = program
         /\ Bound(manifest, request.statement.head, proof)
<1>1. /\ request # None /\ manifest # None
      /\ proof = Proof(program, request)
      /\ manifest.artifact = proof
      /\ manifest.statement.head = request.statement.head
      /\ manifest.statement.seq = request.statement.seq
      /\ manifest.statement.computation = request.claim
      /\ RecordedBefore(request)
  BY DEF Settled
<1>2. /\ request.claim \in ClaimType
      /\ request.statement.computation = request.claim
      /\ Shaped(request.statement) /\ Shaped(manifest.statement)
      /\ request.statement.head \in Seq(EventType)
      /\ IsTransition(request.statement.head, request.statement.seq)
  BY <1>1 DEF IInv, RequestInv, ManifestInv
<1>3. manifest.statement = request.statement
  BY <1>1, <1>2 DEF Shaped
<1>4. ReadsRequest(request) /\ GuestEvaluate(request.claim.input) = request.claim
  BY <1>2, ClaimsAreRead DEF ReadsRequest
<1>5. /\ proof.public = PublicValues(request.statement, request.claim)
      /\ proof.program = program
  BY <1>1, <1>4 DEF Proof
<1> DEFINE head == request.statement.head
           seq  == request.statement.seq
<1>6. PICK k \in DOMAIN head :
        k > seq /\ head[k] = Event("assessment", head[seq].result, request.claim)
  BY <1>1 DEF RecordedBefore
<1>7. seq \in 1..Len(head) /\ k \in seq + 1 .. Len(head)
  BY <1>2, <1>6 DEF IsTransition
<1>8. CommitsResult(head, seq, request.claim)
  BY <1>6, <1>7 DEF CommitsResult, Event
<1> QED
  BY <1>1, <1>2, <1>3, <1>4, <1>5, <1>8 DEF Bound

(* The settled chain verifies: no check is stricter than the order of the  *)
(* reference run provides for, whatever else the session has recorded.     *)
THEOREM SettledVerifies == Spec => SettledProofsVerify
<1>1. ASSUME IInv, [Next]_vars, Settled, report' # report,
             report'.ledger = request.statement.head
      PROVE  report'.verdict \in {"PASS", "TIMEOUT"}
  <2>1. CASE EndVerify
    <3>1. /\ job # None
          /\ report'.verdict =
               IF /\ BackendVerifies(job.artifact)
                  /\ ReceiptMatches(job.manifest, job.request,
                                    Receipt(program, job.artifact))
                 THEN "PASS" ELSE "FAIL"
      BY <2>1 DEF EndVerify, Report
    <3>2. /\ Bound(manifest, job.ledger, job.artifact) /\ job.manifest = manifest
          /\ manifest.statement = job.request.statement
          /\ manifest.statement.computation = job.request.claim
      BY <1>1, <3>1 DEF IInv, JobInv
    <3>3. job.artifact = proof /\ manifest.artifact = proof /\ manifest.program = program
      BY <1>1, <3>2 DEF Bound, Settled
    <3>4. BackendVerifies(job.artifact)
      BY <1>1, <3>3, SettledFacts DEF BackendVerifies
    <3>5. ReceiptMatches(job.manifest, job.request, Receipt(program, job.artifact))
      BY <1>1, <3>2, <3>3, SettledFacts DEF ReceiptMatches, Receipt
    <3> QED
      BY <3>1, <3>4, <3>5
  <2>2. CASE VerifyTimesOut
    BY <2>2 DEF VerifyTimesOut, Report
  <2>3. ASSUME NEW ledger \in Exported, StartVerify(ledger) PROVE FALSE
    <3>1. report' # report =>
            /\ ~ (/\ Bound(manifest, ledger, proof)
                  /\ manifest.statement = request.statement
                  /\ manifest.statement.computation = request.claim)
            /\ report'.ledger = ledger
      BY <2>3 DEF StartVerify, Report
    <3> QED
      BY <1>1, <3>1, SettledFacts
  <2> QED
    BY <1>1, <2>1, <2>2, <2>3
    DEF Next, SessionNext, ProverNext, HostNext, vars, sessionVars, fileVars, hostVars,
        RunTransition, RunRejection, EvaluateBeam, RecordBeamCheck, BuildClaim,
        RecordFixedClaim, WriteRequest, StartProve, SaveProof, WriteReceipt, ProverStops,
        CreateManifest, RebuildGuest
<1>2. IInv /\ [Next]_vars =>
        [Settled /\ report' # report /\ report'.ledger = request.statement.head
           => report'.verdict \in {"PASS", "TIMEOUT"}]_vars
  BY <1>1
<1> QED
  BY <1>2, Inductive, PTL DEF Spec, SettledProofsVerify
=============================================================================
