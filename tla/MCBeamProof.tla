---------------------------- MODULE MCBeamProof ----------------------------
(***************************************************************************)
(* Small instances of BeamProof.  Integers of three and six bits, a factor *)
(* of 3/4 and grains of a quarter unit: the products exceed the wider      *)
(* width, and the quantization and the division meet ties between an even  *)
(* and an odd number either way round.                                     *)
(***************************************************************************)
EXTENDS BeamProof, TLC

CONSTANTS v1, v2, v3, mill, lab
Alike == Permutations({v1, v2}) \cup Permutations(Evidence)

(* Every mean the widths tell apart, up to half a unit beyond u64, and two *)
(* of them whose capacity passes and fails.                                *)
EveryMean   == [fy : 0..30, zx : 0..30]
EveryDemand == 0..30
FirstWorld  == [fy |-> 8, zx |-> 8]
TwoWorlds   == {FirstWorld, [fy |-> 4, zx |-> 8]}

(* Where the guest is never rebuilt: a session between the two worlds, its *)
(* prover and its hosts, in any order.                                     *)
Unrebuilt == program = v3

LongSessionNext ==
  /\ Unrebuilt
  /\ \/ \E w \in TwoWorlds : RunTransition(w)
     \/ RunRejection
     \/ EvaluateBeam(12)
     \/ RecordBeamCheck
     \/ \E e \in Evidence : BuildClaim(e)
     \/ RecordFixedClaim
     \/ \E k \in DOMAIN events : WriteRequest(k)
     \/ ProverNext
     \/ HostNext

(* Elsewhere: one claim per world and demand.  One of them is followed to  *)
(* its report, by a prover and a host whose guest is rebuilt at any moment.*)
Followed == World = FirstWorld /\ result # None /\ result.demand = 12

OneClaimNext ==
  /\ ~ Unrebuilt
  /\ \/ Len(events) = 1 /\ \E w \in Worlds : RunTransition(w)
     \/ result = None /\ Len(events) = 2 /\ \E d \in Demands : EvaluateBeam(d)
     \/ claim = None /\ BuildClaim(mill)
     \/ RecordFixedClaim
     \/ Len(events) = 3 /\ WriteRequest(2)
     \/ StartProve
     \/ /\ Followed
        /\ \/ ProverNext \/ HostNext
           \/ request # None /\ \E prog \in {v1, v2} : RebuildGuest(prog)

(* No action reads the report: a behaviour is followed up to the first.    *)
FirstReportSpec == Init /\ [][report = None /\ (LongSessionNext \/ OneClaimNext)]_vars
=============================================================================
