----------------------------- MODULE BeamProof -----------------------------
(***************************************************************************)
(* The proof pipeline of gat/sp1_beam.py, gat/proof_manifest.py,           *)
(* gat/demo/beam_sp1.py and sp1/beam/script/src/main.rs: a session records *)
(* a fixed-point claim in its ledger and writes a request, a prover proves *)
(* it, a host binds the proof to a ledger in a manifest and has it         *)
(* verified by a subprocess, while the session goes on, the request is     *)
(* rewritten, the guest is rebuilt and processes stop.                     *)
(*                                                                         *)
(* Digests are injective: a hash-chained ledger is its own head, and a     *)
(* statement, a claim and a proof stand for their digests.  The ledger     *)
(* keeps of each event its kind, its result world and the computation an   *)
(* assessment commits to (module Ledger has the whole of it).              *)
(***************************************************************************)
EXTENDS FixedBeam, Sequences

CONSTANTS
  Worlds,     \* beliefs, as [fy |-> grains, zx |-> grains]
  Genesis,    \* the world the session starts in
  Demands,    \* factored demands of a check, in grains
  Evidence,   \* calibrated observations of the beam
  Programs,   \* builds of the guest
  MaxEvents   \* bound of the model: longest ledger

ASSUME WorldAssumption ==
  /\ Worlds \subseteq [fy : Nat, zx : Nat]
  /\ Genesis \in Worlds
  /\ Demands \subseteq Nat

ASSUME MaxEventsAssumption == MaxEvents \in Nat \ {0}

VARIABLES
  events,     \* the session's ledger
  result,     \* the BeamCheckResult last evaluated
  claim,      \* the fixed claim last built
  request,    \* the request file
  proof,      \* the proof file
  receipt,    \* the receipt file
  program,    \* the guest the executable was built with
  prover,     \* the prove subprocess
  manifest,   \* the host's manifest
  job,        \* a verification whose backend is running
  report      \* the last verification that ended

sessionVars == <<events, result, claim>>
fileVars    == <<request, proof, receipt, program>>
hostVars    == <<manifest, job, report>>
vars        == <<sessionVars, fileVars, prover, hostVars>>

None == [tag |-> "none"]

-----------------------------------------------------------------------------
(* The session *)

Event(kind, w, computation) ==
  [kind |-> kind, result |-> w, computation |-> computation]

World == events[Len(events)].result

Append1(event) ==
  /\ Len(events) < MaxEvents
  /\ events' = Append(events, event)

(* session.run of an observation's transformation: committed or rejected.  *)
RunTransition(w) ==
  /\ Append1(Event("transition", w, None))
  /\ UNCHANGED <<result, claim, fileVars, prover, hostVars>>

RunRejection ==
  /\ Append1(Event("rejection", World, None))
  /\ UNCHANGED <<result, claim, fileVars, prover, hostVars>>

EvaluateBeam(demand) ==
  /\ result' = [world |-> World, demand |-> demand]
  /\ UNCHANGED <<events, claim, fileVars, prover, hostVars>>

(* beam_assessment_record of the probabilistic check, then recorded.       *)
RecordBeamCheck ==
  /\ result # None
  /\ result.world = World
  /\ Append1(Event("assessment", World, None))
  /\ UNCHANGED <<result, claim, fileVars, prover, hostVars>>

ClaimInput(w, demand, evidence) ==
  Input(Quantize(w.fy), Quantize(w.zx), Quantize(demand), evidence)

CanClaim(w, evidence) ==
  LET i == ClaimInput(w, result.demand, evidence)
  IN  /\ result # None
      /\ result.world = w
      /\ InputAccepted(i)
      /\ EvaluationFits(i)

BuildClaim(evidence) ==
  /\ CanClaim(World, evidence)
  /\ claim' = Evaluate(ClaimInput(World, result.demand, evidence))
  /\ UNCHANGED <<events, result, fileVars, prover, hostVars>>

RecordsClaim(w) ==
  /\ claim # None
  /\ CanClaim(w, claim.input.evidence)
  /\ claim = Evaluate(ClaimInput(w, result.demand, claim.input.evidence))

(* sp1_beam_assessment_record, then record_assessment in the same world.   *)
RecordFixedClaim ==
  /\ RecordsClaim(World)
  /\ Append1(Event("assessment", World, claim))
  /\ UNCHANGED <<result, claim, fileVars, prover, hostVars>>

-----------------------------------------------------------------------------
(* The statement and the request *)

IsTransition(ledger, seq) ==
  seq \in DOMAIN ledger /\ ledger[seq].kind = "transition"

Statement(ledger, seq, c) == [head |-> ledger, seq |-> seq, computation |-> c]

PublicValues(statement, c) == [statement |-> statement, output |-> c]

WriteRequest(seq) ==
  /\ claim # None
  /\ IsTransition(events, seq)
  /\ request' = [statement |-> Statement(events, seq, claim), claim |-> claim]
  /\ UNCHANGED <<sessionVars, proof, receipt, program, prover, hostVars>>

-----------------------------------------------------------------------------
(* The executable: prove and verify *)

(* read_request, which evaluates the claim again.                          *)
ReadsRequest(r) ==
  /\ GuestAccepts(r.claim.input)
  /\ GuestEvaluate(r.claim.input) = r.claim

Proof(prog, r) ==
  [program |-> prog,
   public  |-> PublicValues(r.statement, GuestEvaluate(r.claim.input))]

Receipt(prog, p) == [program |-> prog, proof |-> p]

StartProve ==
  /\ prover.tag \in {"none", "refused"}
  /\ request # None
  /\ prover' = IF ReadsRequest(request)
                 THEN [tag |-> "proved", proof |-> Proof(program, request)]
                 ELSE [tag |-> "refused"]
  /\ UNCHANGED <<sessionVars, fileVars, hostVars>>

SaveProof ==
  /\ prover.tag = "proved"
  /\ proof' = prover.proof
  /\ prover' = [prover EXCEPT !.tag = "saved"]
  /\ UNCHANGED <<sessionVars, request, receipt, program, hostVars>>

(* write_receipt reads the proof file back.                                *)
WriteReceipt ==
  /\ prover.tag = "saved"
  /\ receipt' = Receipt(prover.proof.program, proof)
  /\ prover' = None
  /\ UNCHANGED <<sessionVars, request, proof, program, hostVars>>

(* The prove subprocess stops before it has written both files.            *)
ProverStops ==
  /\ prover.tag \in {"proved", "saved"}
  /\ prover' = None
  /\ UNCHANGED <<sessionVars, fileVars, hostVars>>

RebuildGuest(prog) ==
  /\ program' = prog
  /\ UNCHANGED <<sessionVars, request, proof, receipt, prover, hostVars>>

-----------------------------------------------------------------------------
(* The host: the manifest and its verification.  A ledger in the host's    *)
(* hands was exported at some moment: it is a prefix of the session's.     *)

Exported == {SubSeq(events, 1, n) : n \in 1..Len(events)}

CreateManifest(ledger) ==
  /\ job = None
  /\ request # None /\ receipt # None
  /\ IsTransition(ledger, request.statement.seq)
  /\ manifest' = [statement |-> Statement(ledger, request.statement.seq, request.claim),
                  program   |-> receipt.program,
                  artifact  |-> proof]
  /\ UNCHANGED <<sessionVars, fileVars, prover, job, report>>

(* Slip: the search starts one event late.                                 *)
CommitsLater(ledger, seq, c) ==
  \E k \in seq + 2 .. Len(ledger) :
    /\ ledger[k].kind = "assessment"
    /\ ledger[k].result = ledger[seq].result
    /\ ledger[k].computation = c

CommitsResult(ledger, seq, c) ==
  \E k \in seq + 1 .. Len(ledger) :
    /\ ledger[k].kind = "assessment"
    /\ ledger[k].result = ledger[seq].result
    /\ ledger[k].computation = c

(* The binding checks of verify_computation_proof_manifest.                *)
Bound(m, ledger, artifact) ==
  /\ IsTransition(ledger, m.statement.seq)
  /\ m.statement.head = ledger
  /\ CommitsResult(ledger, m.statement.seq, m.statement.computation)
  /\ m.artifact = artifact

Report(m, ledger, artifact, verdict) ==
  [manifest |-> m, ledger |-> ledger, artifact |-> artifact, verdict |-> verdict]

StartVerify(ledger) ==
  /\ manifest # None /\ job = None
  /\ IF /\ Bound(manifest, ledger, proof)
        /\ manifest.statement = request.statement
        /\ manifest.statement.computation = request.claim
       THEN /\ job' = [manifest |-> manifest, ledger |-> ledger,
                       artifact |-> proof, request |-> request]
            /\ UNCHANGED report
       ELSE /\ report' = Report(manifest, ledger, proof,
                                IF Bound(manifest, ledger, proof) THEN "FAIL"
                                                                  ELSE "NOT_CHECKED")
            /\ UNCHANGED job
  /\ UNCHANGED <<sessionVars, fileVars, prover, manifest>>

(* The verify subcommand exits with a receipt: it has read the request     *)
(* file again and checked the proof against the guest it was built with.   *)
BackendVerifies(artifact) ==
  /\ ReadsRequest(request)
  /\ artifact.public = PublicValues(request.statement, GuestEvaluate(request.claim.input))
  /\ artifact.program = program

(* Slips: the receipt is taken for the request that was read first, and    *)
(* its guest for the one the manifest names.                               *)
ReceiptUnmatched(m, r, rec) == rec.program = m.program

ReceiptOfAnyGuest(m, r, rec) ==
  /\ rec.proof = m.artifact
  /\ rec.proof.public = PublicValues(m.statement, m.statement.computation)
  /\ rec.proof.public = PublicValues(r.statement, r.claim)

ReceiptMatches(m, r, rec) ==
  /\ rec.program = m.program
  /\ rec.proof = m.artifact
  /\ rec.proof.public = PublicValues(m.statement, m.statement.computation)
  /\ rec.proof.public = PublicValues(r.statement, r.claim)

EndVerify ==
  /\ job # None
  /\ report' = Report(job.manifest, job.ledger, job.artifact,
                      IF /\ BackendVerifies(job.artifact)
                         /\ ReceiptMatches(job.manifest, job.request,
                                           Receipt(program, job.artifact))
                        THEN "PASS" ELSE "FAIL")
  /\ job' = None
  /\ UNCHANGED <<sessionVars, fileVars, prover, manifest>>

(* The subprocess exceeds timeout_seconds or cannot be started.  The code  *)
(* reports a FAIL as well; it is kept apart here for SettledProofsVerify.  *)
VerifyTimesOut ==
  /\ job # None
  /\ report' = Report(job.manifest, job.ledger, job.artifact, "TIMEOUT")
  /\ job' = None
  /\ UNCHANGED <<sessionVars, fileVars, prover, manifest>>

-----------------------------------------------------------------------------
(* The specification *)

Init ==
  /\ events = <<Event("genesis", Genesis, None)>>
  /\ result = None /\ claim = None
  /\ request = None /\ proof = None /\ receipt = None
  /\ program \in Programs
  /\ prover = None
  /\ manifest = None /\ job = None /\ report = None

SessionNext ==
  \/ \E w \in Worlds : RunTransition(w)
  \/ RunRejection
  \/ \E d \in Demands : EvaluateBeam(d)
  \/ RecordBeamCheck
  \/ \E e \in Evidence : BuildClaim(e)
  \/ RecordFixedClaim
  \/ \E seq \in DOMAIN events : WriteRequest(seq)

ProverNext == StartProve \/ SaveProof \/ WriteReceipt \/ ProverStops

HostNext ==
  \/ \E ledger \in Exported : CreateManifest(ledger) \/ StartVerify(ledger)
  \/ EndVerify
  \/ VerifyTimesOut

Next ==
  \/ SessionNext
  \/ ProverNext
  \/ HostNext
  \/ \E prog \in Programs : RebuildGuest(prog)

Spec == Init /\ [][Next]_vars

-----------------------------------------------------------------------------
(* Properties *)

InputType == [fy : 1..UMax, zx : 1..UMax, demand : 0..UMax, evidence : Evidence]

ClaimType == {c \in [input : InputType, nominal : 0..WMax, available : 0..WMax,
                     verdict : {"PASS", "FAIL"}] :
                EvaluationFits(c.input) /\ c = Evaluate(c.input)}

EventType ==
  [kind : {"genesis", "transition", "rejection", "assessment"},
   result : Worlds, computation : ClaimType \cup {None}]

(* The sets the variables range over.                                      *)
TypeOK ==
  /\ events \in Seq(EventType)
  /\ Len(events) \in 1..MaxEvents
  /\ result \in [world : Worlds, demand : Demands] \cup {None}
  /\ claim \in ClaimType \cup {None}
  /\ program \in Programs
  /\ prover.tag \in {"none", "refused", "proved", "saved"}

(* Python and the guest are two implementations of one calculation, and    *)
(* the prover evaluates every request again (read_request in main.rs): a   *)
(* request Python has written is never refused there, whatever is rounded  *)
(* and whichever product comes close to a width.                           *)
GuestAcceptsEveryRequest == request # None => ReadsRequest(request)

(* A claim that the ledger records was computed from quantized means, so   *)
(* its verdict may differ from that of the means themselves: but only when *)
(* the capacity is within half a unit of each rounded quantity of the      *)
(* demand (_quantize and _round_div_ties_even), never further away.        *)
PassIsNear(w, d) ==
  4 * Grain * Million * d
    <= Phi * (2 * w.fy + Grain) * (2 * w.zx + Grain) + 4 * Grain * Grain * Million

FailIsNear(w, d) ==
  Phi * (2 * w.fy - Grain) * (2 * w.zx - Grain) <= 4 * Grain * Million * d

VerdictWithinRounding ==
  \A k \in DOMAIN events, d \in Demands :
    LET c == events[k].computation
        w == events[k].result
    IN  c # None /\ c.input.demand = Quantize(d) =>
          IF c.verdict = "PASS" THEN PassIsNear(w, d) ELSE FailIsNear(w, d)

(* A verified proof is a proof about the ledger it was verified against:   *)
(* its public values state that ledger and one of its transitions, and     *)
(* what it computes is the claim an assessment after that transition       *)
(* recorded for the very world the transition led to, made of that world's *)
(* means.  No sequence of sessions that go on, requests that are rewritten *)
(* under a running backend and proofs left over from a stopped prover gets *)
(* around it.                                                              *)
AboutWorld(c, w) == c.input.fy = Quantize(w.fy) /\ c.input.zx = Quantize(w.zx)

VerifiedProofsBindTheirWorld ==
  report # None /\ report.verdict = "PASS" =>
    LET ledger == report.ledger
        seq    == report.manifest.statement.seq
        c      == report.artifact.public.output
    IN  /\ ledger \in Exported
        /\ IsTransition(ledger, seq)
        /\ AboutWorld(c, ledger[seq].result)
        /\ \E k \in seq + 1 .. Len(ledger) :
             /\ ledger[k].result = ledger[seq].result
             /\ ledger[k].computation = c
        /\ report.artifact.public.statement = Statement(ledger, seq, c)

(* A proof verifies only by the guest its manifest names and the           *)
(* executable was built with, though a prover that stops between its two   *)
(* files leaves a new proof beside the receipt of an older build, and the  *)
(* guest may be rebuilt between the proof and its verification.            *)
VerifiedByNamedGuest ==
  [][report' # report /\ report'.verdict = "PASS"
       => /\ report'.artifact.program = program
          /\ report'.manifest.program = program]_vars

(* The order of run_beam_assurance and run_beam_sp1 leads to a proof that  *)
(* verifies: when the claim was recorded for the transition before the     *)
(* request was written, and the files, the guest and the ledger in hand    *)
(* are still those of the request, a verification that is not cut short by *)
(* its timeout does not end unverified.                                    *)
RecordedBefore(r) ==
  LET s == r.statement
  IN  \E k \in DOMAIN s.head :
        /\ k > s.seq
        /\ s.head[k] = Event("assessment", s.head[s.seq].result, r.claim)

Settled ==
  /\ request # None
  /\ RecordedBefore(request)
  /\ proof = Proof(program, request)
  /\ receipt = Receipt(program, proof)
  /\ manifest # None
  /\ manifest.statement.head = request.statement.head
  /\ manifest.statement.seq = request.statement.seq
  /\ manifest.statement.computation = request.claim
  /\ manifest.program = program
  /\ manifest.artifact = proof

SettledProofsVerify ==
  [][Settled /\ report' # report /\ report'.ledger = request.statement.head
       => report'.verdict \in {"PASS", "TIMEOUT"}]_vars
=============================================================================
