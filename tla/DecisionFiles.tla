--------------------------- MODULE DecisionFiles ---------------------------
(***************************************************************************)
(* How a decision travels: gat/headless.py reads a request and the model   *)
(* it names, and writes a response; gat/report.py and the Blender add-on   *)
(* read it; gat/cli.py (view, workbench) loads the model again and draws   *)
(* the decision over it (gat/geometry/viewer.py).  Nobody locks the files: *)
(* any of them may be written between any two steps.                       *)
(*                                                                         *)
(* The decision of an acceptance case is the subject of module Headless;   *)
(* here it is the term of what it was made of.  Where an operation of the  *)
(* session fails, a response is an error and holds nothing else.           *)
(***************************************************************************)
EXTENDS BeamCheck

CONSTANTS
  Spellings,     \* the path strings that name the model file
  Models,        \* beliefs the model file may hold
  Certificates,  \* what the certificate may hold: [beam, value], or Garbled
  Garbled,
  Requests,      \* [id, operation, spelling, payload]
  MaxWrites      \* bound of the model: files written by others

(* Any other operation is refused by the parser of requests.               *)
ASSUME RequestsAssumption ==
  /\ None \notin Requests
  /\ \A q \in Requests :
       q.operation \in {"summary", "acceptance", "beam_assurance", "change_impact"}

VARIABLES
  model,         \* the model file
  request,       \* the request file
  job,           \* a headless process that has loaded the model, or NoJob
  response,      \* the response file
  viewing,       \* a view that has loaded the model, or none
  shown,         \* what the last view came to
  writes

fileVars == <<model, request, job, response, viewing, shown, writes>>

Loaded(spelling, belief) == World(spelling, belief.mean, belief.cov)

FileInit ==
  /\ model \in Models /\ request \in Requests
  /\ job = None /\ response = None /\ viewing = None /\ shown = None /\ writes = 0

-----------------------------------------------------------------------------
(* gat/headless.py *)

(* Everything an operation of a request reads but the certificate.         *)
HeadlessLoad ==
  /\ job = None
  /\ job' = [request |-> request, world |-> Loaded(request.spelling, model)]
  /\ UNCHANGED <<model, request, response, viewing, shown, writes>>

(* The fields of every response, and bookkeeping: the request it answers   *)
(* and the world this was evaluated on.                                    *)
Response(j, world, result) ==
  [id |-> j.request.id, operation |-> j.request.operation, world |-> world,
   result |-> result, answers |-> j.request, evaluated |-> j.world]

ErrorDocument(j) == Response(j, None, None)

Summary(j) == Response(j, j.world, [passed |-> Passes(j.world)])

Acceptance(j) ==
  Response(j, j.world, [world |-> j.world, disposition |-> <<j.world, j.request.payload>>])

(* _beam_assurance: certificate, transition and both results, of one       *)
(* evaluator.  The digest of the response is taken when all has been done. *)
CertificateFits(certificate, check) ==
  certificate # Garbled /\ certificate.beam = check.beam

BeamAssurance(j, certificate) ==
  LET check   == j.request.payload
      before  == j.world
      after   == Observed(before, Fy(check.beam), certificate.value)
      prior   == Evaluation([k \in {} |-> None], before, check)
      revised == Evaluation(Remembered([k \in {} |-> None], prior), after, check)
  IN  IF ~ CertificateFits(certificate, check) \/ ~ Passes(after) THEN ErrorDocument(j)
      ELSE Response(j, after,
             [disposition |-> revised.calculation.verdict, prior |-> prior,
              revised |-> revised, transition |-> <<before, after>>,
              change |-> Explanation(before, after, prior, revised),
              passed |-> Passes(after)])

(* preview_change: the entities of which a marginal moves, or which the    *)
(* change targets or reaches.                                              *)
Moves(w, w2, beam) ==
  \/ \E v \in Dependencies(beam) : v \in ChangedMarginals(w, w2)
  \/ CapacityMean(w, beam) # CapacityMean(w2, beam)
  \/ CapacityVariance(w, beam) # CapacityVariance(w2, beam)

Impacted(w, t) ==
  {beam \in Beams : t.target \in Dependencies(beam) \/ Moves(w, Applied(w, t), beam)}

ChangeImpact(j) ==
  LET w == j.world  t == j.request.payload
  IN  Response(j, w,
        [prior |-> w, candidate |-> Applied(w, t), entities |-> Impacted(w, t),
         admissible |-> Passes(Applied(w, t)),
         disposition |-> IF Passes(Applied(w, t)) THEN "ADMISSIBLE" ELSE "BLOCKED",
         failures |-> Failures(Applied(w, t))])

Handled(j, certificate) ==
  CASE j.request.operation = "summary"        -> Summary(j)
    [] j.request.operation = "acceptance"     -> Acceptance(j)
    [] j.request.operation = "beam_assurance" -> BeamAssurance(j, certificate)
    [] j.request.operation = "change_impact"  -> ChangeImpact(j)

(* The certificate is whatever its file holds by then.                     *)
HeadlessRespond ==
  /\ job # None
  /\ \E certificate \in Certificates : response' = Handled(job, certificate)
  /\ job' = None
  /\ UNCHANGED <<model, request, viewing, shown, writes>>

(* A process that is stopped leaves the response of another behind.        *)
HeadlessStop ==
  /\ job # None
  /\ job' = None
  /\ UNCHANGED <<model, request, response, viewing, shown, writes>>

-----------------------------------------------------------------------------
(* The readers *)

IsError(r) == r.result = None

BeamIdentitiesAgree(r) ==
  LET x == r.result
  IN  /\ x.passed
      /\ x.transition[2] = r.world
      /\ x.prior.world = x.transition[1]
      /\ x.revised.world = x.transition[2]
      /\ x.revised.calculation.verdict = x.disposition
      /\ x.change.verdictChanged
           = (x.prior.calculation.verdict # x.revised.calculation.verdict)

AcceptanceAgrees(r) == r.result.world = r.world

ChangeAgrees(r) ==
  /\ r.result.prior = r.world
  /\ r.result.admissible = (r.result.disposition = "ADMISSIBLE")
  /\ r.result.admissible = (r.result.failures = {})

(* decode_response.                                                        *)
ReportReads(r) ==
  \/ IsError(r)
  \/ r.operation = "summary"
  \/ r.operation = "acceptance" /\ AcceptanceAgrees(r)
  \/ r.operation = "beam_assurance" /\ BeamIdentitiesAgree(r)
  \/ r.operation = "change_impact" /\ ChangeAgrees(r)

(* parse_response of the add-on, which takes no error document.            *)
BlenderReads(r) ==
  /\ ~ IsError(r)
  /\ \/ r.operation = "acceptance"
     \/ r.operation = "beam_assurance" /\ BeamIdentitiesAgree(r)

-----------------------------------------------------------------------------
(* gat view and gat workbench *)

(* Slip: the model is loaded by the string of the command line.            *)
SpelledAsGiven(spelling, given) == spelling

(* The world digest carries the path string: with the request at hand the  *)
(* model is loaded by the string the request had for it.                   *)
ViewSpelling(spelling, given) == IF given = None THEN spelling ELSE given.spelling

OverlayOperations == {"acceptance", "beam_assurance", "change_impact"}

EvaluatedOn(r) ==
  {r.world} \cup IF r.operation = "beam_assurance" THEN {r.result.transition[1]} ELSE {}

(* Slip: the world of the decision is not compared.                        *)
BindsAnyWorld(loaded, r, given) ==
  /\ ReportReads(r)
  /\ ~ IsError(r) /\ r.operation \in OverlayOperations
  /\ given # None => given.id = r.id /\ given.operation = r.operation

(* decision_overlay.                                                       *)
Binds(loaded, r, given) ==
  /\ ReportReads(r)
  /\ ~ IsError(r) /\ r.operation \in OverlayOperations
  /\ loaded \in EvaluatedOn(r)
  /\ given # None => given.id = r.id /\ given.operation = r.operation

Subjects(r) ==
  CASE r.operation = "beam_assurance" -> {r.answers.payload.beam}
    [] r.operation = "change_impact"  -> r.result.entities
    [] r.operation = "acceptance"     -> {}

Proposal(r, given) ==
  IF given # None /\ r.operation = "acceptance" THEN given.payload ELSE None

(* _bind_decision reads the request, loads the model, and then reads the   *)
(* response and binds it; the page is exported of what it has read.        *)
ViewLoad(spelling, given) ==
  /\ viewing = None /\ response # None
  /\ viewing' = [request |-> given, loaded |-> Loaded(ViewSpelling(spelling, given), model)]
  /\ UNCHANGED <<model, request, job, response, shown, writes>>

ViewBind ==
  /\ viewing # None
  /\ LET drawn == Binds(viewing.loaded, response, viewing.request)
     IN  shown' = [loaded |-> viewing.loaded, response |-> response,
                   request |-> viewing.request, page |-> drawn,
                   subjects |-> IF drawn THEN Subjects(response) ELSE {},
                   proposal |-> IF drawn THEN Proposal(response, viewing.request) ELSE None]
  /\ viewing' = None
  /\ UNCHANGED <<model, request, job, response, writes>>

-----------------------------------------------------------------------------
Write ==
  /\ writes < MaxWrites
  /\ writes' = writes + 1
  /\ \/ model' \in Models \ {model} /\ UNCHANGED request
     \/ request' \in Requests \ {request} /\ UNCHANGED model
  /\ UNCHANGED <<job, response, viewing, shown>>

Headless == HeadlessLoad \/ HeadlessRespond \/ HeadlessStop

FileNext ==
  \/ Headless
  \/ \E spelling \in Spellings, given \in {None, request} : ViewLoad(spelling, given)
  \/ ViewBind
  \/ Write

FileSpec == FileInit /\ [][FileNext]_fileVars

-----------------------------------------------------------------------------
(* Properties *)

Drawn == shown # None /\ shown.page

(* However the files change under the processes, a decision that is drawn  *)
(* over a model is one about it: its verdict is that of the beam in the    *)
(* drawn world, or in that world after the evidence; the case was decided  *)
(* there; the pieces painted are those the change would move in it.        *)
BeamVerdictOf(w, r) ==
  LET check == r.answers.payload
      told  == r.result.transition
  IN  \/ r.result.disposition = Assess(w, check).verdict
      \/ told[1] = w /\ r.result.disposition = Assess(told[2], check).verdict

DrawnDecisionsAreOfTheModel ==
  Drawn =>
    LET r == shown.response  w == shown.loaded
    IN  CASE r.operation = "beam_assurance" -> BeamVerdictOf(w, r)
          [] r.operation = "acceptance" ->
               r.result.disposition = <<w, r.answers.payload>>
          [] r.operation = "change_impact" ->
               \A beam \in Beams :
                 Moves(w, Applied(w, r.answers.payload), beam) => beam \in shown.subjects

(* Fail-closed is not fail-always: whatever headless wrote its readers     *)
(* take, and a decision viewed with the request it answers, over a model   *)
(* that is as it was when this was evaluated, is drawn, by whatever string *)
(* either command named the file.                                          *)
ResponsesAreRead ==
  response # None =>
    /\ ReportReads(response)
    /\ ~ IsError(response) /\ response.operation \in {"acceptance", "beam_assurance"}
         => BlenderReads(response)

SameBelief(w, w2) == w.mean = w2.mean /\ w.cov = w2.cov

OwnResponsesAreDrawn ==
  /\ ResponsesAreRead
  /\ (/\ shown # None
      /\ shown.request = shown.response.answers
      /\ ~ IsError(shown.response)
      /\ shown.response.operation \in OverlayOperations
      /\ SameBelief(shown.loaded, shown.response.evaluated))
     => shown.page

(* "an optional request must carry the same request id and operation, and  *)
(* contributes the proposed geometry the response does not echo.  Anything *)
(* that disagrees is refused, never drawn" (viewer.py:184-186): a proposal *)
(* is drawn under the decision that was made of it.                        *)
DrawnProposalsWereDecided ==
  Drawn /\ shown.proposal # None => shown.proposal = shown.response.answers.payload
=============================================================================
