--------------------------- MODULE WorkbenchProofs ---------------------------
(***************************************************************************)
(* What is proved of the workbench and of what it shows: of the beam       *)
(* checks of a session (module BeamDecisions), of the files a decision     *)
(* travels in (DecisionFiles) and of the two seats of a document           *)
(* (Instrument).  For every set of beams, worlds, checks, operations and   *)
(* requests, every length of a session, every interleaving of the          *)
(* processes, every payload, and however often users act.                  *)
(***************************************************************************)
EXTENDS BeamDecisions, DecisionFiles, Instrument, TLAPS

(* What an assessment reads of a world is what the cache key tells of it.  *)
LEMMA SliceDeterminesAssessment ==
  ASSUME NEW w, NEW x, NEW check,
         Slice(w, check.beam) = Slice(x, check.beam)
  PROVE  Assess(w, check) = Assess(x, check)
<1> DEFINE b == check.beam
           rows == Dependencies(b)
<1>1. Fy(b) \in rows /\ Z(b) \in rows
  BY DEF Dependencies
<1>2. /\ Slice(w, b).mean = [v \in rows |-> w.mean[v]]
      /\ Slice(x, b).mean = [v \in rows |-> x.mean[v]]
      /\ Slice(w, b).cov = [v \in rows |-> [u \in rows |-> w.cov[v][u]]]
      /\ Slice(x, b).cov = [v \in rows |-> [u \in rows |-> x.cov[v][u]]]
  BY DEF Slice
<1>3. ASSUME NEW v \in rows
      PROVE  w.mean[v] = x.mean[v]
  <2>1. /\ [t \in rows |-> w.mean[t]][v] = w.mean[v]
        /\ [t \in rows |-> x.mean[t]][v] = x.mean[v]
    BY <1>3
  <2> QED
    BY <2>1, <1>2
<1>4. ASSUME NEW v \in rows, NEW u \in rows
      PROVE  w.cov[v][u] = x.cov[v][u]
  <2>1. /\ [t \in rows |-> [s \in rows |-> w.cov[t][s]]][v][u] = w.cov[v][u]
        /\ [t \in rows |-> [s \in rows |-> x.cov[t][s]]][v][u] = x.cov[v][u]
    BY <1>4
  <2> QED
    BY <2>1, <1>2
<1> HIDE DEF rows, b
<1>5. CapacityMean(w, b) = CapacityMean(x, b)
  BY <1>1, <1>3 DEF CapacityMean
<1>6. CapacityVariance(w, b) = CapacityVariance(x, b)
  BY <1>1, <1>3, <1>4 DEF CapacityVariance
<1> QED
  BY <1>5, <1>6 DEF Assess, b

(* Two questions with one cache key have one answer.                       *)
THEOREM KeyDeterminesAssessment ==
  ASSUME NEW w, NEW x, NEW c, NEW d, Key(w, c) = Key(x, d)
  PROVE  Assess(w, c) = Assess(x, d)
<1>1. /\ Key(w, c).model.subject = c.beam
      /\ Key(w, c).model.demand = c.demand
      /\ Key(w, c).profile = c.confidence
      /\ Key(w, c).slice = Slice(w, c.beam)
      /\ Key(x, d).model.subject = d.beam
      /\ Key(x, d).model.demand = d.demand
      /\ Key(x, d).profile = d.confidence
      /\ Key(x, d).slice = Slice(x, d.beam)
  BY DEF Key
<1>2. /\ c.beam = d.beam /\ c.demand = d.demand /\ c.confidence = d.confidence
      /\ Slice(w, c.beam) = Slice(x, c.beam)
  BY <1>1
<1>3. Assess(w, c) = Assess(x, c)
  BY <1>2, SliceDeterminesAssessment
<1>4. Assess(x, c) = Assess(x, d)
  BY <1>2 DEF Assess
<1> QED
  BY <1>3, <1>4

-----------------------------------------------------------------------------
(* The inductive invariant *)

(* What is held in the cache was once a result, under its own key.         *)
CacheHoldsResults ==
  \A key \in DOMAIN cache :
    \E r \in results : key = Key(r.world, r.check) /\ cache[key] = r.calculation

ChangeIsOfResults ==
  \/ change = None
  \/ /\ change.prior \in results
     /\ change.revised \in results
     /\ change.changed = ChangedBeliefs(change.prior.world, change.revised.world)

BeamInvariant ==
  /\ ResultsAreOfTheirWorlds
  /\ \A r \in results : r.check \in Checks
  /\ CacheHoldsResults
  /\ ChangeIsOfResults

LEMMA InvariantInit == BeamInit => BeamInvariant
<1> SUFFICES ASSUME BeamInit PROVE BeamInvariant
  OBVIOUS
<1>1. results = {} /\ change = None /\ DOMAIN cache = {}
  BY DEF BeamInit
<1> QED
  BY <1>1 DEF BeamInvariant, ResultsAreOfTheirWorlds, CacheHoldsResults, ChangeIsOfResults

(* An evaluation keeps the invariant: a hit answers what was answered to a *)
(* question with the same key.                                             *)
LEMMA EvaluationKeeps ==
  ASSUME BeamInvariant, NEW i, NEW check \in Checks, EvaluateCheck(i, check)
  PROVE  BeamInvariant'
<1> DEFINE w == path[i].world
           key == Key(w, check)
           result == Evaluation(cache, w, check)
<1>1. /\ results' = results \cup {result}
      /\ cache' = Remembered(cache, result)
      /\ change' = change
  BY DEF EvaluateCheck
<1>2. /\ result.check = check
      /\ result.world = w
      /\ result.calculation = IF key \in DOMAIN cache THEN cache[key] ELSE Assess(w, check)
  BY DEF Evaluation
<1> HIDE DEF w, key, result
<1>3. result.calculation = Assess(w, check)
  <2>1. CASE key \notin DOMAIN cache
    BY <2>1, <1>2
  <2>2. CASE key \in DOMAIN cache
    <3>1. PICK r \in results : key = Key(r.world, r.check) /\ cache[key] = r.calculation
      BY <2>2 DEF BeamInvariant, CacheHoldsResults
    <3>2. r.calculation = Assess(r.world, r.check)
      BY <3>1 DEF BeamInvariant, ResultsAreOfTheirWorlds
    <3>3. Key(w, check) = Key(r.world, r.check)
      BY <3>1 DEF key
    <3>4. Assess(w, check) = Assess(r.world, r.check)
      BY <3>3, KeyDeterminesAssessment
    <3> QED
      BY <3>1, <3>2, <3>4, <1>2, <2>2
  <2> QED
    BY <2>1, <2>2
<1>4. ResultsAreOfTheirWorlds'
  BY <1>1, <1>2, <1>3 DEF BeamInvariant, ResultsAreOfTheirWorlds
<1>5. \A r \in results' : r.check \in Checks
  BY <1>1, <1>2 DEF BeamInvariant
<1>6. CacheHoldsResults'
  <2>1. Key(result.world, result.check) = key
    BY <1>2 DEF key
  <2>2. cache' = [k \in DOMAIN cache \cup {key} |->
                    IF k = key THEN result.calculation ELSE cache[k]]
    BY <1>1, <2>1 DEF Remembered
  <2>3. SUFFICES ASSUME NEW k \in DOMAIN cache'
                 PROVE  \E r \in results' :
                          k = Key(r.world, r.check) /\ cache'[k] = r.calculation
    BY DEF CacheHoldsResults
  <2>4. CASE k = key
    <3>1. cache'[k] = result.calculation
      BY <2>2, <2>4
    <3> QED
      BY <3>1, <2>1, <2>4, <1>1
  <2>5. CASE k # key
    <3>1. k \in DOMAIN cache /\ cache'[k] = cache[k]
      BY <2>2, <2>3, <2>5
    <3> QED
      BY <3>1, <1>1 DEF BeamInvariant, CacheHoldsResults
  <2> QED
    BY <2>4, <2>5
<1>7. ChangeIsOfResults'
  BY <1>1 DEF BeamInvariant, ChangeIsOfResults
<1> QED
  BY <1>4, <1>5, <1>6, <1>7 DEF BeamInvariant

LEMMA ExplanationKeeps ==
  ASSUME BeamInvariant, NEW i, NEW v, NEW prior \in results, NEW revised \in results,
         Explain(i, v, prior, revised)
  PROVE  BeamInvariant'
<1>1. /\ change' = Explanation(prior.world, revised.world, prior, revised)
      /\ results' = results /\ cache' = cache
  BY DEF Explain
<1>2. /\ change'.prior = prior
      /\ change'.revised = revised
      /\ change'.changed = ChangedBeliefs(prior.world, revised.world)
  BY <1>1 DEF Explanation
<1>3. ChangeIsOfResults'
  BY <1>1, <1>2 DEF ChangeIsOfResults
<1> QED
  BY <1>1, <1>3 DEF BeamInvariant, ResultsAreOfTheirWorlds, CacheHoldsResults

LEMMA InvariantNext == BeamInvariant /\ [BeamNext]_beamVars => BeamInvariant'
<1> SUFFICES ASSUME BeamInvariant, [BeamNext]_beamVars PROVE BeamInvariant'
  OBVIOUS
<1>1. ASSUME NEW t \in Operations, Run(t)
      PROVE  BeamInvariant'
  BY <1>1 DEF Run, BeamInvariant, ResultsAreOfTheirWorlds, CacheHoldsResults,
              ChangeIsOfResults
<1>2. ASSUME NEW i \in DOMAIN path, NEW check \in Checks, EvaluateCheck(i, check)
      PROVE  BeamInvariant'
  BY <1>2, EvaluationKeeps
<1>3. ASSUME NEW i \in DOMAIN path, NEW v \in Raw, NEW p \in results, NEW r \in results,
             Explain(i, v, p, r)
      PROVE  BeamInvariant'
  BY <1>3, ExplanationKeeps
<1>4. CASE UNCHANGED beamVars
  BY <1>4 DEF beamVars, BeamInvariant, ResultsAreOfTheirWorlds, CacheHoldsResults,
              ChangeIsOfResults
<1> QED
  BY <1>1, <1>2, <1>3, <1>4 DEF BeamNext

(* What the two properties rest on, in every reachable state.              *)
THEOREM InvariantHolds == BeamSpec => []BeamInvariant
<1>1. BeamInit => BeamInvariant
  BY InvariantInit
<1>2. BeamInvariant /\ [BeamNext]_beamVars => BeamInvariant'
  BY InvariantNext
<1> QED
  BY <1>1, <1>2, PTL DEF BeamSpec

-----------------------------------------------------------------------------
(* The properties *)

(* No session makes the cache of an evaluator answer for another world:    *)
(* each result is the fresh assessment of the world it is bound to.        *)
THEOREM CachedResultsAreFresh == BeamSpec => []ResultsAreOfTheirWorlds
<1>1. BeamInvariant => ResultsAreOfTheirWorlds
  BY DEF BeamInvariant
<1> QED
  BY <1>1, InvariantHolds, PTL

LEMMA InvariantExplains == BeamInvariant => ChangesAreExplained
<1> SUFFICES ASSUME BeamInvariant,
                    change # None,
                    change.prior.check = change.revised.check,
                    change.prior.calculation # change.revised.calculation
             PROVE  change.changed \cap Dependencies(change.revised.check.beam) # {}
  BY DEF ChangesAreExplained
<1> DEFINE w == change.prior.world
           x == change.revised.world
           check == change.revised.check
           b == check.beam
           rows == Dependencies(b)
<1>1. /\ change.prior \in results
      /\ change.revised \in results
      /\ change.changed = ChangedBeliefs(w, x)
  BY DEF BeamInvariant, ChangeIsOfResults
<1>2. Assess(w, check) # Assess(x, check)
  BY <1>1 DEF BeamInvariant, ResultsAreOfTheirWorlds
<1>3. rows \subseteq Raw
  <2>1. b \in Beams
    BY <1>1, ChecksAssumption DEF BeamInvariant
  <2> QED
    BY <2>1 DEF Dependencies, Fy, Z, Raw
<1> HIDE DEF w, x, check
<1>4. ASSUME \A v \in rows : w.mean[v] = x.mean[v] /\ w.cov[v] = x.cov[v]
      PROVE  FALSE
  <2>1. [v \in rows |-> w.mean[v]] = [v \in rows |-> x.mean[v]]
    BY <1>4
  <2>2. [v \in rows |-> [u \in rows |-> w.cov[v][u]]]
          = [v \in rows |-> [u \in rows |-> x.cov[v][u]]]
    BY <1>4
  <2>3. Slice(w, b) = Slice(x, b)
    BY <2>1, <2>2 DEF Slice
  <2> QED
    BY <2>3, <1>2, SliceDeterminesAssessment
<1>5. PICK v \in rows : w.mean[v] # x.mean[v] \/ w.cov[v] # x.cov[v]
  BY <1>4
<1>6. v \in ChangedBeliefs(w, x)
  BY <1>3, <1>5 DEF ChangedBeliefs
<1> QED
  BY <1>1, <1>5, <1>6 DEF w, x, check

(* No calculation of one check differs between two worlds without a change *)
(* of a belief that the check depends on, and the explanation names one.   *)
THEOREM ExplanationsNameACause == BeamSpec => []ChangesAreExplained
<1>1. BeamInvariant => ChangesAreExplained
  BY InvariantExplains
<1> QED
  BY <1>1, InvariantHolds, PTL

-----------------------------------------------------------------------------
(* The files of a decision *)

(* A process that has loaded what a request names.                         *)
IsJob(j) ==
  \E q \in Requests, m \in Models : j = [request |-> q, world |-> Loaded(q.spelling, m)]

(* A response headless may have written at any time.                       *)
IsAnswer(r) == \E j, certificate : IsJob(j) /\ r = Handled(j, certificate)

(* What every response says about itself.                                  *)
LEMMA ResponseFields ==
  ASSUME NEW j, NEW w, NEW x
  PROVE  LET r == Response(j, w, x)
         IN  /\ r.id = j.request.id /\ r.operation = j.request.operation
             /\ r.world = w /\ r.result = x /\ r.answers = j.request /\ r.evaluated = j.world
             /\ r # None
BY DEF Response, None

LEMMA HandledIs ==
  ASSUME NEW j, NEW certificate, IsJob(j)
  PROVE  /\ j.request.operation \in {"summary", "acceptance", "beam_assurance", "change_impact"}
         /\ j.request.operation = "summary" => Handled(j, certificate) = Summary(j)
         /\ j.request.operation = "acceptance" => Handled(j, certificate) = Acceptance(j)
         /\ j.request.operation = "beam_assurance" =>
              Handled(j, certificate) = BeamAssurance(j, certificate)
         /\ j.request.operation = "change_impact" => Handled(j, certificate) = ChangeImpact(j)
<1>1. j.request \in Requests
  BY DEF IsJob
<1>2. j.request.operation \in {"summary", "acceptance", "beam_assurance", "change_impact"}
  BY <1>1, RequestsAssumption
<1> QED BY <1>2 DEF Handled

(* A verdict revised by the evaluator that has just made the prior one is  *)
(* that of the revised world: what it may have found in its cache has the  *)
(* same key.                                                               *)
LEMMA RevisedIsFresh ==
  ASSUME NEW w, NEW x, NEW check
  PROVE  LET prior   == Evaluation([k \in {} |-> None], w, check)
             revised == Evaluation(Remembered([k \in {} |-> None], prior), x, check)
         IN  /\ prior.world = w /\ revised.world = x
             /\ revised.calculation = Assess(x, check)
<1> DEFINE empty   == [k \in {} |-> None]
           prior   == Evaluation(empty, w, check)
           memory  == Remembered(empty, prior)
           revised == Evaluation(memory, x, check)
<1>1. prior.world = w /\ prior.check = check /\ prior.calculation = Assess(w, check)
  <2>1. DOMAIN empty = {}
    OBVIOUS
  <2> HIDE DEF empty
  <2> QED BY <2>1 DEF Evaluation
<1>2. DOMAIN memory = {Key(w, check)} /\ memory[Key(w, check)] = Assess(w, check)
  <2>1. DOMAIN empty = {}
    OBVIOUS
  <2> HIDE DEF empty, prior
  <2> QED BY <1>1, <2>1 DEF Remembered
<1>3. revised.world = x
      /\ revised.calculation = IF Key(x, check) \in DOMAIN memory THEN memory[Key(x, check)]
                               ELSE Assess(x, check)
  <2> HIDE DEF memory
  <2> QED BY DEF Evaluation
<1> HIDE DEF memory
<1>4. Key(x, check) = Key(w, check) => Assess(x, check) = Assess(w, check)
  BY KeyDeterminesAssessment
<1>5. revised.calculation = Assess(x, check)
  BY <1>2, <1>3, <1>4
<1> QED BY <1>1, <1>3, <1>5 DEF memory

(* What a bending check answers unless it ends in an error document.       *)
AssuranceAnswer(r, j) ==
  \E after : LET x == r.result
             IN  /\ r.world = after /\ x # None
                 /\ x.transition = <<j.world, after>>
                 /\ x.passed
                 /\ x.prior.world = j.world /\ x.revised.world = after
                 /\ x.disposition = x.revised.calculation.verdict
                 /\ x.revised.calculation = Assess(after, j.request.payload)
                 /\ x.change.verdictChanged
                      = (x.prior.calculation.verdict # x.revised.calculation.verdict)

LEMMA BeamAssuranceAnswers ==
  ASSUME NEW j, NEW certificate, BeamAssurance(j, certificate).result # None
  PROVE  AssuranceAnswer(BeamAssurance(j, certificate), j)
<1> DEFINE r       == BeamAssurance(j, certificate)
           check   == j.request.payload
           before  == j.world
           after   == Observed(before, Fy(check.beam), certificate.value)
           empty   == [k \in {} |-> None]
           prior   == Evaluation(empty, before, check)
           revised == Evaluation(Remembered(empty, prior), after, check)
           explained == Explanation(before, after, prior, revised)
           x == [disposition |-> revised.calculation.verdict, prior |-> prior,
                 revised |-> revised, transition |-> <<before, after>>,
                 change |-> explained, passed |-> Passes(after)]
<1>1. r = ErrorDocument(j) \/ (Passes(after) /\ r = Response(j, after, x))
  BY Zenon DEF BeamAssurance
<1>2. ErrorDocument(j).result = None
  BY ResponseFields DEF ErrorDocument
<1>3. prior.world = before /\ revised.world = after /\ revised.calculation = Assess(after, check)
  BY RevisedIsFresh
<1>4. explained.verdictChanged = (prior.calculation.verdict # revised.calculation.verdict)
  <2> HIDE DEF prior, revised, before, after
  <2> QED BY DEF Explanation
<1> HIDE DEF r
<1>5. Passes(after) /\ r = Response(j, after, x)
  BY <1>1, <1>2 DEF r
<1>6. r.world = after /\ r.result = x
  <2> HIDE DEF x, after
  <2> QED BY <1>5, ResponseFields
<1> HIDE DEF prior, revised, before, after, explained
<1>7. /\ x # None /\ x.transition = <<before, after>>
      /\ x.prior = prior /\ x.revised = revised /\ x.change = explained
      /\ x.disposition = revised.calculation.verdict
  BY DEF None
<1>8. x.passed
  BY <1>5, Zenon
<1> HIDE DEF x
<1> QED BY <1>3, <1>4, <1>6, <1>7, <1>8 DEF AssuranceAnswer, before, check, r

(* The four operations, by what their readers compare.                     *)
AnswerOf(r, j) ==
  /\ r.id = j.request.id /\ r.operation = j.request.operation
  /\ r.answers = j.request /\ r.evaluated = j.world /\ r # None
  /\ r.operation \in {"summary", "acceptance", "beam_assurance", "change_impact"}
  /\ r.operation = "acceptance" =>
       /\ r.world = j.world /\ r.result # None /\ r.result.world = j.world
       /\ r.result.disposition = <<j.world, j.request.payload>>
  /\ r.operation = "beam_assurance" => r.result = None \/ AssuranceAnswer(r, j)
  /\ r.operation = "change_impact" =>
       /\ r.world = j.world /\ r.result # None /\ r.result.prior = j.world
       /\ r.result.entities = Impacted(j.world, j.request.payload)
       /\ r.result.admissible = (r.result.disposition = "ADMISSIBLE")
       /\ r.result.admissible = (r.result.failures = {})

LEMMA AnswersFit ==
  ASSUME NEW j, IsJob(j), NEW certificate
  PROVE  AnswerOf(Handled(j, certificate), j)
<1> DEFINE r == Handled(j, certificate)
           w == j.world
           t == j.request.payload
<1>1. CASE j.request.operation = "summary"
  <2>1. r = Summary(j)
    BY <1>1, HandledIs
  <2> HIDE DEF r
  <2>2. r.id = j.request.id /\ r.operation = "summary" /\ r.answers = j.request
        /\ r.evaluated = j.world /\ r # None
    BY <1>1, <2>1, ResponseFields DEF Summary
  <2> QED BY <1>1, <2>2 DEF AnswerOf, r
<1>2. CASE j.request.operation = "acceptance"
  <2> DEFINE x == [world |-> w, disposition |-> <<w, t>>]
  <2>1. r = Response(j, w, x)
    BY <1>2, HandledIs DEF Acceptance
  <2>2. x # None /\ x.world = w /\ x.disposition = <<w, t>>
    BY DEF None
  <2> HIDE DEF r, x
  <2>3. r.id = j.request.id /\ r.operation = "acceptance" /\ r.answers = j.request
        /\ r.evaluated = j.world /\ r # None /\ r.world = w /\ r.result = x
    BY <1>2, <2>1, ResponseFields
  <2> QED BY <1>2, <2>2, <2>3 DEF AnswerOf, r
<1>3. CASE j.request.operation = "beam_assurance"
  <2>1. r = BeamAssurance(j, certificate)
    BY <1>3, HandledIs
  <2>2. r.result = None \/ AssuranceAnswer(r, j)
    BY <2>1, BeamAssuranceAnswers
  <2>3. \E v, x : r = Response(j, v, x)
    BY <2>1, Zenon DEF BeamAssurance, ErrorDocument
  <2> HIDE DEF r
  <2>4. r.id = j.request.id /\ r.operation = "beam_assurance" /\ r.answers = j.request
        /\ r.evaluated = j.world /\ r # None
    BY <1>3, <2>3, ResponseFields
  <2> QED BY <1>3, <2>2, <2>4 DEF AnswerOf, r
<1>4. CASE j.request.operation = "change_impact"
  <2> DEFINE c == Applied(w, t)
             x == [prior |-> w, candidate |-> c, entities |-> Impacted(w, t),
                   admissible |-> Passes(c),
                   disposition |-> IF Passes(c) THEN "ADMISSIBLE" ELSE "BLOCKED",
                   failures |-> Failures(c)]
  <2>1. r = Response(j, w, x)
    BY <1>4, HandledIs, Zenon DEF ChangeImpact
  <2> HIDE DEF c, r
  <2>2. x # None /\ x.prior = w /\ x.entities = Impacted(w, t) /\ x.failures = Failures(c)
        /\ x.disposition = IF Passes(c) THEN "ADMISSIBLE" ELSE "BLOCKED"
    BY DEF None
  <2>3. x.admissible = Passes(c)
    BY Zenon
  <2> HIDE DEF x
  <2>4. x.admissible = (x.disposition = "ADMISSIBLE") /\ x.admissible = (x.failures = {})
    BY <2>2, <2>3 DEF Passes
  <2>5. r.id = j.request.id /\ r.operation = "change_impact" /\ r.answers = j.request
        /\ r.evaluated = j.world /\ r # None /\ r.world = w /\ r.result = x
    BY <1>4, <2>1, ResponseFields
  <2> QED BY <1>4, <2>2, <2>4, <2>5 DEF AnswerOf, r
<1> QED BY <1>1, <1>2, <1>3, <1>4, HandledIs

(* Whatever headless wrote its readers take.                               *)
LEMMA AnswersAreRead ==
  ASSUME NEW r, NEW j, AnswerOf(r, j)
  PROVE  /\ ReportReads(r)
         /\ ~ IsError(r) /\ r.operation \in {"acceptance", "beam_assurance"} => BlenderReads(r)
         /\ ~ IsError(r) /\ r.operation \in OverlayOperations => r.evaluated \in EvaluatedOn(r)
<1>1. ASSUME AssuranceAnswer(r, j)
      PROVE  BeamIdentitiesAgree(r) /\ r.result.transition[1] = j.world
  <2>1. PICK after :
          LET x == r.result
          IN  /\ r.world = after /\ x # None
              /\ x.transition = <<j.world, after>>
              /\ x.passed
              /\ x.prior.world = j.world /\ x.revised.world = after
              /\ x.disposition = x.revised.calculation.verdict
              /\ x.revised.calculation = Assess(after, j.request.payload)
              /\ x.change.verdictChanged
                   = (x.prior.calculation.verdict # x.revised.calculation.verdict)
    BY <1>1, Zenon DEF AssuranceAnswer
  <2>2. r.result.transition[1] = j.world /\ r.result.transition[2] = after
    BY <2>1
  <2>3. BeamIdentitiesAgree(r)
    BY <2>1, <2>2, Zenon DEF BeamIdentitiesAgree
  <2> QED BY <2>2, <2>3
<1>2. CASE r.operation = "summary"
  BY <1>2 DEF AnswerOf, ReportReads, OverlayOperations
<1>3. CASE r.operation = "acceptance"
  BY <1>3 DEF AnswerOf, ReportReads, AcceptanceAgrees, BlenderReads, EvaluatedOn
<1>4. CASE r.operation = "beam_assurance"
  BY <1>1, <1>4 DEF AnswerOf, ReportReads, IsError, BlenderReads, EvaluatedOn
<1>5. CASE r.operation = "change_impact"
  <2>1. ChangeAgrees(r)
    BY <1>5 DEF AnswerOf, ChangeAgrees
  <2> QED BY <2>1, <1>5 DEF AnswerOf, ReportReads, EvaluatedOn
<1> QED BY <1>2, <1>3, <1>4, <1>5 DEF AnswerOf

(* An answer to a request, of the model as some process had loaded it.     *)
Answered(r) == \E j : IsJob(j) /\ AnswerOf(r, j)

(* A view with a request at hand loads the model as the request names it.  *)
LoadedFor(given, loaded) ==
  given \in Requests => \E m \in Models : loaded = Loaded(given.spelling, m)

ShownSound(s) ==
  /\ Answered(s.response)
  /\ LoadedFor(s.request, s.loaded)
  /\ s.page = Binds(s.loaded, s.response, s.request)
  /\ s.page => s.subjects = Subjects(s.response)

(* The inductive invariant: what is held was read at some time, by a       *)
(* process of its own, and nothing of it is assumed to be there still.     *)
FilesSound ==
  /\ request \in Requests /\ model \in Models
  /\ job # None => IsJob(job)
  /\ response # None => Answered(response)
  /\ viewing # None => response # None /\ LoadedFor(viewing.request, viewing.loaded)
  /\ shown # None => ShownSound(shown)

LEMMA FilesInit == FileInit => FilesSound
BY DEF FileInit, FilesSound

LEMMA HeadlessKeeps == FilesSound /\ Headless => FilesSound'
<1> SUFFICES ASSUME FilesSound, Headless PROVE FilesSound'
  OBVIOUS
<1>1. CASE HeadlessLoad
  <2>1. job' = [request |-> request, world |-> Loaded(request.spelling, model)]
    BY <1>1 DEF HeadlessLoad
  <2>2. IsJob(job')
    BY <2>1 DEF IsJob, FilesSound
  <2> QED BY <1>1, <2>2 DEF HeadlessLoad, FilesSound
<1>2. CASE HeadlessRespond
  <2>1. PICK certificate \in Certificates : response' = Handled(job, certificate)
    BY <1>2 DEF HeadlessRespond
  <2>2. IsJob(job)
    BY <1>2 DEF HeadlessRespond, FilesSound
  <2>3. AnswerOf(response', job)
    BY <2>1, <2>2, AnswersFit
  <2>4. Answered(response') /\ response' # None
    BY <2>2, <2>3 DEF Answered, AnswerOf
  <2> QED BY <1>2, <2>4 DEF HeadlessRespond, FilesSound
<1>3. CASE HeadlessStop
  BY <1>3 DEF HeadlessStop, FilesSound
<1> QED BY <1>1, <1>2, <1>3 DEF Headless

LEMMA ViewLoadKeeps ==
  ASSUME FilesSound, NEW spelling, NEW given \in {None, request}, ViewLoad(spelling, given)
  PROVE  FilesSound'
<1>1. /\ viewing'.request = given
      /\ viewing'.loaded = Loaded(ViewSpelling(spelling, given), model)
      /\ response # None /\ response' = response
  BY DEF ViewLoad
<1>2. given \in Requests => ViewSpelling(spelling, given) = given.spelling
  BY RequestsAssumption DEF ViewSpelling
<1>3. LoadedFor(viewing'.request, viewing'.loaded)
  BY <1>1, <1>2 DEF LoadedFor, FilesSound
<1> QED BY <1>1, <1>3 DEF ViewLoad, FilesSound

LEMMA ViewBindKeeps == FilesSound /\ ViewBind => FilesSound'
<1> SUFFICES ASSUME FilesSound, ViewBind PROVE FilesSound'
  OBVIOUS
<1> DEFINE drawn    == Binds(viewing.loaded, response, viewing.request)
           subjects == IF drawn THEN Subjects(response) ELSE {}
           proposal == IF drawn THEN Proposal(response, viewing.request) ELSE None
<1>1. shown' = [loaded |-> viewing.loaded, response |-> response, request |-> viewing.request,
                page |-> drawn, subjects |-> subjects, proposal |-> proposal]
  BY Zenon DEF ViewBind
<1>2. drawn => subjects = Subjects(response)
  OBVIOUS
<1> HIDE DEF drawn, subjects, proposal
<1>3. /\ shown'.loaded = viewing.loaded /\ shown'.response = response
      /\ shown'.request = viewing.request /\ shown'.subjects = subjects
  BY <1>1
<1>4. shown'.page = drawn
  BY <1>1, Zenon
<1>5. Answered(response) /\ LoadedFor(viewing.request, viewing.loaded)
  BY DEF ViewBind, FilesSound
<1>6. drawn = Binds(shown'.loaded, shown'.response, shown'.request)
  BY <1>3 DEF drawn
<1>7. ShownSound(shown')
  BY <1>2, <1>3, <1>4, <1>5, <1>6, Zenon DEF ShownSound
<1> QED BY <1>7 DEF ViewBind, FilesSound

LEMMA FilesNext == FilesSound /\ [FileNext]_fileVars => FilesSound'
<1> SUFFICES ASSUME FilesSound, [FileNext]_fileVars PROVE FilesSound'
  OBVIOUS
<1>1. ASSUME NEW spelling \in Spellings, NEW given \in {None, request},
             ViewLoad(spelling, given)
      PROVE  FilesSound'
  BY <1>1, ViewLoadKeeps
<1>2. CASE Write
  BY <1>2 DEF Write, FilesSound
<1>3. CASE UNCHANGED fileVars
  BY <1>3 DEF fileVars, FilesSound
<1> QED BY <1>1, <1>2, <1>3, HeadlessKeeps, ViewBindKeeps DEF FileNext

(* What the files of a decision hold, however they change under the        *)
(* processes that read and write them.                                     *)
LEMMA FilesAlwaysSound == FileSpec => []FilesSound
<1>1. FileInit => FilesSound
  BY FilesInit
<1>2. FilesSound /\ [FileNext]_fileVars => FilesSound'
  BY FilesNext
<1> QED BY <1>1, <1>2, PTL DEF FileSpec

-----------------------------------------------------------------------------
(* The decision that is drawn *)

LEMMA DrawnBeam ==
  ASSUME NEW w, NEW r, NEW j, AnswerOf(r, j), r.operation = "beam_assurance",
         w \in EvaluatedOn(r), ~ IsError(r)
  PROVE  BeamVerdictOf(w, r)
<1>1. AssuranceAnswer(r, j) /\ r.answers = j.request
  BY DEF AnswerOf, IsError
<1>2. PICK after :
        /\ r.world = after
        /\ r.result.transition = <<j.world, after>>
        /\ r.result.disposition = r.result.revised.calculation.verdict
        /\ r.result.revised.calculation = Assess(after, j.request.payload)
  BY <1>1, Zenon DEF AssuranceAnswer
<1>3. r.result.disposition = Assess(after, r.answers.payload).verdict
  BY <1>1, <1>2
<1>4. r.result.transition[1] = j.world /\ r.result.transition[2] = after
  BY <1>2
<1>5. w = after \/ w = j.world
  BY <1>2, <1>4 DEF EvaluatedOn
<1> QED BY <1>3, <1>4, <1>5 DEF BeamVerdictOf

LEMMA DrawnIsOfTheModel == FilesSound => DrawnDecisionsAreOfTheModel
<1> SUFFICES ASSUME FilesSound, Drawn PROVE DrawnDecisionsAreOfTheModel
  BY DEF DrawnDecisionsAreOfTheModel
<1> DEFINE r == shown.response  w == shown.loaded
<1>1. shown.page /\ ShownSound(shown)
  BY DEF Drawn, FilesSound
<1>2. PICK j : IsJob(j) /\ AnswerOf(r, j)
  BY <1>1 DEF ShownSound, Answered
<1>3. Binds(w, r, shown.request)
  BY <1>1, Zenon DEF ShownSound
<1>4. shown.subjects = Subjects(r)
  BY <1>1, Zenon DEF ShownSound
<1>5. ~ IsError(r) /\ r.operation \in OverlayOperations /\ w \in EvaluatedOn(r)
  BY <1>3, Zenon DEF Binds
<1>6. CASE r.operation = "beam_assurance"
  <2>1. BeamVerdictOf(w, r)
    BY <1>2, <1>5, <1>6, DrawnBeam
  <2> QED BY <1>6, <2>1 DEF DrawnDecisionsAreOfTheModel
<1>7. CASE r.operation = "acceptance"
  <2>1. w = j.world
    BY <1>2, <1>5, <1>7 DEF AnswerOf, EvaluatedOn
  <2>2. r.result.disposition = <<w, r.answers.payload>>
    BY <1>2, <1>7, <2>1 DEF AnswerOf
  <2> QED BY <1>7, <2>2 DEF DrawnDecisionsAreOfTheModel
<1>8. CASE r.operation = "change_impact"
  <2>1. w = j.world
    BY <1>2, <1>5, <1>8 DEF AnswerOf, EvaluatedOn
  <2>2. shown.subjects = Impacted(w, r.answers.payload)
    BY <1>2, <1>4, <1>8, <2>1 DEF AnswerOf, Subjects
  <2>3. \A beam \in Beams :
          Moves(w, Applied(w, r.answers.payload), beam) => beam \in shown.subjects
    BY <2>2 DEF Impacted
  <2> QED BY <1>8, <2>3 DEF DrawnDecisionsAreOfTheModel
<1> QED BY <1>5, <1>6, <1>7, <1>8 DEF OverlayOperations

(* However the files change under the processes, a decision that is drawn  *)
(* over a model is one about that model: the verdict of a bending check is *)
(* that of the drawn world or of it after the evidence, an acceptance was  *)
(* decided there, and every piece the change would move is painted.        *)
THEOREM DrawnDecisionsAlwaysOfTheModel == FileSpec => []DrawnDecisionsAreOfTheModel
<1>1. FilesSound => DrawnDecisionsAreOfTheModel
  BY DrawnIsOfTheModel
<1> QED BY <1>1, FilesAlwaysSound, PTL

LEMMA OwnIsDrawn == FilesSound => OwnResponsesAreDrawn
<1> SUFFICES ASSUME FilesSound PROVE OwnResponsesAreDrawn
  OBVIOUS
<1>1. ResponsesAreRead
  <2> SUFFICES ASSUME response # None
               PROVE  /\ ReportReads(response)
                      /\ ~ IsError(response) /\ response.operation \in {"acceptance", "beam_assurance"}
                           => BlenderReads(response)
    BY DEF ResponsesAreRead
  <2>1. PICK j : IsJob(j) /\ AnswerOf(response, j)
    BY DEF FilesSound, Answered
  <2> QED BY <2>1, AnswersAreRead
<1>2. ASSUME shown # None,
             shown.request = shown.response.answers,
             ~ IsError(shown.response),
             shown.response.operation \in OverlayOperations,
             SameBelief(shown.loaded, shown.response.evaluated)
      PROVE  shown.page
  <2> DEFINE r == shown.response  w == shown.loaded  q == shown.request
  <2>1. ShownSound(shown)
    BY <1>2 DEF FilesSound
  <2>2. PICK j : IsJob(j) /\ AnswerOf(r, j)
    BY <2>1 DEF ShownSound, Answered
  <2>3. PICK a \in Requests, n \in Models :
          j = [request |-> a, world |-> Loaded(a.spelling, n)]
    BY <2>2 DEF IsJob
  <2>4. q = a /\ r.evaluated = Loaded(a.spelling, n) /\ q.id = r.id /\ q.operation = r.operation
    BY <1>2, <2>2, <2>3 DEF AnswerOf
  <2>5. PICK m \in Models : w = Loaded(a.spelling, m)
    BY <2>1, <2>4 DEF ShownSound, LoadedFor
  <2>6. w = r.evaluated
    BY <1>2, <2>4, <2>5 DEF SameBelief, Loaded, World
  <2>7. ReportReads(r) /\ r.evaluated \in EvaluatedOn(r)
    BY <1>2, <2>2, AnswersAreRead
  <2>8. Binds(w, r, q)
    BY <1>2, <2>4, <2>6, <2>7 DEF Binds
  <2> QED BY <2>1, <2>8, Zenon DEF ShownSound
<1> QED BY <1>1, <1>2 DEF OwnResponsesAreDrawn

(* Fail-closed is not fail-always, however the files change: what headless *)
(* wrote its readers take, and a decision viewed with the request it       *)
(* answers, over the belief this was evaluated on, is drawn.               *)
THEOREM OwnResponsesAlwaysDrawn == FileSpec => []OwnResponsesAreDrawn
<1>1. FilesSound => OwnResponsesAreDrawn
  BY OwnIsDrawn
<1> QED BY <1>1, FilesAlwaysSound, PTL

-----------------------------------------------------------------------------
(* The seats of a workbench document: page and viewer show one selection   *)
(* when nothing is under way, unless selections crossed.                   *)

Drawable == Elements \cup {Nothing}

Kept == Selections \cup {Inherited}   \* what the page may keep as its selection

PageMessages  == {Ready} \cup {Selection(e) : e \in Drawable}
FrameMessages == {Select(e) : e \in Kept}

Pages  == [booted : BOOLEAN, mode : Modes \cup {Nothing}, selection : Kept,
           ready : BOOLEAN]
Frames == [booted : BOOLEAN, selected : Drawable]

SeatsType ==
  /\ page \in Pages
  /\ frame \in Frames
  /\ toPage \in Seq(PageMessages)
  /\ toFrame \in Seq(FrameMessages)
  /\ crossed \in BOOLEAN

(* The page posts nothing before it has heard that the frame is ready.     *)
SilentBeforeReady ==
  /\ ~ page.booted => ~ page.ready
  /\ ~ page.ready => toFrame = <<>>

IsReady(i)     == toPage[i].kind = "ready"
IsSelection(i) == toPage[i].kind = "selection"

Announced == \E i \in DOMAIN toPage : IsReady(i)      \* a "ready" is under way
Chosen    == \E i \in DOMAIN toPage : IsSelection(i)  \* a choice of the viewer is

(* A viewer that has announced itself has not been clicked since.          *)
ReadyComesLast ==
  \A i, j \in DOMAIN toPage : (i < j /\ IsReady(i)) => ~ IsSelection(j)

(* While the viewer's choice is on its way the page has not answered.      *)
OneDirection == Chosen => toFrame = <<>>

(* The last choice on its way is what the viewer shows.                    *)
ChoiceIsShown ==
  (frame.booted /\ Chosen /\ ~ Announced) => toPage[Len(toPage)] = Selection(frame.selected)

(* The last thing the page has asked for is what it shows, unless it keeps *)
(* an inherited name, which it need not have asked for.                    *)
AskedIsShown ==
  (toFrame # <<>> /\ page.selection # Inherited)
    => toFrame[Len(toFrame)] = Select(page.selection)

(* A viewer whose "ready" will not be answered shows nothing.              *)
FreshIsEmpty ==
  (/\ frame.booted /\ Announced /\ toFrame = <<>>
   /\ page.selection = Nothing \/ ~ page.ready \/ Chosen)
  => frame.selected = Nothing

Agreement ==
  /\ ReadyComesLast /\ OneDirection /\ ChoiceIsShown
  /\ AskedIsShown /\ FreshIsEmpty /\ SameSelection

SeatsInvariant == SeatsType /\ SilentBeforeReady /\ (~ crossed => Agreement)

-----------------------------------------------------------------------------
(* Messages *)

LEMMA LastOne ==
  ASSUME NEW S, NEW s \in Seq(S), s # <<>>, Tail(s) = <<>>
  PROVE  Len(s) = 1
<1>1. Len(s) \in Nat /\ Len(Tail(s)) = Len(s) - 1
  OBVIOUS
<1>2. Len(<<>>) = 0
  OBVIOUS
<1>3. Len(Tail(s)) = 0
  BY <1>2, Zenon
<1> QED
  BY <1>1, <1>3

LEMMA PageMessageKinds ==
  ASSUME NEW s \in Seq(PageMessages), NEW i \in DOMAIN s
  PROVE  /\ s[i] \in PageMessages
         /\ s[i].kind \in {"ready", "selection"}
         /\ s[i].kind = "ready" <=> s[i] = Ready
         /\ s[i].kind = "selection" =>
              s[i].entity \in Drawable /\ s[i] = Selection(s[i].entity)
<1>1. s[i] \in PageMessages
  OBVIOUS
<1> QED
  BY <1>1 DEF PageMessages, Ready, Selection

LEMMA FrameMessageEntity ==
  ASSUME NEW s \in Seq(FrameMessages), NEW i \in DOMAIN s
  PROVE  s[i].entity \in Kept /\ s[i] = Select(s[i].entity)
<1>1. s[i] \in FrameMessages
  OBVIOUS
<1> QED
  BY <1>1 DEF FrameMessages, Select

LEMMA DrawableIsSelectable == Drawable \subseteq Selections
  BY InstrumentAssumption DEF Drawable, Selections

LEMMA InheritedIsForeign == Inherited \notin Selections \cup Drawable \cup {Malformed}
  BY InstrumentAssumption DEF Drawable, Selections

LEMMA WantedTypes ==
  /\ WantedEntity \in Kept
  /\ WantedEntity # Inherited => WantedEntity \in Selections
  /\ \A mode \in Modes \cup {Nothing} : WantedMode(mode) \in Modes \cup {Nothing}
  BY DEF WantedEntity, WantedMode, Selections, Kept

(* What becomes of a hash: it does not decode, or the page keeps what it   *)
(* names, or the page selects what it names.                               *)
HashIsUnread ==
  /\ ~ Decodes
  /\ page' = [page EXCEPT !.booted = TRUE] /\ UNCHANGED <<hash, toFrame>>

InMode(fallback) ==
  IF WantedMode(fallback) \in Modes
    THEN [page EXCEPT !.booted = TRUE, !.mode = WantedMode(fallback)]
    ELSE [page EXCEPT !.booted = TRUE]

HashIsKept(fallback) ==
  /\ Decodes /\ WantedEntity \in {page.selection, Inherited}
  /\ page' = [InMode(fallback) EXCEPT !.selection = WantedEntity]
  /\ hash' = IF WantedMode(fallback) \in Modes THEN View(InMode(fallback)) ELSE hash
  /\ toFrame' = toFrame

HashIsSelected(fallback) ==
  /\ HashSelects /\ WantedEntity \in Selections \ {page.selection}
  /\ page' = [InMode(fallback) EXCEPT !.selection = WantedEntity]
  /\ hash' = View(page')
  /\ toFrame' = IF page.ready THEN Append(toFrame, Select(WantedEntity)) ELSE toFrame

LEMMA InModeTypes ==
  ASSUME NEW fallback, page \in Pages
  PROVE  InMode(fallback) \in Pages
BY DEF InMode, Pages

LEMMA HashIsApplied ==
  ASSUME NEW fallback \in Modes \cup {Nothing}, page \in Pages, ApplyHash(fallback)
  PROVE  /\ page' \in Pages
         /\ page'.booted = TRUE /\ page'.ready = page.ready
         /\ \/ HashIsUnread /\ ~ HashSelects
            \/ HashIsKept(fallback) /\ ~ HashSelects
            \/ HashIsSelected(fallback) /\ HashSelects
<1> DEFINE before == [page EXCEPT !.booted = TRUE]
           turned  == InMode(fallback)
<1>1. /\ before \in Pages /\ before.booted = TRUE /\ before.ready = page.ready
      /\ turned \in Pages /\ turned.booted = TRUE /\ turned.ready = page.ready
  BY DEF Pages, InMode
<1>2. turned = IF WantedMode(fallback) \in Modes
                THEN [before EXCEPT !.mode = WantedMode(fallback)] ELSE before
  BY DEF InMode, Pages
<1>3. CASE ~ Decodes
  <2>1. HashIsUnread /\ ~ HashSelects
    BY <1>3 DEF ApplyHash, HashIsUnread, HashSelects
  <2> QED
    BY <1>1, <2>1 DEF HashIsUnread
<1>4. CASE Decodes
  <2>1. /\ page' = [turned EXCEPT !.selection = WantedEntity]
        /\ hash' = IF HashSelects THEN View(page')
                   ELSE IF WantedMode(fallback) \in Modes THEN View(turned) ELSE hash
        /\ toFrame' = IF HashSelects /\ page.ready
                        THEN Append(toFrame, Select(WantedEntity)) ELSE toFrame
    BY <1>2, <1>4 DEF ApplyHash
  <2>2. page' \in Pages /\ page'.booted = TRUE /\ page'.ready = page.ready
    BY <1>1, <2>1, WantedTypes DEF Pages
  <2>3. CASE HashSelects
    BY <2>1, <2>2, <2>3, WantedTypes DEF HashIsSelected, HashSelects
  <2>4. CASE ~ HashSelects
    BY <1>4, <2>1, <2>2, <2>4 DEF HashIsKept, HashSelects
  <2> QED
    BY <2>3, <2>4
<1> QED
  BY <1>3, <1>4

(* The three things that can become of a message to the page.              *)
PageIsDeaf == ~ page.booted /\ page' = page /\ toFrame' = toFrame /\ hash' = hash

PageHearsReady ==
  /\ page.booted /\ toPage[1] = Ready
  /\ page' = [page EXCEPT !.ready = TRUE]
  /\ toFrame' = IF page.selection # Nothing
                  THEN Append(toFrame, Select(page.selection)) ELSE toFrame
  /\ hash' = hash

PageHearsSelection ==
  /\ page.booted
  /\ \E e \in Drawable : toPage[1] = Selection(e) /\ page' = [page EXCEPT !.selection = e]
  /\ toFrame' = toFrame
  /\ hash' = View(page')

LEMMA PageHears ==
  ASSUME SeatsType, DeliverToPage
  PROVE  /\ toPage # <<>>
         /\ toPage' = Tail(toPage)
         /\ frame' = frame
         /\ crossed' = crossed /\ edited' = edited
         /\ PageIsDeaf \/ PageHearsReady \/ PageHearsSelection
<1> DEFINE m == toPage[1]
<1>1. /\ toPage # <<>> /\ toPage' = Tail(toPage)
      /\ frame' = frame /\ crossed' = crossed /\ edited' = edited
  BY DEF DeliverToPage
<1>2. toPage \in Seq(PageMessages) /\ 1 \in DOMAIN toPage /\ Head(toPage) = m
  BY <1>1 DEF SeatsType
<1>3. /\ m.kind \in {"ready", "selection"}
      /\ m.kind = "ready" => m = Ready
      /\ m.kind = "selection" => m.entity \in Drawable /\ m = Selection(m.entity)
  BY <1>2, PageMessageKinds
<1>4. page.booted \in BOOLEAN
  BY DEF SeatsType, Pages
<1> HIDE DEF m
<1>5. CASE page.booted = FALSE
  <2>1. UNCHANGED <<page, hash, toFrame>>
    BY <1>2, <1>5 DEF DeliverToPage
  <2> QED
    BY <1>1, <1>5, <2>1 DEF PageIsDeaf
<1>6. CASE page.booted = TRUE /\ m.kind = "ready"
  <2>1. /\ page' = [page EXCEPT !.ready = TRUE]
        /\ toFrame' = IF page.selection # Nothing
                        THEN Append(toFrame, Select(page.selection)) ELSE toFrame
        /\ hash' = hash
    BY <1>2, <1>6 DEF DeliverToPage
  <2> QED
    BY <1>1, <1>3, <1>6, <2>1 DEF PageHearsReady, m
<1>7. CASE page.booted = TRUE /\ m.kind = "selection"
  <2>1. m.entity \in Selections
    BY <1>3, <1>7, DrawableIsSelectable
  <2>2. PageSelects(m.entity, "structure")
    BY <1>2, <1>7, <2>1 DEF DeliverToPage
  <2>3. page' = [page EXCEPT !.selection = m.entity] /\ toFrame' = toFrame
        /\ hash' = View(page')
    BY <2>2 DEF PageSelects
  <2> QED
    BY <1>1, <1>3, <1>7, <2>3 DEF PageHearsSelection, m
<1> QED
  BY <1>3, <1>4, <1>5, <1>6, <1>7

-----------------------------------------------------------------------------
(* Types *)

LEMMA StartTypes ==
  /\ Blank \in Pages
  /\ DarkFrame \in Frames
  /\ <<>> \in Seq(PageMessages)
  /\ <<>> \in Seq(FrameMessages)
<1>1. Blank \in Pages
  BY DEF Blank, Pages, Selections, Kept
<1>2. DarkFrame \in Frames
  BY DEF DarkFrame, Frames, Drawable
<1> QED
  BY <1>1, <1>2

LEMMA TypeInit == Init => SeatsType
  BY StartTypes DEF Init, SeatsType

LEMMA HashTypes ==
  ASSUME SeatsType, NEW fallback \in Modes \cup {Nothing}, ApplyHash(fallback)
  PROVE  page' \in Pages /\ toFrame' \in Seq(FrameMessages)
<1>1. page \in Pages /\ toFrame \in Seq(FrameMessages)
  BY DEF SeatsType
<1>2. Select(WantedEntity) \in FrameMessages
  BY WantedTypes DEF FrameMessages
<1>3. toFrame' = toFrame \/ toFrame' = Append(toFrame, Select(WantedEntity))
  <2>1. HashIsUnread \/ HashIsKept(fallback) \/ HashIsSelected(fallback)
    BY <1>1, HashIsApplied
  <2>2. page.ready \in BOOLEAN
    BY <1>1 DEF Pages
  <2> QED
    BY <2>1, <2>2 DEF HashIsUnread, HashIsKept, HashIsSelected
<1>4. page' \in Pages
  BY <1>1, HashIsApplied
<1> QED
  BY <1>1, <1>2, <1>3, <1>4

LEMMA TypeNext == SeatsType /\ [Next]_vars => SeatsType'
<1> SUFFICES ASSUME SeatsType, [Next]_vars PROVE SeatsType'
  OBVIOUS
<1> USE DEF SeatsType
<1>1. ASSUME NEW mode \in Modes, ShowMode(mode) PROVE SeatsType'
  BY <1>1 DEF ShowMode, Pages
<1>2. ASSUME NEW e \in Selections, SelectOnPage(e) PROVE SeatsType'
  <2>1. e \in Kept /\ Select(e) \in FrameMessages
    BY DEF FrameMessages, Kept
  <2>2. page' \in Pages /\ toFrame' \in Seq(FrameMessages)
    BY <1>2, <2>1 DEF SelectOnPage, PageSelects, Pages
  <2>3. crossed' \in BOOLEAN
    BY <1>2 DEF SelectOnPage, Crossing, CrossesPage
  <2> QED
    BY <1>2, <2>2, <2>3 DEF SelectOnPage
<1>3. ASSUME NEW wanted \in Hashes, EditHash(wanted) PROVE SeatsType'
  BY <1>3 DEF EditHash
<1>4. ASSUME NEW e \in Drawable, SelectInFrame(e) PROVE SeatsType'
  <2>1. Selection(e) \in PageMessages
    BY DEF PageMessages
  <2>2. frame' \in Frames /\ toPage' \in Seq(PageMessages)
    BY <1>4, <2>1 DEF SelectInFrame, Frames
  <2>3. crossed' \in BOOLEAN
    BY <1>4 DEF SelectInFrame, Crossing, CrossesFrame, IsIn
  <2> QED
    BY <1>4, <2>2, <2>3 DEF SelectInFrame
<1>5. CASE ReloadFrame
  BY <1>5, StartTypes DEF ReloadFrame
<1>6. CASE ReloadPage
  BY <1>6, StartTypes DEF ReloadPage
<1>7. CASE BootPage
  <2>1. FirstMode \in Modes \cup {Nothing} /\ ApplyHash(FirstMode)
    BY <1>7, InstrumentAssumption DEF BootPage
  <2> QED
    BY <1>7, <2>1, HashTypes DEF BootPage
<1>8. CASE BootFrame
  <2>1. Ready \in PageMessages
    BY DEF PageMessages
  <2> QED
    BY <1>8, <2>1 DEF BootFrame, Frames, Drawable
<1>9. CASE HashChange
  <2>1. page.mode \in Modes \cup {Nothing} /\ ApplyHash(page.mode)
    BY <1>9 DEF HashChange, Pages
  <2>2. crossed' \in BOOLEAN
    BY <1>9 DEF HashChange, Crossing, CrossesPage
  <2> QED
    BY <1>9, <2>1, <2>2, HashTypes DEF HashChange
<1>10. CASE DeliverToPage
  <2>1. Select(page.selection) \in FrameMessages
    BY DEF FrameMessages, Pages
  <2>2. toPage' \in Seq(PageMessages)
    BY <1>10, PageHears
  <2>3. page' \in Pages
    <3>1. CASE PageIsDeaf
      BY <3>1 DEF PageIsDeaf
    <3>2. CASE PageHearsReady
      BY <3>2 DEF PageHearsReady, Pages
    <3>3. CASE PageHearsSelection
      BY <3>3, DrawableIsSelectable DEF PageHearsSelection, Pages, Kept
    <3> QED
      BY <1>10, <3>1, <3>2, <3>3, PageHears
  <2>4. toFrame' \in Seq(FrameMessages)
    BY <1>10, <2>1, PageHears DEF PageIsDeaf, PageHearsReady, PageHearsSelection
  <2> QED
    BY <1>10, <2>2, <2>3, <2>4, PageHears
<1>11. CASE DeliverToFrame
  BY <1>11 DEF DeliverToFrame, Frames, Drawable
<1>12. CASE UNCHANGED vars
  BY <1>12 DEF vars
<1> QED
  BY <1>1, <1>2, <1>3, <1>4, <1>5, <1>6, <1>7, <1>8, <1>9, <1>10, <1>11, <1>12
     DEF Next, Act, Scripts, Drawable

-----------------------------------------------------------------------------
(* What is under way *)

LEMMA KindsUnderWay ==
  ASSUME SeatsType
  PROVE  /\ toPage = <<>> <=> (~ Announced /\ ~ Chosen)
         /\ CrossesPage <=> Chosen
         /\ IsIn(Ready, toPage) <=> Announced
<1>1. \A i \in DOMAIN toPage :
        toPage[i].kind \in {"ready", "selection"} /\ (toPage[i].kind = "ready" <=> toPage[i] = Ready)
  BY PageMessageKinds DEF SeatsType
<1>2. toPage # <<>> => 1 \in DOMAIN toPage
  BY DEF SeatsType
<1> QED
  BY <1>1, <1>2 DEF Announced, Chosen, IsReady, IsSelection, CrossesPage, IsIn

(* Taking a message off the channel to the page.                           *)
LEMMA PageMessageTaken ==
  ASSUME SeatsType, toPage # <<>>, toPage' = Tail(toPage), ReadyComesLast
  PROVE  /\ ReadyComesLast'
         /\ Chosen' => Chosen /\ toPage'[Len(toPage')] = toPage[Len(toPage)]
         /\ Announced' => Announced
         /\ (Announced /\ ~ Announced') => (toPage[1] = Ready /\ ~ Chosen')
         /\ toPage[1] = Ready => (Announced /\ ~ Chosen')
<1>1. /\ toPage \in Seq(PageMessages)
      /\ Len(toPage) \in Nat \ {0}
      /\ Len(toPage') = Len(toPage) - 1
      /\ DOMAIN toPage = 1..Len(toPage)
      /\ DOMAIN toPage' = 1..(Len(toPage) - 1)
      /\ \A i \in DOMAIN toPage' : toPage'[i] = toPage[i + 1]
  BY DEF SeatsType
<1>2. \A i \in DOMAIN toPage : i # 1 => i - 1 \in DOMAIN toPage' /\ toPage'[i - 1] = toPage[i]
  BY <1>1
<1>3. \A i \in DOMAIN toPage' : i + 1 \in DOMAIN toPage
  BY <1>1
<1>4. ReadyComesLast'
  <2>1. SUFFICES ASSUME NEW i \in DOMAIN toPage', NEW j \in DOMAIN toPage',
                        i < j, IsReady(i)'
                 PROVE  ~ IsSelection(j)'
    BY DEF ReadyComesLast
  <2>2. /\ i + 1 \in DOMAIN toPage /\ j + 1 \in DOMAIN toPage /\ i + 1 < j + 1
        /\ IsReady(i + 1)
    BY <1>1, <1>3, <2>1 DEF IsReady
  <2>3. ~ IsSelection(j + 1)
    BY <2>2 DEF ReadyComesLast
  <2> QED
    BY <1>1, <2>3 DEF IsSelection
<1>5. Chosen' => Chosen /\ toPage'[Len(toPage')] = toPage[Len(toPage)]
  BY <1>1, <1>3 DEF Chosen, IsSelection
<1>6. Announced' => Announced
  BY <1>1, <1>3 DEF Announced, IsReady
<1>7. toPage[1] = Ready => (Announced /\ ~ Chosen')
  <2>1. SUFFICES ASSUME toPage[1] = Ready PROVE Announced /\ ~ Chosen'
    OBVIOUS
  <2>2. 1 \in DOMAIN toPage /\ IsReady(1)
    BY <1>1, <2>1 DEF IsReady, Ready
  <2>3. \A j \in DOMAIN toPage : 1 < j => ~ IsSelection(j)
    BY <2>2 DEF ReadyComesLast
  <2>4. ASSUME NEW i \in DOMAIN toPage' PROVE ~ IsSelection(i)'
    <3>1. i + 1 \in DOMAIN toPage /\ 1 < i + 1
      BY <1>1, <1>3
    <3>2. ~ IsSelection(i + 1)
      BY <2>3, <3>1
    <3> QED
      BY <1>1, <3>2 DEF IsSelection
  <2> QED
    BY <2>2, <2>4 DEF Announced, Chosen
<1>8. (Announced /\ ~ Announced') => toPage[1] = Ready
  <2>1. SUFFICES ASSUME NEW i \in DOMAIN toPage, IsReady(i), ~ Announced'
                 PROVE  toPage[1] = Ready
    BY DEF Announced
  <2>2. i = 1
    BY <1>2, <2>1 DEF Announced, IsReady
  <2> QED
    BY <1>1, <2>1, <2>2, PageMessageKinds DEF IsReady
<1> QED
  BY <1>4, <1>5, <1>6, <1>7, <1>8

-----------------------------------------------------------------------------
(* Steps of the page *)

(* A selection of the page, by its user or by the hash.                    *)
LEMMA PageAsks ==
  ASSUME SeatsInvariant, NEW e \in Selections, page.booted,
         page'.selection = e, page'.ready = page.ready, page'.booted = page.booted,
         toFrame' = IF page.ready THEN Append(toFrame, Select(e)) ELSE toFrame,
         UNCHANGED <<frame, toPage>>,
         Crossing(CrossesPage), ~ crossed'
  PROVE  Agreement'
<1> USE DEF SeatsInvariant
<1>1. ~ Chosen /\ (crossed => Quiet)
  BY KindsUnderWay DEF Crossing
<1>2. ~ Chosen' /\ (Announced' => Announced)
  BY <1>1 DEF Chosen, Announced, IsReady, IsSelection
<1>3. ReadyComesLast' /\ OneDirection' /\ ChoiceIsShown'
  BY <1>2 DEF ReadyComesLast, OneDirection, ChoiceIsShown, Chosen
<1>4. page.ready => toFrame' # <<>> /\ toFrame'[Len(toFrame')] = Select(e)
  BY DEF SeatsType
<1>5. ~ page.ready => toFrame' = <<>>
  BY DEF SilentBeforeReady
<1>6. AskedIsShown'
  BY <1>4, <1>5 DEF AskedIsShown
<1>7. FreshIsEmpty'
  <2>1. SUFFICES ASSUME frame.booted, Announced', toFrame' = <<>>
                 PROVE  frame.selected = Nothing
    BY DEF FreshIsEmpty
  <2>2. ~ page.ready /\ toFrame = <<>>
    BY <1>4, <2>1 DEF SilentBeforeReady
  <2>3. ~ Quiet
    BY <1>2, <2>1, KindsUnderWay DEF Quiet
  <2> QED
    BY <1>1, <1>2, <2>1, <2>2, <2>3 DEF Agreement, FreshIsEmpty
<1>8. SameSelection'
  BY <1>4 DEF SameSelection, Listening, Quiet
<1> QED
  BY <1>3, <1>6, <1>7, <1>8 DEF Agreement

(* A step that moves neither selection, readiness nor message.             *)
LEMMA NothingMoves ==
  ASSUME SeatsInvariant,
         page'.selection = page.selection, page'.ready = page.ready,
         page'.booted = page.booted,
         UNCHANGED <<frame, toPage, toFrame, crossed>>
  PROVE  ~ crossed' => Agreement'
BY DEF SeatsInvariant, Agreement, ReadyComesLast, OneDirection, ChoiceIsShown, AskedIsShown,
       FreshIsEmpty, SameSelection, Listening, Quiet, Chosen, Announced, IsReady, IsSelection

(* The page keeps an inherited name, and tells nobody.                     *)
LEMMA NameIsKept ==
  ASSUME SeatsInvariant,
         page'.selection = Inherited, page'.ready = page.ready,
         page'.booted = page.booted,
         UNCHANGED <<frame, toPage, toFrame, crossed>>
  PROVE  ~ crossed' => Agreement'
<1> SUFFICES ASSUME Agreement PROVE Agreement'
  BY DEF SeatsInvariant
<1>1. /\ Chosen' <=> Chosen
      /\ Announced' <=> Announced
  BY DEF Chosen, Announced, IsReady, IsSelection
<1>2. ReadyComesLast' /\ OneDirection' /\ ChoiceIsShown'
  BY <1>1 DEF Agreement, ReadyComesLast, OneDirection, ChoiceIsShown, IsReady, IsSelection
<1>3. AskedIsShown' /\ SameSelection'
  BY InheritedIsForeign DEF AskedIsShown, SameSelection, Drawable
<1>4. FreshIsEmpty'
  BY <1>1, InheritedIsForeign DEF Agreement, FreshIsEmpty, Selections
<1> QED
  BY <1>2, <1>3, <1>4 DEF Agreement

LEMMA PageBoots ==
  ASSUME SeatsInvariant, BootPage, ~ crossed'
  PROVE  Agreement'
<1> USE DEF SeatsInvariant
<1>1. /\ ~ page.ready /\ ~ page'.ready /\ toFrame = <<>>
      /\ UNCHANGED <<frame, toPage, toFrame, crossed>>
  <2>1. page \in Pages /\ FirstMode \in Modes \cup {Nothing} /\ ApplyHash(FirstMode)
    BY InstrumentAssumption DEF BootPage, SeatsType
  <2>2. ~ page.ready /\ toFrame = <<>>
    BY DEF BootPage, SilentBeforeReady
  <2> QED
    BY <2>1, <2>2, HashIsApplied DEF BootPage, HashIsUnread, HashIsKept, HashIsSelected
<1>2. /\ Chosen' <=> Chosen
      /\ Announced' <=> Announced
      /\ Agreement
  BY <1>1 DEF Chosen, Announced, IsReady, IsSelection
<1>3. ReadyComesLast' /\ OneDirection' /\ ChoiceIsShown' /\ AskedIsShown'
  BY <1>1, <1>2 DEF Agreement, ReadyComesLast, OneDirection, ChoiceIsShown, AskedIsShown,
                    IsReady, IsSelection
<1>4. FreshIsEmpty'
  BY <1>1, <1>2 DEF Agreement, FreshIsEmpty
<1>5. SameSelection'
  BY <1>1 DEF SameSelection, Listening
<1> QED
  BY <1>3, <1>4, <1>5 DEF Agreement

(* A message reaches the page.                                             *)
LEMMA PageReceives ==
  ASSUME SeatsInvariant, DeliverToPage, ~ crossed'
  PROVE  Agreement'
<1> USE DEF SeatsInvariant
<1>1. /\ toPage # <<>> /\ toPage' = Tail(toPage) /\ frame' = frame
      /\ Agreement
      /\ PageIsDeaf \/ PageHearsReady \/ PageHearsSelection
  BY PageHears
<1>2. /\ ReadyComesLast'
      /\ Chosen' => Chosen /\ toPage'[Len(toPage')] = toPage[Len(toPage)]
      /\ Announced' => Announced
      /\ (Announced /\ ~ Announced') => (toPage[1] = Ready /\ ~ Chosen')
      /\ toPage[1] = Ready => (Announced /\ ~ Chosen')
  BY <1>1, PageMessageTaken DEF Agreement
<1>3. ChoiceIsShown'
  BY <1>1, <1>2 DEF Agreement, ChoiceIsShown
<1>4. CASE PageIsDeaf
  <2>1. ~ page.ready /\ toFrame = <<>> /\ page' = page /\ toFrame' = toFrame
    BY <1>4 DEF PageIsDeaf, SilentBeforeReady
  <2>2. OneDirection' /\ AskedIsShown' /\ SameSelection'
    BY <2>1 DEF OneDirection, AskedIsShown, SameSelection, Listening
  <2>3. FreshIsEmpty'
    BY <1>1, <1>2, <2>1 DEF Agreement, FreshIsEmpty
  <2> QED
    BY <1>2, <1>3, <2>2, <2>3 DEF Agreement
<1>5. CASE PageHearsReady
  <2>1. /\ page'.selection = page.selection
        /\ Announced /\ ~ Chosen'
        /\ toFrame' = IF page.selection # Nothing
                        THEN Append(toFrame, Select(page.selection)) ELSE toFrame
    BY <1>2, <1>5 DEF PageHearsReady, SeatsType, Pages
  <2>2. page.selection # Nothing =>
          toFrame' # <<>> /\ toFrame'[Len(toFrame')] = Select(page.selection)
    BY <2>1 DEF SeatsType
  <2>3. (frame.booted /\ toFrame' = <<>>) =>
          page.selection = Nothing /\ frame.selected = Nothing
    BY <1>1, <2>1, <2>2 DEF Agreement, FreshIsEmpty
  <2>4. OneDirection' /\ FreshIsEmpty'
    BY <1>1, <2>1, <2>3 DEF OneDirection, FreshIsEmpty
  <2>5. AskedIsShown'
    BY <1>1, <2>1, <2>2 DEF Agreement, AskedIsShown
  <2>6. SameSelection'
    BY <1>1, <2>1, <2>3 DEF SameSelection, Listening, Quiet
  <2> QED
    BY <1>2, <1>3, <2>4, <2>5, <2>6 DEF Agreement
<1>6. CASE PageHearsSelection
  <2>1. PICK e \in Drawable :
          toPage[1] = Selection(e) /\ page' = [page EXCEPT !.selection = e]
    BY <1>6 DEF PageHearsSelection
  <2>2. /\ 1 \in DOMAIN toPage /\ Len(toPage) \in Nat \ {0}
        /\ toPage' = <<>> => Len(toPage) = 1
    <3>1. toPage \in Seq(PageMessages) /\ toPage # <<>>
      BY <1>1 DEF SeatsType
    <3> QED
      BY <1>1, <3>1, LastOne
  <2>3. Chosen
    BY <2>1, <2>2 DEF Chosen, IsSelection, Selection
  <2>4. toFrame = <<>> /\ toFrame' = <<>>
    BY <1>1, <1>6, <2>3 DEF Agreement, OneDirection, PageHearsSelection
  <2>5. OneDirection' /\ AskedIsShown'
    BY <2>4 DEF OneDirection, AskedIsShown
  <2>6. FreshIsEmpty'
    BY <1>1, <1>2, <2>3, <2>4 DEF Agreement, FreshIsEmpty
  <2>7. SameSelection'
    <3>1. SUFFICES ASSUME frame.booted, toPage' = <<>> PROVE frame.selected = page'.selection
      BY <1>1 DEF SameSelection, Listening, Quiet
    <3>2. Len(toPage) = 1 /\ toPage[1] # Ready
      BY <2>1, <2>2, <3>1 DEF Selection, Ready
    <3>3. ~ Announced
      <4>1. ~ Announced'
        BY <3>1 DEF Announced
      <4> QED
        BY <1>2, <3>2, <4>1
    <3>4. toPage[1] = Selection(frame.selected)
      BY <1>1, <2>3, <3>1, <3>2, <3>3 DEF Agreement, ChoiceIsShown
    <3>5. e = frame.selected
      BY <2>1, <3>4 DEF Selection
    <3> QED
      BY <2>1, <3>5 DEF SeatsType, Pages
  <2> QED
    BY <1>2, <1>3, <2>5, <2>6, <2>7 DEF Agreement
<1> QED
  BY <1>1, <1>4, <1>5, <1>6

-----------------------------------------------------------------------------
(* Steps of the viewer and of the browser *)

(* A click into the scene.                                                 *)
LEMMA FrameChooses ==
  ASSUME SeatsInvariant, NEW e \in Drawable, SelectInFrame(e), ~ crossed'
  PROVE  Agreement'
<1> USE DEF SeatsInvariant
<1>1. /\ toFrame = <<>> /\ toFrame' = <<>> /\ ~ Announced
      /\ toPage' = Append(toPage, Selection(e)) /\ frame'.selected = e
  BY KindsUnderWay DEF SelectInFrame, Crossing, CrossesFrame, SeatsType, Frames
<1>2. /\ Len(toPage') = Len(toPage) + 1
      /\ toPage' # <<>>
      /\ toPage'[Len(toPage')] = Selection(e)
      /\ \A i \in DOMAIN toPage' :
           (i \in DOMAIN toPage /\ toPage'[i] = toPage[i]) \/ toPage'[i] = Selection(e)
  BY <1>1 DEF SeatsType
<1>3. ~ Announced'
  BY <1>1, <1>2 DEF Announced, IsReady, Selection
<1>4. ReadyComesLast'
  BY <1>3 DEF ReadyComesLast, Announced
<1>5. OneDirection' /\ AskedIsShown' /\ FreshIsEmpty'
  BY <1>1, <1>3 DEF OneDirection, AskedIsShown, FreshIsEmpty
<1>6. ChoiceIsShown'
  BY <1>1, <1>2 DEF ChoiceIsShown
<1>7. SameSelection'
  BY <1>2 DEF SameSelection, Quiet
<1> QED
  BY <1>4, <1>5, <1>6, <1>7 DEF Agreement

LEMMA FrameBoots ==
  ASSUME SeatsInvariant, BootFrame, ~ crossed'
  PROVE  Agreement'
<1> USE DEF SeatsInvariant
<1>1. /\ toFrame' = toFrame /\ page' = page /\ crossed' = crossed
      /\ toPage' = Append(toPage, Ready) /\ frame'.selected = Nothing
  BY DEF BootFrame
<1>2. /\ Len(toPage) \in Nat
      /\ Len(toPage') = Len(toPage) + 1
      /\ toPage' # <<>>
      /\ DOMAIN toPage' = 1..(Len(toPage) + 1)
      /\ DOMAIN toPage = 1..Len(toPage)
      /\ toPage'[Len(toPage) + 1] = Ready
      /\ \A i \in DOMAIN toPage : toPage'[i] = toPage[i]
  BY <1>1 DEF SeatsType
<1>3. Announced'
  BY <1>2 DEF Announced, IsReady, Ready
<1>4. \A i \in DOMAIN toPage' : IsSelection(i)' => i \in DOMAIN toPage /\ IsSelection(i)
  BY <1>2 DEF IsSelection, Ready
<1>5. ReadyComesLast'
  <2>1. SUFFICES ASSUME NEW i \in DOMAIN toPage', NEW j \in DOMAIN toPage',
                        i < j, IsReady(i)', IsSelection(j)'
                 PROVE  FALSE
    BY DEF ReadyComesLast
  <2>2. j \in DOMAIN toPage /\ IsSelection(j)
    BY <1>4, <2>1
  <2>3. i \in DOMAIN toPage
    BY <1>2, <2>1, <2>2
  <2>4. IsReady(i)
    BY <1>2, <2>1, <2>3 DEF IsReady
  <2> QED
    BY <1>1, <2>1, <2>2, <2>3, <2>4 DEF Agreement, ReadyComesLast
<1>6. Chosen' => Chosen
  BY <1>4 DEF Chosen
<1>7. OneDirection' /\ AskedIsShown'
  BY <1>1, <1>6 DEF Agreement, OneDirection, AskedIsShown
<1>8. ChoiceIsShown' /\ FreshIsEmpty'
  BY <1>1, <1>3 DEF ChoiceIsShown, FreshIsEmpty
<1>9. SameSelection'
  BY <1>2 DEF SameSelection, Quiet
<1> QED
  BY <1>5, <1>7, <1>8, <1>9 DEF Agreement

(* A message reaches the viewer.                                           *)
LEMMA FrameReceives ==
  ASSUME SeatsInvariant, DeliverToFrame, ~ crossed'
  PROVE  Agreement'
<1> USE DEF SeatsInvariant
<1> DEFINE e == toFrame[1].entity
<1>1. /\ toFrame # <<>> /\ toFrame' = Tail(toFrame)
      /\ UNCHANGED <<page, toPage, crossed>>
      /\ Agreement
  BY DEF DeliverToFrame
<1>2. page.ready /\ ~ Chosen
  BY <1>1 DEF SilentBeforeReady, Agreement, OneDirection
<1>3. /\ frame.booted /\ e \in Drawable => frame'.selected = e
      /\ frame'.booted = frame.booted
  BY <1>1 DEF DeliverToFrame, SeatsType, Frames, Drawable
<1>4. toFrame \in Seq(FrameMessages) /\ Len(toFrame) \in Nat \ {0}
  BY <1>1 DEF SeatsType
<1>5. (toFrame' = <<>> /\ page.selection # Inherited) => e = page.selection
  <2>1. SUFFICES ASSUME toFrame' = <<>>, page.selection # Inherited PROVE e = page.selection
    OBVIOUS
  <2>2. Len(toFrame) = 1
    BY <1>1, <1>4, <2>1, LastOne
  <2>3. toFrame[1] = Select(page.selection)
    BY <1>1, <1>4, <2>1, <2>2 DEF Agreement, AskedIsShown
  <2> QED
    BY <2>3 DEF Select
<1>6. toFrame' # <<>> => toFrame'[Len(toFrame')] = toFrame[Len(toFrame)]
  BY <1>1, <1>4
<1> HIDE DEF e
<1>7. /\ Chosen' <=> Chosen
      /\ Announced' <=> Announced
  BY <1>1 DEF Chosen, Announced, IsReady, IsSelection
<1>8. ReadyComesLast'
  BY <1>1 DEF Agreement, ReadyComesLast, IsReady, IsSelection
<1>9. OneDirection' /\ ChoiceIsShown'
  BY <1>2, <1>7 DEF OneDirection, ChoiceIsShown
<1>10. AskedIsShown'
  BY <1>1, <1>6 DEF Agreement, AskedIsShown
<1>11. FreshIsEmpty'
  BY <1>1, <1>2, <1>3, <1>5, <1>7, InheritedIsForeign DEF FreshIsEmpty, Drawable
<1>12. SameSelection'
  BY <1>1, <1>3, <1>5, InheritedIsForeign DEF SameSelection, Listening, Quiet, Drawable
<1> QED
  BY <1>8, <1>9, <1>10, <1>11, <1>12 DEF Agreement

(* The frame, or the whole document, is loaded again.                      *)
LEMMA FrameReloads ==
  ASSUME SeatsInvariant, ReloadFrame, ~ crossed'
  PROVE  Agreement'
<1>1. /\ ~ frame'.booted /\ toFrame' = <<>>
      /\ UNCHANGED <<toPage, crossed>>
  BY DEF ReloadFrame, DarkFrame
<1>2. ReadyComesLast'
  BY <1>1 DEF SeatsInvariant, Agreement, ReadyComesLast, IsReady, IsSelection
<1>3. OneDirection' /\ ChoiceIsShown' /\ AskedIsShown' /\ FreshIsEmpty' /\ SameSelection'
  BY <1>1 DEF OneDirection, ChoiceIsShown, AskedIsShown, FreshIsEmpty, SameSelection, Listening
<1> QED
  BY <1>2, <1>3 DEF Agreement

LEMMA DarkSeatsAgree ==
  ASSUME page' = Blank, frame' = DarkFrame, toPage' = <<>>, toFrame' = <<>>
  PROVE  Agreement'
<1>1. ~ Chosen' /\ ~ Announced' /\ ~ page'.booted /\ ~ frame'.booted
  BY DEF Chosen, Announced, Blank, DarkFrame
<1> QED
  BY <1>1 DEF Agreement, ReadyComesLast, OneDirection, ChoiceIsShown, AskedIsShown,
              FreshIsEmpty, SameSelection, Listening

-----------------------------------------------------------------------------
(* The theorem *)

LEMMA SilenceNext ==
  ASSUME SeatsType, SilentBeforeReady, [Next]_vars
  PROVE  SilentBeforeReady'
<1> USE DEF SilentBeforeReady
<1>1. ASSUME NEW mode \in Modes, ShowMode(mode) PROVE SilentBeforeReady'
  BY <1>1 DEF ShowMode, SeatsType, Pages
<1>2. ASSUME NEW e \in Selections, SelectOnPage(e) PROVE SilentBeforeReady'
  BY <1>2 DEF SelectOnPage, PageSelects, SeatsType, Pages
<1>3. ASSUME NEW wanted \in Hashes, EditHash(wanted) PROVE SilentBeforeReady'
  BY <1>3 DEF EditHash
<1>4. ASSUME NEW e \in Drawable, SelectInFrame(e) PROVE SilentBeforeReady'
  BY <1>4 DEF SelectInFrame
<1>5. CASE ReloadFrame
  BY <1>5 DEF ReloadFrame
<1>6. CASE ReloadPage
  BY <1>6 DEF ReloadPage, Blank
<1>7. CASE BootPage
  <2>1. page \in Pages /\ FirstMode \in Modes \cup {Nothing} /\ ApplyHash(FirstMode)
    BY <1>7, InstrumentAssumption DEF BootPage, SeatsType
  <2> QED
    BY <1>7, <2>1, HashIsApplied DEF BootPage, HashIsUnread, HashIsKept, HashIsSelected
<1>8. CASE BootFrame
  BY <1>8 DEF BootFrame
<1>9. CASE HashChange
  <2>1. page \in Pages /\ page.mode \in Modes \cup {Nothing} /\ ApplyHash(page.mode)
    BY <1>9 DEF HashChange, SeatsType, Pages
  <2> QED
    BY <1>9, <2>1, HashIsApplied DEF HashChange, HashIsUnread, HashIsKept, HashIsSelected
<1>10. CASE DeliverToPage
  BY <1>10, PageHears DEF PageIsDeaf, PageHearsReady, PageHearsSelection, SeatsType, Pages
<1>11. CASE DeliverToFrame
  BY <1>11 DEF DeliverToFrame
<1>12. CASE UNCHANGED vars
  BY <1>12 DEF vars
<1> QED
  BY <1>1, <1>2, <1>3, <1>4, <1>5, <1>6, <1>7, <1>8, <1>9, <1>10, <1>11, <1>12
     DEF Next, Act, Scripts, Drawable

LEMMA HashChangeKeeps ==
  ASSUME SeatsInvariant, HashChange, ~ crossed'
  PROVE  Agreement'
<1>1. /\ page.booted /\ UNCHANGED <<frame, toPage>>
      /\ page \in Pages /\ page.mode \in Modes \cup {Nothing} /\ ApplyHash(page.mode)
      /\ page'.ready = page.ready /\ page'.booted = page.booted
  BY HashIsApplied DEF HashChange, SeatsInvariant, SeatsType, Pages
<1>2. CASE HashIsUnread /\ ~ HashSelects
  <2>1. page'.selection = page.selection /\ UNCHANGED <<toFrame, crossed>>
    BY <1>1, <1>2 DEF HashChange, HashIsUnread, Pages
  <2> QED
    BY <1>1, <2>1, NothingMoves
<1>3. CASE HashIsKept(page.mode) /\ ~ HashSelects
  <2>1. page'.selection = WantedEntity /\ UNCHANGED <<toFrame, crossed>>
    BY <1>1, <1>3 DEF HashChange, HashIsKept, InMode, Pages
  <2>2. CASE WantedEntity = page.selection
    BY <1>1, <2>1, <2>2, NothingMoves
  <2>3. CASE WantedEntity = Inherited
    BY <1>1, <2>1, <2>3, NameIsKept
  <2> QED
    BY <1>3, <2>2, <2>3 DEF HashIsKept
<1>4. CASE HashIsSelected(page.mode) /\ HashSelects
  <2>1. /\ WantedEntity \in Selections
        /\ page'.selection = WantedEntity
        /\ toFrame' = IF page.ready THEN Append(toFrame, Select(WantedEntity)) ELSE toFrame
        /\ Crossing(CrossesPage)
    BY <1>1, <1>4 DEF HashChange, HashIsSelected, InMode, Pages
  <2> QED
    BY <1>1, <2>1, PageAsks
<1> QED
  BY <1>1, <1>2, <1>3, <1>4, HashIsApplied

LEMMA AgreementNext ==
  ASSUME SeatsInvariant, [Next]_vars, ~ crossed'
  PROVE  Agreement'
<1>1. ASSUME NEW mode \in Modes, ShowMode(mode) PROVE Agreement'
  <2>1. /\ page'.selection = page.selection /\ page'.ready = page.ready
        /\ page'.booted = page.booted
        /\ UNCHANGED <<frame, toPage, toFrame, crossed>>
    BY <1>1 DEF ShowMode, SeatsInvariant, SeatsType, Pages
  <2> QED
    BY <2>1, NothingMoves
<1>2. ASSUME NEW e \in Selections, SelectOnPage(e) PROVE Agreement'
  <2>1. /\ page.booted
        /\ page'.selection = e /\ page'.ready = page.ready /\ page'.booted = page.booted
        /\ toFrame' = IF page.ready THEN Append(toFrame, Select(e)) ELSE toFrame
        /\ UNCHANGED <<frame, toPage>> /\ Crossing(CrossesPage)
    BY <1>2 DEF SelectOnPage, PageSelects, SeatsInvariant, SeatsType, Pages
  <2> QED
    BY <2>1, PageAsks
<1>3. ASSUME NEW wanted \in Hashes, EditHash(wanted) PROVE Agreement'
  BY <1>3, NothingMoves DEF EditHash
<1>4. ASSUME NEW e \in Drawable, SelectInFrame(e) PROVE Agreement'
  BY <1>4, FrameChooses
<1>5. CASE ReloadFrame
  BY <1>5, FrameReloads
<1>6. CASE ReloadPage
  BY <1>6, DarkSeatsAgree DEF ReloadPage
<1>7. CASE BootPage
  BY <1>7, PageBoots
<1>8. CASE BootFrame
  BY <1>8, FrameBoots
<1>9. CASE HashChange
  BY <1>9, HashChangeKeeps
<1>10. CASE DeliverToPage
  BY <1>10, PageReceives
<1>11. CASE DeliverToFrame
  BY <1>11, FrameReceives
<1>12. CASE UNCHANGED vars
  BY <1>12, NothingMoves DEF vars
<1> QED
  BY <1>1, <1>2, <1>3, <1>4, <1>5, <1>6, <1>7, <1>8, <1>9, <1>10, <1>11, <1>12
     DEF Next, Act, Scripts, Drawable

LEMMA SeatsInit == Init => SeatsInvariant
<1> SUFFICES ASSUME Init PROVE SeatsInvariant
  OBVIOUS
<1>1. SeatsType
  BY TypeInit
<1>2. /\ ~ page.booted /\ ~ page.ready /\ ~ frame.booted /\ toFrame = <<>>
      /\ ~ Chosen /\ ~ Announced
  BY DEF Init, Blank, DarkFrame, Chosen, Announced
<1>3. Agreement
  BY <1>2 DEF Agreement, ReadyComesLast, OneDirection, ChoiceIsShown, AskedIsShown,
              FreshIsEmpty, SameSelection, Listening, Announced
<1> QED
  BY <1>1, <1>2, <1>3 DEF SeatsInvariant, SilentBeforeReady

(* In every reachable state: types, a page that is silent before the       *)
(* viewer is ready, and the agreement of what is under way.                *)
THEOREM SeatsInvariantHolds == Spec => []SeatsInvariant
<1>1. SeatsInvariant /\ [Next]_vars => SeatsInvariant'
  <2> SUFFICES ASSUME SeatsInvariant, [Next]_vars PROVE SeatsInvariant'
    OBVIOUS
  <2>1. SeatsType' /\ SilentBeforeReady'
    BY TypeNext, SilenceNext DEF SeatsInvariant
  <2>2. ~ crossed' => Agreement'
    BY AgreementNext
  <2> QED
    BY <2>1, <2>2 DEF SeatsInvariant
<1> QED
  BY <1>1, SeatsInit, PTL DEF Spec

(* Whatever users and loads do to page and frame in whatever order, the    *)
(* two show one selection once nothing is under way, unless they crossed.  *)
THEOREM SeatsAgree == Spec => []SeatsAgreeUnlessCrossed
<1>1. SeatsInvariant => SeatsAgreeUnlessCrossed
  BY DEF SeatsInvariant, Agreement, SeatsAgreeUnlessCrossed
<1> QED
  BY <1>1, SeatsInvariantHolds, PTL

-----------------------------------------------------------------------------
(* Links *)

(* A hash always has the two parts of a view, broken or not.               *)
Links == [mode : Modes \cup {Unknown, Nothing},
          entity : Entities \cup {Unknown, Malformed, Inherited, Nothing}]

HashNamesView == (page.booted /\ ~ edited) => hash = View(page) \/ Astray

HashInvariant == hash \in Links /\ HashNamesView

LEMMA ViewsAreLinks == \A p \in Pages : View(p) \in Links
  BY DEF View, Pages, Links, Selections, Kept

(* What the property says of one step.                                     *)
LinkStep ==
  /\ page'.booted /\ ~ edited' => hash' = View(page') \/ Astray'
  /\ Astray' => Astray \/ Misleading(hash) \/ Misleading(hash')
  /\ (~ page.booted /\ page'.booted /\ hash.mode \in Modes /\ hash.entity \in Selections)
       => View(page') = hash

(* A page that shows an entity of the payload, or none, in a mode, writes  *)
(* a hash that decodes.                                                    *)
LEMMA WrittenDecodes ==
  ASSUME page' \in Pages, hash' = View(page')
  PROVE  /\ Decodes'
         /\ Astray' => page'.mode = Nothing \/ page'.selection = Inherited
<1>1. Malformed \notin Kept
  BY InstrumentAssumption DEF Kept, Selections
<1> QED
  BY <1>1 DEF Decodes, View, Pages, Astray

(* A page that applies its hash writes what it shows or is led astray, by  *)
(* nothing but the hash, or having shown no mode before.                   *)
LEMMA HashLeads ==
  ASSUME SeatsType, hash \in Links, NEW fallback \in Modes \cup {Nothing},
         ApplyHash(fallback), fallback = Nothing => page.mode = Nothing
  PROVE  /\ hash' \in Links
         /\ hash' = View(page') \/ Astray'
         /\ Astray' => fallback = Nothing \/ Misleading(hash)
         /\ (hash.mode \in Modes /\ hash.entity \in Selections) => View(page') = hash
<1> DEFINE wanted == WantedMode(fallback)
<1>1. /\ page \in Pages /\ page' \in Pages /\ page'.booted = TRUE
      /\ \/ HashIsUnread
         \/ HashIsKept(fallback)
         \/ HashIsSelected(fallback)
  BY HashIsApplied DEF SeatsType
<1>2. /\ Inherited \notin Selections /\ Malformed \notin Selections
      /\ Inherited # Malformed /\ Nothing \notin Modes
  BY InstrumentAssumption DEF Selections
<1>3. /\ wanted \in Modes \cup {Nothing}
      /\ wanted = Nothing => fallback = Nothing
      /\ hash.mode \in Modes => wanted = hash.mode
      /\ hash.entity \in Selections => WantedEntity = hash.entity
      /\ WantedEntity = Inherited => hash.entity = Inherited
  BY <1>2, WantedTypes DEF WantedMode, WantedEntity, Selections
<1>4. CASE HashIsUnread
  <2>1. hash.entity = Malformed /\ hash' = hash
    BY <1>4 DEF HashIsUnread, Decodes
  <2>2. Astray'
    BY <1>1, <2>1 DEF Astray, Decodes
  <2> QED
    BY <1>2, <2>1, <2>2 DEF Misleading
<1>5. CASE HashIsKept(fallback) /\ WantedEntity = Inherited
  <2>1. page'.selection = Inherited
    BY <1>1, <1>5 DEF HashIsKept, InMode, Pages
  <2>2. Astray'
    BY <1>1, <2>1 DEF Astray
  <2>3. hash' \in Links
    BY <1>1, <1>5, ViewsAreLinks, InModeTypes DEF HashIsKept
  <2> QED
    BY <1>2, <1>3, <1>5, <2>2, <2>3 DEF Misleading
<1>6. CASE /\ HashIsKept(fallback) \/ HashIsSelected(fallback)
           /\ WantedEntity # Inherited /\ wanted \in Modes
  <2>1. /\ page'.mode = wanted /\ page'.selection = WantedEntity
        /\ hash' = View(page')
    BY <1>1, <1>6 DEF HashIsKept, HashIsSelected, InMode, View, Pages
  <2>2. hash' \in Links
    BY <1>1, <2>1, ViewsAreLinks
  <2>3. ~ Astray'
    BY <1>1, <1>2, <1>6, <2>1, WrittenDecodes
  <2>4. (hash.mode \in Modes /\ hash.entity \in Selections) => View(page') = hash
    BY <1>3, <2>1 DEF View, Links
  <2> QED
    BY <2>1, <2>2, <2>3, <2>4
<1>7. CASE /\ HashIsKept(fallback) \/ HashIsSelected(fallback)
           /\ WantedEntity # Inherited /\ wanted = Nothing
  <2>1. page'.mode = Nothing /\ (hash' = hash \/ hash' = View(page'))
    BY <1>1, <1>2, <1>3, <1>7 DEF HashIsKept, HashIsSelected, InMode, Pages
  <2>2. Astray' /\ hash' \in Links
    BY <1>1, <2>1, ViewsAreLinks DEF Astray
  <2> QED
    BY <1>2, <1>3, <1>7, <2>2
<1> QED
  BY <1>1, <1>2, <1>3, <1>4, <1>5, <1>6, <1>7 DEF HashIsSelected

LEMMA HashNext ==
  ASSUME SeatsType, SeatsType', HashInvariant, [Next]_vars
  PROVE  HashInvariant' /\ LinkStep
<1> USE DEF HashInvariant
<1>1. page \in Pages /\ page' \in Pages /\ hash \in Links
  BY DEF SeatsType
<1>2. ASSUME hash' = View(page'), page'.booted => page.booted,
             page'.mode = Nothing => page.mode = Nothing,
             page'.selection = Inherited => page.selection = Inherited
      PROVE  HashInvariant' /\ LinkStep
  <2>1. hash' \in Links
    BY <1>1, <1>2, ViewsAreLinks
  <2>2. Astray' => Astray
    BY <1>1, <1>2, WrittenDecodes DEF Astray
  <2> QED
    BY <1>2, <2>1, <2>2 DEF HashNamesView, LinkStep
<1>3. ASSUME UNCHANGED <<hash, edited>>, page'.booted = page.booted, View(page') = View(page)
      PROVE  HashInvariant' /\ LinkStep
  <2>1. page'.mode = page.mode /\ page'.selection = page.selection
    BY <1>3 DEF View
  <2>2. Astray' <=> Astray
    BY <1>3, <2>1 DEF Astray, Decodes
  <2> QED
    BY <1>1, <1>3, <2>2 DEF HashNamesView, LinkStep
<1>4. ASSUME NEW mode \in Modes, ShowMode(mode) PROVE HashInvariant' /\ LinkStep
  <2>1. /\ hash' = View(page') /\ page.booted
        /\ page'.mode = mode /\ page'.selection = page.selection
    BY <1>1, <1>4 DEF ShowMode, Pages
  <2> QED
    BY <1>2, <2>1, InstrumentAssumption
<1>5. ASSUME NEW e \in Selections, SelectOnPage(e) PROVE HashInvariant' /\ LinkStep
  <2>1. /\ hash' = View(page') /\ page.booted
        /\ page'.mode = page.mode /\ page'.selection = e
    BY <1>1, <1>5 DEF SelectOnPage, PageSelects, Pages
  <2> QED
    BY <1>2, <2>1, InheritedIsForeign
<1>6. ASSUME NEW wanted \in Hashes, EditHash(wanted) PROVE HashInvariant' /\ LinkStep
  <2>1. hash' \in Hashes /\ edited' /\ page' = page
    BY <1>6 DEF EditHash
  <2>2. hash' \in Links
    BY <2>1 DEF Hashes, Links
  <2>3. Astray' => Astray \/ Misleading(hash')
    BY <2>1 DEF Astray, Decodes, Misleading
  <2> QED
    BY <2>1, <2>2, <2>3 DEF HashNamesView, LinkStep
<1>7. ASSUME NEW e \in Drawable, SelectInFrame(e) PROVE HashInvariant' /\ LinkStep
  BY <1>3, <1>7 DEF SelectInFrame
<1>8. CASE ReloadFrame
  BY <1>3, <1>8 DEF ReloadFrame
<1>9. CASE ReloadPage
  <2>1. hash' = hash /\ ~ page'.booted
    BY <1>9 DEF ReloadPage, Blank
  <2> QED
    BY <1>1, <2>1 DEF HashNamesView, LinkStep, Astray
<1>10. CASE BootPage
  <2>1. FirstMode \in Modes \cup {Nothing} /\ FirstMode # Nothing /\ ApplyHash(FirstMode)
    BY <1>10, InstrumentAssumption DEF BootPage
  <2> QED
    BY <1>1, <2>1, HashLeads DEF HashNamesView, LinkStep
<1>11. CASE BootFrame
  BY <1>3, <1>11 DEF BootFrame
<1>12. CASE HashChange
  <2>1. page.mode \in Modes \cup {Nothing} /\ page.booted /\ ApplyHash(page.mode)
    BY <1>1, <1>12 DEF HashChange, Pages
  <2>2. page.mode = Nothing => Astray
    BY <2>1 DEF Astray
  <2> QED
    BY <1>1, <2>1, <2>2, HashLeads DEF HashNamesView, LinkStep
<1>13. CASE DeliverToPage
  <2>1. edited' = edited /\ (PageIsDeaf \/ PageHearsReady \/ PageHearsSelection)
    BY <1>13, PageHears
  <2>2. CASE PageIsDeaf
    BY <1>3, <2>1, <2>2 DEF PageIsDeaf
  <2>3. CASE PageHearsReady
    BY <1>1, <1>3, <2>1, <2>3 DEF PageHearsReady, View, Pages
  <2>4. CASE PageHearsSelection
    <3>1. PICK e \in Drawable : page' = [page EXCEPT !.selection = e]
      BY <2>4 DEF PageHearsSelection
    <3>2. /\ hash' = View(page') /\ page.booted
          /\ page'.mode = page.mode /\ page'.selection = e
      BY <1>1, <2>4, <3>1 DEF PageHearsSelection, Pages
    <3> QED
      BY <1>2, <3>1, <3>2, InheritedIsForeign
  <2> QED
    BY <2>1, <2>2, <2>3, <2>4
<1>14. CASE DeliverToFrame
  BY <1>3, <1>14 DEF DeliverToFrame
<1>15. CASE UNCHANGED vars
  BY <1>3, <1>15 DEF vars
<1> QED
  BY <1>4, <1>5, <1>6, <1>7, <1>8, <1>9, <1>10, <1>11, <1>12, <1>13, <1>14, <1>15
     DEF Next, Act, Scripts, Drawable

(* A link restores the view it names; the hash names the view shown, in    *)
(* every interleaving of edits, messages and reloads, until a link that    *)
(* does not decode or names an inherited property leads the page astray;   *)
(* and nothing else ever does.                                             *)
THEOREM LinksHold == Spec => LinksNameAndRestoreViews
<1>1. Init => HashInvariant
  BY DEF Init, HashInvariant, Links, HashNamesView, Hashes, Blank
<1>2. SeatsType /\ SeatsType' /\ HashInvariant /\ [Next]_vars => HashInvariant' /\ LinkStep
  BY HashNext
<1>3. SeatsInvariant => SeatsType
  BY DEF SeatsInvariant
<1> QED
  BY <1>1, <1>2, <1>3, SeatsInvariantHolds, PTL DEF Spec, LinksNameAndRestoreViews, LinkStep
=============================================================================
