-------------------------------- MODULE Answers --------------------------------
(***************************************************************************)
(* Answering a question (services/intelligence/pipeline): retrieve, then   *)
(* generate (answer_generation), cite (citation), score (confidence),      *)
(* verify (hallucination), route, enrich and audit.  Every stage catches   *)
(* its own exceptions, so a later stage runs on whatever the earlier ones  *)
(* left.  A claim is a sentence of the answer; how well a chunk supports   *)
(* it is a percentage; the score of a chunk is in halves.                  *)
(***************************************************************************)
EXTENDS Integers, FiniteSets, SequencesExt

CONSTANTS AnswerQueries,     \* the queries of the process
          Claims,      \* the sentences an answer may consist of
          DocOf, SourceOf, \* of each chunk
          Retrievals,  \* what a search may return: sequences of [chunk, score]
          Similarities,\* how chunks match claims, in percent: [Claims -> [chunks -> 0..100]]
          Configured,  \* the providers the process may be configured with
          NamedChunks, \* the ids a model may name as its evidence, some of no chunk
          Weights,     \* of the five factors, adding up to 100
          High, Low, Abstention \* the thresholds of the routing, in percent

Chunks  == DOMAIN DocOf
PipelineStages  == {"retrieve", "generate", "cite", "score", "verify", "route", "enrich", "audit", "answered"}
RemoteProviders == {"openai", "gemini", "litellm"} \* besides the mock
Factors == {"relevance", "rerank", "agreement", "coverage", "citation"}

ASSUME AnswersAssumption ==
  /\ DOMAIN SourceOf = Chunks /\ IsFiniteSet(Chunks) /\ Weights \in [Factors -> Nat]
  /\ Weights["relevance"] + Weights["rerank"] + Weights["agreement"]
     + Weights["coverage"] + Weights["citation"] = 100
  /\ Configured \subseteq {"mock"} \cup RemoteProviders
  /\ {High, Low, Abstention} \subseteq 0..100 /\ Abstention <= Low /\ Low <= High
  /\ Similarities \subseteq [Claims -> [Chunks -> 0..100]]
  /\ Retrievals \subseteq Seq([chunk : Chunks, score : Int])
  /\ NamedChunks \subseteq Seq(UNION {ToSet(named) : named \in NamedChunks})

\* The defaults of the settings and of the weights, or others with which an
\* answer whose reranked chunks are half relevant reaches High by no factor.
ASSUME RoutingAssumption ==
  /\ 0 < Abstention
  /\ 2 * (Weights["relevance"] + Weights["rerank"]) + 4 * Weights["agreement"]
     + 3 * Weights["coverage"] + 4 * Weights["citation"] < 4 * High

VARIABLES answers, \* the context of each query, or how a direct call ended
          tasks,   \* queries the governance service holds a review decision for
          audited  \* queries the audit log holds a record of, with its severity
answersVars == <<answers, tasks, audited>>

NoQuery == [stage |-> "none"]
AnswersInit ==
  /\ answers = [q \in AnswerQueries |-> NoQuery]
  /\ tasks = {} /\ audited = {}

IdsOf(evidence) == {evidence[i].chunk : i \in DOMAIN evidence}

\* A chunk the schema refuses: the score is negative (a raw logit of the
\* cross-encoder).
Readable(evidence) == \A i \in DOMAIN evidence : evidence[i].score >= 0

-----------------------------------------------------------------------------
(* Generation *)

\* What _build_answer_section keeps of the ids the model names: the ones of
\* retrieved chunks; a model that names none gets the first five.
Supporting(named, evidence) ==
  LET kept[i \in 0..Len(named)] ==
        IF i = 0 THEN <<>>
        ELSE IF named[i] \in IdsOf(evidence) THEN Append(kept[i - 1], named[i]) ELSE kept[i - 1]
  IN IF named = <<>> THEN [i \in 1..(IF Len(evidence) < 5 THEN Len(evidence) ELSE 5) |-> evidence[i].chunk]
     ELSE kept[Len(named)]

\* The mock enumerates what is in its prompt and cannot fail; a remote model
\* answers anything.
MockNames(evidence) == [i \in DOMAIN evidence |-> evidence[i].chunk]
NamedBy(provider, evidence) ==
  IF provider \in RemoteProviders THEN NamedChunks ELSE {MockNames(evidence)}
\* The generator takes neither an empty list nor an unreadable chunk.
Accepted(evidence) == evidence # <<>> /\ Readable(evidence)

\* _fallback_answer quotes the evidence; without any it says so.
Fallback(evidence) ==
  [kind |-> "fallback", claims |-> {}, support |-> [i \in DOMAIN evidence |-> evidence[i].chunk],
   fields |-> IF evidence = <<>> THEN 1 ELSE 2]

Generated(claims, named, evidence) ==
  [kind |-> "generated", claims |-> claims, support |-> Supporting(named, evidence), fields |-> 2]

Abstained == [kind |-> "abstained", claims |-> {}, support |-> <<>>, fields |-> 2]
Unanswered == [kind |-> "none", claims |-> {}, support |-> <<>>, fields |-> 0]

-----------------------------------------------------------------------------
(* Citation *)

MinSimilarity == 5 \* percent

\* best of map_claim: the first chunk of the highest similarity.
Matches(claim, evidence, sim) == {i \in DOMAIN evidence : sim[claim][evidence[i].chunk] >= MinSimilarity}
BestMatch(claim, evidence, sim) == CHOOSE i \in Matches(claim, evidence, sim) :
  \A j \in Matches(claim, evidence, sim) :
    \/ sim[claim][evidence[j].chunk] < sim[claim][evidence[i].chunk]
    \/ sim[claim][evidence[j].chunk] = sim[claim][evidence[i].chunk] /\ i <= j

\* build_references: one chunk stands for each document, the first of the
\* highest score.
Exemplar(doc, evidence) ==
  LET ofDoc == {i \in DOMAIN evidence : DocOf[evidence[i].chunk] = doc}
  IN CHOOSE i \in ofDoc : \A j \in ofDoc :
       evidence[j].score < evidence[i].score \/ (evidence[j].score = evidence[i].score /\ i <= j)
References(evidence) ==
  {evidence[Exemplar(DocOf[c], evidence)].chunk : c \in IdsOf(evidence)}

\* annotate_text: a claim whose best chunk is no reference stays without marker.
Citations(answer, evidence, sim) ==
  {[claim |-> cl, chunk |-> evidence[BestMatch(cl, evidence, sim)].chunk] :
     cl \in {x \in answer.claims : /\ Matches(x, evidence, sim) # {}
                                   /\ evidence[BestMatch(x, evidence, sim)].chunk \in References(evidence)}}

-----------------------------------------------------------------------------
(* Confidence, in percent *)

SumScores(evidence) ==
  LET sum[i \in 0..Len(evidence)] == IF i = 0 THEN 0 ELSE sum[i - 1] + evidence[i].score
  IN sum[Len(evidence)]

\* _safe_mean: the sum of n scores in halves, each mean clamped to 0 .. 1.
Clamped(sum, n) == IF sum < 0 THEN 0 ELSE IF sum > 2 * n THEN 2 * n ELSE sum

Share(evidence, source) == Cardinality({i \in DOMAIN evidence : SourceOf[evidence[i].chunk] = source})
Primary(evidence) ==
  LET shares == {Share(evidence, SourceOf[c]) : c \in IdsOf(evidence)}
  IN CHOOSE n \in shares : \A m \in shares : m <= n

Least(a, b) == IF a < b THEN a ELSE b

\* Each factor for n >= 1 chunks, in units of 1/(20 n).
Relevance(evidence) == 10 * Clamped(SumScores(evidence), Len(evidence))
Agreement(evidence) == LET over == 2 * Primary(evidence) - Len(evidence)
                       IN 20 * (IF over > 0 THEN over ELSE 0)
CoverageFlat(evidence) == Least(Len(evidence), 5) * 4 * Len(evidence) \* mutant
Coverage(evidence) == Least(Len(evidence), 5) *
                        (2 * Len(evidence) + Clamped(SumScores(evidence), Len(evidence)))
CitationShare(answer, evidence) ==
  (20 * Len(evidence) * Least(Len(answer.support), answer.fields)) \div answer.fields

\* aggregate: the weighted mean of the factors there are, if they weigh anything;
\* without chunks none but relevance, agreement and coverage, which are zero.
Confidence(answer, evidence, reranked) ==
  LET total == IF reranked THEN 100 ELSE 100 - Weights["rerank"]
  IN IF evidence = <<>> \/ answer.fields = 0 \/ total = 0 THEN 0
     ELSE
       LET sum == Weights["relevance"] * Relevance(evidence)
                + (IF reranked THEN Weights["rerank"] * Relevance(evidence) ELSE 0)
                + Weights["agreement"] * Agreement(evidence)
                + Weights["coverage"] * Coverage(evidence)
                + Weights["citation"] * CitationShare(answer, evidence)
       IN (100 * sum) \div (total * 20 * Len(evidence))

-----------------------------------------------------------------------------
(* Verification *)

LexicalThreshold == 15 \* percent

LexicallySupported(claims, evidence, sim) ==
  {cl \in claims : \E c \in IdsOf(evidence) : sim[cl][c] >= LexicalThreshold}

\* What verify reports: the claims found unsupported.  The lexical check stands
\* in for a model that fails; a claim the model gives no verdict on, and every
\* claim when its answer cannot be parsed, counts as unsupported.
Unsupported(provider, claims, evidence, sim) ==
  IF provider = "mock" THEN {claims \ LexicallySupported(claims, evidence, sim)}
  ELSE (SUBSET claims) \cup {claims \ LexicallySupported(claims, evidence, sim)}

-----------------------------------------------------------------------------
(* The stages of a query *)

AnswerBegins(q, provider, sim) ==
  /\ answers[q] = NoQuery
  /\ answers' = [answers EXCEPT ![q] =
       [stage |-> "retrieve", provider |-> provider, sim |-> sim, evidence |-> <<>>, reranked |-> FALSE,
        answer |-> Unanswered, citations |-> {}, confidence |-> 0, unsupported |-> {},
        checked |-> FALSE, abstained |-> FALSE, review |-> FALSE, task |-> FALSE,
        recorded |-> FALSE, errors |-> {}]]
  /\ UNCHANGED <<tasks, audited>>

At(q, stage) == answers[q].stage = stage

\* The context of q after a stage that succeeded, or that failed and left all
\* but its error as it was.
Goes(q, ctx, stage) == answers' = [answers EXCEPT ![q] = [ctx EXCEPT !.stage = stage]]
Fails(q, stage, next) ==
  /\ At(q, stage)
  /\ Goes(q, [answers[q] EXCEPT !.errors = @ \cup {stage}], next)
  /\ UNCHANGED <<tasks, audited>>

\* _stage_retrieve, and run()'s choice: no evidence and no confidence yet means
\* abstaining at once, and only the audit is left.
Retrieve(q, found, reranked) ==
  /\ At(q, "retrieve")
  /\ Goes(q, IF found = <<>> /\ 0 < Abstention
             THEN [answers[q] EXCEPT !.abstained = TRUE, !.answer = Abstained]
             ELSE [answers[q] EXCEPT !.evidence = found, !.reranked = reranked],
          IF found = <<>> /\ 0 < Abstention THEN "audit" ELSE "generate")
  /\ UNCHANGED <<tasks, audited>>
RetrievalFails(q) ==
  /\ At(q, "retrieve")
  /\ Goes(q, IF 0 < Abstention
             THEN [answers[q] EXCEPT !.errors = @ \cup {"retrieve"}, !.abstained = TRUE, !.answer = Abstained]
             ELSE [answers[q] EXCEPT !.errors = @ \cup {"retrieve"}],
          IF 0 < Abstention THEN "audit" ELSE "generate")
  /\ UNCHANGED <<tasks, audited>>

\* _stage_generate; without an accepted answer the evidence itself is quoted.
Generate(q, claims, named) ==
  /\ At(q, "generate")
  /\ Accepted(answers[q].evidence)
  /\ named \in NamedBy(answers[q].provider, answers[q].evidence)
  /\ Goes(q, [answers[q] EXCEPT !.answer = Generated(claims, named, answers[q].evidence)], "cite")
  /\ UNCHANGED <<tasks, audited>>
GenerationFails(q) ==
  /\ At(q, "generate")
  /\ Accepted(answers[q].evidence) => answers[q].provider \in RemoteProviders
  /\ Goes(q, [answers[q] EXCEPT !.errors = @ \cup {"generate"},
                                !.answer = Fallback(answers[q].evidence)], "cite")
  /\ UNCHANGED <<tasks, audited>>

Cite(q) ==
  LET a == answers[q]
  IN /\ At(q, "cite") /\ (Readable(a.evidence) \/ a.evidence = <<>>)
     /\ Goes(q, [a EXCEPT !.citations = IF a.evidence = <<>> THEN {}
                                        ELSE Citations(a.answer, a.evidence, a.sim)], "score")
     /\ UNCHANGED <<tasks, audited>>
CitingFails(q) == Fails(q, "cite", "score")

Score(q) ==
  LET a == answers[q]
  IN /\ At(q, "score")
     /\ Goes(q, [a EXCEPT !.confidence = Confidence(a.answer, a.evidence, a.reranked)], "verify")
     /\ UNCHANGED <<tasks, audited>>
ScoringFails(q) == Fails(q, "score", "verify")

Verify(q, unsupported) ==
  LET a == answers[q]
  IN /\ At(q, "verify") /\ (Readable(a.evidence) \/ a.evidence = <<>>)
     /\ unsupported \in Unsupported(a.provider, a.answer.claims, a.evidence, a.sim)
     /\ Goes(q, IF a.evidence = <<>> THEN a
                ELSE [a EXCEPT !.unsupported = unsupported, !.checked = TRUE], "route")
     /\ UNCHANGED <<tasks, audited>>
VerifyingFails(q) == Fails(q, "verify", "route")

\* _stage_route; registered says whether the governance service took the task
\* (a failure there is logged and leaves the answer flagged without one).
ByConfidence(a, registered) ==
  IF a.confidence >= High THEN a
  ELSE IF a.confidence >= Low THEN [a EXCEPT !.review = TRUE]
  ELSE IF a.confidence < Abstention /\ a.evidence = <<>>
       THEN [a EXCEPT !.abstained = TRUE, !.answer = Abstained]
  ELSE [a EXCEPT !.review = TRUE, !.task = registered]
Route(q, registered) ==
  LET a == ByConfidence(answers[q], registered)
  IN /\ At(q, "route")
     /\ Goes(q, a, "enrich")
     /\ tasks' = IF a.task THEN tasks \cup {q} ELSE tasks
     /\ UNCHANGED audited

\* _stage_workflow attaches the result of an agent, or an error.
Enrich(q) ==
  /\ At(q, "enrich") /\ Goes(q, answers[q], "audit")
  /\ UNCHANGED <<tasks, audited>>
EnrichingFails(q) == Fails(q, "enrich", "audit")

Audit(q) ==
  /\ At(q, "audit")
  /\ Goes(q, [answers[q] EXCEPT !.recorded = TRUE], "answered")
  /\ audited' = audited \cup {[query |-> q, warning |-> answers[q].review]}
  /\ UNCHANGED tasks
AuditingFails(q) == Fails(q, "audit", "answered")

-----------------------------------------------------------------------------
(* The endpoints of the single stages: what they are given comes from the   *)
(* caller, nothing is kept, and there is no fallback.                       *)

DirectGenerate(found, fails) ==
  IF found = <<>> THEN "unprocessable" ELSE IF fails THEN "error" ELSE "ok"
\* A stream that breaks ends with an error event after status 200.
DirectStream(found, fails) == IF found = <<>> THEN "unprocessable" ELSE "ok"
DirectCite(found) == IF found = <<>> THEN "unprocessable" ELSE "ok"
DirectScore(found) == "ok"
\* The caller may forbid the lexical check to stand in.
DirectVerify(found, fails, failOpen) ==
  IF found = <<>> THEN "unprocessable" ELSE IF fails /\ ~failOpen THEN "error" ELSE "ok"

DirectCall(q, found, fails, failOpen) ==
  /\ answers[q] = NoQuery
  /\ Readable(found)
  /\ \E end \in {DirectGenerate(found, fails), DirectStream(found, fails), DirectCite(found),
                 DirectScore(found), DirectVerify(found, fails, failOpen)} :
       answers' = [answers EXCEPT ![q] = [stage |-> "direct", end |-> end]]
  /\ UNCHANGED <<tasks, audited>>

-----------------------------------------------------------------------------
AnswersNext ==
  \/ \E q \in AnswerQueries :
       \/ \E p \in Configured, s \in Similarities : AnswerBegins(q, p, s)
       \/ \E r \in Retrievals, b \in BOOLEAN : Retrieve(q, r, b)
       \/ \E c \in (SUBSET Claims) \ {{}}, n \in NamedChunks \cup {MockNames(r) : r \in Retrievals} :
            Generate(q, c, n)
       \/ \E u \in SUBSET Claims : Verify(q, u)
       \/ \E ok \in BOOLEAN : Route(q, ok)
       \/ RetrievalFails(q) \/ GenerationFails(q) \/ Cite(q) \/ CitingFails(q) \/ Score(q)
       \/ ScoringFails(q) \/ VerifyingFails(q) \/ Enrich(q) \/ EnrichingFails(q)
       \/ Audit(q) \/ AuditingFails(q)
       \/ \E r \in Retrievals, f, o \in BOOLEAN : DirectCall(q, r, f, o)

AnswersSpec == AnswersInit /\ [][AnswersNext]_answersVars

-----------------------------------------------------------------------------
(* Properties *)

\* Every context, task and audit record is well formed.
AnswersTypeOK ==
  /\ \A q \in AnswerQueries : answers[q] # NoQuery /\ answers[q].stage # "direct" =>
       /\ answers[q].stage \in PipelineStages /\ answers[q].provider \in Configured
       /\ answers[q].confidence \in 0..100 /\ answers[q].errors \subseteq PipelineStages
       /\ IdsOf(answers[q].evidence) \subseteq Chunks
       /\ {answers[q].answer.support[i] : i \in DOMAIN answers[q].answer.support}
          \subseteq IdsOf(answers[q].evidence)
       /\ {answers[q].abstained, answers[q].review, answers[q].task} \subseteq BOOLEAN
  /\ tasks \subseteq AnswerQueries /\ audited \subseteq [query : AnswerQueries, warning : BOOLEAN]

Answered(q) == answers[q] # NoQuery /\ answers[q].stage = "answered"

\* Whatever stages fail, an answer leaves with no flag only on strong evidence:
\* it was scored and its reranked chunks are relevant by more than one half on
\* average, which only the weights and the thresholds together ensure.  An
\* abstention is exactly an answer without evidence, a review decision belongs
\* to a flagged answer, and the audit record agrees with the flag (_stage_route
\* on the factors of the confidence service).
UnflaggedIsWellGrounded ==
  \A q \in AnswerQueries : Answered(q) =>
    LET a == answers[q]
    IN /\ (~a.review /\ ~a.abstained /\ a.reranked) =>
            /\ "score" \notin a.errors
            /\ SumScores(a.evidence) > Len(a.evidence)
       /\ (~a.review /\ ~a.abstained) => a.evidence # <<>>
       /\ a.abstained <=> a.evidence = <<>>
       /\ q \in tasks => a.review /\ a.confidence < Low
       /\ a.recorded => [query |-> q, warning |-> a.review] \in audited

=============================================================================
