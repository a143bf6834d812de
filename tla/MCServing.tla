------------------------------ MODULE MCServing ------------------------------
(***************************************************************************)
(* Small instances of the parts that serve a request: the gate and the     *)
(* wiring of the application, the keyword index, the search and the        *)
(* answers made of it, the planner, the knowledge graph, the reasoning     *)
(* service, the agents and the copilot on top of them, the change          *)
(* detection, and what counts them all.  They share no variable, so one    *)
(* run checks them side by side: "focus" names the part that moves, the    *)
(* others stay in one of their initial states.                             *)
(***************************************************************************)
EXTENDS ChangeDetection, Gateway, Platform, KeywordIndex, HybridSearch, Answers,
        IntelligenceAgents, Observability, Planning, KnowledgeGraph, Reasoning, Copilot,
        Analytics, AuditAgent, Evaluation

CONSTANTS Moving, \* the parts that this run checks
          c1, c2, c3, h1, h2, penalty, other, \* clauses, headers and categories
          v1, v2, k1, k2, k3  \* evaluations and the chunks they look for

-----------------------------------------------------------------------------
(* ChangeDetection: three clauses, two of them alike *)

DiffSimilarity ==
  [p \in Clauses \X Clauses |->
     CASE p[1] = p[2] -> 100 [] p \in {<<c1, c2>>, <<c2, c1>>} -> 70
       [] p \in {<<c1, c3>>, <<c3, c1>>} -> 60 [] OTHER -> 30]
DiffHighWords == [c \in Clauses |-> CASE c = c1 -> {"penalty"} [] c = c2 -> {"fine"} [] OTHER -> {}]
DiffCategory == [t \in SUBSET Clauses |-> IF c1 \in t THEN penalty ELSE other]
Bodies == UNION {[1..n -> Clauses] : n \in 0..2}
TwoSections ==
  {<<[header |-> h1, clauses |-> a]>> : a \in Bodies}
  \cup {<<[header |-> h1, clauses |-> a], [header |-> h, clauses |-> <<c2>>]>> :
          a \in Bodies, h \in Headers}
DiffRequested ==
  [oldText: {<<>>}, newText: {<<>>}, oldSections: TwoSections, newSections: TwoSections]
  \cup [oldText: Bodies \cup {<<c1, c2, c3>>}, newText: Bodies \cup {<<c2, c3, c1>>, <<c3, c3, c1>>},
        oldSections: {NoSections, <<>>}, newSections: {NoSections}]

(* Gateway: a key with one request a window and one without any *)
GatewayQuota == [k \in ApiKeys |-> IF k = "off" THEN 0 ELSE 1]

(* Platform: two services are bound at start, the orchestration asks for the framework *)
PlatformBound == <<"admin", "review">>
PlatformNeeds == [s \in Services |-> IF s = "orchestration" THEN "framework" ELSE s]
PlatformEnvironments ==
  {e \in Configs : /\ e.production /\ e.seed /\ e.secret # "short"
                   /\ (e.secret = "none" => e.provider = "mock")
                   /\ e.key = (e.provider = "other")
                   /\ (e.provider = "mock" => e.secret = "none" \/ ~e.demo)
                   /\ (e.provider = "real" => e.demo) /\ (e.provider = "other" => ~e.demo)}

(* HybridSearch: questions for the routes, replies of at most three chunks *)
SearchQuestions ==
  [meaning |-> <<0, 0, 0, 0, 85, 30>>, circular |-> <<95, 75, 0, 0, 0, 30>>,
   vague |-> <<0, 0, 0, 0, 65, 30>>]
SearchBase ==
  [route |-> "endpoint", method |-> "rrf", query |-> SearchQuestions.vague, analyse |-> TRUE,
   rerank |-> FALSE, denseWeight |-> 1, keywordWeight |-> 1, threshold |-> 0, topN |-> 2, topK |-> 1]
SearchesAsked ==
  {[SearchBase EXCEPT !.method = m, !.denseWeight = d] : m \in Methods, d \in {0, 1, 2}}
  \cup {[SearchBase EXCEPT !.query = q, !.rerank = TRUE] :
          q \in {SearchQuestions.meaning, SearchQuestions.circular}}
  \cup {[SearchBase EXCEPT !.route = "pipeline", !.threshold = t, !.topK = k] :
          t \in {0, 1}, k \in {0, 2}}
SearchReplies(most) == UNION {[ids -> 1..2] : ids \in {{}, most, {1, 2, 3}}}
SearchDense == SearchReplies({1, 2})
SearchKeyword == SearchReplies({2, 3})
SearchEncoder == {[c \in 1..3 |-> c - 1], [c \in 1..3 |-> 2 - (c \div 2)]}

(* Answers: six chunks of three documents of two regulators *)
AnswersDocs == <<"d1", "d1", "d2", "d2", "d2", "d3">>
AnswersSources == <<"RBI", "RBI", "RBI", "RBI", "RBI", "SEBI">>
ChunksFound(scores) == [i \in DOMAIN scores |-> [chunk |-> i, score |-> scores[i]]]
AnswersRetrievals ==
  {ChunksFound(s) : s \in {<<>>, <<2>>, <<1>>, <<2, 2, 1>>, <<1, 0, 0>>, <<2, 2, 2, 2, 2>>,
                         <<1, 1, 1, 1, 1>>, <<2, 1, 1, 1, 0>>, <<1, -1>>}}
  \cup {<<[chunk |-> 6, score |-> 2], [chunk |-> 1, score |-> 1]>>}
AnswersSimilarities ==
  {[c \in Claims |-> [k \in 1..6 |-> IF c = "claim1" THEN 10 * k ELSE 4]],
   [c \in Claims |-> [k \in 1..6 |-> IF k = 2 THEN 60 ELSE 10]]}
AnswersNamed == {<<>>, <<1>>, <<1, 2>>, <<9>>}
AnswersWeights ==
  [f \in Factors |-> CASE f = "relevance" -> 25 [] f = "agreement" -> 15 [] OTHER -> 20]

(* IntelligenceAgents: one assessment with two gaps *)
IntelligenceAssessments == {[level |-> "high", score |-> 70, gaps |-> <<"high", "critical">>]}
IntelligencePriorities == {<<"critical">>}

(* Planning: what the classifier sees in a question *)
PlanningSignals ==
  {{}, {"definition"}, {"comparison", "timeline"}, {"regulatory_change", "factual"},
   {"cross_document"}, {"multi_step"}}

(* Reasoning: one text opposed to another, one without a year that can be read *)
ReasoningTexts == {"kyc", "kyc2", "not"}
ReasoningOverlap ==
  [p \in ReasoningTexts \X ReasoningTexts |->
     CASE p[1] = p[2] -> 100 [] {p[1], p[2]} = {"kyc", "not"} -> 50
       [] {p[1], p[2]} = {"kyc2", "not"} -> 0 [] OTHER -> 65]
ReasoningYears == [t \in ReasoningTexts |-> CASE t = "kyc" -> 2019 [] t = "kyc2" -> 2010 [] OTHER -> 5000]
ReasoningDocuments == <<"", "d1", "d2">>
ReasoningOpposed == {<<"kyc", "not">>}

(* Analytics, AuditAgent *)
AnalyticsStrategies == <<"dense">>
AuditKeywordHits == {<<>>, <<2>>, <<2, 4>>}
AuditRiskFiles == {[score |-> 10, gaps |-> 1], [score |-> 50, gaps |-> 0]}

(* Evaluation: one run of the real retrieval or a simulated one, one of a     *)
(* dataset that is missing or that asks for more than may be returned         *)
EvaluationRequest(d, simulated, strategies) ==
  [dataset |-> d, simulated |-> simulated, strategies |-> strategies]
EvaluationRequests ==
  (v1 :> {EvaluationRequest("golden", FALSE, <<"dense">>),
          EvaluationRequest("golden", TRUE, <<"dense", "hybrid">>)})
  @@ (v2 :> {EvaluationRequest("wide", TRUE, <<"hybrid", "dense">>),
             EvaluationRequest("unknown", TRUE, <<"dense">>)})
EvaluationGolden == [golden |-> <<{k1, k3}>>, wide |-> <<{k1, k2, k3, "k4", "k5"}>>]
EvaluationBias == [s \in EvalStrategies |-> IF s = "dense" THEN 50 ELSE 100]
EvaluationSample == <<{}>>
EvaluationDiscount == <<60, 38, 30>>
EvaluationWeights ==
  [m \in EvalMetrics \ {"precision_long"} |->
     CASE m \in {"recall_short", "mrr"} -> 20 [] m \in {"recall_long", "ndcg_short"} -> 15 [] OTHER -> 10]

(* Copilot: its requests are equals; the properties are invariants *)
CopilotSymmetry == Permutations(CopilotQueries)

-----------------------------------------------------------------------------
VARIABLE focus

Init ==
  /\ focus \in Moving
  /\ DetectionInit /\ GatewayInit /\ PlatformInit /\ KeywordInit /\ SearchInit /\ AnswersInit
  /\ IntelligenceInit /\ ObservabilityInit /\ PlanningInit /\ GraphInit /\ ReasoningInit
  /\ CopilotInit /\ AnalyticsInit /\ AuditAgentInit /\ EvaluationInit
  /\ focus # "platform" => config = CHOOSE e \in Environments : TRUE
  /\ focus # "search" => encoder = "loaded"
  /\ focus # "graph" => backend = "jsonl"
  /\ focus # "audit" => wired = FALSE

Moves(part) ==
  /\ focus = part /\ UNCHANGED focus
  /\ part # "detection" => UNCHANGED detectionVars
  /\ part # "gateway" => UNCHANGED gatewayVars
  /\ part # "platform" => UNCHANGED platformVars
  /\ part # "keyword" => UNCHANGED keywordVars
  /\ part # "search" => UNCHANGED searchVars
  /\ part # "answers" => UNCHANGED answersVars
  /\ part # "intelligence" => UNCHANGED intelligenceVars
  /\ part # "observability" => UNCHANGED observabilityVars
  /\ part # "planning" => UNCHANGED planningVars
  /\ part # "graph" => UNCHANGED graphVars
  /\ part # "reasoning" => UNCHANGED reasoningVars
  /\ part # "copilot" => UNCHANGED copilotVars
  /\ part # "analytics" => UNCHANGED analyticsVars
  /\ part # "audit" => UNCHANGED auditAgentVars
  /\ part # "evaluation" => UNCHANGED evaluationVars

Next ==
  \/ Moves("detection") /\ DetectionNext
  \/ Moves("gateway") /\ GatewayNext
  \/ Moves("platform") /\ PlatformNext
  \/ Moves("keyword") /\ KeywordNext
  \/ Moves("search") /\ SearchNext
  \/ Moves("answers") /\ AnswersNext
  \/ Moves("intelligence") /\ IntelligenceNext
  \/ Moves("observability") /\ ObservabilityNext
  \/ Moves("planning") /\ PlanningNext
  \/ Moves("graph") /\ GraphNext
  \/ Moves("reasoning") /\ ReasoningNext
  \/ Moves("copilot") /\ CopilotNext
  \/ Moves("analytics") /\ AnalyticsNext
  \/ Moves("audit") /\ AuditAgentNext
  \/ Moves("evaluation") /\ EvaluationNext

servingVars ==
  <<focus, detectionVars, gatewayVars, platformVars, keywordVars, searchVars, answersVars,
    intelligenceVars, observabilityVars, planningVars, graphVars, reasoningVars, copilotVars,
    analyticsVars, auditAgentVars, evaluationVars>>
ServingSpec == Init /\ [][Next]_servingVars

-----------------------------------------------------------------------------
\* The part that moves keeps its types: those that a request meets on its
\* way to an answer.
ServingTypesOK ==
  /\ focus = "detection" => DetectionTypeOK
  /\ focus = "gateway" => GatewayTypeOK
  /\ focus = "platform" => PlatformTypeOK
  /\ focus = "keyword" => KeywordTypeOK
  /\ focus = "search" => SearchTypeOK
  /\ focus = "answers" => AnswersTypeOK
  /\ focus = "audit" => AuditAgentTypeOK

\* The same of the agents and the copilot and of what they keep and count.
AssistantTypesOK ==
  /\ focus = "intelligence" => IntelligenceTypeOK
  /\ focus = "observability" => ObservabilityTypeOK
  /\ focus = "planning" => PlanningTypeOK
  /\ focus = "graph" => GraphTypeOK
  /\ focus = "reasoning" => ReasoningTypeOK
  /\ focus = "copilot" => CopilotTypeOK
  /\ focus = "analytics" => AnalyticsTypeOK
  /\ focus = "evaluation" => EvaluationTypeOK

\* Whatever is recorded in whatever order, the counters agree with each other:
\* those of the agents and their broker, the breakdowns and the stored averages
\* of the collectors, and the figures of one ranking (intelligence_agents,
\* observability, evaluation/metrics.py).
CountersTellOneStory ==
  /\ focus = "intelligence" => CountersAgree
  /\ focus = "observability" => MetricsAddUp
  /\ focus = "evaluation" => EvaluationsAgree
=============================================================================
