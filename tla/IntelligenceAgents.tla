--------------------------- MODULE IntelligenceAgents ---------------------------
(***************************************************************************)
(* The research service (services/research) and the three agents built on  *)
(* it and on the compliance services (services/intelligence_agents).  No   *)
(* handler suspends between its first and its last effect, so a request    *)
(* is one step.  Scores and confidences are in hundredths.  A query too    *)
(* long for the research planner (over 1000 characters, while the agents   *)
(* take 2000) is "long"; one the agents refuse themselves changes nothing. *)
(***************************************************************************)
EXTENDS Integers, FiniteSets, SequencesExt

CONSTANTS Passages,     \* what the hybrid search may find
          Modes,        \* the research modes asked for
          Assessments,  \* risk assessments on file: [level, score, gaps]; gaps: a sequence of levels
          Priorities,   \* what the recommendation service may answer: sequences of levels
          Kinds,        \* the kinds of report asked for
          ScenarioKinds, \* asked of the risk agent
          HandoffCap,   \* entries the collaboration broker keeps (500)
          MaxReports,   \* bound: reports kept in the file
          MaxRuns       \* bound: executions counted between two resets

Agents  == {"research", "compliance", "risk"}
Levels  == {"low", "medium", "high", "critical"}
QueryLengths == {"short", "long"}
Handoffs == {"research->compliance", "compliance->risk"}
NoAssessment == [level |-> "none", score |-> 0, gaps |-> <<>>]
Adjustment == [best_case |-> -15, baseline |-> 0, worst_case |-> 20, stress |-> 30, tail_risk |-> 40]

ASSUME IntelligenceAssumption ==
  /\ IsFiniteSet(Passages) /\ IsFiniteSet(Modes) /\ ScenarioKinds \subseteq DOMAIN Adjustment
  /\ \A a \in Assessments : a.level \in Levels /\ a.score \in 0..100 /\ a.gaps \in Seq(Levels)
  /\ Priorities \subseteq Seq(Levels)
  /\ HandoffCap \in Nat \ {0} /\ {MaxRuns, MaxReports} \subseteq Nat

VARIABLES knowledge,  \* passages the API's research service remembers; the agents' own has none
          reports,    \* reports the API's research service lists
          archive,    \* reports the file of all research services holds
          counted,    \* the process-wide metrics of the agents
          broker,     \* the hand-offs the collaboration broker holds
          delivered   \* the answers of the last request, by agent: a set, empty without one
intelligenceVars == <<knowledge, reports, archive, counted, broker, delivered>>

Zero == [total |-> 0, ok |-> 0, failed |-> 0, collaborations |-> 0,
         runs |-> [a \in Agents |-> 0], good |-> [a \in Agents |-> 0], bad |-> [a \in Agents |-> 0],
         modes |-> [m \in Modes |-> 0], pairs |-> [h \in Handoffs |-> 0], evidence |-> 0]
Undelivered == [a \in Agents |-> {}]

IntelligenceInit ==
  /\ knowledge = {} /\ reports = {} /\ archive = {} /\ counted = Zero /\ broker = <<>>
  /\ delivered = Undelivered

-----------------------------------------------------------------------------
(* Research *)

\* The steps of each kind of plan; the planner keeps the first max_steps.
Template(kind) ==
  CASE kind \in {"timeline", "comparative", "cross_document"} ->
         <<"plan", "retrieve", "compare", "reason", "summarize">>
    [] kind = "multi_hop" -> <<"plan", "retrieve", "reason", "retrieve", "reason", "summarize">>
    [] OTHER -> <<"plan", "retrieve", "reason", "summarize">>
Planned(kind, max) == IF Len(Template(kind)) > max THEN SubSeq(Template(kind), 1, max) ELSE Template(kind)

\* Every retrieve step searches for the same words, so a plan with two of
\* them cites each passage twice.
Hops(steps) == Cardinality({i \in DOMAIN steps : steps[i] = "retrieve"})
Report(kind, max, items) ==
  LET steps == Planned(kind, max)
  IN [kind |-> kind, steps |-> Len(steps), cited |-> IF Hops(steps) = 0 THEN {} ELSE items,
      citations |-> Hops(steps) * Cardinality(items)]

\* run (api/v1/research) feeds what the hybrid search found into the
\* knowledge of the service - nothing when the search failed - and the
\* report draws on all of it, earlier questions' included.
AddReport(report) == reports' = reports \cup {report} /\ archive' = archive \cup {report}
RunReport(kind, max, found) ==
  /\ Cardinality(archive) < MaxReports
  /\ knowledge' = knowledge \cup found
  /\ AddReport(Report(kind, max, knowledge'))
  /\ UNCHANGED <<counted, broker, delivered>>

\* The kind of plan the agent asks the planner for.
KindOf(mode) ==
  CASE mode \in {"multi_hop", "cross_document", "comparative"} -> mode
    [] mode \in {"timeline", "historical"} -> "timeline"
    [] OTHER -> "general"
ExploresGraph(mode) == mode \in {"knowledge_graph", "cross_document", "general"}
Chronological(mode) == mode \in {"timeline", "historical"}

\* The agent's own research service holds no passages: a run of it gives a
\* single finding of confidence 60, and none when it fails; another finding
\* for a graph that knows an entity of the question, one more for the years
\* of a chronology.
Findings(mode, ran, entities, years) ==
  (IF ran THEN <<60>> ELSE <<>>)
         \o (IF ExploresGraph(mode) /\ entities > 0 THEN <<70>> ELSE <<>>)
         \o (IF Chronological(mode) /\ years THEN <<65>> ELSE <<>>)
MeanScore(scores) ==
  IF scores = <<>> THEN 30 ELSE FoldLeft(LAMBDA x, y : x + y, 0, scores) \div Len(scores)

Researched(mode, max, ran, entities, years) ==
  [mode |-> mode, findings |-> Findings(mode, ran, entities, years),
   citations |-> IF ExploresGraph(mode) /\ entities > 0 THEN entities ELSE 0,
   steps |-> Len(Planned(KindOf(mode), max)) + (IF ExploresGraph(mode) \/ Chronological(mode) THEN 1 ELSE 0),
   confidence |-> MeanScore(Findings(mode, ran, entities, years))]

-----------------------------------------------------------------------------
(* Compliance *)

Rank(level) == CASE level = "low" -> 1 [] level = "medium" -> 2 [] level = "high" -> 3 [] OTHER -> 4
Days(level) == CASE level = "critical" -> 7 [] level = "high" -> 14 [] level = "medium" -> 30 [] OTHER -> 60

\* The gaps of the assessment, as many as asked for; without one there are
\* none, and the seven duties of the baseline are listed instead.
GapsOf(assessment, max) ==
  IF Len(assessment.gaps) > max THEN SubSeq(assessment.gaps, 1, max) ELSE assessment.gaps
Duties(assessment, focus) == (IF assessment = NoAssessment THEN 7 ELSE 0) + focus
RiskOf(assessment) ==
  IF assessment = NoAssessment THEN [level |-> "low", score |-> 20]
  ELSE [level |-> assessment.level, score |-> assessment.score]

\* Recommendations only for a request that names an assessment, a diff or
\* an impact; then one action for every gap.  gap 0 is no gap.
ActionFor(level, gap) == [priority |-> level, days |-> Days(level), gap |-> gap]
ActionsFor(gaps, recommended) ==
  [i \in DOMAIN recommended |-> ActionFor(recommended[i], 0)]
  \o [i \in DOMAIN gaps |-> ActionFor(gaps[i], i)]

\* The policy evaluation asks the governance service for a check it does
\* not have; the error is kept among the evaluations and changes nothing.
ComplianceConfidence(gaps) == 60 - 5 * (IF Len(gaps) < 5 THEN Len(gaps) ELSE 5)
CompliedBeforeCut(assessment, max, focus, recommended) ==
  LET gaps == GapsOf(assessment, max)
  IN [gaps |-> gaps, duties |-> Duties(assessment, focus), risk |-> RiskOf(assessment),
      actions |-> ActionsFor(assessment.gaps, recommended), confidence |-> ComplianceConfidence(gaps)]
Complied(assessment, max, focus, recommended) ==
  LET gaps == GapsOf(assessment, max)
  IN [gaps |-> gaps, duties |-> Duties(assessment, focus), risk |-> RiskOf(assessment),
      actions |-> ActionsFor(gaps, recommended), confidence |-> ComplianceConfidence(gaps)]

-----------------------------------------------------------------------------
(* Risk *)

Clamp(score) == IF score < 0 THEN 0 ELSE IF score > 100 THEN 100 ELSE score
LevelFromScore(score) ==
  IF score >= 85 THEN "critical" ELSE IF score >= 65 THEN "high" ELSE IF score >= 40 THEN "medium" ELSE "low"
Scenario(kind, baseline) ==
  [score |-> Clamp(baseline + Adjustment[kind]), level |-> LevelFromScore(Clamp(baseline + Adjustment[kind]))]
Projection(predicted, confidence) ==
  [predicted |-> predicted, lower |-> Clamp(predicted - 10), upper |-> Clamp(predicted + 10),
   confidence |-> confidence]

\* What the forecasting service answers (one point, or none), or the
\* agent's own baseline when it answers none and when it fails.
Forecasts(baseline) == {Projection(baseline, 50), Projection(baseline, 40)}
  \cup {Projection(Clamp(baseline + d), 80) : d \in {-10, 10}}

\* The baseline is the assessment's, medium and 50 without one.
Baseline(assessment) ==
  IF assessment = NoAssessment THEN [level |-> "medium", score |-> 50]
  ELSE [level |-> assessment.level, score |-> assessment.score]
RiskConfidence(trend, drift) == 65 + (IF trend THEN 10 ELSE 0) - (IF drift THEN 5 ELSE 0)
Projected(assessment, projection, kinds, trend, drift) ==
  [risk |-> Baseline(assessment), forecast |-> projection,
   scenarios |-> [k \in kinds |-> Scenario(k, Baseline(assessment).score)],
   confidence |-> RiskConfidence(trend, drift)]

-----------------------------------------------------------------------------
(* The metrics and the hand-offs *)

RaiseLevel(f, key) == [f EXCEPT ![key] = @ + 1]
RecordAgent(m, agent, succeeded) ==
  [m EXCEPT !.total = @ + 1, !.runs = RaiseLevel(@, agent),
            !.ok = IF succeeded THEN @ + 1 ELSE @, !.failed = IF succeeded THEN @ ELSE @ + 1,
            !.good = IF succeeded THEN RaiseLevel(@, agent) ELSE @, !.bad = IF succeeded THEN @ ELSE RaiseLevel(@, agent)]

\* Mutant of RecordResearch: a failed run is counted under no mode.
RecordResearchAnswered(m, mode, succeeded) ==
  IF succeeded THEN [RecordAgent(m, "research", succeeded) EXCEPT !.modes = RaiseLevel(@, mode)]
  ELSE RecordAgent(m, "research", succeeded)

\* A research run is counted under its mode whether it succeeded or not.
RecordResearch(m, mode, succeeded) ==
  [RecordAgent(m, "research", succeeded) EXCEPT !.modes = RaiseLevel(@, mode)]

RecordCollaboration(m, pair) ==
  [m EXCEPT !.collaborations = @ + 1, !.pairs = RaiseLevel(@, pair), !.evidence = @ + 2]
\* Mutant of RecordedRun: the broker keeps everything.
RecordedAll(items, pair) == Append(items, pair)

\* record: append, then keep the newest.
RecordedRun(items, pair) ==
  LET longer == Append(items, pair)
  IN IF Len(longer) > HandoffCap THEN Tail(longer) ELSE longer

\* What the health endpoint of an agent and the metrics endpoint answer, and
\* the places of the hand-offs listed between two agents.
Health(agent) ==
  [runs |-> counted.runs[agent], good |-> counted.good[agent], bad |-> counted.bad[agent],
   healthy |-> counted.bad[agent] < 5]
Totals == [runs |-> counted.total, good |-> counted.ok, bad |-> counted.failed]
Listed(pair) == {k \in DOMAIN broker : broker[k] = pair}

-----------------------------------------------------------------------------
(* The requests *)

Room == counted.total + 3 <= MaxRuns

\* The report of the agent's service goes to the shared file.  Its request
\* names no kind; one whose research context is not a mapping fails and
\* leaves no report.
Archived(query, max, ran) == IF query = "short" /\ ran THEN {Report("general", max, {})} ELSE {}

\* run_research: the planner refuses a long query inside the agent, which
\* answers 500; the run is counted.
RunResearch(query, mode, max, ran, entities, years) ==
  /\ Room
  /\ counted' = RecordResearch(counted, mode, query = "short")
  /\ delivered' = [Undelivered EXCEPT !["research"] =
                   IF query = "short" THEN {Researched(mode, max, ran, entities, years)} ELSE {}]
  /\ archive' = archive \cup Archived(query, max, ran)
  /\ UNCHANGED <<knowledge, reports, broker>>

RunCompliance(assessment, max, focus, recommended) ==
  /\ Room
  /\ counted' = RecordAgent(counted, "compliance", TRUE)
  /\ delivered' = [Undelivered EXCEPT !["compliance"] = {Complied(assessment, max, focus, recommended)}]
  /\ UNCHANGED <<knowledge, reports, archive, broker>>

RunRisk(assessment, projection, kinds, trend, drift) ==
  /\ Room
  /\ counted' = RecordAgent(counted, "risk", TRUE)
  /\ delivered' = [Undelivered EXCEPT !["risk"] = {Projected(assessment, projection, kinds, trend, drift)}]
  /\ UNCHANGED <<knowledge, reports, archive, broker>>

\* run_research_then_compliance: whatever came of the research, both
\* hand-offs are recorded and the compliance agent runs, on the findings as
\* focus areas, at most five, or on "compliance".
Chained(m, mode, query) ==
  RecordCollaboration(
    RecordAgent(RecordCollaboration(RecordResearch(m, mode, query = "short"), "research->compliance"),
                "compliance", TRUE),
    "compliance->risk")
Focused(findings) == IF findings = <<>> THEN 1 ELSE IF Len(findings) > 5 THEN 5 ELSE Len(findings)

\* run_full_pipeline: only then does a failed research show: its empty
\* output is no result and the request ends with an error, before the risk
\* agent, which works without an assessment and on its default scenarios.
Coordinate(query, mode, entities, years) ==
  /\ Room
  /\ broker' = RecordedRun(RecordedRun(broker, "research->compliance"), "compliance->risk")
  /\ archive' = archive \cup Archived(query, 8, TRUE)
  /\ IF query = "short"
     THEN LET research == Researched(mode, 8, TRUE, entities, years)
          IN /\ counted' = RecordAgent(Chained(counted, mode, query), "risk", TRUE)
             /\ delivered' = [research |-> {research},
                  compliance |-> {Complied(NoAssessment, 20, Focused(research.findings), <<>>)},
                  risk |-> {Projected(NoAssessment, Projection(50, 50), ScenarioKinds, FALSE, FALSE)}]
     ELSE counted' = Chained(counted, mode, query) /\ delivered' = Undelivered
  /\ UNCHANGED <<knowledge, reports>>

\* reset of the service: the metrics and the broker.
ResetAgents ==
  /\ counted' = Zero /\ broker' = <<>>
  /\ UNCHANGED <<knowledge, reports, archive, delivered>>

\* The next process reads the reports of every service from the file.
RestartAgents ==
  /\ knowledge' = {} /\ reports' = archive /\ counted' = Zero /\ broker' = <<>>
  /\ delivered' = Undelivered /\ UNCHANGED archive

IntelligenceNext ==
  \/ \E kind \in Kinds, max \in {1, 8}, found \in SUBSET Passages : RunReport(kind, max, found)
  \/ \E query \in QueryLengths, mode \in Modes, entities \in {0, 2}, years \in BOOLEAN :
       \/ \E max \in {1, 8}, ran \in BOOLEAN : RunResearch(query, mode, max, ran, entities, years)
       \/ Coordinate(query, mode, entities, years)
  \/ \E assessment \in Assessments \cup {NoAssessment}, max \in {1, 20}, focus \in {0, 1},
        recommended \in Priorities \cup {<<>>} :
       RunCompliance(assessment, max, focus, recommended)
  \/ \E assessment \in Assessments \cup {NoAssessment}, kinds \in {{}, ScenarioKinds}, trend, drift \in BOOLEAN :
       \E projection \in Forecasts(Baseline(assessment).score) :
         RunRisk(assessment, projection, kinds, trend, drift)
  \/ ResetAgents \/ RestartAgents

IntelligenceSpec == IntelligenceInit /\ [][IntelligenceNext]_intelligenceVars

-----------------------------------------------------------------------------
\* Reports are of known kinds, the metrics are counts and the broker stays
\* within its capacity.
IntelligenceTypeOK ==
  /\ knowledge \subseteq Passages
  /\ \A r \in reports \cup archive : r.steps \in 1..6 /\ r.cited \subseteq Passages /\ r.citations \in Nat
  /\ counted.total \in 0..MaxRuns /\ counted.runs \in [Agents -> Nat] /\ counted.modes \in [Modes -> Nat]
  /\ counted.pairs \in [Handoffs -> Nat] /\ broker \in BoundedSeq(Handoffs, HandoffCap)

\* The sum of counts is the number of all that was counted.
SumOver(f) == Cardinality(UNION {{k} \X (1..f[k]) : k \in DOMAIN f})

\* However requests, failures and resets follow each other, the metrics and
\* the broker tell one story: every run is a success or a failure of one
\* agent, every research run - failed ones too - is counted under its mode,
\* a chain hands over twice or not at all, and the broker holds the newest of
\* the hand-offs counted (IntelligenceAgentMetrics, AgentCollaborationBroker).
CountersAgree ==
  /\ Totals.runs = Totals.good + Totals.bad
  /\ Totals.runs = SumOver([a \in Agents |-> Health(a).runs])
  /\ \A a \in Agents : Health(a).runs = Health(a).good + Health(a).bad
  /\ SumOver(counted.modes) = Health("research").runs
  /\ counted.pairs["research->compliance"] = counted.pairs["compliance->risk"]
  /\ counted.collaborations = SumOver(counted.pairs) /\ counted.evidence = 2 * counted.collaborations
  /\ Len(broker) = (IF counted.collaborations < HandoffCap THEN counted.collaborations ELSE HandoffCap)
  /\ Cardinality(Listed("research->compliance")) <= Cardinality(Listed("compliance->risk"))

\* A delivered answer is consistent in itself: every gap it reports is
\* addressed by an action as urgent as the gap and no action addresses a gap
\* that was cut off; a worse scenario has no lower score and no lower level;
\* a projection lies within its bounds.
AnswersConsistent ==
  /\ \A c \in delivered["compliance"] :
       /\ \A g \in DOMAIN c.gaps : \E i \in DOMAIN c.actions :
            c.actions[i].gap = g /\ c.actions[i].priority = c.gaps[g] /\ c.actions[i].days <= Days(c.gaps[g])
       /\ \A i \in DOMAIN c.actions : c.actions[i].gap \in {0} \cup DOMAIN c.gaps
       /\ c.confidence \in 35..60
  /\ \A r \in delivered["risk"] :
       /\ \A k, l \in DOMAIN r.scenarios : Adjustment[k] <= Adjustment[l] =>
            /\ r.scenarios[k].score <= r.scenarios[l].score
            /\ Rank(r.scenarios[k].level) <= Rank(r.scenarios[l].level)
       /\ r.forecast.lower <= r.forecast.predicted /\ r.forecast.predicted <= r.forecast.upper
================================================================================
