--------------------------- MODULE ComplianceChain ---------------------------
(***************************************************************************)
(* From a detected change to the work it causes: diff, impact report, risk *)
(* assessment, recommendation, workflow, review of the workflow.  Each     *)
(* stage is a service with a store of its own in every worker process and  *)
(* one JSON-lines file for all; a stage that needs an earlier result       *)
(* builds a fresh store over the file of that stage and looks it up there, *)
(* never in the memory of its own process.  A forecast has a store like    *)
(* the others.  No handler awaits, so a request is one step.  Scores are   *)
(* the code's, in ten thousandths.                                         *)
(***************************************************************************)
EXTENDS Integers, Sequences, FiniteSets

CONSTANTS Workers,
          Findings,    \* what a diff may say: severity, category, changes
          Areas,       \* affected areas for which there are templates
          NoArea,      \* AffectedArea.OTHER
          NoId,        \* a request or a record that names nothing
          Unstored,    \* the id of an assessment that no store ever gets
          MaxMade,     \* bound: records of each stage
          ChainFaults, ChainCrashes \* bounds: failed appends, restarts

Stages == {"diff", "impact", "risk", "recommendation", "workflow", "review", "forecast"}
\* Severities of a change and levels of a risk.
LOW == 0
MEDIUM == 1
HIGH == 2
CRITICAL == 3
NEGLIGIBLE == -1                                 \* only of an impact
SeverityScale == LOW..CRITICAL
ImpactScale == NEGLIGIBLE..CRITICAL

GapCategories == {"PENALTY_CHANGE", "COMPLIANCE_DEADLINE", "CAPITAL_REQUIREMENT",
                  "REPORTING_REQUIREMENT", "SCOPE_CHANGE", "REGULATORY_AMENDMENT"}
ChangeCategories == GapCategories \cup {"NEW_GUIDANCE", "POLICY_UPDATE", "CLARIFICATION", "OTHER"}

ASSUME ChainAssumption ==
  /\ MaxMade \in [Stages -> Nat] /\ ChainFaults \in Nat /\ ChainCrashes \in Nat
  /\ NoId \notin Nat /\ Unstored \notin Nat /\ NoArea \notin Areas
  /\ Findings \subseteq [severity: SeverityScale, category: ChangeCategories, count: Nat]

VARIABLES produced, \* history: the records of each stage, their id being their place
          held,   \* the recommendations in the memory of each worker; that of the
                  \* other stages is asked by nobody who changes anything
          file,   \* what a fresh store finds in the file of a stage
          chFaults, chCrashes

chainVars == <<produced, held, file, chFaults, chCrashes>>

EmptyStageFile == [ids |-> {}, torn |-> FALSE, broken |-> FALSE]

ChainInit ==
  /\ produced = [s \in Stages |-> <<>>]
  /\ held = [w \in Workers |-> {}]
  /\ file = [s \in Stages |-> EmptyStageFile]
  /\ chFaults = 0 /\ chCrashes = 0

-----------------------------------------------------------------------------
(* Stores.  A line appended to a piece of a line is lost with it.  The       *)
(* change store gives up loading at the first line it cannot parse, the      *)
(* others skip it.  The forecasting store never writes: in its _persist the  *)
(* file handle takes the name of the forecast.                               *)

StageAppended(s, f, id) ==
  [ids |-> IF f.torn \/ (s = "diff" /\ f.broken) \/ s = "forecast"
           THEN f.ids ELSE f.ids \cup {id},
   torn |-> FALSE, broken |-> f.broken]

\* A failed append leaves nothing, or a piece of a line.
StageDamaged(s, f) ==
  IF s = "forecast" THEN {f} ELSE {f, [f EXCEPT !.torn = TRUE, !.broken = TRUE]}

\* A line is written, or that fails in one of the ways.
LineSaved(s, o, id) ==
  {[file |-> StageAppended(s, o.file, id), faults |-> o.faults]}
  \cup {[file |-> f, faults |-> o.faults + 1] :
          f \in IF o.faults < ChainFaults THEN StageDamaged(s, o.file) ELSE {}}

\* The lines for some records are appended one by one, in a try each.
SaveLines(s, ids) ==
  LET outcomes[i \in 0..Len(ids)] ==
        IF i = 0 THEN {[file |-> file[s], faults |-> chFaults]}
        ELSE UNION {LineSaved(s, o, ids[i]) : o \in outcomes[i - 1]}
  IN  \E o \in outcomes[Len(ids)] : chFaults' = o.faults /\ file' = [file EXCEPT ![s] = o.file]

\* New records are kept in memory and saved, each as often as its service does.
KeepSaving(w, s, records, times) ==
  LET n == Len(produced[s])
      k == Len(records)
  IN  /\ n + k <= MaxMade[s]
      /\ produced' = [produced EXCEPT ![s] = @ \o records]
      /\ held' = IF s = "recommendation"
                 THEN [held EXCEPT ![w] = @ \cup ((n + 1)..(n + k))] ELSE held
      /\ SaveLines(s, [i \in 1..(k * times) |-> n + 1 + ((i - 1) \div times)])
      /\ UNCHANGED chCrashes

Keep(w, s, records) == KeepSaving(w, s, records, 1)

\* Mutant of FetchedFresh: a load that meets a bad line keeps nothing.
FetchedWhole(s, id) == id \in file[s].ids /\ ~file[s].broken

\* What a fresh store over the file of a stage answers.
FetchedFresh(s, id) == id \in file[s].ids

-----------------------------------------------------------------------------
(* ChangeDetectionService.detect *)

DetectChange(w) == \E d \in Findings : Keep(w, "diff", <<d>>)

(* ImpactAnalysisService.analyze *)

SeverityWeight == [s \in SeverityScale |-> CASE s = LOW -> 20 [] s = MEDIUM -> 50
                                             [] s = HIGH -> 80 [] s = CRITICAL -> 100]
ImpactCategoryWeight ==
  [c \in ChangeCategories |->
     CASE c = "PENALTY_CHANGE" -> 100 [] c \in {"COMPLIANCE_DEADLINE", "CAPITAL_REQUIREMENT"} -> 90
       [] c = "REPORTING_REQUIREMENT" -> 80
       [] c \in {"REGULATORY_AMENDMENT", "SCOPE_CHANGE"} -> 70
       [] c = "NEW_GUIDANCE" -> 60 [] c = "POLICY_UPDATE" -> 50
       [] c = "CLARIFICATION" -> 30 [] c = "OTHER" -> 40]

AtMost(n, m) == IF n < m THEN n ELSE m

RiskLevelOf(score) ==
  IF score >= 8500 THEN CRITICAL ELSE IF score >= 6500 THEN HIGH
  ELSE IF score >= 4000 THEN MEDIUM ELSE LOW
ImpactLevelOf(score) == IF score < 2000 THEN NEGLIGIBLE ELSE RiskLevelOf(score)

\* The change type is always taken to be MODIFIED, of weight 0.7.
ImpactScore(d) ==
  45 * SeverityWeight[d.severity] + 30 * ImpactCategoryWeight[d.category]
  + 15 * 70 + 200 * AtMost(IF d.count = 0 THEN 1 ELSE d.count, 5)

\* The client sends a diff it was given; one that is only named is not
\* looked up and refused.
AnalyzeImpact(w) ==
  \E d \in DOMAIN produced["diff"] :
    Keep(w, "impact", <<[diff |-> d, level |-> ImpactLevelOf(ImpactScore(produced["diff"][d]))]>>)

-----------------------------------------------------------------------------
(* ComplianceRiskService.assess *)

RiskCategoryWeight ==
  [c \in ChangeCategories |->
     CASE c = "PENALTY_CHANGE" -> 100 [] c = "COMPLIANCE_DEADLINE" -> 90
       [] c = "CAPITAL_REQUIREMENT" -> 95 [] c = "REPORTING_REQUIREMENT" -> 80
       [] c = "REGULATORY_AMENDMENT" -> 70 [] c = "NEW_GUIDANCE" -> 50
       [] c = "SCOPE_CHANGE" -> 75 [] c = "POLICY_UPDATE" -> 60
       [] c = "CLARIFICATION" -> 20 [] c = "OTHER" -> 40]
ImpactWeight == [l \in ImpactScale |-> CASE l = NEGLIGIBLE -> 5 [] l = LOW -> 25
                   [] l = MEDIUM -> 55 [] l = HIGH -> 80 [] l = CRITICAL -> 100]

RiskScore(severity, category, impact, count) ==
  30 * SeverityWeight[severity] + 25 * RiskCategoryWeight[category]
  + 25 * ImpactWeight[impact] + 200 * AtMost(count, 5)
  + (IF category \in GapCategories THEN 333 ELSE 0)

Named(s) == DOMAIN produced[s] \cup {NoId}

\* What is not named or not found is taken to be middling.
Severity(d, r) ==
  IF FetchedFresh("diff", d) THEN produced["diff"][d].severity
  ELSE IF FetchedFresh("impact", r)
       THEN IF produced["impact"][r].level = NEGLIGIBLE THEN LOW ELSE produced["impact"][r].level
  ELSE MEDIUM
Category(d) == IF FetchedFresh("diff", d) THEN produced["diff"][d].category ELSE "OTHER"
Impact(r) == IF FetchedFresh("impact", r) THEN produced["impact"][r].level ELSE MEDIUM
Count(d) == IF FetchedFresh("diff", d) THEN produced["diff"][d].count ELSE 1

\* The areas are those whose keywords are in the text of what was found.
AreasFound(d, r) ==
  IF FetchedFresh("diff", d) \/ FetchedFresh("impact", r)
  THEN ((SUBSET Areas) \ {{}}) \cup {{NoArea}} ELSE {{NoArea}}

AssessRisk(w) ==
  \E d \in Named("diff"), r \in Named("impact") : \E areas \in AreasFound(d, r) :
    Keep(w, "risk",
         <<[diff |-> d, report |-> r, seen |-> FetchedFresh("diff", d),
            level |-> RiskLevelOf(RiskScore(Severity(d, r), Category(d), Impact(r), Count(d))),
            areas |-> areas]>>)

-----------------------------------------------------------------------------
(* RecommendationService.generate and feedback *)

\* _PRIORITY_FOR_RISK; the bump for some areas bumps nothing.
PriorityFor(level) == CRITICAL - level
P3 == 3

\* An assessment that is not found, or not asked for, is replaced by one of no
\* known area that is made for the occasion, and never stored; the
\* recommendation refers to it all the same.  "asked", what the request named,
\* is history.
GenerateRecommendations(w) ==
  \E a \in Named("risk") :
    LET assessed == FetchedFresh("risk", a)
        areas == IF assessed THEN produced["risk"][a].areas \ {NoArea} ELSE {}
    IN  IF areas = {}
        THEN Keep(w, "recommendation",
                  <<[asked |-> a, risk |-> IF assessed THEN a ELSE Unstored,
                     area |-> NoArea, priority |-> P3]>>)
        ELSE \E k \in 1..Cardinality(areas) : \E order \in [1..k -> areas] :
               /\ \A i, j \in 1..k : order[i] = order[j] => i = j
               /\ Keep(w, "recommendation",
                       [i \in 1..k |-> [asked |-> a, risk |-> a, area |-> order[i],
                                        priority |-> PriorityFor(produced["risk"][a].level)]])

\* Any change of its status appends a recommendation again.
Feedback(w) ==
  /\ \E r \in held[w] : SaveLines("recommendation", <<r>>)
  /\ UNCHANGED <<produced, held, chCrashes>>

-----------------------------------------------------------------------------
(* AutomationService.create_from_recommendation, create_from_risk_assessment; *)
(* ReviewService.create_for_workflow; ForecastingService.forecast             *)

\* A workflow is saved before and after its tasks are added.
CreateForRecommendation(w) ==
  \E r \in Named("recommendation") :
    /\ FetchedFresh("recommendation", r)
    /\ KeepSaving(w, "workflow", <<[recommendation |-> r, risk |-> NoId,
                                    priority |-> produced["recommendation"][r].priority]>>, 2)

CreateForRisk(w) ==
  \E a \in Named("risk") :
    /\ FetchedFresh("risk", a)
    /\ KeepSaving(w, "workflow", <<[recommendation |-> NoId, risk |-> a,
                                    priority |-> PriorityFor(produced["risk"][a].level)]>>, 2)

CreateReview(w) ==
  \E f \in Named("workflow") : /\ FetchedFresh("workflow", f)
                               /\ Keep(w, "review", <<[workflow |-> f]>>)

Forecast(w) == Keep(w, "forecast", <<[made |-> TRUE]>>)

ChainRestart(w) ==
  /\ chCrashes < ChainCrashes /\ chCrashes' = chCrashes + 1
  /\ held' = [held EXCEPT ![w] = file["recommendation"].ids]
  /\ UNCHANGED <<produced, file, chFaults>>

ChainNext ==
  \E w \in Workers :
    \/ DetectChange(w) \/ AnalyzeImpact(w) \/ AssessRisk(w)
    \/ GenerateRecommendations(w) \/ Feedback(w)
    \/ CreateForRecommendation(w) \/ CreateForRisk(w) \/ CreateReview(w)
    \/ Forecast(w) \/ ChainRestart(w)

ChainSpec == ChainInit /\ [][ChainNext]_chainVars

-----------------------------------------------------------------------------
(* Properties *)

ChainTypeOK ==
  /\ \A s \in Stages : Len(produced[s]) <= MaxMade[s]
  /\ held \in [Workers -> SUBSET (1..MaxMade["recommendation"])]
  /\ \A s \in Stages :
       file[s] \in [ids: SUBSET (1..MaxMade[s]), torn: BOOLEAN, broken: BOOLEAN]
  /\ \A i \in DOMAIN produced["risk"] : produced["risk"][i].level \in SeverityScale
  /\ chFaults \in 0..ChainFaults /\ chCrashes \in 0..ChainCrashes

\* The chain behind a piece of work can be followed back, by every worker and
\* for ever: what an assessment was computed from, the assessment behind a
\* recommendation, what a workflow was made for and the workflow of a review
\* are found in their files, whatever lines are torn later.  A recommendation
\* can refer to an assessment that nobody stored, but not one for a known area;
\* and as long as no write fails, an assessment has seen the diff it names and
\* a recommendation refers to the assessment it was asked for.
ProvenanceStays ==
  /\ \A i \in DOMAIN produced["risk"] :
       LET a == produced["risk"][i]
       IN  /\ a.seen => FetchedFresh("diff", a.diff)
           /\ chFaults = 0 /\ a.diff # NoId => a.seen
  /\ \A i \in DOMAIN produced["recommendation"] :
       LET r == produced["recommendation"][i]
       IN  /\ r.risk # Unstored \/ r.area # NoArea => FetchedFresh("risk", r.risk)
           /\ chFaults = 0 /\ r.asked # NoId => r.risk = r.asked
  /\ \A i \in DOMAIN produced["workflow"] :
       LET f == produced["workflow"][i]
       IN  /\ f.recommendation # NoId => FetchedFresh("recommendation", f.recommendation)
           /\ f.risk # NoId => FetchedFresh("risk", f.risk)
  /\ \A i \in DOMAIN produced["review"] : FetchedFresh("workflow", produced["review"][i].workflow)

=============================================================================
