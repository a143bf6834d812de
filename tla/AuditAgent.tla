------------------------------ MODULE AuditAgent ------------------------------
(***************************************************************************)
(* The audit agent (services/audit_agent): one request looks for           *)
(* violations, collects evidence, gives a verdict, asks for                *)
(* recommendations, leaves a record in the audit log and counts itself.    *)
(* The agent suspends nowhere, so a run is one step, and through the API   *)
(* it cannot fail.  Its services are optional: "wired" says whether it has *)
(* them.  Severities are the ranks 1 (low) to 4 (critical), scores and     *)
(* confidences hundredths; titles, areas and the report are left out.  The *)
(* governance service has no check method, so the policy rules find        *)
(* nothing in either wiring.                                               *)
(***************************************************************************)
EXTENDS Integers, FiniteSets, SequencesExt

CONSTANTS KeywordHits,   \* what the keyword rules may find in a query: sequences of ranks
          RiskFiles,     \* assessments on file: [score, gaps], gaps the number of gaps
          TaskKinds,     \* the kinds of task asked for
          Cuts,          \* values of max_violations
          EvidenceCuts,  \* values of max_evidence
          AuditWirings,  \* given its services or not
          GraphNodes, Decisions, \* entities and governance decisions on file
          MaxLog,        \* bound: records of the log
          MaxVerdicts    \* bound: runs counted by one process

Ranks == 1..4
NoRiskFile == [score |-> -1, gaps |-> 0]
Verdicts == {"compliant", "partially_compliant", "non_compliant"}
AuditRequests == [hits: KeywordHits, file: RiskFiles \cup {NoRiskFile}, kind: TaskKinds, diff: BOOLEAN,
             evidence: BOOLEAN, violations: Cuts, items: EvidenceCuts]

ASSUME AuditAgentAssumption ==
  /\ KeywordHits \subseteq Seq(Ranks) /\ IsFiniteSet(TaskKinds)
  /\ \A f \in RiskFiles : f.score \in 0..100 /\ f.gaps \in Nat
  /\ Cuts \subseteq Nat \ {0} /\ EvidenceCuts \subseteq Nat /\ AuditWirings \subseteq BOOLEAN
  /\ {GraphNodes, Decisions, MaxLog, MaxVerdicts} \subseteq Nat

VARIABLES wired,   \* the agent has its services
          log,     \* [records, intact]: INFO records in the audit log, and whether its chain verifies
          totals,  \* the service's metrics
          verdict  \* the last answer with its request: a set, empty without one
auditAgentVars == <<wired, log, totals, verdict>>

NoTotals == [kinds |-> [k \in TaskKinds |-> 0], statuses |-> [s \in Verdicts |-> 0],
             violations |-> 0, verified |-> 0, broken |-> 0]
AuditAgentInit ==
  /\ wired \in AuditWirings /\ log = [records |-> 0, intact |-> TRUE]
  /\ totals = NoTotals /\ verdict = {}

-----------------------------------------------------------------------------
(* The rules *)

\* A linked assessment is a violation whatever its score, and each of its
\* gaps one of medium severity.
RiskRank(score) ==
  CASE score >= 70 -> 4 [] score >= 50 -> 3 [] score >= 30 -> 2 [] OTHER -> 1
RiskViolations(file) ==
  IF ~wired \/ file = NoRiskFile THEN <<>>
  ELSE <<RiskRank(file.score)>> \o [i \in 1..file.gaps |-> 2]
ViolationsFound(request) == request.hits \o RiskViolations(request.file)

\* The i-th most severe of what was found.
AtLeast(found, r) == Cardinality({k \in DOMAIN found : found[k] >= r})
Severe(found, i) == CHOOSE r \in Ranks : AtLeast(found, r + 1) < i /\ i <= AtLeast(found, r)

\* Mutant: the cut without the sort.
CutAsFound(found, max) == IF Len(found) <= max THEN found ELSE [i \in 1..max |-> found[i]]
\* Beyond max_violations the most severe are kept.
Cut(found, max) ==
  IF Len(found) <= max THEN found ELSE [i \in 1..max |-> Severe(found, i)]

\* collect runs only for a request that wants evidence, and only then is
\* the chain verified.  Records come first, 20 at most, then the graph's
\* entities; include_lineage is not read.
Collects(request) == wired /\ request.evidence
Smaller(a, b) == IF a < b THEN a ELSE b
Evidence(request) ==
  IF Collects(request) THEN Smaller(request.items, Smaller(20, log.records) + GraphNodes) ELSE 0
Lineage(request) == IF Collects(request) THEN Smaller(request.items, Decisions) ELSE 0
ChainSeen(request) ==
  CASE ~Collects(request) -> "unchecked" [] log.intact -> "verified" [] OTHER -> "broken"

\* The verdict on the violations that were kept.
Verdict(violations, chain) ==
  IF chain = "broken" THEN "non_compliant"
  ELSE IF violations = <<>> THEN "compliant"
  ELSE IF \E i \in DOMAIN violations : violations[i] >= 3 THEN "non_compliant" ELSE "partially_compliant"
AuditConfidence(violations, evidence, chain) ==
  CASE chain = "broken" -> 95
    [] chain # "broken" /\ violations = <<>> -> IF evidence > 0 THEN 90 ELSE 60
    [] OTHER -> Smaller(100, 60 + 5 * Len(violations))

-----------------------------------------------------------------------------
(* The run *)

\* recommended: the recommendation service, asked when the request names an
\* assessment or a diff, answered; what it raises is swallowed.
Answer(request, recommended) ==
  LET kept == Cut(ViolationsFound(request), request.violations)
  IN [request |-> request, found |-> ViolationsFound(request), kept |-> kept,
      evidence |-> Evidence(request), lineage |-> Lineage(request), chain |-> ChainSeen(request),
      status |-> Verdict(kept, ChainSeen(request)),
      confidence |-> AuditConfidence(kept, Evidence(request), ChainSeen(request)),
      recommended |-> recommended, recorded |-> wired]
MayRecommend(request) == wired /\ (request.diff \/ request.file # NoRiskFile)

Tallied(answer) ==
  [totals EXCEPT !.kinds[answer.request.kind] = @ + 1, !.statuses[answer.status] = @ + 1,
                 !.violations = @ + Len(answer.kept),
                 !.verified = IF answer.chain = "verified" THEN @ + 1 ELSE @,
                 !.broken = IF answer.chain = "broken" THEN @ + 1 ELSE @]

Runs == FoldFunction(LAMBDA x, y : x + y, 0, totals.kinds)
RunAudit(request, recommended) ==
  /\ Runs < MaxVerdicts /\ (wired => log.records < MaxLog)
  /\ recommended => MayRecommend(request)
  /\ verdict' = {Answer(request, recommended)}
  /\ totals' = Tallied(Answer(request, recommended))
  /\ log' = IF wired THEN [log EXCEPT !.records = @ + 1] ELSE log
  /\ UNCHANGED wired

\* Another part of the program appends a record.
LogOther ==
  /\ log.records < MaxLog /\ log' = [log EXCEPT !.records = @ + 1]
  /\ UNCHANGED <<wired, totals, verdict>>

\* The process restarts; someone may have edited the file of the log.
RestartAgent(intact) ==
  /\ verdict # {} /\ log.records = 0 => intact
  /\ log' = [log EXCEPT !.intact = intact] /\ totals' = NoTotals /\ verdict' = {}
  /\ UNCHANGED wired

AuditAgentNext ==
  \/ \E request \in AuditRequests, recommended \in BOOLEAN : RunAudit(request, recommended)
  \/ LogOther
  \/ \E intact \in BOOLEAN : RestartAgent(intact)
AuditAgentSpec == AuditAgentInit /\ [][AuditAgentNext]_auditAgentVars

-----------------------------------------------------------------------------
AuditAgentTypeOK ==
  /\ wired \in BOOLEAN /\ log \in [records: 0..MaxLog, intact: BOOLEAN]
  /\ totals \in [kinds: [TaskKinds -> Nat], statuses: [Verdicts -> Nat],
                 violations: Nat, verified: Nat, broken: Nat]
  /\ \A a \in verdict : a.request \in AuditRequests /\ a.status \in Verdicts /\ a.confidence \in 0..100

\* However few violations a request lets through, its verdict is that of
\* everything the rules found: non-compliant exactly when one of the
\* findings is high or critical or a chain that was checked is broken, and
\* compliant only when nothing was found (audit_agent 243-246, 377-401).
VerdictSeesAllFindings ==
  \A a \in verdict :
    /\ (a.status = "non_compliant") <=>
         (a.chain = "broken" \/ \E i \in DOMAIN a.found : a.found[i] >= 3)
    /\ a.status = "compliant" => a.found = <<>>
==============================================================================
