------------------------------ MODULE Observability ------------------------------
(***************************************************************************)
(* The process-wide metrics (services/observability): track_request around *)
(* the requests, and one collector for each domain service, incremented as *)
(* the service reports an event.  A collector is a bag of keys: <<total>>  *)
(* counts a total and <<group, value>> one entry of a breakdown.  Averages *)
(* and rates are computed when metrics are read, except seven that an      *)
(* event stores; these are kept in whole percents or units.                *)
(***************************************************************************)
EXTENDS Integers, Bags, FiniteSets, SequencesExt

CONSTANTS TrackedRequests,          \* requests handled at the same time
          Endpoints,         \* what track_request is told of
          Sources,           \* monitored sources
          Names,             \* agent names, model ids, capabilities
          MaxOpen,           \* bound: contexts nested within a request
          MaxEvents          \* bound: events between two resets

AlertSeverities == {"critical", "high", "medium", "low"}
Collectors == {"api", "monitoring", "ingestion", "detection", "impact", "alerts", "graph", "research",
               "dashboard", "risk", "recommendation", "forecasting", "workflow", "review",
               "governance", "audit", "admin", "agents"}

ASSUME ObservabilityAssumption ==
  /\ \A s \in {TrackedRequests, Endpoints, Sources, Names} : IsFiniteSet(s)
  /\ {MaxOpen, MaxEvents} \subseteq Nat

VARIABLES collected, \* the bag of each collector
          stored,    \* the averages and rates an event stores
          contexts,  \* the open contexts of each request, innermost last
          broken,    \* blocks that did not end normally since then
          events     \* events counted since the start or the last reset
observabilityVars == <<collected, stored, contexts, broken, events>>

StoredRates == {"steps_per_plan", "duration", "risk_score", "horizon", "success", "approval", "compliance"}
CollectorOf(rate) ==
  CASE rate \in {"steps_per_plan", "duration"} -> "research"
    [] rate = "risk_score" -> "dashboard" [] rate = "horizon" -> "forecasting"
    [] rate = "success" -> "workflow" [] rate = "approval" -> "review" [] OTHER -> "governance"

ObservabilityInit ==
  /\ collected = [c \in Collectors |-> EmptyBag] /\ stored = [r \in StoredRates |-> 0]
  /\ contexts = [r \in TrackedRequests |-> <<>>] /\ broken = 0 /\ events = 0

-----------------------------------------------------------------------------
(* What an event adds to its collector *)

OneMore(keys) == SetToBag(keys)
Times(key, n) == IF n = 0 THEN EmptyBag ELSE (key :> n)

\* record_request
RequestRecorded(context, succeeded) ==
  OneMore({<<"requests">>, <<"endpoint", context.endpoint>>, <<"strategy", context.strategy>>,
       <<"rerank", IF context.rerank THEN "used" ELSE "skipped">>,
       <<"outcome", IF succeeded THEN "successful" ELSE "failed">>})

MonitoringEvents ==
  {OneMore({<<"runs">>, <<"source", s>>, <<"run", r>>}) : s \in Sources, r \in {"succeeded", "failed"}}
  \cup {Times(<<"discovered">>, n) : n \in {1, 2}}
  \cup {OneMore({<<"discoveries failed">>, <<"error", s>>}) : s \in Sources}

IngestionEvents ==
  {OneMore({<<"runs">>, <<"source", s>>, <<"run", "succeeded">>, <<"document", "ingested">>}) (+) Times(<<"chunks">>, 2)
     : s \in Sources}
  \cup {OneMore({<<"runs">>, <<"source", s>>, <<"run", "failed">>, <<"document", "failed">>}) : s \in Sources}

\* Everything that is not critical, high or medium is counted as low.
DetectionEvents ==
  {OneMore({<<"diffs">>, <<"severity", s>>, <<"category", "other">>, <<"diff", s>>}) (+) Times(<<"changes">>, n)
     : s \in AlertSeverities, n \in 0..1}
ImpactEvents ==
  {OneMore({<<"reports">>, <<"level", l>>}) (+) Times(<<"score">>, 50) (+) Times(<<"entities">>, n)
     : l \in AlertSeverities, n \in 0..1}

AlertEvents ==
  {OneMore({<<"raised">>, <<"severity", s>>}) : s \in {"critical", "high"}}
  \cup {OneMore({<<"deliveries">>, <<"channel", "email">>, <<"delivery", d>>}) : d \in {"delivered", "failed"}}
  \cup {OneMore({<<"digests">>})}

GraphEvents ==
  {OneMore({<<"nodes">>, <<"entity", e>>}) : e \in {"regulation", "entity"}}
  \cup {OneMore({<<k>>}) : k \in {"relationships", "builds", "traversals", "dependencies"}}

ResearchPlanned(steps) == OneMore({<<"plans">>}) (+) Times(<<"steps">>, steps)
ResearchExecuted(kind, duration) ==
  OneMore({<<"executed">>, <<"kind", kind>>}) (+) Times(<<"duration">>, duration)
DashboardTaken(score) == OneMore({<<"snapshots">>}) (+) Times(<<"score">>, score)

RiskEvents ==
  {OneMore({<<"assessments">>, <<"level", l>>, <<"category", "operational">>}) : l \in AlertSeverities}
  \cup {OneMore({<<k>>}) : k \in {"lookups", "trends"}}

RecommendationEvents ==
  {OneMore({<<"generated">>}) (+) Times(<<"recommendations">>, n) : n \in {0, 2}}
  \cup {OneMore({<<"feedback">>, <<"status", s>>}) : s \in {"accepted", "rejected", "proposed"}}

ForecastMade(days, drift) ==
  OneMore({<<"forecasts">>} \cup (IF drift THEN {<<"drift">>} ELSE {})) (+) Times(<<"days">>, days)

\* The end of a workflow is counted three times over; the events of its
\* tasks and escalations do not touch the rate.
WorkflowEnded(end) == OneMore({<<"terminal">>, <<"end", end>>})
WorkflowEvents ==
  {OneMore({<<"created">>, <<"type", t>>}) : t \in {"compliance", "review"}} \cup {OneMore({<<"started">>})}
  \cup {OneMore({<<"tasks completed">>, <<"task", s>>}) : s \in {"completed", "skipped"}}
  \cup {OneMore({<<"escalations">>, <<"action", "escalate">>}), OneMore({<<"tasks created">>})}

\* Approvals and rejections decide; an escalation is counted by itself.
ReviewDecided(decision) ==
  OneMore({<<"recorded">>, <<"by_decision", decision>>}
      \cup (IF decision \in {"approved", "rejected"} THEN {<<"decided">>, <<"decision", decision>>} ELSE {}))
ReviewEvents ==
  {OneMore({<<"created">>, <<"priority", p>>}) : p \in {"high", "medium"}} \cup {OneMore({<<"corrections">>})}
  \cup {OneMore({<<"comments">>, <<"role", r>>}) : r \in {"reviewer", "legal"}}

GovernanceChecked(compliant) ==
  OneMore({<<"checks">>, <<"check", IF compliant THEN "compliant" ELSE "not compliant">>})
GovernanceEvents ==
  {OneMore({<<"policies">>}) (+) Times(<<"rules">>, 2)}
  \cup {OneMore({<<"decisions">>, <<"type", "answer">>} \cup (IF n = "" THEN {} ELSE {<<"model", n>>})) : n \in Names \cup {""}}
  \cup {OneMore({<<"violations">>, <<"severity", s>>, <<"action", a>>})
          : s \in {"high", "low"}, a \in {"block", "warn"}}

AuditEvents ==
  {OneMore({<<"records">>, <<"action", a>>, <<"severity", s>>}) : a \in {"query", "upload"}, s \in {"info", "warning"}}
  \cup {OneMore({<<"evidence">>, <<"evidence_kind", "document">>}), OneMore({<<"reports">>, <<"report_kind", "summary">>})}
  \cup {OneMore({<<"chain">>, <<"intact", i>>}) : i \in {"yes", "no"}}

\* A change of status is counted again under the new status.
AdminEvents ==
  {OneMore({<<"statuses">>, <<"users">>, <<"status", "active">>}), OneMore({<<"updated">>}),
   OneMore({<<"statuses">>, <<"updated">>, <<"status", "suspended">>}), OneMore({<<"deleted">>}), OneMore({<<"roles">>}),
   OneMore({<<"settings">>, <<"setting", "general">>}), OneMore({<<"views">>}), OneMore({<<"logins">>})}
  \cup {OneMore({<<"rbac">>, <<"rbac", i>>}) : i \in {"allowed", "denied"}}

\* An execution that neither succeeded nor timed out is a failure.
AgentEvents ==
  {OneMore({<<"invocations">>, <<"status", s>>, <<"capability", n>>, <<"outcome", o>>})
     : n \in Names, s \in {"succeeded"}, o \in {"succeeded"}}
  \cup {OneMore({<<"invocations">>, <<"status", s>>, <<"capability", n>>,
             <<"outcome", IF s = "timed_out" THEN s ELSE "failed">>})
          : n \in Names, s \in {"timed_out", "failed", "cancelled"}}
  \cup {OneMore({<<"registered">>, <<"agent", n>>}) : n \in Names}
  \cup {OneMore({<<"coordinations">>, <<"coordination", o>>}) : o \in {"succeeded", "failed"}}

\* The events that store no rate.
PlainEvents(c) ==
  CASE c = "monitoring" -> MonitoringEvents [] c = "ingestion" -> IngestionEvents
    [] c = "detection" -> DetectionEvents [] c = "impact" -> ImpactEvents [] c = "alerts" -> AlertEvents
    [] c = "graph" -> GraphEvents [] c = "risk" -> RiskEvents [] c = "recommendation" -> RecommendationEvents
    [] c = "workflow" -> WorkflowEvents [] c = "review" -> ReviewEvents [] c = "governance" -> GovernanceEvents
    [] c = "audit" -> AuditEvents [] c = "admin" -> AdminEvents [] c = "agents" -> AgentEvents
    [] c = "research" -> {OneMore({<<"reports">>})} [] c = "dashboard" -> {OneMore({<<"trends">>}), OneMore({<<"insights">>})}
    [] c = "forecasting" -> {OneMore({<<"scenarios">>}), OneMore({<<"predictions">>})} [] OTHER -> {}

-----------------------------------------------------------------------------
(* The rates *)

Ratio(bag, part, whole, unit) ==
  IF CopiesIn(whole, bag) = 0 THEN 0 ELSE (unit * CopiesIn(part, bag)) \div CopiesIn(whole, bag)
\* Each rate from the counts of its collector.
RateOf(rate, bag) ==
  CASE rate = "steps_per_plan" -> Ratio(bag, <<"steps">>, <<"plans">>, 1)
    [] rate = "duration"   -> Ratio(bag, <<"duration">>, <<"executed">>, 1)
    [] rate = "risk_score" -> Ratio(bag, <<"score">>, <<"snapshots">>, 1)
    [] rate = "horizon"    -> Ratio(bag, <<"days">>, <<"forecasts">>, 1)
    [] rate = "success"    -> Ratio(bag, <<"end", "completed">>, <<"terminal">>, 100)
    [] rate = "approval"   -> Ratio(bag, <<"decision", "approved">>, <<"decided">>, 100)
    [] OTHER               -> Ratio(bag, <<"check", "compliant">>, <<"checks">>, 100)

-----------------------------------------------------------------------------
(* Actions *)

\* The bound on the events: every open context will be one.
Open == FoldSet(LAMBDA r, n : n + Len(contexts[r]), 0, TrackedRequests)
RoomForMore == events + Open < MaxEvents

Count(c, added) ==
  /\ events' = events + 1
  /\ collected' = [collected EXCEPT ![c] = @ (+) added]

Recompute(rate) == stored' = [stored EXCEPT ![rate] = RateOf(rate, collected'[CollectorOf(rate)])]

Event(c) == RoomForMore /\ \E added \in PlainEvents(c) : Count(c, added) /\ UNCHANGED <<stored, contexts, broken>>

\* An event that stores a rate.
RatedEvent ==
  /\ RoomForMore
  /\ \/ \E n \in {4, 6} : Count("research", ResearchPlanned(n)) /\ Recompute("steps_per_plan")
     \/ \E kind \in {"timeline", "general"}, d \in {1, 2} :
          Count("research", ResearchExecuted(kind, d)) /\ Recompute("duration")
     \/ \E n \in {0, 50} : Count("dashboard", DashboardTaken(n)) /\ Recompute("risk_score")
     \/ \E d \in {30, 90}, drift \in BOOLEAN : Count("forecasting", ForecastMade(d, drift)) /\ Recompute("horizon")
     \/ \E end \in {"completed", "cancelled", "failed"} : Count("workflow", WorkflowEnded(end)) /\ Recompute("success")
     \/ \E d \in {"approved", "rejected", "escalate"} : Count("review", ReviewDecided(d)) /\ Recompute("approval")
     \/ \E compliant \in BOOLEAN : Count("governance", GovernanceChecked(compliant)) /\ Recompute("compliance")
  /\ UNCHANGED <<contexts, broken>>

EnterBlock(r) ==
  /\ Len(contexts[r]) < MaxOpen /\ RoomForMore
  /\ \E e \in Endpoints, s \in {"hybrid", "unknown"}, rerank \in BOOLEAN :
       contexts' = [contexts EXCEPT ![r] = Append(@, [endpoint |-> e, strategy |-> s, rerank |-> rerank])]
  /\ UNCHANGED <<collected, stored, broken, events>>

Leave(r, succeeded) ==
  /\ contexts[r] # <<>>
  /\ Count("api", RequestRecorded(Last(contexts[r]), succeeded))
  /\ contexts' = [contexts EXCEPT ![r] = Front(@)]
  /\ UNCHANGED stored

\* The block ends, or raises: the exception goes on to the enclosing block,
\* whose service may swallow it.
FinishBlock(r) == Leave(r, TRUE) /\ UNCHANGED broken
Fail(r) == Leave(r, FALSE) /\ broken' = broken + 1
\* A cancelled block is no Exception: nothing finishes the context, and the
\* finally clause counts it as it is, without an error.
CancelBlock(r) == Leave(r, TRUE) /\ broken' = broken + 1

\* The tests reset every collector, and nothing is recorded meanwhile.
ResetCollected ==
  /\ \A r \in TrackedRequests : contexts[r] = <<>>
  /\ collected' = [c \in Collectors |-> EmptyBag] /\ stored' = [r \in StoredRates |-> 0] /\ events' = 0
  /\ broken' = 0 /\ UNCHANGED contexts

ObservabilityNext ==
  \/ \E c \in Collectors : Event(c)
  \/ RatedEvent
  \/ \E r \in TrackedRequests : EnterBlock(r) \/ FinishBlock(r) \/ Fail(r) \/ CancelBlock(r)
  \/ ResetCollected

ObservabilitySpec == ObservabilityInit /\ [][ObservabilityNext]_observabilityVars

-----------------------------------------------------------------------------
\* Collectors are bags, and contexts nest no deeper than the bound.
ObservabilityTypeOK ==
  /\ \A c \in Collectors : IsABag(collected[c])
  /\ stored \in [StoredRates -> Nat] /\ events \in 0..MaxEvents /\ broken \in 0..events
  /\ \A r \in TrackedRequests : Len(contexts[r]) <= MaxOpen

GroupSum(bag, group) ==
  FoldSet(LAMBDA k, n : n + CopiesIn(k, bag), 0, {k \in BagToSet(bag) : Len(k) = 2 /\ k[1] = group})

\* <<collector, total, breakdown>>
Breakdowns ==
  {<<"api", "requests", g>> : g \in {"endpoint", "strategy", "rerank", "outcome"}}
  \cup {<<"monitoring", "runs", g>> : g \in {"source", "run"}}
  \cup {<<"ingestion", "runs", g>> : g \in {"source", "run", "document"}}
  \cup {<<"detection", "diffs", g>> : g \in {"severity", "category", "diff"}}
  \cup {<<"impact", "reports", "level">>, <<"alerts", "raised", "severity">>, <<"alerts", "deliveries", "channel">>,
        <<"alerts", "deliveries", "delivery">>, <<"graph", "nodes", "entity">>, <<"research", "executed", "kind">>,
        <<"risk", "assessments", "level">>, <<"recommendation", "feedback", "status">>,
        <<"workflow", "terminal", "end">>, <<"workflow", "created", "type">>,
        <<"workflow", "tasks completed", "task">>, <<"workflow", "escalations", "action">>,
        <<"review", "created", "priority">>, <<"review", "recorded", "by_decision">>,
        <<"review", "decided", "decision">>, <<"review", "comments", "role">>,
        <<"governance", "checks", "check">>, <<"governance", "decisions", "type">>,
        <<"governance", "violations", "severity">>, <<"governance", "violations", "action">>,
        <<"audit", "evidence", "evidence_kind">>, <<"audit", "reports", "report_kind">>,
        <<"admin", "statuses", "status">>, <<"admin", "settings", "setting">>, <<"admin", "rbac", "rbac">>,
        <<"agents", "coordinations", "coordination">>}
  \cup {<<"audit", "records", g>> : g \in {"action", "severity"}}
  \cup {<<"agents", "invocations", g>> : g \in {"status", "capability", "outcome"}}

\* Whatever is recorded in whatever order, every breakdown of a collector
\* adds up to its total, and every stored average or rate is the one its
\* counts give - no event changes the counts of a rate without storing it
\* anew (the collectors of observability).
MetricsAddUp ==
  /\ \A b \in Breakdowns : CopiesIn(<<b[2]>>, collected[b[1]]) = GroupSum(collected[b[1]], b[3])
  /\ \A r \in StoredRates : stored[r] = RateOf(r, collected[CollectorOf(r)])
================================================================================
