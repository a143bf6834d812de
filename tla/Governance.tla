------------------------------ MODULE Governance ------------------------------
(***************************************************************************)
(* app/services/governance: policies, approval policies, the engine that   *)
(* judges a decision by the rules of the policies that apply to it, and    *)
(* the register of decisions.  Every worker process has its own store, to  *)
(* which its start adds the default policies anew, and rewrites one file   *)
(* that all share with every change.  No handler awaits.  Names, messages, *)
(* notes and times are left out.                                           *)
(***************************************************************************)
EXTENDS Naturals, Sequences, FiniteSets

CONSTANTS Staff,           \* the worker processes
          Submissions,     \* decisions that are submitted
          PolicyRequests,  \* policies that are created
          ApprovalRequests, \* approval policies that are created
          NoRegister,      \* a file that cannot be loaded
          MaxPolicies, MaxDecisions, MaxRequests, \* bounds
          GovFaults, GovCrashes

RuleKinds == {"CONFIDENCE_THRESHOLD", "HUMAN_IN_LOOP", "APPROVAL_REQUIRED",
              "MODEL_BLACKLIST", "RISK_LEVEL_CEILING", "CATEGORY_RESTRICTION",
              "DATA_RESIDENCY", "PII_PROHIBITION", "EXPLAINABILITY_REQUIRED"}
RuleActions == {"ALLOW", "WARN", "BLOCK", "REQUIRE_APPROVAL", "REQUIRE_HUMAN_REVIEW", "LOG_ONLY"}
Scopes == {"GLOBAL", "REGULATOR", "DOCUMENT", "WORKFLOW", "MODEL"}

\* RiskRank of "low", "medium", "high" and "critical"; a level that is not
\* known counts as 0 in a decision and as 2 in a rule.
RiskRank == 0..3

ASSUME GovernanceAssumption ==
  /\ \A d \in Submissions :
       /\ d.confidence \in 0..100 /\ d.risk \in RiskRank /\ d.approvers \in Nat
       /\ d.pii \in BOOLEAN /\ d.explained \in BOOLEAN /\ d.check \in BOOLEAN
  /\ \A p \in PolicyRequests :
       /\ DOMAIN p = {"scope", "value", "enabled", "rules"}
       /\ p.scope \in Scopes /\ p.enabled \in BOOLEAN
       /\ \A r \in p.rules : r.kind \in RuleKinds /\ r.action \in RuleActions
                             /\ r.enabled \in BOOLEAN
  /\ \A a \in ApprovalRequests : a.risk \in RiskRank /\ a.enabled \in BOOLEAN
  /\ MaxPolicies \in Nat /\ MaxDecisions \in Nat /\ MaxRequests \in Nat
  /\ GovFaults \in Nat /\ GovCrashes \in Nat

VARIABLES store,     \* policies, approval policies and decisions in each worker's memory
          govFile,   \* what the last complete write left
          touched,   \* history: the workers that have changed a policy since they started
          judged,    \* history: the decisions registered since, by each worker
          govRequests, govFaults, govCrashes

governanceVars == <<store, govFile, touched, judged, govRequests, govFaults, govCrashes>>

-----------------------------------------------------------------------------
(* GovernanceEngine._evaluate_rule *)

\* The parameter of a rule is a threshold, a number, or a set of names.
Violated(rule, d) ==
  CASE rule.kind = "CONFIDENCE_THRESHOLD" -> d.confidence < rule.param
    [] rule.kind = "HUMAN_IN_LOOP" ->
         (rule.param = {} \/ d.type \in rule.param) /\ d.approvers = 0
    [] rule.kind = "APPROVAL_REQUIRED" -> d.approvers < rule.param
    [] rule.kind = "MODEL_BLACKLIST" -> d.model \in rule.param
    [] rule.kind = "RISK_LEVEL_CEILING" -> d.risk > rule.param
    [] rule.kind = "CATEGORY_RESTRICTION" -> d.categories \cap rule.param # {}
    [] rule.kind = "DATA_RESIDENCY" -> rule.param # {} /\ d.region # {} /\ ~(d.region \subseteq rule.param)
    [] rule.kind = "PII_PROHIBITION" -> d.pii
    [] rule.kind = "EXPLAINABILITY_REQUIRED" -> ~d.explained

\* PolicyManager._policy_applies: a scope without a value is global.
Applies(p, d) ==
  \/ p.scope = "GLOBAL" \/ p.value = {}
  \/ p.scope = "MODEL" /\ d.model \in p.value
  \/ p.scope = "REGULATOR" /\ d.regulator \in p.value
  \/ p.scope \in {"WORKFLOW", "DOCUMENT"} /\ d.subject \in p.value

PoliciesFor(policies, d) ==
  {policies[i] : i \in {j \in DOMAIN policies : policies[j].enabled /\ Applies(policies[j], d)}}

\* GovernanceEngine.check: only a violated rule that blocks makes a decision
\* non-compliant, whatever else it requires.
Verdict(policies, d) ==
  LET violated == UNION {{r \in p.rules : r.enabled /\ Violated(r, d)} : p \in PoliciesFor(policies, d)}
      required == {r.action : r \in violated}
  IN  [required |-> required, compliant |-> "BLOCK" \notin required]

Unchecked == [required |-> {}, compliant |-> TRUE]

-----------------------------------------------------------------------------
(* _seed_default_policies: the identifiers are fresh, so none is found. *)

Rule(kind, action, param) == [kind |-> kind, action |-> action, enabled |-> TRUE, param |-> param]
Global(rule) == [scope |-> "GLOBAL", value |-> {}, enabled |-> TRUE, rules |-> {rule}]
Baseline == Global(Rule("CONFIDENCE_THRESHOLD", "BLOCK", 70))
Seeds == <<Baseline, Global(Rule("HUMAN_IN_LOOP", "REQUIRE_HUMAN_REVIEW", {})),
           Global(Rule("EXPLAINABILITY_REQUIRED", "WARN", {}))>>

EmptyRegister == [policies |-> <<>>, approvals |-> {}, decisions |-> <<>>]

\* Mutant of Seeded: a default policy that the file knows is not added again.
SeededOnce(register) ==
  IF register.policies = <<>> THEN [register EXCEPT !.policies = Seeds] ELSE register

Seeded(register) == [register EXCEPT !.policies = @ \o Seeds]

Loaded == IF govFile = NoRegister THEN EmptyRegister ELSE govFile

\* A write truncates the file and writes it; one that fails leaves it as it
\* was or in pieces.
WriteRegister(register) ==
  \/ govFile' = register /\ UNCHANGED govFaults
  \/ /\ govFaults < GovFaults /\ govFaults' = govFaults + 1
     /\ govFile' \in {govFile, NoRegister}

GovernanceInit ==
  /\ store = [w \in Staff |-> NoRegister] /\ govFile = EmptyRegister
  /\ touched = {} /\ judged = [w \in Staff |-> {}]
  /\ govRequests = 0 /\ govFaults = 0 /\ govCrashes = 0

\* A worker builds its service when the first request needs it.
StartService(w) ==
  /\ store[w] = NoRegister
  /\ store' = [store EXCEPT ![w] = Seeded(Loaded)]
  /\ WriteRegister(Seeded(Loaded))
  /\ UNCHANGED <<touched, judged, govRequests, govCrashes>>

EndService(w) ==
  /\ store[w] # NoRegister /\ govCrashes < GovCrashes /\ govCrashes' = govCrashes + 1
  /\ store' = [store EXCEPT ![w] = NoRegister]
  /\ touched' = touched \ {w} /\ judged' = [judged EXCEPT ![w] = {}]
  /\ UNCHANGED <<govFile, govRequests, govFaults>>

-----------------------------------------------------------------------------
(* Requests *)

InUse(w) ==
  /\ store[w] # NoRegister
  /\ govRequests < MaxRequests /\ govRequests' = govRequests + 1

Change(w, register) ==
  /\ store' = [store EXCEPT ![w] = register] /\ WriteRegister(register)
  /\ UNCHANGED govCrashes

CreatePolicy(w) ==
  /\ InUse(w) /\ Len(store[w].policies) < MaxPolicies
  /\ \E p \in PolicyRequests : Change(w, [store[w] EXCEPT !.policies = Append(@, p)])
  /\ UNCHANGED <<touched, judged>>

\* A client may switch a policy on or off; its rules are not in the request.
UpdatePolicy(w) ==
  /\ InUse(w)
  /\ \E i \in DOMAIN store[w].policies, on \in BOOLEAN :
       Change(w, [store[w] EXCEPT !.policies[i].enabled = on])
  /\ touched' = touched \cup {w} /\ UNCHANGED judged

Without(list, i) == SubSeq(list, 1, i - 1) \o SubSeq(list, i + 1, Len(list))

DeletePolicy(w) ==
  /\ InUse(w)
  /\ \E i \in DOMAIN store[w].policies :
       Change(w, [store[w] EXCEPT !.policies = Without(@, i)])
  /\ touched' = touched \cup {w} /\ UNCHANGED judged

CreateApprovalPolicy(w) ==
  /\ InUse(w)
  /\ \E a \in ApprovalRequests : Change(w, [store[w] EXCEPT !.approvals = @ \cup {a}])
  /\ UNCHANGED <<touched, judged>>

DeleteApprovalPolicy(w) ==
  /\ InUse(w)
  /\ \E a \in store[w].approvals : Change(w, [store[w] EXCEPT !.approvals = @ \ {a}])
  /\ UNCHANGED <<touched, judged>>

\* DecisionRegistry.register; nobody is asked for the approvals it matches.
RegisterDecision(w) ==
  /\ InUse(w) /\ Len(store[w].decisions) < MaxDecisions
  /\ \E d \in Submissions :
       LET entry == [of |-> d, verdict |-> IF d.check THEN Verdict(store[w].policies, d)
                                           ELSE Unchecked]
       IN  /\ Change(w, [store[w] EXCEPT !.decisions = Append(@, entry)])
           /\ judged' = [judged EXCEPT ![w] = @ \cup {entry}]
  /\ UNCHANGED touched

GovernanceNext ==
  \E w \in Staff :
    \/ StartService(w) \/ EndService(w)
    \/ CreatePolicy(w) \/ UpdatePolicy(w) \/ DeletePolicy(w)
    \/ CreateApprovalPolicy(w) \/ DeleteApprovalPolicy(w) \/ RegisterDecision(w)

GovernanceSpec == GovernanceInit /\ [][GovernanceNext]_governanceVars

-----------------------------------------------------------------------------
(* Properties *)

IsRegister(r) ==
  /\ DOMAIN r = {"policies", "approvals", "decisions"}
  /\ \A i \in DOMAIN r.policies : r.policies[i].scope \in Scopes /\ r.policies[i].enabled \in BOOLEAN
  /\ r.approvals \subseteq ApprovalRequests
  /\ \A i \in DOMAIN r.decisions :
       r.decisions[i].of \in Submissions /\ r.decisions[i].verdict.required \subseteq RuleActions

GovernanceTypeOK ==
  /\ \A w \in Staff : store[w] = NoRegister \/ IsRegister(store[w])
  /\ govFile = NoRegister \/ IsRegister(govFile)
  /\ touched \subseteq Staff

\* The default policies are in force from every start of a worker until a
\* client of that worker changes a policy: a decision it has checked and found
\* compliant meets the confidence that the baseline asks for, whatever was
\* switched off or deleted before the start, in this worker or another, and
\* whatever is left of the file.
NoUnguardedStart ==
  \A w \in Staff \ touched : \A e \in judged[w] :
    e.of.check /\ e.verdict.compliant => e.of.confidence >= 70
=============================================================================
