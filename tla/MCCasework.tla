----------------------------- MODULE MCCasework -----------------------------
(***************************************************************************)
(* Small instances of the parts that keep the cases of the people using    *)
(* the program: the monitoring of sources, the assessments and             *)
(* recommendations made of what it finds, the workflows that carry them    *)
(* out, the alerts, the governance register and the accounts.  They share  *)
(* no variable, so one run checks them side by side: "focus" names the     *)
(* part that moves, the others stay in their initial state.                *)
(***************************************************************************)
EXTENDS Workflow, ComplianceChain, Surveillance, Alerting, Governance, Accounts, TLC

CONSTANTS w1, w2, p1, p2, area1, c1, c2, g1, g2, source1, source2, high, target1, mail,
          srv1, srv2

CaseFindings == {[severity |-> CRITICAL, category |-> "REGULATORY_AMENDMENT", count |-> 1]}
CaseMade == [s \in Stages |-> IF s = "diff" THEN 2 ELSE 1]

\* One source lists the same address twice in a row, its text changed in
\* between; the other lists it second.
CaseListings ==
  [s \in Sources |->
     IF s = source1 THEN {<<[url |-> "a", version |-> v]>> : v \in {"1", "2"}}
     ELSE {<<[url |-> "b", version |-> NoVersion], [url |-> "a", version |-> "1"]>>}]

CaseSubscriptions == {[severities |-> {high}, target |-> target1]}

CaseDecision ==
  [confidence |-> 50, risk |-> 3, type |-> "ANSWER", model |-> "m1", subject |-> "s1",
   regulator |-> "RBI", approvers |-> 0, categories |-> {"privacy"}, region |-> {"eu"},
   pii |-> TRUE, explained |-> FALSE, check |-> TRUE]
CaseSubmissions == {CaseDecision, [CaseDecision EXCEPT !.check = FALSE]}
CaseRules ==
  {[kind |-> r, action |-> "WARN", enabled |-> TRUE,
    param |-> IF r \in {"CONFIDENCE_THRESHOLD", "APPROVAL_REQUIRED", "RISK_LEVEL_CEILING"}
              THEN 1 ELSE {"m1", "us"}] : r \in RuleKinds}
CasePolicies ==
  {[scope |-> s, value |-> {"m1"}, enabled |-> TRUE, rules |-> CaseRules] : s \in {"MODEL", "DOCUMENT"}}
CaseApprovals == {[risk |-> 2, enabled |-> TRUE, types |-> {"ANSWER"}]}

CaseSeeds == <<"a@x">>
ServerSymmetry == Permutations(Servers)
CaseBuiltIns == ("admin" :> {"*"}) @@ ("viewer" :> {"r"})

-----------------------------------------------------------------------------
Parts == {"workflow", "chain", "surveillance", "alerting", "governance", "accounts"}
VARIABLE focus

CaseworkInit ==
  /\ focus \in Parts
  /\ WorkflowInit /\ ChainInit /\ SurveillanceInit /\ AlertingInit /\ GovernanceInit /\ AccountsInit

Moves(part) ==
  /\ focus = part /\ UNCHANGED focus
  /\ part # "workflow" => UNCHANGED workflowVars
  /\ part # "chain" => UNCHANGED chainVars
  /\ part # "surveillance" => UNCHANGED surveillanceVars
  /\ part # "alerting" => UNCHANGED alertingVars
  /\ part # "governance" => UNCHANGED governanceVars
  /\ part # "accounts" => UNCHANGED accountVars

CaseworkNext ==
  \/ Moves("workflow") /\ WorkflowNext
  \/ Moves("chain") /\ ChainNext
  \/ Moves("surveillance") /\ SurveillanceNext
  \/ Moves("alerting") /\ AlertingNext
  \/ Moves("governance") /\ GovernanceNext
  \/ Moves("accounts") /\ AccountsNext

caseworkVars ==
  <<focus, workflowVars, chainVars, surveillanceVars, alertingVars, governanceVars, accountVars>>
CaseworkSpec == CaseworkInit /\ [][CaseworkNext]_caseworkVars

-----------------------------------------------------------------------------
\* The part that moves keeps its types.
CaseworkTypesOK ==
  /\ focus = "workflow" => WorkflowTypeOK
  /\ focus = "chain" => ChainTypeOK
  /\ focus = "surveillance" => SurveillanceTypeOK
  /\ focus = "alerting" => AlertingTypeOK
  /\ focus = "governance" => GovernanceTypeOK
  /\ focus = "accounts" => AccountsTypeOK
=============================================================================
