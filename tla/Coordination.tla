---------------------------- MODULE Coordination ----------------------------
(***************************************************************************)
(* CoordinatorAgent.coordinate of app/services/agents: the planner makes   *)
(* one step per capability, each depending on the one before, the          *)
(* distributor picks an agent for every step at once, and the steps run    *)
(* one after another on whatever the registry then has.  Other clients     *)
(* execute the same agents directly in the meantime.                       *)
(***************************************************************************)
EXTENDS AgentRuntime, Sequences

CONSTANTS
  Requests,   \* identities of coordinator requests
  Direct,     \* identities of the calls of other clients
  MaxSteps,   \* max_steps of a request
  Supports,   \* agents that support a capability
  None        \* no agent

Positions == 1..MaxSteps

ASSUME NoneAssumption == None \notin Agents
ASSUME StepsAssumption == MaxSteps \in Nat
ASSUME CallsAssumption ==
  /\ Calls = (Requests \X Positions) \cup Direct
  /\ Direct \cap (Requests \X Positions) = {}

VARIABLES
  phase,    \* "idle", "running" or the status of the answer
  caps,     \* capabilities of the steps of a plan
  target,   \* agent the distributor picked for a step, None when there was none
  next,     \* step to run next
  lost      \* steps that failed because no agent was there

coordVars == <<phase, caps, target, next, lost>>
vars == <<runtimeVars, coordVars>>

Capabilities == DOMAIN Supports
StepsOf(r) == DOMAIN caps[r]

Succeeded(r, k) == call[<<r, k>>].at = "done" /\ call[<<r, k>>].answer = "succeeded"
Over(r, k) == k \in lost[r] \/ call[<<r, k>>].at = "done"

TypeOK ==
  /\ phase \in [Requests -> {"idle", "running", "succeeded", "failed"}]
  /\ DOMAIN caps = Requests /\ DOMAIN target = Requests
  /\ \A r \in Requests : \E n \in 0..MaxSteps :
       /\ caps[r] \in [1..n -> Capabilities]
       /\ target[r] \in [1..n -> Agents \cup {None}]
  /\ next \in [Requests -> 1..(MaxSteps + 1)]
  /\ lost \in [Requests -> SUBSET Positions]

Init ==
  /\ RuntimeInit
  /\ phase = [r \in Requests |-> "idle"]
  /\ caps = [r \in Requests |-> <<>>]
  /\ target = [r \in Requests |-> <<>>]
  /\ next = [r \in Requests |-> 1]
  /\ lost = [r \in Requests |-> {}]

\* AgentDiscoveryService.select: the first healthy agent of the capability,
\* then the first.  Their order is by priority, which a registration sets: the
\* first of them is any of them.
Selectable(cap) ==
  LET able == Registered \cap Supports[cap]
      healthy == {a \in able : Healthy(a)}
  IN  IF able = {} THEN {None} ELSE IF healthy = {} THEN able ELSE healthy

\* TaskPlanner.plan and TaskDistributor.distribute.
Distribute(r) ==
  /\ phase[r] = "idle"
  /\ phase' = [phase EXCEPT ![r] = "running"]
  /\ \E n \in Positions : \E plan \in [1..n -> Capabilities] :
       \E pick \in [1..n -> Agents \cup {None}] :
         /\ \A k \in 1..n : pick[k] \in Selectable(plan[k])
         /\ caps' = [caps EXCEPT ![r] = plan]
         /\ target' = [target EXCEPT ![r] = pick]
  /\ UNCHANGED <<runtimeVars, next, lost>>

\* The agent a task finds when its turn comes.
Resolved(r, k) ==
  IF target[r][k] = None THEN Selectable(caps[r][k])
  ELSE IF target[r][k] \in Registered THEN {target[r][k]} ELSE {None}

StuckWithoutAgent(r) ==
  /\ phase[r] = "running" /\ next[r] \in StepsOf(r)
  /\ next[r] > 1 => Over(r, next[r] - 1)
  /\ \E a \in Resolved(r, next[r]) \ {None}, retries \in 0..MaxRetries :
       CallStart(<<r, next[r]>>, a, retries)
  /\ next' = [next EXCEPT ![r] = @ + 1]
  /\ UNCHANGED <<phase, caps, target, lost>>

TaskStart(r) ==
  /\ phase[r] = "running" /\ next[r] \in StepsOf(r)
  /\ next[r] > 1 => Over(r, next[r] - 1)
  /\ \E a \in Resolved(r, next[r]) :
       IF a = None
         THEN /\ lost' = [lost EXCEPT ![r] = @ \cup {next[r]}]
              /\ UNCHANGED runtimeVars
         ELSE /\ \E retries \in 0..MaxRetries : CallStart(<<r, next[r]>>, a, retries)
              /\ UNCHANGED lost
  /\ next' = [next EXCEPT ![r] = @ + 1]
  /\ UNCHANGED <<phase, caps, target>>

TaskEnds(r, k) == AttemptEnds(<<r, k>>) /\ UNCHANGED coordVars

\* ResultAggregator.aggregate: one success makes the whole a success.
AggregateEarly(r) ==
  /\ phase[r] = "running" /\ next[r] \notin StepsOf(r)
  /\ phase' = [phase EXCEPT ![r] =
       IF \E k \in StepsOf(r) : Succeeded(r, k) THEN "succeeded" ELSE "failed"]
  /\ UNCHANGED <<runtimeVars, caps, target, next, lost>>

Aggregate(r) ==
  /\ phase[r] = "running" /\ next[r] \notin StepsOf(r)
  /\ Over(r, next[r] - 1)
  /\ phase' = [phase EXCEPT ![r] =
       IF \E k \in StepsOf(r) : Succeeded(r, k) THEN "succeeded" ELSE "failed"]
  /\ UNCHANGED <<runtimeVars, caps, target, next, lost>>

Progress(r) == TaskStart(r) \/ Aggregate(r)

Next ==
  \/ \E r \in Requests : Distribute(r) \/ Progress(r)
  \/ \E r \in Requests, k \in Positions : TaskEnds(r, k)
  \/ \E c \in Direct : (Execute(c) \/ AttemptEnds(c)) /\ UNCHANGED coordVars
  \/ (\E a \in Changing : Register(a) \/ Unregister(a)) /\ UNCHANGED coordVars

Spec == Init /\ [][Next]_vars

\* The event loop resumes a coordination that can go on, and wait_for ends
\* every attempt.
FairSpec ==
  /\ Spec
  /\ \A r \in Requests : WF_vars(Progress(r))
  /\ \A r \in Requests, k \in Positions : WF_vars(TaskEnds(r, k))
  /\ \A c \in Direct : WF_vars(AttemptEnds(c) /\ UNCHANGED coordVars)

-----------------------------------------------------------------------------
(* The answer stands: once a coordination is answered every step of its     *)
(* plan was tried, and "succeeded" says that one step did succeed, whoever  *)
(* was unregistered between the distribution and a step's turn.             *)
AnswerIsComplete ==
  \A r \in Requests : phase[r] \in {"succeeded", "failed"} =>
    /\ \A k \in StepsOf(r) : Over(r, k)
    /\ phase[r] = "succeeded" <=> \E k \in StepsOf(r) : Succeeded(r, k)

(* Every coordination is answered, with agents that are gone or failing.    *)
EveryCoordinationEnds ==
  \A r \in Requests : phase[r] = "running" ~> phase[r] \in {"succeeded", "failed"}
=============================================================================
