--------------------------- MODULE Orchestration ---------------------------
(***************************************************************************)
(* AgentOrchestrator.orchestrate of app/services/orchestration: several    *)
(* orchestrations at a time run the steps of a plan in waves, each step by *)
(* a call of the agent framework, and promote the outputs to one evidence  *)
(* store they all share.  Runs of a registered WorkflowDefinition share    *)
(* the plan as well: the graph object itself, not a copy.                  *)
(*                                                                         *)
(* Where the code resumes a coroutine without suspending it, this module   *)
(* takes several steps: it allows every interleaving of the code and more. *)
(***************************************************************************)
EXTENDS Naturals, Sequences

CONSTANTS
  Agents, MaxRetries, MaxInstances, FailureLimit, Changing,  \* see AgentRuntime
  Orchs,      \* identities of orchestrations
  MaxSteps,   \* bound on the steps of a plan
  Plans,      \* identities of graph objects
  PlanOf,     \* the graph object an orchestration runs
  Graphs,     \* what a graph object may hold to begin with
  Supports,   \* agents that support a capability
  AnyAgent,   \* the name "*" of a step that is open to every agent
  None        \* no agent, no contribution

ASSUME FrameworkAssumption ==
  /\ MaxRetries \in Nat /\ MaxInstances \in Nat \ {0} /\ FailureLimit \in Nat \ {0}
  /\ Changing \subseteq Agents
ASSUME PlanAssumption == PlanOf \in [Orchs -> Plans]
ASSUME NamesAssumption == AnyAgent \notin Agents /\ None \notin Agents \cup {AnyAgent}

VARIABLES
  inst, status, failures, call,  \* see AgentRuntime
  plan,         \* contents of a graph object
  phase,        \* how far an orchestration is
  pending,      \* positions of the steps no closed wave ran
  wave,         \* positions of the steps of the wave that is open
  chosen,       \* the agent a step of a parallel wave was dispatched to
  contributor,  \* agent_name of a step's contribution, None before it ran
  outputs,      \* steps that contributed an output
  evidence,     \* SharedEvidenceStore: the steps whose outputs it holds
  result        \* shared_evidence of the answer

Positions == 1..MaxSteps

\* An AgentExecutionGraph: steps in a list, every one with an agent's name.
IsGraph(g) ==
  /\ DOMAIN g = {"mode", "steps"}
  /\ DOMAIN g.steps \subseteq Positions
  /\ \A k \in DOMAIN g.steps : 1..k \subseteq DOMAIN g.steps
  /\ \A k \in DOMAIN g.steps : DOMAIN g.steps[k] = {"id", "agent", "cap", "deps"}
                              /\ g.steps[k].agent # None

ASSUME GraphsAssumption == \A g \in Graphs : IsGraph(g)

\* One engine run per step.
INSTANCE AgentRuntime WITH Calls <- Orchs \X Positions

frameworkVars == <<inst, status, failures, call>>
orchVars == <<plan, phase, pending, wave, chosen, contributor, outputs, evidence,
              result>>
vars == <<frameworkVars, orchVars>>

GraphOf(o) == plan[PlanOf[o]]
StepsOf(o) == DOMAIN GraphOf(o).steps
Step(o, k) == GraphOf(o).steps[k]

Started(o, k) == contributor[o][k] # None
Over(o, k) == Started(o, k) /\ call[<<o, k>>].at # "running"

\* Agent names of the contributions that closed waves made.
Completed(o) == {contributor[o][k] : k \in StepsOf(o) \ pending[o]}

\* Whoever reads a graph finds the names the last dispatch left in it.
TypeOK ==
  /\ RuntimeTypeOK
  /\ DOMAIN plan = Plans
  /\ \A p \in Plans : \E g \in Graphs :
       /\ plan[p].mode = g.mode
       /\ DOMAIN plan[p].steps = DOMAIN g.steps
       /\ \A k \in DOMAIN g.steps :
            /\ plan[p].steps[k].agent \in Agents \cup {g.steps[k].agent}
            /\ \A field \in {"id", "cap", "deps"} :
                 plan[p].steps[k][field] = g.steps[k][field]
  /\ phase \in [Orchs -> {"idle", "running", "done"}]
  /\ pending \in [Orchs -> SUBSET Positions]
  /\ wave \in [Orchs -> SUBSET Positions]
  /\ \A o \in Orchs : wave[o] \subseteq pending[o]
  /\ chosen \in [Orchs -> [Positions -> Agents \cup {None}]]
  /\ DOMAIN contributor = Orchs
  /\ outputs \in [Orchs -> SUBSET Positions]
  /\ evidence \subseteq Orchs \X Positions
  /\ result \in [Orchs -> SUBSET (Orchs \X Positions)]

Init ==
  /\ RuntimeInit
  /\ plan \in [Plans -> Graphs]
  /\ phase = [o \in Orchs |-> "idle"]
  /\ pending = [o \in Orchs |-> {}]
  /\ wave = [o \in Orchs |-> {}]
  /\ chosen = [o \in Orchs |-> [k \in Positions |-> None]]
  /\ contributor = [o \in Orchs |-> [k \in Positions |-> None]]
  /\ outputs = [o \in Orchs |-> {}]
  /\ evidence = {}
  /\ result = [o \in Orchs |-> {}]

-----------------------------------------------------------------------------
(* TaskCoordinator.dispatch: CapabilityBasedRouter, then                    *)
(* AgentSelectionPolicy.  The router lists agents in the order of their     *)
(* registrations, which any registration changes: the first of a list is    *)
(* any of it.                                                               *)

Candidates(step) ==
  IF step.agent \in Registered
    THEN {step.agent}
    ELSE LET able == Registered \cap Supports[step.cap]
         IN  IF able = {} THEN Registered ELSE able

HealthyFirst(step) ==
  LET healthy == {a \in Candidates(step) : Healthy(a)}
  IN  IF Candidates(step) = {} THEN {None}
      ELSE IF healthy = {} THEN Candidates(step) ELSE healthy

Selectable(step) ==
  IF step.agent \in Registered THEN {step.agent} ELSE HealthyFirst(step)

\* dispatch writes the name of the agent it picked into the step.
Named(step, a) == IF a = None THEN step ELSE [step EXCEPT !.agent = a]

Dispatch(o, pick) ==
  plan' = [plan EXCEPT ![PlanOf[o]].steps =
             [k \in DOMAIN @ |-> IF k \in DOMAIN pick THEN Named(@[k], pick[k])
                                 ELSE @[k]]]

-----------------------------------------------------------------------------
(* AgentOrchestrator.orchestrate                                            *)

Begin(o) ==
  /\ phase[o] = "idle"
  /\ phase' = [phase EXCEPT ![o] = "running"]
  /\ pending' = [pending EXCEPT ![o] = StepsOf(o)]
  /\ evidence' = {}
  /\ UNCHANGED <<frameworkVars, plan, wave, chosen, contributor, outputs, result>>

Ready(o) ==
  {k \in pending[o] : \A d \in Step(o, k).deps : d \in Completed(o)}

ReadyOrAll(o) == IF Ready(o) # {} THEN Ready(o) ELSE pending[o]

\* Circular or broken dependencies: the first step that is left.
Eligible(o) ==
  IF Ready(o) # {} THEN Ready(o)
  ELSE {k \in pending[o] : \A j \in pending[o] : k <= j}

\* A parallel wave is dispatched as a whole before any of its steps runs.
OpenWave(o) ==
  /\ phase[o] = "running" /\ wave[o] = {} /\ Eligible(o) # {}
  /\ wave' = [wave EXCEPT ![o] = Eligible(o)]
  /\ IF GraphOf(o).mode = "parallel"
       THEN \E pick \in [Eligible(o) -> Agents \cup {None}] :
              /\ \A k \in Eligible(o) : pick[k] \in Selectable(Step(o, k))
              /\ Dispatch(o, pick)
              /\ chosen' = [chosen EXCEPT ![o] =
                    [k \in Positions |-> IF k \in Eligible(o) THEN pick[k] ELSE None]]
       ELSE UNCHANGED <<plan, chosen>>
  /\ UNCHANGED <<frameworkVars, phase, pending, contributor, outputs, evidence, result>>

\* OrchestrationEngine.run_step, up to the agent's first attempt.
RunStep(o, k, a) ==
  /\ IF a = None
       THEN UNCHANGED frameworkVars
       ELSE \E retries \in 0..MaxRetries : CallStart(<<o, k>>, a, retries)
  /\ contributor' = [contributor EXCEPT ![o][k] =
                       IF a = None THEN Step(o, k).agent ELSE a]

StepStart(o, k) ==
  /\ k \in wave[o] /\ ~Started(o, k)
  /\ \A j \in wave[o] : j < k => Started(o, j)
  /\ IF GraphOf(o).mode = "parallel"
       THEN /\ RunStep(o, k, chosen[o][k])
            /\ chosen' = [chosen EXCEPT ![o][k] = None]
            /\ UNCHANGED plan
       ELSE /\ \A j \in wave[o] : j < k => Over(o, j)
            /\ \E a \in Selectable(Step(o, k)) :
                 /\ Dispatch(o, [j \in {k} |-> a])
                 /\ RunStep(o, k, a)
            /\ UNCHANGED chosen
  /\ UNCHANGED <<phase, pending, wave, outputs, evidence, result>>

EndAbandons(o, k) ==
  /\ call[<<o, k>>].at = "running"
  /\ Answer(<<o, k>>, "gave_up")
  /\ UNCHANGED <<inst, status, failures, orchVars>>

\* An attempt ends; a result of the agent, good or not, may carry an output.
StepEnds(o, k) ==
  /\ AttemptEnds(<<o, k>>)
  /\ outputs' \in
       {outputs} \cup
       (IF call'[<<o, k>>].at = "done"
             /\ call'[<<o, k>>].answer \in {"succeeded", "refused"}
          THEN {[outputs EXCEPT ![o] = @ \cup {k}]} ELSE {})
  /\ UNCHANGED <<plan, phase, pending, wave, chosen, contributor, evidence, result>>

\* gather returned, or the last step of a sequential wave.
CloseWave(o) ==
  /\ wave[o] # {} /\ \A k \in wave[o] : Over(o, k)
  /\ pending' = [pending EXCEPT ![o] = @ \ wave[o]]
  /\ wave' = [wave EXCEPT ![o] = {}]
  /\ UNCHANGED <<frameworkVars, plan, phase, chosen, contributor, outputs, evidence,
                 result>>

FinishReadsFirst(o) ==
  /\ phase[o] = "running" /\ pending[o] = {}
  /\ phase' = [phase EXCEPT ![o] = "done"]
  /\ result' = [result EXCEPT ![o] = evidence]
  /\ evidence' = evidence \cup ({o} \X outputs[o])
  /\ UNCHANGED <<frameworkVars, plan, pending, wave, chosen, contributor, outputs>>

\* Every output becomes evidence and the answer reads the whole store.
Finish(o) ==
  /\ phase[o] = "running" /\ pending[o] = {}
  /\ phase' = [phase EXCEPT ![o] = "done"]
  /\ evidence' = evidence \cup ({o} \X outputs[o])
  /\ result' = [result EXCEPT ![o] = evidence']
  /\ UNCHANGED <<frameworkVars, plan, pending, wave, chosen, contributor, outputs>>

Progress(o) ==
  \/ OpenWave(o) \/ CloseWave(o) \/ Finish(o)
  \/ \E k \in Positions : StepStart(o, k)

Registration == \E a \in Changing : Register(a) \/ Unregister(a)

Next ==
  \/ \E o \in Orchs : Begin(o) \/ Progress(o)
  \/ \E o \in Orchs, k \in Positions : StepEnds(o, k)
  \/ Registration /\ UNCHANGED orchVars

Spec == Init /\ [][Next]_vars

\* The event loop resumes every coroutine that can go on, and wait_for ends
\* every attempt.
FairSpec ==
  /\ Spec
  /\ \A o \in Orchs : WF_vars(Progress(o))
  /\ \A o \in Orchs, k \in Positions : WF_vars(StepEnds(o, k))

-----------------------------------------------------------------------------
(* An answer is complete: when an orchestration is done, every step of its  *)
(* graph ran and none of its calls is still running, whatever was           *)
(* registered or failed meanwhile and however the dependencies look.        *)
FinishedIsComplete ==
  \A o \in Orchs : phase[o] = "done" => \A k \in StepsOf(o) : Over(o, k)

(* The graph build_default_graph makes, each step depending on the one      *)
(* before, runs its steps one after another in both modes, although         *)
(* dependencies are compared with agent names and no step of it is ever     *)
(* found ready but the first.                                               *)
IsChain(g) ==
  \A k \in DOMAIN g.steps :
    g.steps[k].deps = IF k = 1 THEN {} ELSE {g.steps[k - 1].id}

ChainInOrder ==
  \A o \in Orchs : IsChain(GraphOf(o)) =>
    \A j, k \in StepsOf(o) : j < k /\ Started(o, k) => Over(o, j)

(* The answer holds the outputs of its own steps, although every            *)
(* orchestration that begins clears the store all of them share.            *)
OwnEvidenceKept ==
  \A o \in Orchs : phase[o] = "done" => {o} \X outputs[o] \subseteq result[o]

(* Every orchestration that began ends, with circular or broken             *)
(* dependencies too, and without any agent.                                 *)
EveryOrchestrationEnds == \A o \in Orchs : phase[o] = "running" ~> phase[o] = "done"

-----------------------------------------------------------------------------
(* What the repository says and the code does not do.                       *)

(* "A step is eligible when all its deps are done": no step starts before   *)
(* the steps its dependencies name.                                         *)
DependenciesRespected ==
  \A o \in Orchs : \A j, k \in StepsOf(o) :
    Started(o, k) /\ Step(o, j).id \in Step(o, k).deps => Over(o, j)

=============================================================================
