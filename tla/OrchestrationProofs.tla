------------------------ MODULE OrchestrationProofs ------------------------
(***************************************************************************)
(* Proofs about Orchestration, for any number of orchestrations, plans,    *)
(* agents and steps: an answer is complete and holds its own outputs.      *)
(* Neither is inductive.  What carries them is that a call runs only for a *)
(* step of the open wave, that the open wave is pending, and that every    *)
(* step that is no longer pending is over.                                 *)
(***************************************************************************)
EXTENDS Orchestration, TLAPS

Shapes ==
  /\ plan \in [Plans -> {plan[p] : p \in Plans}]
  /\ \A p \in Plans : IsGraph(plan[p])
  /\ DOMAIN call = Orchs \X Positions
  /\ phase \in [Orchs -> {"idle", "running", "done"}]
  /\ pending \in [Orchs -> SUBSET Positions]
  /\ wave \in [Orchs -> SUBSET Positions]
  /\ DOMAIN contributor = Orchs
  /\ \A o \in Orchs : DOMAIN contributor[o] = Positions
  /\ outputs \in [Orchs -> SUBSET Positions]
  /\ DOMAIN result = Orchs

\* A wave is opened from the pending steps, and runs the only calls there are.
CallsInWave ==
  \A o \in Orchs :
    /\ wave[o] \subseteq pending[o]
    /\ pending[o] \subseteq StepsOf(o)
    /\ \A k \in Positions : call[<<o, k>>].at = "running" => k \in wave[o]

Behind ==
  \A o \in Orchs :
    /\ phase[o] # "idle" => \A k \in StepsOf(o) \ pending[o] : Over(o, k)
    /\ phase[o] = "done" => pending[o] = {}

OInv == Shapes /\ CallsInWave /\ Behind /\ OwnEvidenceKept

LEMMA OInvInit == Init => OInv
<1> SUFFICES ASSUME Init PROVE OInv
  OBVIOUS
<1>1. call = [c \in Orchs \X Positions |-> [at |-> "idle"]]
  BY DEF Init, RuntimeInit, IdleCall
<1>2. Shapes
  BY <1>1, GraphsAssumption DEF Init, Shapes
<1>3. CallsInWave
  BY <1>1 DEF Init, CallsInWave
<1>4. Behind /\ OwnEvidenceKept
  BY DEF Init, Behind, OwnEvidenceKept
<1>5. QED
  BY <1>2, <1>3, <1>4 DEF OInv

\* What a step of the framework does to the calls.
LEMMA CallStartEffect ==
  ASSUME NEW c, c \in DOMAIN call, NEW a, NEW retries, CallStart(c, a, retries)
  PROVE  /\ DOMAIN call' = DOMAIN call
         /\ \A d \in DOMAIN call : d # c => call'[d] = call[d]
BY DEF CallStart

LEMMA AttemptEffect ==
  ASSUME NEW c, c \in DOMAIN call, AttemptEnds(c)
  PROVE  /\ DOMAIN call' = DOMAIN call
         /\ \A d \in DOMAIN call : d # c => call'[d] = call[d]
         /\ call[c].at = "running"
BY DEF AttemptEnds, AttemptReturns, AttemptFails, RetryOrGiveUp, Answer

\* dispatch writes names into steps and changes nothing else of a graph.
LEMMA DispatchEffect ==
  ASSUME Shapes, NEW o \in Orchs, NEW pick, Dispatch(o, pick)
  PROVE  /\ plan' \in [Plans -> {plan'[p] : p \in Plans}]
         /\ \A p \in Plans : IsGraph(plan'[p])
         /\ \A p \in Plans : DOMAIN plan'[p].steps = DOMAIN plan[p].steps
<1>1. PlanOf[o] \in Plans
  BY PlanAssumption
<1> DEFINE q == PlanOf[o]
           new == [k \in DOMAIN plan[q].steps |->
                     IF k \in DOMAIN pick THEN Named(plan[q].steps[k], pick[k])
                     ELSE plan[q].steps[k]]
<1>2. plan' = [plan EXCEPT ![q] = [plan[q] EXCEPT !.steps = new]]
  BY DEF Dispatch
<1>3. IsGraph(plan[q]) /\ DOMAIN plan = Plans
  BY <1>1 DEF Shapes
<1>4. /\ plan'[q] = [plan[q] EXCEPT !.steps = new]
      /\ \A p \in Plans : p # q => plan'[p] = plan[p]
      /\ plan' \in [Plans -> {plan'[p] : p \in Plans}]
  BY <1>1, <1>2, <1>3
<1>5. DOMAIN plan'[q] = {"mode", "steps"} /\ plan'[q].steps = new
  BY <1>3, <1>4 DEF IsGraph
<1>6. ASSUME NEW k \in DOMAIN plan[q].steps
      PROVE  /\ DOMAIN new[k] = {"id", "agent", "cap", "deps"}
             /\ new[k].agent # None
  <2>1. /\ DOMAIN plan[q].steps[k] = {"id", "agent", "cap", "deps"}
        /\ plan[q].steps[k].agent # None
    BY <1>3 DEF IsGraph
  <2>2. QED
    BY <2>1 DEF Named
<1> HIDE DEF new
<1>7. DOMAIN new = DOMAIN plan[q].steps
  BY DEF new
<1>8. IsGraph(plan'[q])
  BY <1>3, <1>5, <1>6, <1>7 DEF IsGraph
<1>9. \A p \in Plans : IsGraph(plan'[p])
  BY <1>4, <1>8 DEF Shapes
<1>10. \A p \in Plans : DOMAIN plan'[p].steps = DOMAIN plan[p].steps
  BY <1>4, <1>5, <1>7
<1>11. QED
  BY <1>4, <1>9, <1>10

LEMMA BeginInv ==
  ASSUME OInv, NEW o \in Orchs, Begin(o)
  PROVE  OInv'
<1> USE DEF frameworkVars
<1>1. StepsOf(o) \subseteq Positions
  BY PlanAssumption DEF OInv, Shapes, IsGraph, StepsOf, GraphOf
<1>2. Shapes'
  BY <1>1 DEF Begin, OInv, Shapes
<1>3. CallsInWave'
  BY <1>1 DEF Begin, OInv, Shapes, CallsInWave, Behind, StepsOf, GraphOf
<1>4. Behind'
  BY DEF Begin, OInv, Shapes, Behind, StepsOf, GraphOf, Over, Started
<1>5. OwnEvidenceKept'
  BY DEF Begin, OInv, Shapes, OwnEvidenceKept
<1>6. QED
  BY <1>2, <1>3, <1>4, <1>5 DEF OInv

LEMMA OpenWaveInv ==
  ASSUME OInv, NEW o \in Orchs, OpenWave(o)
  PROVE  OInv'
<1> USE DEF frameworkVars
<1>1. Eligible(o) \subseteq pending[o]
  BY DEF Eligible, Ready
<1>2. /\ wave' = [wave EXCEPT ![o] = Eligible(o)]
      /\ UNCHANGED <<call, phase, pending, contributor, outputs, result>>
      /\ wave[o] = {}
  BY DEF OpenWave
<1>3. /\ plan' \in [Plans -> {plan'[p] : p \in Plans}]
      /\ \A p \in Plans : IsGraph(plan'[p])
      /\ \A p \in Plans : DOMAIN plan'[p].steps = DOMAIN plan[p].steps
  <2>1. CASE UNCHANGED plan
    BY <2>1 DEF OInv, Shapes
  <2>2. CASE \E pick \in [Eligible(o) -> Agents \cup {None}] : Dispatch(o, pick)
    BY <2>2, DispatchEffect DEF OInv
  <2>3. QED
    BY <2>1, <2>2 DEF OpenWave
<1>4. \A p \in Orchs : StepsOf(p)' = StepsOf(p)
  BY <1>3, PlanAssumption DEF StepsOf, GraphOf
<1>5. Shapes'
  BY <1>1, <1>2, <1>3 DEF OInv, Shapes
<1>6. CallsInWave'
  BY <1>1, <1>2, <1>4 DEF OInv, Shapes, CallsInWave
<1>7. Behind'
  BY <1>2, <1>4 DEF OInv, Behind, Over, Started
<1>8. OwnEvidenceKept'
  BY <1>2 DEF OInv, OwnEvidenceKept
<1>9. QED
  BY <1>5, <1>6, <1>7, <1>8 DEF OInv

LEMMA StepStartInv ==
  ASSUME OInv, NEW o \in Orchs, NEW k \in Positions, StepStart(o, k)
  PROVE  OInv'
<1> DEFINE c == <<o, k>>
<1>1. /\ k \in wave[o] /\ ~Started(o, k)
      /\ UNCHANGED <<phase, pending, wave, outputs, result>>
  BY DEF StepStart
<1>2. k \in pending[o] /\ k \in StepsOf(o)
  BY <1>1 DEF OInv, CallsInWave
<1>3. /\ plan' \in [Plans -> {plan'[p] : p \in Plans}]
      /\ \A p \in Plans : IsGraph(plan'[p])
      /\ \A p \in Plans : DOMAIN plan'[p].steps = DOMAIN plan[p].steps
  <2>1. CASE UNCHANGED plan
    BY <2>1 DEF OInv, Shapes
  <2>2. CASE \E a \in Selectable(Step(o, k)) : Dispatch(o, [j \in {k} |-> a])
    BY <2>2, DispatchEffect DEF OInv
  <2>3. QED
    BY <2>1, <2>2 DEF StepStart
<1>4. \A p \in Orchs : StepsOf(p)' = StepsOf(p)
  BY <1>3, PlanAssumption DEF StepsOf, GraphOf
<1>5. PICK a : RunStep(o, k, a)
  BY DEF StepStart
<1>6. /\ DOMAIN call' = DOMAIN call
      /\ \A d \in DOMAIN call : d # c => call'[d] = call[d]
  <2>1. c \in DOMAIN call
    BY DEF OInv, Shapes
  <2>2. CASE a = None
    BY <1>5, <2>2 DEF RunStep, frameworkVars
  <2>3. CASE a # None
    <3>1. PICK retries \in 0..MaxRetries : CallStart(c, a, retries)
      BY <1>5, <2>3 DEF RunStep
    <3>2. QED
      BY <2>1, <3>1, CallStartEffect
  <2>4. QED
    BY <2>2, <2>3
<1>7. PICK name : contributor' = [contributor EXCEPT ![o][k] = name]
  BY <1>5 DEF RunStep
<1>8. Shapes'
  BY <1>1, <1>3, <1>6, <1>7 DEF OInv, Shapes
<1>9. CallsInWave'
  <2> SUFFICES ASSUME NEW p \in Orchs
               PROVE  /\ wave'[p] \subseteq pending'[p]
                      /\ pending'[p] \subseteq StepsOf(p)'
                      /\ \A j \in Positions :
                           call'[<<p, j>>].at = "running" => j \in wave'[p]
    BY DEF CallsInWave
  <2>1. wave'[p] \subseteq pending'[p] /\ pending'[p] \subseteq StepsOf(p)'
    BY <1>1, <1>4 DEF OInv, CallsInWave
  <2>2. ASSUME NEW j \in Positions, call'[<<p, j>>].at = "running"
        PROVE  j \in wave'[p]
    <3>1. CASE <<p, j>> = c
      BY <3>1, <1>1
    <3>2. CASE <<p, j>> # c
      BY <3>2, <2>2, <1>1, <1>6 DEF OInv, Shapes, CallsInWave
    <3>3. QED
      BY <3>1, <3>2
  <2>3. QED
    BY <2>1, <2>2
<1>10. Behind'
  <2> SUFFICES ASSUME NEW p \in Orchs
               PROVE  /\ phase'[p] # "idle" =>
                           \A j \in StepsOf(p)' \ pending'[p] : Over(p, j)'
                      /\ phase'[p] = "done" => pending'[p] = {}
    BY DEF Behind
  <2>1. phase'[p] = "done" => pending'[p] = {}
    BY <1>1 DEF OInv, Behind
  <2>2. ASSUME NEW j \in StepsOf(p) \ pending[p], phase[p] # "idle"
        PROVE  Over(p, j)'
    <3>1. Over(p, j) /\ j \in Positions
      BY <2>2, PlanAssumption DEF OInv, Behind, Shapes, IsGraph, StepsOf, GraphOf
    <3>2. <<p, j>> # c
      BY <1>2, <2>2
    <3>3. call'[<<p, j>>] = call[<<p, j>>] /\ contributor'[p][j] = contributor[p][j]
      BY <3>1, <3>2, <1>6, <1>7 DEF OInv, Shapes
    <3>4. QED
      BY <3>1, <3>3 DEF Over, Started
  <2>3. QED
    BY <1>1, <1>4, <2>1, <2>2
<1>11. OwnEvidenceKept'
  BY <1>1 DEF OInv, OwnEvidenceKept
<1>12. QED
  BY <1>8, <1>9, <1>10, <1>11 DEF OInv

\* A call that ends is one of an open wave: its orchestration is not done, and
\* what it contributes is not yet missed in any answer.
LEMMA StepEndsInv ==
  ASSUME OInv, NEW o \in Orchs, NEW k \in Positions, StepEnds(o, k)
  PROVE  OInv'
<1> DEFINE c == <<o, k>>
<1>1. /\ AttemptEnds(c)
      /\ UNCHANGED <<plan, phase, pending, wave, contributor, result>>
      /\ outputs' = outputs \/ outputs' = [outputs EXCEPT ![o] = @ \cup {k}]
  BY DEF StepEnds
<1>2. c \in DOMAIN call
  BY DEF OInv, Shapes
<1>3. /\ DOMAIN call' = DOMAIN call
      /\ \A d \in DOMAIN call : d # c => call'[d] = call[d]
      /\ call[c].at = "running"
  BY <1>1, <1>2, AttemptEffect
<1>4. k \in wave[o] /\ k \in pending[o] /\ phase[o] # "done"
  BY <1>3 DEF OInv, CallsInWave, Behind
<1>5. Shapes'
  BY <1>1, <1>3 DEF OInv, Shapes
<1>6. CallsInWave'
  <2>1. ASSUME NEW p \in Orchs, NEW j \in Positions, call'[<<p, j>>].at = "running"
        PROVE  j \in wave[p]
    <3>1. CASE <<p, j>> = c
      BY <3>1, <1>4
    <3>2. CASE <<p, j>> # c
      BY <3>2, <2>1, <1>3 DEF OInv, Shapes, CallsInWave
    <3>3. QED
      BY <3>1, <3>2
  <2>2. QED
    BY <2>1, <1>1 DEF OInv, CallsInWave, StepsOf, GraphOf
<1>7. Behind'
  <2>1. ASSUME NEW p \in Orchs, phase[p] # "idle", NEW j \in StepsOf(p) \ pending[p]
        PROVE  Over(p, j)'
    <3>1. Over(p, j) /\ j \in Positions
      BY <2>1, PlanAssumption DEF OInv, Behind, Shapes, IsGraph, StepsOf, GraphOf
    <3>2. <<p, j>> # c
      BY <1>4, <2>1
    <3>3. call'[<<p, j>>] = call[<<p, j>>]
      BY <3>1, <3>2, <1>3 DEF OInv, Shapes
    <3>4. QED
      BY <3>1, <3>3, <1>1 DEF Over, Started
  <2>2. QED
    BY <2>1, <1>1 DEF OInv, Behind, StepsOf, GraphOf
<1>8. OwnEvidenceKept'
  <2>1. \A p \in Orchs : phase[p] = "done" => outputs'[p] = outputs[p]
    BY <1>1, <1>4 DEF OInv, Shapes
  <2>2. QED
    BY <2>1, <1>1 DEF OInv, OwnEvidenceKept
<1>9. QED
  BY <1>5, <1>6, <1>7, <1>8 DEF OInv

LEMMA CloseWaveInv ==
  ASSUME OInv, NEW o \in Orchs, CloseWave(o)
  PROVE  OInv'
<1>1. /\ \A k \in wave[o] : Over(o, k)
      /\ pending' = [pending EXCEPT ![o] = @ \ wave[o]]
      /\ wave' = [wave EXCEPT ![o] = {}]
      /\ UNCHANGED <<call, plan, phase, contributor, outputs, result>>
  BY DEF CloseWave, frameworkVars
<1>2. Shapes'
  BY <1>1 DEF OInv, Shapes
<1>3. CallsInWave'
  BY <1>1 DEF OInv, Shapes, CallsInWave, Over, StepsOf, GraphOf
<1>4. Behind'
  BY <1>1 DEF OInv, Shapes, Behind, Over, Started, StepsOf, GraphOf
<1>5. OwnEvidenceKept'
  BY <1>1 DEF OInv, OwnEvidenceKept
<1>6. QED
  BY <1>2, <1>3, <1>4, <1>5 DEF OInv

LEMMA FinishInv ==
  ASSUME OInv, NEW o \in Orchs, Finish(o)
  PROVE  OInv'
<1>1. /\ pending[o] = {} /\ phase[o] = "running"
      /\ phase' = [phase EXCEPT ![o] = "done"]
      /\ result' = [result EXCEPT ![o] = evidence \cup ({o} \X outputs[o])]
      /\ UNCHANGED <<call, plan, pending, wave, contributor, outputs>>
  BY DEF Finish, frameworkVars
<1>2. Shapes'
  BY <1>1 DEF OInv, Shapes
<1>3. CallsInWave'
  BY <1>1 DEF OInv, CallsInWave, StepsOf, GraphOf
<1>4. Behind'
  BY <1>1 DEF OInv, Shapes, Behind, Over, Started, StepsOf, GraphOf
<1>5. OwnEvidenceKept'
  BY <1>1 DEF OInv, Shapes, OwnEvidenceKept
<1>6. QED
  BY <1>2, <1>3, <1>4, <1>5 DEF OInv

LEMMA RegistrationInv ==
  ASSUME OInv, Registration, UNCHANGED orchVars
  PROVE  OInv'
<1>1. call' = call
  BY DEF Registration, Register, Unregister
<1>2. QED
  BY <1>1 DEF orchVars, OInv, Shapes, CallsInWave, Behind, OwnEvidenceKept, Over,
              Started, StepsOf, GraphOf

LEMMA OInvStep == OInv /\ [Next]_vars => OInv'
<1> SUFFICES ASSUME OInv, [Next]_vars
             PROVE  OInv'
  OBVIOUS
<1>1. ASSUME NEW o \in Orchs, Begin(o)
      PROVE  OInv'
  BY <1>1, BeginInv
<1>2. ASSUME NEW o \in Orchs, Progress(o)
      PROVE  OInv'
  BY <1>2, OpenWaveInv, StepStartInv, CloseWaveInv, FinishInv DEF Progress
<1>3. ASSUME NEW o \in Orchs, NEW k \in Positions, StepEnds(o, k)
      PROVE  OInv'
  BY <1>3, StepEndsInv
<1>4. CASE Registration /\ UNCHANGED orchVars
  BY <1>4, RegistrationInv
<1>5. CASE UNCHANGED vars
  BY <1>5 DEF vars, frameworkVars, orchVars, OInv, Shapes, CallsInWave, Behind,
              OwnEvidenceKept, Over, Started, StepsOf, GraphOf
<1>6. QED
  BY <1>1, <1>2, <1>3, <1>4, <1>5 DEF Next

(* The strengthening holds in every reachable state.                        *)
THEOREM Invariance == Spec => []OInv
<1>1. QED
  BY OInvInit, OInvStep, PTL DEF Spec

(* Every answer is complete: no step of the graph is skipped and no call of *)
(* it is left running.                                                      *)
THEOREM AnswersComplete == Spec => []FinishedIsComplete
<1>1. OInv => FinishedIsComplete
  BY DEF OInv, Behind, FinishedIsComplete
<1>2. QED
  BY Invariance, <1>1, PTL

(* Every answer holds the outputs of its own steps, however many            *)
(* orchestrations clear the shared store meanwhile.                         *)
THEOREM AnswersKeepOwnEvidence == Spec => []OwnEvidenceKept
<1>1. OInv => OwnEvidenceKept
  BY DEF OInv
<1>2. QED
  BY Invariance, <1>1, PTL

-----------------------------------------------------------------------------
(* The orchestrator uses the framework as any client does.                  *)

ChosenAgents == chosen \in [Orchs -> [Positions -> Agents \cup {None}]]

LEMMA ChosenStep == ChosenAgents /\ [Next]_vars => ChosenAgents'
<1> SUFFICES ASSUME ChosenAgents, [Next]_vars
             PROVE  ChosenAgents'
  OBVIOUS
<1>1. ASSUME NEW o \in Orchs, OpenWave(o)
      PROVE  ChosenAgents'
  BY <1>1 DEF OpenWave, ChosenAgents
<1>2. ASSUME NEW o \in Orchs, NEW k \in Positions, StepStart(o, k)
      PROVE  ChosenAgents'
  BY <1>2 DEF StepStart, ChosenAgents
<1>3. CASE UNCHANGED chosen
  BY <1>3 DEF ChosenAgents
<1>4. QED
  BY <1>1, <1>2, <1>3
     DEF Next, Progress, Begin, CloseWave, Finish, StepEnds, vars, orchVars

LEMMA SelectableAgents ==
  ASSUME NEW step, NEW a \in Selectable(step)
  PROVE  a \in Agents \cup {None}
BY DEF Selectable, HealthyFirst, Candidates, Registered

LEMMA FrameworkStep == ChosenAgents /\ [Next]_vars => [RuntimeNext]_runtimeVars
<1> SUFFICES ASSUME ChosenAgents, [Next]_vars
             PROVE  [RuntimeNext]_runtimeVars
  OBVIOUS
<1>1. ASSUME NEW o \in Orchs, NEW k \in Positions, StepStart(o, k)
      PROVE  [RuntimeNext]_runtimeVars
  <2>1. PICK a \in Agents \cup {None} : RunStep(o, k, a)
    BY <1>1, SelectableAgents DEF StepStart, ChosenAgents
  <2>2. CASE a = None
    BY <2>1, <2>2 DEF RunStep, frameworkVars, runtimeVars
  <2>3. CASE a # None
    <3>1. Execute(<<o, k>>)
      BY <2>1, <2>3 DEF RunStep, Execute
    <3>2. QED
      BY <3>1 DEF RuntimeNext
  <2>4. QED
    BY <2>2, <2>3
<1>2. ASSUME NEW o \in Orchs, NEW k \in Positions, StepEnds(o, k)
      PROVE  [RuntimeNext]_runtimeVars
  BY <1>2 DEF StepEnds, RuntimeNext
<1>3. CASE Registration
  BY <1>3 DEF Registration, RuntimeNext
<1>4. CASE UNCHANGED frameworkVars
  BY <1>4 DEF frameworkVars, runtimeVars
<1>5. QED
  BY <1>1, <1>2, <1>3, <1>4
     DEF Next, Progress, Begin, OpenWave, CloseWave, Finish, vars

(* Whatever the orchestrations do, the framework sees calls and             *)
(* registrations as RuntimeSpec has them: what is proved of every client of *)
(* the framework holds of the orchestrator.                                 *)
THEOREM OrchestratorIsClient == Spec => RuntimeSpec
<1>1. Init => RuntimeInit /\ ChosenAgents
  BY DEF Init, ChosenAgents
<1>2. QED
  BY <1>1, ChosenStep, FrameworkStep, PTL DEF Spec, RuntimeSpec

-----------------------------------------------------------------------------
(* Type correctness: what the runtime keeps of its own, and graphs that     *)
(* change in nothing but the names of their agents.                         *)

R == INSTANCE AgentRuntimeProofs WITH Calls <- Orchs \X Positions

\* The framework as the runtime's own module has it.
LEMMA SameFramework ==
  /\ RuntimeInit => R!RuntimeInit
  /\ [RuntimeNext]_runtimeVars => [R!RuntimeNext]_(R!runtimeVars)
<1>1. RuntimeInit => R!RuntimeInit
  BY DEF RuntimeInit, R!RuntimeInit, IdleCall, R!IdleCall, Instances, R!Instances
<1>2. ASSUME NEW a, Register(a) PROVE R!Register(a)
  BY <1>2 DEF Register, R!Register, Running, R!Running
<1>3. ASSUME NEW a, Unregister(a) PROVE R!Unregister(a)
  BY <1>3 DEF Unregister, R!Unregister
<1>4. ASSUME NEW c, Execute(c) PROVE R!Execute(c)
  BY <1>4 DEF Execute, R!Execute, CallStart, R!CallStart, Registered, R!Registered,
              Current, R!Current
<1>5. ASSUME NEW c, AttemptEnds(c) PROVE R!AttemptEnds(c)
  BY <1>5 DEF AttemptEnds, R!AttemptEnds, AttemptReturns, R!AttemptReturns,
              AttemptFails, R!AttemptFails, RetryOrGiveUp, R!RetryOrGiveUp,
              Answer, R!Answer, SetIdle, R!SetIdle
<1>6. QED
  BY <1>1, <1>2, <1>3, <1>4, <1>5
     DEF RuntimeNext, R!RuntimeNext, runtimeVars, R!runtimeVars

Rename(step, given) ==
  /\ step.agent \in Agents \cup {given.agent}
  /\ \A field \in {"id", "cap", "deps"} : step[field] = given[field]

\* The graph object still holds a graph it was given, under other names.
Renamed(p) ==
  \E g \in Graphs :
    /\ plan[p].mode = g.mode
    /\ DOMAIN plan[p].steps = DOMAIN g.steps
    /\ \A k \in DOMAIN g.steps : Rename(plan[p].steps[k], g.steps[k])

OwnTypeOK ==
  /\ DOMAIN plan = Plans /\ \A p \in Plans : Renamed(p)
  /\ \A o \in Orchs : wave[o] \subseteq pending[o]
  /\ DOMAIN contributor = Orchs
  /\ outputs \in [Orchs -> SUBSET Positions]
  /\ evidence \subseteq Orchs \X Positions
  /\ result \in [Orchs -> SUBSET (Orchs \X Positions)]

LEMMA AgentNamed ==
  ASSUME NEW step, NEW given, NEW a \in Agents, Rename(step, given),
         DOMAIN step = {"id", "agent", "cap", "deps"}
  PROVE  Rename([step EXCEPT !.agent = a], given)
<1> DEFINE new == [step EXCEPT !.agent = a]
<1>1. new.agent = a
  OBVIOUS
<1>2. new.id = step.id /\ new.cap = step.cap /\ new.deps = step.deps
  OBVIOUS
<1> HIDE DEF new
<1>3. Rename(new, given)
  <2>1. ASSUME NEW field \in {"id", "cap", "deps"}
        PROVE  new[field] = given[field]
    BY <1>2 DEF Rename
  <2>2. QED
    BY <1>1, <2>1 DEF Rename
<1>4. QED
  BY <1>3 DEF new

LEMMA SamePlan ==
  ASSUME plan' = plan, DOMAIN plan = Plans, \A p \in Plans : Renamed(p)
  PROVE  DOMAIN plan' = Plans /\ \A p \in Plans : Renamed(p)'
BY DEF Renamed

LEMMA DispatchRenames ==
  ASSUME OwnTypeOK, OInv, NEW o \in Orchs, NEW pick, Dispatch(o, pick),
         \A k \in DOMAIN pick : pick[k] \in Agents \cup {None}
  PROVE  DOMAIN plan' = Plans /\ \A p \in Plans : Renamed(p)'
<1> DEFINE q == PlanOf[o]
           new == [k \in DOMAIN plan[q].steps |->
                     IF k \in DOMAIN pick THEN Named(plan[q].steps[k], pick[k])
                     ELSE plan[q].steps[k]]
<1>1. q \in Plans /\ IsGraph(plan[q]) /\ DOMAIN plan = Plans
  BY PlanAssumption DEF OInv, Shapes
<1>2. plan' = [plan EXCEPT ![q] = [plan[q] EXCEPT !.steps = new]]
  BY DEF Dispatch
<1>3. /\ DOMAIN plan' = Plans /\ \A p \in Plans : p # q => plan'[p] = plan[p]
      /\ plan'[q] = [plan[q] EXCEPT !.steps = new]
  BY <1>1, <1>2
<1>4. plan'[q].steps = new /\ plan'[q].mode = plan[q].mode
  BY <1>1, <1>3 DEF IsGraph
<1>5. PICK g \in Graphs :
        /\ plan[q].mode = g.mode
        /\ DOMAIN plan[q].steps = DOMAIN g.steps
        /\ \A k \in DOMAIN g.steps : Rename(plan[q].steps[k], g.steps[k])
  BY <1>1 DEF OwnTypeOK, Renamed
<1>6. ASSUME NEW k \in DOMAIN g.steps
      PROVE  Rename(new[k], g.steps[k])
  <2>1. Rename(plan[q].steps[k], g.steps[k])
    BY <1>5, <1>6
  <2>2. CASE k \in DOMAIN pick /\ pick[k] # None
    <3>1. new[k] = [plan[q].steps[k] EXCEPT !.agent = pick[k]] /\ pick[k] \in Agents
      BY <1>5, <1>6, <2>2 DEF Named
    <3>2. DOMAIN plan[q].steps[k] = {"id", "agent", "cap", "deps"}
      BY <1>1, <1>5, <1>6 DEF IsGraph
    <3> DEFINE step == plan[q].steps[k]
               a == pick[k]
    <3>3. /\ Rename(step, g.steps[k]) /\ a \in Agents
          /\ DOMAIN step = {"id", "agent", "cap", "deps"}
      BY <2>1, <3>1, <3>2
    <3>4. new[k] = [step EXCEPT !.agent = a]
      BY <3>1
    <3> HIDE DEF step, a, new
    <3>5. Rename([step EXCEPT !.agent = a], g.steps[k])
      BY <3>3, AgentNamed
    <3>6. QED
      BY <3>4, <3>5
  <2>3. CASE ~(k \in DOMAIN pick /\ pick[k] # None)
    <3>1. new[k] = plan[q].steps[k]
      BY <1>5, <1>6, <2>3 DEF Named
    <3>2. QED
      BY <2>1, <3>1
  <2>4. QED
    BY <2>2, <2>3
<1>7. DOMAIN new = DOMAIN g.steps
  BY <1>5
<1> HIDE DEF new
<1>8. Renamed(q)'
  BY <1>4, <1>5, <1>6, <1>7 DEF Renamed
<1>9. \A p \in Plans : p # q => Renamed(p)'
  BY <1>3 DEF OwnTypeOK, Renamed
<1>10. QED
  BY <1>3, <1>8, <1>9

LEMMA OwnTypeStep == OwnTypeOK /\ OInv /\ ChosenAgents /\ [Next]_vars => OwnTypeOK'
<1> SUFFICES ASSUME OwnTypeOK, OInv, ChosenAgents, [Next]_vars
             PROVE  OwnTypeOK'
  OBVIOUS
<1> USE DEF frameworkVars
<1>1. ASSUME NEW o \in Orchs, Begin(o)
      PROVE  OwnTypeOK'
  BY <1>1, SamePlan DEF Begin, OwnTypeOK, OInv, Shapes, CallsInWave, Behind
<1>2. ASSUME NEW o \in Orchs, OpenWave(o)
      PROVE  OwnTypeOK'
  <2>1. DOMAIN plan' = Plans /\ \A p \in Plans : Renamed(p)'
    <3>1. CASE UNCHANGED plan
      BY <3>1, SamePlan DEF OwnTypeOK
    <3>2. CASE \E pick \in [Eligible(o) -> Agents \cup {None}] : Dispatch(o, pick)
      BY <3>2, DispatchRenames
    <3>3. QED
      BY <1>2, <3>1, <3>2 DEF OpenWave
  <2>2. Eligible(o) \subseteq pending[o]
    BY DEF Eligible, Ready
  <2>3. QED
    BY <1>2, <2>1, <2>2 DEF OpenWave, OwnTypeOK, OInv, Shapes
<1>3. ASSUME NEW o \in Orchs, NEW k \in Positions, StepStart(o, k)
      PROVE  OwnTypeOK'
  <2>1. DOMAIN plan' = Plans /\ \A p \in Plans : Renamed(p)'
    <3>1. CASE UNCHANGED plan
      BY <3>1, SamePlan DEF OwnTypeOK
    <3>2. CASE \E a \in Selectable(Step(o, k)) : Dispatch(o, [j \in {k} |-> a])
      BY <3>2, DispatchRenames, SelectableAgents
    <3>3. QED
      BY <1>3, <3>1, <3>2 DEF StepStart
  <2>2. \E name : contributor' = [contributor EXCEPT ![o][k] = name]
    BY <1>3 DEF StepStart, RunStep
  <2>3. QED
    BY <1>3, <2>1, <2>2 DEF StepStart, OwnTypeOK
<1>4. ASSUME NEW o \in Orchs, NEW k \in Positions, StepEnds(o, k)
      PROVE  OwnTypeOK'
  BY <1>4, SamePlan DEF StepEnds, OwnTypeOK
<1>5. ASSUME NEW o \in Orchs, CloseWave(o)
      PROVE  OwnTypeOK'
  BY <1>5, SamePlan DEF CloseWave, OwnTypeOK, OInv, Shapes
<1>6. ASSUME NEW o \in Orchs, Finish(o)
      PROVE  OwnTypeOK'
  BY <1>6, SamePlan DEF Finish, OwnTypeOK
<1>7. ASSUME UNCHANGED orchVars
      PROVE  OwnTypeOK'
  BY <1>7, SamePlan DEF orchVars, OwnTypeOK
<1>8. QED
  BY <1>1, <1>2, <1>3, <1>4, <1>5, <1>6, <1>7 DEF Next, Progress, vars

LEMMA OwnTypeInit == Init => OwnTypeOK /\ ChosenAgents
<1> SUFFICES ASSUME Init
             PROVE  OwnTypeOK /\ ChosenAgents
  OBVIOUS
<1>1. ASSUME NEW p \in Plans
      PROVE  Renamed(p)
  <2>1. plan[p] \in Graphs /\ IsGraph(plan[p])
    BY GraphsAssumption DEF Init
  <2>2. QED
    BY <2>1 DEF Renamed, Rename
<1>2. QED
  BY <1>1 DEF Init, OwnTypeOK, ChosenAgents

(* Type correctness of the orchestrations and of the framework under them:  *)
(* a graph object that several orchestrations write names into remains the  *)
(* graph it was, but for names of registered agents.                        *)
THEOREM OrchestrationTypeCorrect == Spec => []TypeOK
<1>1. OInv /\ OwnTypeOK /\ ChosenAgents /\ R!RuntimeTypeOK => TypeOK
  BY DEF OInv, Shapes, OwnTypeOK, Renamed, Rename, ChosenAgents, TypeOK, RuntimeTypeOK,
         R!RuntimeTypeOK, Instances, R!Instances, Statuses, R!Statuses, CallStates,
         R!CallStates, IdleCall, R!IdleCall, Answers, R!Answers
<1>2. R!RuntimeSpec => []R!RuntimeTypeOK
  BY R!RuntimeTypeCorrect, FrameworkAssumption
<1>3. RuntimeSpec => R!RuntimeSpec
  BY SameFramework, PTL DEF RuntimeSpec, R!RuntimeSpec
<1>4. Spec => [](OwnTypeOK /\ ChosenAgents)
  BY OwnTypeInit, OwnTypeStep, ChosenStep, Invariance, PTL DEF Spec
<1>5. QED
  BY <1>1, <1>2, <1>3, <1>4, Invariance, OrchestratorIsClient, PTL

(* Under the orchestrator, too, no instance is left busy by calls that      *)
(* have ended.                                                              *)
THEOREM OrchestrationLeavesNoneBusy == Spec => []BusyWhileRunning
<1>1. R!RuntimeSpec => []R!BusyWhileRunning
  BY R!NoneLeftBusy, FrameworkAssumption
<1>2. R!BusyWhileRunning => BusyWhileRunning
  BY DEF BusyWhileRunning, R!BusyWhileRunning, Instances, R!Instances, Running, R!Running
<1>3. RuntimeSpec => R!RuntimeSpec
  BY SameFramework, PTL DEF RuntimeSpec, R!RuntimeSpec
<1>4. QED
  BY <1>1, <1>2, <1>3, OrchestratorIsClient, PTL

-----------------------------------------------------------------------------
(* build_default_graph gives its steps the ids secrets.token_hex makes,    *)
(* which are no names of agents, and lists them one after another.         *)
OwnNames(g) ==
  \A j, k \in DOMAIN g.steps :
    g.steps[j].id \notin Agents \cup {g.steps[k].agent}

ChainsAreOwn == \A g \in Graphs : IsChain(g) => OwnNames(g)

PlansOwn == \A p \in Plans : IsChain(plan[p]) => OwnNames(plan[p])

\* No step of a chain was contributed to by an agent of a step's name.
NamesApart ==
  \A o \in Orchs : IsChain(GraphOf(o)) =>
    \A j, k \in StepsOf(o) :
      Started(o, k) => contributor[o][k] # Step(o, j).id

\* Only steps of an open wave and of closed ones have begun.
BegunInWave ==
  \A o \in Orchs :
    /\ phase[o] = "idle" => wave[o] = {}
    /\ \A k \in StepsOf(o) :
         Started(o, k) => k \in wave[o] \/ (phase[o] # "idle" /\ k \notin pending[o])

\* A chain has its last steps pending, and the first of these in its wave.
LastPending ==
  \A o \in Orchs : IsChain(GraphOf(o)) =>
    /\ \A k \in StepsOf(o), j \in pending[o] : j < k => k \in pending[o]
    /\ \A k \in wave[o], j \in pending[o] : k <= j

ChainInv == PlansOwn /\ NamesApart /\ BegunInWave /\ LastPending

LEMMA DispatchNames ==
  ASSUME Shapes, NEW o \in Orchs, NEW pick, Dispatch(o, pick),
         \A k \in DOMAIN pick : pick[k] \in Agents \cup {None}
  PROVE  /\ \A p \in Plans : \A k \in DOMAIN plan[p].steps :
              /\ plan'[p].steps[k].id = plan[p].steps[k].id
              /\ plan'[p].steps[k].deps = plan[p].steps[k].deps
              /\ plan'[p].steps[k].agent \in Agents \cup {plan[p].steps[k].agent}
         /\ \A p \in Plans : DOMAIN plan'[p].steps = DOMAIN plan[p].steps
<1>1. PlanOf[o] \in Plans
  BY PlanAssumption
<1> DEFINE q == PlanOf[o]
           new == [k \in DOMAIN plan[q].steps |->
                     IF k \in DOMAIN pick THEN Named(plan[q].steps[k], pick[k])
                     ELSE plan[q].steps[k]]
<1>2. plan' = [plan EXCEPT ![q] = [plan[q] EXCEPT !.steps = new]]
  BY DEF Dispatch
<1>3. IsGraph(plan[q]) /\ DOMAIN plan = Plans
  BY <1>1 DEF Shapes
<1>4. /\ plan'[q] = [plan[q] EXCEPT !.steps = new]
      /\ \A p \in Plans : p # q => plan'[p] = plan[p]
  BY <1>1, <1>2, <1>3
<1>5. plan'[q].steps = new
  BY <1>3, <1>4 DEF IsGraph
<1>6. ASSUME NEW k \in DOMAIN plan[q].steps
      PROVE  /\ new[k].id = plan[q].steps[k].id
             /\ new[k].deps = plan[q].steps[k].deps
             /\ new[k].agent \in Agents \cup {plan[q].steps[k].agent}
  <2>1. DOMAIN plan[q].steps[k] = {"id", "agent", "cap", "deps"}
    BY <1>3 DEF IsGraph
  <2>2. QED
    BY <2>1 DEF Named
<1> HIDE DEF new
<1>7. DOMAIN new = DOMAIN plan[q].steps
  BY DEF new
<1>8. QED
  BY <1>4, <1>5, <1>6, <1>7

\* What a step leaves of the graphs: everything but the names of agents.
SamePlans ==
  /\ \A p \in Plans : \A k \in DOMAIN plan[p].steps :
       /\ plan'[p].steps[k].id = plan[p].steps[k].id
       /\ plan'[p].steps[k].deps = plan[p].steps[k].deps
       /\ plan'[p].steps[k].agent \in Agents \cup {plan[p].steps[k].agent}
  /\ \A p \in Plans : DOMAIN plan'[p].steps = DOMAIN plan[p].steps

LEMMA NextSamePlans ==
  ASSUME Shapes, ChosenAgents, [Next]_vars
  PROVE  SamePlans
<1>1. CASE UNCHANGED plan
  BY <1>1 DEF SamePlans
<1>2. ASSUME NEW o \in Orchs, OpenWave(o)
      PROVE  SamePlans
  <2>1. CASE ~UNCHANGED plan
    <3>1. PICK pick \in [Eligible(o) -> Agents \cup {None}] : Dispatch(o, pick)
      BY <1>2, <2>1 DEF OpenWave
    <3>2. \A k \in DOMAIN pick : pick[k] \in Agents \cup {None}
      OBVIOUS
    <3> QED
      BY <3>1, <3>2, DispatchNames DEF SamePlans
  <2> QED
    BY <1>1, <2>1
<1>3. ASSUME NEW o \in Orchs, NEW k \in Positions, StepStart(o, k)
      PROVE  SamePlans
  <2>1. CASE ~UNCHANGED plan
    <3>1. PICK a \in Selectable(Step(o, k)) : Dispatch(o, [j \in {k} |-> a])
      BY <1>3, <2>1 DEF StepStart
    <3> DEFINE pick == [j \in {k} |-> a]
    <3>2. \A j \in DOMAIN pick : pick[j] \in Agents \cup {None}
      BY SelectableAgents
    <3> HIDE DEF pick
    <3>3. Dispatch(o, pick)
      BY <3>1 DEF pick
    <3> QED
      BY <3>2, <3>3, DispatchNames DEF SamePlans
  <2> QED
    BY <1>1, <2>1
<1> QED
  BY <1>1, <1>2, <1>3
  DEF Next, Progress, Begin, CloseWave, Finish, StepEnds, vars, orchVars

LEMMA ChainsStay ==
  ASSUME Shapes, PlansOwn, SamePlans
  PROVE  /\ PlansOwn'
         /\ \A o \in Orchs : /\ StepsOf(o)' = StepsOf(o)
                             /\ IsChain(GraphOf(o))' => IsChain(GraphOf(o))
                             /\ \A k \in StepsOf(o) : Step(o, k)'.id = Step(o, k).id
<1>1. ASSUME NEW p \in Plans, IsChain(plan'[p])
      PROVE  IsChain(plan[p]) /\ OwnNames(plan'[p])
  <2>1. ASSUME NEW k \in DOMAIN plan[p].steps, k # 1
        PROVE  k - 1 \in DOMAIN plan[p].steps
    <3>1. k \in Positions /\ 1..k \subseteq DOMAIN plan[p].steps
      BY DEF Shapes, IsGraph
    <3>2. k - 1 \in 1..k
      BY <2>1, <3>1 DEF Positions
    <3> QED
      BY <3>1, <3>2
  <2>2. IsChain(plan[p])
    BY <1>1, <2>1 DEF SamePlans, IsChain
  <2>3. OwnNames(plan[p])
    BY <2>2 DEF PlansOwn
  <2> QED
    BY <2>2, <2>3 DEF SamePlans, OwnNames
<1>2. PlansOwn'
  BY <1>1 DEF PlansOwn
<1> QED
  BY <1>1, <1>2, PlanAssumption DEF StepsOf, GraphOf, Step, SamePlans

\* The names of the agents a step was or will be given to.
LEMMA ContributorNamed ==
  ASSUME Shapes, ChosenAgents, NEW o \in Orchs, NEW k \in Positions, StepStart(o, k)
  PROVE  \E name \in Agents \cup {Step(o, k).agent} \cup {Step(o, k)'.agent} :
           contributor' = [contributor EXCEPT ![o][k] = name]
<1>1. PICK a \in Agents \cup {None} : RunStep(o, k, a)
  BY SelectableAgents DEF StepStart, ChosenAgents
<1> QED
  BY <1>1 DEF RunStep

LEMMA ApartStays ==
  ASSUME OInv, ChosenAgents, ChainInv, [Next]_vars
  PROVE  PlansOwn' /\ NamesApart'
<1>1. SamePlans /\ PlansOwn'
  BY NextSamePlans, ChainsStay DEF OInv, ChainInv
<1>2. \A o \in Orchs : /\ StepsOf(o)' = StepsOf(o)
                       /\ IsChain(GraphOf(o))' => IsChain(GraphOf(o))
                       /\ \A k \in StepsOf(o) : Step(o, k)'.id = Step(o, k).id
  BY <1>1, ChainsStay DEF OInv, ChainInv
<1>3. CASE UNCHANGED contributor
  BY <1>1, <1>2, <1>3 DEF NamesApart, ChainInv, Started
<1>4. ASSUME NEW o \in Orchs, NEW k \in Positions, StepStart(o, k)
      PROVE  NamesApart'
  <2> SUFFICES ASSUME NEW p \in Orchs, IsChain(GraphOf(p))',
                      NEW i \in StepsOf(p), NEW j \in StepsOf(p),
                      contributor'[p][j] # None
               PROVE  contributor'[p][j] # Step(p, i).id
    BY <1>2 DEF NamesApart, Started
  <2>1. /\ IsChain(GraphOf(p))
        /\ contributor[p][j] # None => contributor[p][j] # Step(p, i).id
    BY <1>2 DEF NamesApart, ChainInv, Started
  <2>2. PICK name \in Agents \cup {Step(o, k).agent} \cup {Step(o, k)'.agent} :
          contributor' = [contributor EXCEPT ![o][k] = name]
    BY <1>4, ContributorNamed DEF OInv
  <2>3. CASE p = o /\ j = k
    <3>1. OwnNames(GraphOf(p)) /\ OwnNames(GraphOf(p)')
      BY <1>1, <2>1, PlanAssumption DEF PlansOwn, ChainInv, GraphOf
    <3>2. name # Step(p, i).id
      BY <1>2, <2>3, <3>1 DEF OwnNames, Step, StepsOf
    <3>3. contributor'[p][j] = name
      BY <2>2, <2>3 DEF OInv, Shapes
    <3> QED
      BY <3>2, <3>3
  <2>4. CASE ~(p = o /\ j = k)
    <3>1. contributor'[p][j] = contributor[p][j]
      BY <2>2, <2>4 DEF OInv, Shapes
    <3> QED
      BY <2>1, <3>1
  <2> QED
    BY <2>3, <2>4
<1> QED
  BY <1>1, <1>3, <1>4
  DEF Next, Progress, Begin, OpenWave, CloseWave, Finish, StepEnds, vars, orchVars

\* Of a chain nothing but its first step is ever found ready.
LEMMA FirstIsEligible ==
  ASSUME OInv, ChainInv, NEW o \in Orchs, OpenWave(o), IsChain(GraphOf(o))
  PROVE  \A k \in Eligible(o), j \in pending[o] : k <= j
<1>1. pending[o] \subseteq StepsOf(o) /\ StepsOf(o) \subseteq Positions
  BY PlanAssumption DEF OInv, CallsInWave, Shapes, IsGraph, StepsOf, GraphOf
<1>2. ASSUME NEW k \in Ready(o)
      PROVE  k = 1
  <2> SUFFICES ASSUME k # 1 PROVE FALSE
    OBVIOUS
  <2>1. k \in StepsOf(o) /\ k \in Positions
    BY <1>1 DEF Ready
  <2>2. k - 1 \in StepsOf(o)
    <3>1. 1..k \subseteq StepsOf(o)
      BY <2>1, PlanAssumption DEF OInv, Shapes, IsGraph, StepsOf, GraphOf
    <3>2. k - 1 \in 1..k
      BY <2>1 DEF Positions
    <3> QED
      BY <3>1, <3>2
  <2>3. Step(o, k).deps = {Step(o, k - 1).id}
    BY <2>1 DEF IsChain, Step, StepsOf
  <2>4. Step(o, k - 1).id \in Completed(o)
    BY <2>3 DEF Ready
  <2>5. PICK j \in StepsOf(o) \ pending[o] :
          contributor[o][j] = Step(o, k - 1).id
    BY <2>4 DEF Completed
  <2>6. Started(o, j)
    BY DEF OpenWave, OInv, Behind, Over
  <2> QED
    BY <2>2, <2>5, <2>6 DEF ChainInv, NamesApart
<1>3. CASE Ready(o) # {}
  BY <1>1, <1>2, <1>3 DEF Eligible, Positions
<1>4. CASE Ready(o) = {}
  BY <1>4 DEF Eligible
<1> QED
  BY <1>3, <1>4

LEMMA OrderStays ==
  ASSUME OInv, ChosenAgents, ChainInv, [Next]_vars
  PROVE  BegunInWave' /\ LastPending'
<1>1. \A o \in Orchs : /\ StepsOf(o)' = StepsOf(o)
                       /\ IsChain(GraphOf(o))' => IsChain(GraphOf(o))
  BY NextSamePlans, ChainsStay DEF OInv, ChainInv
<1>s. \A o \in Orchs : /\ pending[o] \subseteq StepsOf(o)
                       /\ wave[o] \subseteq pending[o]
                       /\ StepsOf(o) \subseteq Positions
  BY PlanAssumption DEF OInv, CallsInWave, Shapes, IsGraph, StepsOf, GraphOf
<1>2. ASSUME NEW o \in Orchs, Begin(o)
      PROVE  BegunInWave' /\ LastPending'
  <2>1. /\ phase' = [phase EXCEPT ![o] = "running"]
        /\ pending' = [pending EXCEPT ![o] = StepsOf(o)]
        /\ UNCHANGED <<wave, contributor>> /\ phase[o] = "idle"
    BY <1>2 DEF Begin
  <2>2. BegunInWave'
    BY <1>1, <2>1 DEF BegunInWave, ChainInv, Started, OInv, Shapes
  <2>3. LastPending'
    BY <1>1, <2>1 DEF LastPending, ChainInv, BegunInWave, OInv, Shapes
  <2> QED
    BY <2>2, <2>3
<1>3. ASSUME NEW o \in Orchs, OpenWave(o)
      PROVE  BegunInWave' /\ LastPending'
  <2>1. /\ wave' = [wave EXCEPT ![o] = Eligible(o)]
        /\ UNCHANGED <<pending, phase, contributor>>
        /\ phase[o] = "running" /\ wave[o] = {}
    BY <1>3 DEF OpenWave
  <2>2. BegunInWave'
    BY <1>1, <2>1 DEF BegunInWave, ChainInv, Started, OInv, Shapes
  <2>3. LastPending'
    BY <1>1, <1>3, <2>1, FirstIsEligible DEF LastPending, ChainInv, OInv, Shapes
  <2> QED
    BY <2>2, <2>3
<1>4. ASSUME NEW o \in Orchs, NEW k \in Positions, StepStart(o, k)
      PROVE  BegunInWave' /\ LastPending'
  <2>1. PICK name : contributor' = [contributor EXCEPT ![o][k] = name]
    BY <1>4, ContributorNamed DEF OInv
  <2>2. UNCHANGED <<pending, phase, wave>> /\ k \in wave[o]
    BY <1>4 DEF StepStart
  <2>3. BegunInWave'
    BY <1>1, <2>1, <2>2 DEF BegunInWave, ChainInv, Started, OInv, Shapes
  <2>4. LastPending'
    BY <1>1, <2>2 DEF LastPending, ChainInv
  <2> QED
    BY <2>3, <2>4
<1>5. ASSUME NEW o \in Orchs, CloseWave(o)
      PROVE  BegunInWave' /\ LastPending'
  <2>1. /\ pending' = [pending EXCEPT ![o] = @ \ wave[o]]
        /\ wave' = [wave EXCEPT ![o] = {}]
        /\ UNCHANGED <<phase, contributor>> /\ wave[o] # {}
    BY <1>5 DEF CloseWave
  <2>2. BegunInWave'
    BY <1>1, <2>1 DEF BegunInWave, ChainInv, Started, OInv, Shapes
  <2>3. LastPending'
    <3> SUFFICES ASSUME NEW p \in Orchs, IsChain(GraphOf(p))'
                 PROVE  /\ \A k \in StepsOf(p), j \in pending'[p] :
                             j < k => k \in pending'[p]
                        /\ \A k \in wave'[p], j \in pending'[p] : k <= j
      BY <1>1 DEF LastPending
    <3>1. CASE p # o
      BY <1>1, <2>1, <3>1 DEF LastPending, ChainInv, OInv, Shapes
    <3>2. CASE p = o
      <4>1. pending'[o] = pending[o] \ wave[o] /\ wave'[o] = {}
        BY <2>1 DEF OInv, Shapes
      <4>2. ASSUME NEW k \in StepsOf(o), NEW j \in pending'[o], j < k
            PROVE  k \in pending[o] \ wave[o]
        <5>1. j \in pending[o] /\ k \in pending[o]
          BY <1>1, <3>2, <4>1, <4>2 DEF LastPending, ChainInv
        <5>2. k \in wave[o] => k <= j
          BY <1>1, <3>2, <5>1 DEF LastPending, ChainInv
        <5>3. j \in Nat /\ k \in Nat
          BY <1>s, <5>1 DEF Positions
        <5> QED
          BY <4>2, <5>1, <5>2, <5>3
      <4> QED
        BY <3>2, <4>1, <4>2
    <3> QED
      BY <3>1, <3>2
  <2> QED
    BY <2>2, <2>3
<1>6. ASSUME NEW o \in Orchs, Finish(o)
      PROVE  BegunInWave' /\ LastPending'
  <2>1. /\ phase' = [phase EXCEPT ![o] = "done"] /\ phase[o] = "running"
        /\ UNCHANGED <<pending, wave, contributor>>
    BY <1>6 DEF Finish
  <2>2. BegunInWave'
    BY <1>1, <2>1 DEF BegunInWave, ChainInv, Started, OInv, Shapes
  <2>3. LastPending'
    BY <1>1, <2>1 DEF LastPending, ChainInv
  <2> QED
    BY <2>2, <2>3
<1>7. CASE UNCHANGED <<phase, pending, wave, contributor>>
  <2>1. BegunInWave'
    BY <1>1, <1>7 DEF BegunInWave, ChainInv, Started
  <2>2. LastPending'
    BY <1>1, <1>7 DEF LastPending, ChainInv
  <2> QED
    BY <2>1, <2>2
<1> QED
  BY <1>2, <1>3, <1>4, <1>5, <1>6, <1>7
  DEF Next, Progress, StepEnds, vars, orchVars

(* The chain build_default_graph makes runs its steps one after another,   *)
(* in both modes and however its agents come and go, for any number of     *)
(* steps and of orchestrations that share the graph: as long as no agent   *)
(* has the name of one of its steps, which the generated ids are not.      *)
THEOREM ChainsRunInOrder ==
  ASSUME ChainsAreOwn
  PROVE  Spec => []ChainInOrder
<1>1. Init => ChainInv /\ ChosenAgents
  <2> SUFFICES ASSUME Init PROVE ChainInv /\ ChosenAgents
    OBVIOUS
  <2>1. PlansOwn
    BY DEF Init, PlansOwn, ChainsAreOwn
  <2>2. \A o \in Orchs : StepsOf(o) \subseteq Positions /\ GraphOf(o) \in Graphs
    BY GraphsAssumption, PlanAssumption DEF Init, IsGraph, StepsOf, GraphOf
  <2>3. NamesApart
    BY <2>2 DEF Init, NamesApart, Started
  <2>4. BegunInWave /\ LastPending /\ ChosenAgents
    BY <2>2 DEF Init, BegunInWave, LastPending, Started, ChosenAgents
  <2> QED
    BY <2>1, <2>3, <2>4 DEF ChainInv
<1>2. OInv /\ ChosenAgents /\ ChainInv /\ [Next]_vars => ChainInv' /\ ChosenAgents'
  BY ApartStays, OrderStays, ChosenStep DEF ChainInv
<1>3. OInv /\ ChainInv => ChainInOrder
  <2> SUFFICES ASSUME OInv, ChainInv, NEW o \in Orchs, IsChain(GraphOf(o)),
                      NEW j \in StepsOf(o), NEW k \in StepsOf(o),
                      j < k, Started(o, k)
               PROVE  Over(o, j)
    BY DEF ChainInOrder
  <2>1. StepsOf(o) \subseteq Nat
    BY PlanAssumption DEF OInv, Shapes, IsGraph, StepsOf, GraphOf, Positions
  <2>2. phase[o] # "idle"
    BY DEF ChainInv, BegunInWave
  <2>3. j \notin pending[o]
    BY <2>1 DEF ChainInv, LastPending, BegunInWave
  <2> QED
    BY <2>2, <2>3 DEF OInv, Behind
<1> QED
  BY <1>1, <1>2, <1>3, Invariance, PTL DEF Spec
=============================================================================
