---------------------------- MODULE AgentRuntime ----------------------------
(***************************************************************************)
(* The agent framework of app/services/agents: the registry of agents and  *)
(* AgentExecutionEngine.run, which calls one agent with a timeout and      *)
(* retries and keeps its status and its streak of failures.  A call is     *)
(* one engine run; several calls may run on one agent at the same time,    *)
(* because the engine awaits the agent.  The orchestrator instantiates     *)
(* this module, the coordinator extends it.                                *)
(***************************************************************************)
EXTENDS Naturals

CONSTANTS
  Agents,        \* names under which agents are registered
  Calls,         \* identities of engine runs
  MaxRetries,    \* bound on the retries a request or an agent may ask for
  MaxInstances,  \* bound on the instances of one agent that are alive at once
  FailureLimit,  \* failures in a row that make an agent unhealthy (5 in the code)
  Changing       \* bound on the agents that are registered and unregistered
                 \* while the calls run

ASSUME RetriesAssumption == MaxRetries \in Nat
ASSUME InstancesAssumption == MaxInstances \in Nat \ {0}
ASSUME ChangingAssumption == Changing \subseteq Agents
ASSUME LimitAssumption == FailureLimit \in Nat \ {0}

VARIABLES
  inst,      \* the registry: number of the agent's instance, 0 when it has none
  status,    \* status of an instance
  failures,  \* failures of an instance since its last success, FailureLimit
             \* standing for that many or more
  call       \* state of an engine run

runtimeVars == <<inst, status, failures, call>>

Instances == Agents \X (1..MaxInstances)

Statuses == {"registered", "active", "busy"}

\* How a call is answered: by a result of the agent (a success or a FAILED
\* result it returned), after the last attempt raised or timed out, or because
\* no agent has the name.
Answers == {"succeeded", "refused", "gave_up", "not_found"}

IdleCall == [at |-> "idle"]

CallStates ==
  {IdleCall}
    \cup [at : {"running"}, on : Instances, attempt : 1..(MaxRetries + 1),
          retries : 0..MaxRetries]
    \cup [at : {"done"}, name : Agents, attempt : 0..(MaxRetries + 1),
          retries : 0..MaxRetries, answer : Answers]

RuntimeTypeOK ==
  /\ inst \in [Agents -> 0..MaxInstances]
  /\ status \in [Instances -> Statuses]
  /\ failures \in [Instances -> 0..FailureLimit]
  /\ call \in [Calls -> CallStates]

Registered == {a \in Agents : inst[a] > 0}

Current(a) == <<a, inst[a]>>

Running(i) == {c \in Calls : call[c].at = "running" /\ call[c].on = i}

\* BaseAgent.health of the instance the registry has for a.
Healthy(a) == failures[Current(a)] < FailureLimit

RuntimeInit ==
  /\ inst \in [Agents -> {0, 1}]
  /\ status = [i \in Instances |-> "registered"]
  /\ failures = [i \in Instances |-> 0]
  /\ call = [c \in Calls |-> IdleCall]

-----------------------------------------------------------------------------
(* AgentRegistry: a new registration replaces the instance; calls that run  *)
(* on the old one keep it.                                                  *)

Register(a) ==
  \E n \in 1..MaxInstances :
    /\ n # inst[a]
    /\ Running(<<a, n>>) = {}
    /\ inst' = [inst EXCEPT ![a] = n]
    /\ status' = [status EXCEPT ![<<a, n>>] = "registered"]
    /\ failures' = [failures EXCEPT ![<<a, n>>] = 0]
    /\ UNCHANGED call

Unregister(a) ==
  /\ inst[a] > 0
  /\ inst' = [inst EXCEPT ![a] = 0]
  /\ UNCHANGED <<status, failures, call>>

-----------------------------------------------------------------------------
(* AgentExecutionEngine.run                                                 *)

SetIdle(i) ==
  status' = [status EXCEPT ![i] = IF @ = "busy" THEN "active" ELSE @]

Answer(c, answer) ==
  call' = [call EXCEPT ![c] = [at |-> "done", name |-> call[c].on[1],
             attempt |-> call[c].attempt, retries |-> call[c].retries,
             answer |-> answer]]

\* AgentFrameworkService.execute for the agent of that name: the engine marks
\* it busy and starts the first attempt.
CallStart(c, a, retries) ==
  /\ call[c].at = "idle"
  /\ IF a \in Registered
       THEN /\ call' = [call EXCEPT ![c] =
                          [at |-> "running", on |-> Current(a), attempt |-> 1,
                           retries |-> retries]]
            /\ status' = [status EXCEPT ![Current(a)] = "busy"]
       ELSE /\ call' = [call EXCEPT ![c] =
                          [at |-> "done", name |-> a, attempt |-> 0,
                           retries |-> retries, answer |-> "not_found"]]
            /\ UNCHANGED status
  /\ UNCHANGED <<inst, failures>>

\* The agent returned: whatever the result says, the engine counts a success.
AttemptReturns(c) ==
  /\ call[c].at = "running"
  /\ failures' = [failures EXCEPT ![call[c].on] = 0]
  /\ \E answer \in {"succeeded", "refused"} : Answer(c, answer)
  /\ SetIdle(call[c].on)
  /\ UNCHANGED inst

GiveUpLeavesBusy(c) ==
  \/ /\ call[c].attempt <= call[c].retries
     /\ call' = [call EXCEPT ![c].attempt = @ + 1]
     /\ UNCHANGED status
  \/ /\ call[c].attempt > call[c].retries
     /\ Answer(c, "gave_up")
     /\ UNCHANGED status

RetryOrGiveUp(c) ==
  \/ /\ call[c].attempt <= call[c].retries
     /\ call' = [call EXCEPT ![c].attempt = @ + 1]
     /\ UNCHANGED status
  \/ /\ call[c].attempt > call[c].retries
     /\ Answer(c, "gave_up")
     /\ SetIdle(call[c].on)

\* The attempt raised or timed out, and the agent's task is cancelled.
AttemptFails(c) ==
  /\ call[c].at = "running"
  /\ failures' = [failures EXCEPT ![call[c].on] = IF @ < FailureLimit THEN @ + 1 ELSE @]
  /\ RetryOrGiveUp(c)
  /\ UNCHANGED inst

AttemptEnds(c) == AttemptReturns(c) \/ AttemptFails(c)

-----------------------------------------------------------------------------
(* The runtime with clients that only use POST /agents/execute.             *)

Execute(c) ==
  \E a \in Agents, retries \in 0..MaxRetries : CallStart(c, a, retries)

RuntimeNext ==
  \/ \E a \in Changing : Register(a) \/ Unregister(a)
  \/ \E c \in Calls : Execute(c) \/ AttemptEnds(c)

RuntimeSpec == RuntimeInit /\ [][RuntimeNext]_runtimeVars

-----------------------------------------------------------------------------
(* An instance is busy only while a call runs on it: set_busy(False) in the *)
(* finally block of run reaches the instance the call marked, even when the *)
(* name was unregistered or registered anew in between.                     *)
BusyWhileRunning ==
  \A i \in Instances : status[i] = "busy" => Running(i) # {}

(* A call gives up only after every attempt it was granted, and never makes *)
(* one more than those: attempts are counted over retries and timeouts.     *)
EveryAttemptGranted ==
  \A c \in Calls :
    /\ call[c].at = "running" => call[c].attempt <= call[c].retries + 1
    /\ call[c].at = "done" /\ call[c].answer = "gave_up"
         => call[c].attempt = call[c].retries + 1

=============================================================================
