------------------------ MODULE AgentRuntimeProofs ------------------------
(***************************************************************************)
(* Proofs about AgentRuntime, for any number of agents, calls, retries and *)
(* instances.  The three invariants are inductive together: the type       *)
(* bounds an attempt only because no call makes more than it was granted,  *)
(* and an instance stays busy only as long as some call runs on it.        *)
(***************************************************************************)
EXTENDS AgentRuntime, TLAPS

RuntimeInv == RuntimeTypeOK /\ BusyWhileRunning /\ EveryAttemptGranted

\* A call that runs is on an instance, within its attempts.
LEMMA RunningCall ==
  ASSUME RuntimeTypeOK, NEW c \in Calls, call[c].at = "running"
  PROVE  /\ call[c].on \in Instances
         /\ call[c].on[1] \in Agents
         /\ call[c].attempt \in 1..(MaxRetries + 1)
         /\ call[c].retries \in 0..MaxRetries
         /\ call[c] = [at |-> "running", on |-> call[c].on,
                       attempt |-> call[c].attempt, retries |-> call[c].retries]
<1>1. call[c] \in CallStates
  BY DEF RuntimeTypeOK
<1>2. call[c] \in [at : {"running"}, on : Instances, attempt : 1..(MaxRetries + 1),
                   retries : 0..MaxRetries]
  BY <1>1 DEF CallStates, IdleCall
<1>3. call[c].on \in Instances
  BY <1>2
<1>4. QED
  BY <1>2, <1>3 DEF Instances

LEMMA RuntimeInitInv == RuntimeInit => RuntimeInv
BY RetriesAssumption, InstancesAssumption, LimitAssumption
   DEF RuntimeInit, RuntimeInv, RuntimeTypeOK, BusyWhileRunning, EveryAttemptGranted,
       CallStates, IdleCall, Statuses, Instances, Running

LEMMA RegisterInv ==
  ASSUME RuntimeInv, NEW a \in Agents, Register(a)
  PROVE  RuntimeInv'
<1>1. PICK n \in 1..MaxInstances :
        /\ inst' = [inst EXCEPT ![a] = n]
        /\ status' = [status EXCEPT ![<<a, n>>] = "registered"]
        /\ failures' = [failures EXCEPT ![<<a, n>>] = 0]
        /\ UNCHANGED call
  BY DEF Register
<1>2. RuntimeTypeOK'
  BY <1>1, InstancesAssumption, LimitAssumption
     DEF RuntimeInv, RuntimeTypeOK, Statuses, Instances
<1>3. BusyWhileRunning'
  BY <1>1 DEF RuntimeInv, RuntimeTypeOK, BusyWhileRunning, Running
<1>4. EveryAttemptGranted'
  BY <1>1 DEF RuntimeInv, EveryAttemptGranted
<1>5. QED
  BY <1>2, <1>3, <1>4 DEF RuntimeInv

LEMMA UnregisterInv ==
  ASSUME RuntimeInv, NEW a \in Agents, Unregister(a)
  PROVE  RuntimeInv'
BY InstancesAssumption
   DEF RuntimeInv, RuntimeTypeOK, BusyWhileRunning, EveryAttemptGranted, Running,
       Unregister

LEMMA CallStartInv ==
  ASSUME RuntimeInv, NEW c \in Calls, NEW a \in Agents, NEW retries \in 0..MaxRetries,
         CallStart(c, a, retries)
  PROVE  RuntimeInv'
<1>1. CASE a \in Registered
  <2>1. Current(a) \in Instances
    BY <1>1, InstancesAssumption
       DEF RuntimeInv, RuntimeTypeOK, Registered, Current, Instances
  <2> DEFINE started == [at |-> "running", on |-> Current(a), attempt |-> 1,
                         retries |-> retries]
  <2>2. /\ call' = [call EXCEPT ![c] = started]
        /\ status' = [status EXCEPT ![Current(a)] = "busy"]
        /\ UNCHANGED <<inst, failures>>
    BY <1>1 DEF CallStart
  <2>3. started \in CallStates
    BY <2>1, RetriesAssumption DEF CallStates
  <2>4. RuntimeTypeOK'
    BY <2>1, <2>2, <2>3 DEF RuntimeInv, RuntimeTypeOK, Statuses
  <2>5. call[c].at = "idle" /\ call \in [Calls -> CallStates]
    BY DEF CallStart, RuntimeInv, RuntimeTypeOK
  <2>6. call'[c].at = "running" /\ call'[c].on = Current(a)
    BY <2>2, <2>5
  <2>7. BusyWhileRunning'
    <3> SUFFICES ASSUME NEW i \in Instances, status'[i] = "busy"
                 PROVE  \E d \in Calls : call'[d].at = "running" /\ call'[d].on = i
      BY DEF BusyWhileRunning, Running
    <3>1. CASE i = Current(a)
      BY <3>1, <2>6
    <3>2. CASE i # Current(a)
      <4>1. status[i] = "busy"
        BY <3>2, <2>2, <2>1 DEF RuntimeInv, RuntimeTypeOK
      <4>2. PICK d \in Calls : call[d].at = "running" /\ call[d].on = i
        BY <4>1 DEF RuntimeInv, BusyWhileRunning, Running
      <4>3. call'[d] = call[d]
        BY <4>2, <2>2, <2>5
      <4>4. QED
        BY <4>2, <4>3
    <3>3. QED
      BY <3>1, <3>2
  <2>8. EveryAttemptGranted'
    BY <2>2, <2>5, RetriesAssumption DEF RuntimeInv, EveryAttemptGranted
  <2>9. QED
    BY <2>4, <2>7, <2>8 DEF RuntimeInv
<1>2. CASE a \notin Registered
  <2> DEFINE refused == [at |-> "done", name |-> a, attempt |-> 0,
                         retries |-> retries, answer |-> "not_found"]
  <2>1. call' = [call EXCEPT ![c] = refused] /\ UNCHANGED <<inst, status, failures>>
    BY <1>2 DEF CallStart
  <2>2. refused \in CallStates
    BY RetriesAssumption DEF CallStates, Answers
  <2>3. RuntimeTypeOK'
    BY <2>1, <2>2 DEF RuntimeInv, RuntimeTypeOK
  <2>4. call[c].at = "idle" /\ call \in [Calls -> CallStates]
    BY DEF CallStart, RuntimeInv, RuntimeTypeOK
  <2>5. BusyWhileRunning'
    BY <2>1, <2>4 DEF RuntimeInv, BusyWhileRunning, Running
  <2>6. EveryAttemptGranted'
    BY <2>1, <2>4 DEF RuntimeInv, EveryAttemptGranted
  <2>7. QED
    BY <2>3, <2>5, <2>6 DEF RuntimeInv
<1>3. QED
  BY <1>1, <1>2

\* An answer ends a call and releases its instance: what another call marked
\* busy on the same instance is released with it.
LEMMA AnswerInv ==
  ASSUME RuntimeInv, NEW c \in Calls, NEW answer \in Answers,
         call[c].at = "running", Answer(c, answer), SetIdle(call[c].on),
         answer = "gave_up" => call[c].attempt = call[c].retries + 1,
         inst' = inst, failures' \in [Instances -> 0..FailureLimit]
  PROVE  RuntimeInv'
<1> DEFINE over == [at |-> "done", name |-> call[c].on[1],
                    attempt |-> call[c].attempt, retries |-> call[c].retries,
                    answer |-> answer]
<1>1. call' = [call EXCEPT ![c] = over]
  BY DEF Answer
<1>2. over \in CallStates
  <2>1. /\ call[c].on[1] \in Agents
        /\ call[c].attempt \in 1..(MaxRetries + 1)
        /\ call[c].retries \in 0..MaxRetries
    BY RunningCall DEF RuntimeInv
  <2>2. call[c].attempt \in 0..(MaxRetries + 1)
    BY <2>1, RetriesAssumption
  <2>3. QED
    BY <2>1, <2>2 DEF CallStates
<1>3. call[c].on \in Instances /\ call \in [Calls -> CallStates]
  BY RunningCall DEF RuntimeInv, RuntimeTypeOK
<1>4. status' = [status EXCEPT ![call[c].on] = IF @ = "busy" THEN "active" ELSE @]
  BY DEF SetIdle
<1>5. RuntimeTypeOK'
  BY <1>1, <1>2, <1>3, <1>4 DEF RuntimeInv, RuntimeTypeOK, Statuses
<1>6. BusyWhileRunning'
  <2> SUFFICES ASSUME NEW i \in Instances, status'[i] = "busy"
               PROVE  \E d \in Calls : call'[d].at = "running" /\ call'[d].on = i
    BY DEF BusyWhileRunning, Running
  <2>1. i # call[c].on /\ status[i] = "busy"
    <3> DEFINE j == call[c].on
    <3>1. status \in [Instances -> Statuses] /\ j \in Instances
      BY <1>3 DEF RuntimeInv, RuntimeTypeOK
    <3>2. status'[j] = IF status[j] = "busy" THEN "active" ELSE status[j]
      BY <1>4, <3>1
    <3>3. status'[i] = status[i] \/ i = j
      BY <1>4, <3>1
    <3> HIDE DEF j
    <3>4. i # j /\ status[i] = "busy"
      BY <3>2, <3>3
    <3>5. QED
      BY <3>4 DEF j
  <2>2. PICK d \in Calls : call[d].at = "running" /\ call[d].on = i
    BY <2>1 DEF RuntimeInv, BusyWhileRunning, Running
  <2>3. call'[d] = call[d]
    BY <2>1, <2>2, <1>1, <1>3
  <2>4. QED
    BY <2>2, <2>3
<1>7. EveryAttemptGranted'
  BY <1>1, <1>3 DEF RuntimeInv, EveryAttemptGranted
<1>8. QED
  BY <1>5, <1>6, <1>7 DEF RuntimeInv

LEMMA AttemptReturnsInv ==
  ASSUME RuntimeInv, NEW c \in Calls, AttemptReturns(c)
  PROVE  RuntimeInv'
<1>1. call[c].at = "running" /\ call[c].on \in Instances
  BY RunningCall DEF AttemptReturns, RuntimeInv
<1>2. failures' \in [Instances -> 0..FailureLimit]
  BY <1>1, LimitAssumption DEF AttemptReturns, RuntimeInv, RuntimeTypeOK
<1>3. PICK answer \in {"succeeded", "refused"} : Answer(c, answer)
  BY DEF AttemptReturns
<1>4. QED
  BY <1>1, <1>2, <1>3, AnswerInv DEF AttemptReturns, Answers

LEMMA AttemptFailsInv ==
  ASSUME RuntimeInv, NEW c \in Calls, AttemptFails(c)
  PROVE  RuntimeInv'
<1>1. call[c].at = "running" /\ inst' = inst
  BY DEF AttemptFails
<1>2. /\ call[c].on \in Instances
      /\ call[c].attempt \in 1..(MaxRetries + 1)
      /\ call[c].retries \in 0..MaxRetries
      /\ call[c] = [at |-> "running", on |-> call[c].on,
                    attempt |-> call[c].attempt, retries |-> call[c].retries]
      /\ call \in [Calls -> CallStates]
  BY <1>1, RunningCall DEF RuntimeInv, RuntimeTypeOK
<1>3. failures' \in [Instances -> 0..FailureLimit]
  BY <1>2, LimitAssumption DEF AttemptFails, RuntimeInv, RuntimeTypeOK
<1>4. CASE /\ call[c].attempt <= call[c].retries
           /\ call' = [call EXCEPT ![c].attempt = @ + 1]
           /\ UNCHANGED status
  <2> DEFINE again == [at |-> "running", on |-> call[c].on,
                       attempt |-> call[c].attempt + 1, retries |-> call[c].retries]
  <2>1. call' = [call EXCEPT ![c] = again]
    <3>1. call' = [call EXCEPT ![c] = [call[c] EXCEPT !.attempt = call[c].attempt + 1]]
      BY <1>4
    <3>2. [[at |-> "running", on |-> call[c].on, attempt |-> call[c].attempt,
            retries |-> call[c].retries] EXCEPT !.attempt = call[c].attempt + 1] = again
      OBVIOUS
    <3>3. QED
      BY <1>2, <3>1, <3>2
  <2>2. again \in CallStates
    BY <1>2, <1>4, RetriesAssumption DEF CallStates
  <2>3. RuntimeTypeOK'
    BY <1>1, <1>3, <1>4, <2>1, <2>2 DEF RuntimeInv, RuntimeTypeOK
  <2>4. BusyWhileRunning'
    <3> SUFFICES ASSUME NEW i \in Instances, status'[i] = "busy"
                 PROVE  \E d \in Calls : call'[d].at = "running" /\ call'[d].on = i
      BY DEF BusyWhileRunning, Running
    <3>1. PICK d \in Calls : call[d].at = "running" /\ call[d].on = i
      BY <1>4 DEF RuntimeInv, BusyWhileRunning, Running
    <3>2. call'[d].at = call[d].at /\ call'[d].on = call[d].on
      BY <1>1, <1>2, <2>1
    <3>3. QED
      BY <3>1, <3>2
  <2>5. EveryAttemptGranted'
    BY <1>2, <1>4, <2>1, RetriesAssumption DEF RuntimeInv, EveryAttemptGranted
  <2>6. QED
    BY <2>3, <2>4, <2>5 DEF RuntimeInv
<1>5. CASE /\ call[c].attempt > call[c].retries
           /\ Answer(c, "gave_up")
           /\ SetIdle(call[c].on)
  <2>1. call[c].attempt = call[c].retries + 1
    BY <1>1, <1>2, <1>5, RetriesAssumption DEF RuntimeInv, EveryAttemptGranted
  <2>2. QED
    BY <1>1, <1>3, <1>5, <2>1, AnswerInv DEF Answers
<1>6. QED
  BY <1>4, <1>5 DEF AttemptFails, RetryOrGiveUp

LEMMA RuntimeStepInv == RuntimeInv /\ [RuntimeNext]_runtimeVars => RuntimeInv'
<1> SUFFICES ASSUME RuntimeInv, [RuntimeNext]_runtimeVars
             PROVE  RuntimeInv'
  OBVIOUS
<1>1. ASSUME NEW a \in Changing, Register(a) \/ Unregister(a)
      PROVE  RuntimeInv'
  <2>1. a \in Agents
    BY ChangingAssumption
  <2>2. QED
    BY <1>1, <2>1, RegisterInv, UnregisterInv
<1>2. ASSUME NEW c \in Calls, Execute(c)
      PROVE  RuntimeInv'
  BY <1>2, CallStartInv DEF Execute
<1>3. ASSUME NEW c \in Calls, AttemptEnds(c)
      PROVE  RuntimeInv'
  BY <1>3, AttemptReturnsInv, AttemptFailsInv DEF AttemptEnds
<1>4. CASE UNCHANGED runtimeVars
  BY <1>4 DEF runtimeVars, RuntimeInv, RuntimeTypeOK, BusyWhileRunning, Running,
              EveryAttemptGranted
<1>5. QED
  BY <1>1, <1>2, <1>3, <1>4 DEF RuntimeNext

(* The three hold in every reachable state of the runtime.                  *)
THEOREM RuntimeInvariance == RuntimeSpec => []RuntimeInv
<1>1. QED
  BY RuntimeInitInv, RuntimeStepInv, PTL DEF RuntimeSpec

(* Type correctness of the runtime.                                         *)
THEOREM RuntimeTypeCorrect == RuntimeSpec => []RuntimeTypeOK
<1>1. RuntimeInv => RuntimeTypeOK
  BY DEF RuntimeInv
<1>2. QED
  BY RuntimeInvariance, <1>1, PTL

(* No instance is left busy when its last call is over.                     *)
THEOREM NoneLeftBusy == RuntimeSpec => []BusyWhileRunning
<1>1. RuntimeInv => BusyWhileRunning
  BY DEF RuntimeInv
<1>2. QED
  BY RuntimeInvariance, <1>1, PTL

(* A call gives up after all attempts it was granted and never makes more.  *)
THEOREM AttemptsExact == RuntimeSpec => []EveryAttemptGranted
<1>1. RuntimeInv => EveryAttemptGranted
  BY DEF RuntimeInv
<1>2. QED
  BY RuntimeInvariance, <1>1, PTL
=============================================================================
