------------------------- MODULE CoordinationProofs -------------------------
(***************************************************************************)
(* Proofs about Coordination, for any number of requests, other calls,     *)
(* agents and steps: the coordinator is a client of the runtime like any   *)
(* other, and its answer stands on calls that are over.  What carries the  *)
(* second is that steps behind the next but one are over, that no call was *)
(* made for the next step or a later one, and that none is made for a step *)
(* that was lost.                                                          *)
(***************************************************************************)
EXTENDS Coordination, AgentRuntimeProofs, SequenceTheorems

InOrder ==
  \A r \in Requests :
    /\ phase[r] = "idle" => next[r] = 1
    /\ \A k \in Positions : k + 1 < next[r] => Over(r, k)
    /\ \A k \in Positions : k >= next[r] => k \notin lost[r] /\ call[<<r, k>>].at = "idle"
    /\ \A k \in lost[r] : call[<<r, k>>].at = "idle"

\* What holds of the plans and the calls made for them.
PlanInv == TypeOK /\ InOrder /\ AnswerIsComplete

CInv == RuntimeInv /\ PlanInv

-----------------------------------------------------------------------------
(* The coordinator is a client of the runtime.                              *)

\* The steps of a plan are its first positions.
LEMMA Steps ==
  ASSUME TypeOK, NEW r \in Requests
  PROVE  \E n \in 0..MaxSteps : StepsOf(r) = 1..n /\ 1..n \subseteq Positions
BY StepsAssumption DEF TypeOK, StepsOf, Positions

\* A step finds an agent, or none.
LEMMA ResolvedAgents ==
  ASSUME TypeOK, NEW r \in Requests, NEW k \in StepsOf(r), NEW a \in Resolved(r, k)
  PROVE  a \in Agents \cup {None}
BY DEF Resolved, Selectable, Registered

LEMMA FrameworkStep == TypeOK /\ [Next]_vars => [RuntimeNext]_runtimeVars
<1> SUFFICES ASSUME TypeOK, [Next]_vars
             PROVE  [RuntimeNext]_runtimeVars
  OBVIOUS
<1>1. ASSUME NEW r \in Requests, TaskStart(r)
      PROVE  [RuntimeNext]_runtimeVars
  <2>1. PICK a \in Resolved(r, next[r]) :
          IF a = None THEN UNCHANGED runtimeVars
          ELSE \E retries \in 0..MaxRetries : CallStart(<<r, next[r]>>, a, retries)
    BY <1>1 DEF TaskStart
  <2>2. next[r] \in StepsOf(r) /\ a \in Agents \cup {None}
    BY <1>1, ResolvedAgents DEF TaskStart
  <2>3. <<r, next[r]>> \in Calls
    BY <2>2, Steps, CallsAssumption
  <2> QED BY <2>1, <2>2, <2>3 DEF RuntimeNext, Execute
<1>2. ASSUME NEW r \in Requests, Distribute(r) \/ Aggregate(r)
      PROVE  UNCHANGED runtimeVars
  BY <1>2 DEF Distribute, Aggregate
<1>3. ASSUME NEW r \in Requests, NEW k \in Positions, TaskEnds(r, k)
      PROVE  RuntimeNext
  BY <1>3, CallsAssumption DEF TaskEnds, RuntimeNext
<1>4. ASSUME NEW c \in Direct, Execute(c) \/ AttemptEnds(c)
      PROVE  RuntimeNext
  BY <1>4, CallsAssumption DEF RuntimeNext
<1>5. CASE \E a \in Changing : Register(a) \/ Unregister(a)
  BY <1>5 DEF RuntimeNext
<1>6. CASE UNCHANGED vars
  BY <1>6 DEF vars
<1> QED BY <1>1, <1>2, <1>3, <1>4, <1>5, <1>6 DEF Next, Progress

-----------------------------------------------------------------------------
(* Plans                                                                    *)

\* A step of the framework concerns one call, which was not over.
LEMMA OneCall ==
  ASSUME RuntimeTypeOK, NEW c \in Calls,
         (\E a \in Agents, retries \in 0..MaxRetries : CallStart(c, a, retries))
           \/ AttemptEnds(c)
  PROVE  /\ \A d \in Calls : d # c => call'[d] = call[d]
         /\ call[c].at # "done"
         /\ AttemptEnds(c) => call[c].at = "running"
<1>1. call \in [Calls -> CallStates]
  BY DEF RuntimeTypeOK
<1>2. ASSUME NEW a \in Agents, NEW retries \in 0..MaxRetries, CallStart(c, a, retries)
      PROVE  call[c].at = "idle" /\ \A d \in Calls : d # c => call'[d] = call[d]
  BY <1>1, <1>2 DEF CallStart
<1>3. CASE AttemptEnds(c)
  <2>1. call[c].at = "running" /\ \A d \in Calls : d # c => call'[d] = call[d]
    BY <1>1, <1>3 DEF AttemptEnds, AttemptReturns, AttemptFails, RetryOrGiveUp, Answer
  <2> QED BY <2>1
<1>4. AttemptEnds(c) => call[c].at = "running"
  BY DEF AttemptEnds, AttemptReturns, AttemptFails
<1> QED BY <1>2, <1>3, <1>4

\* Steps that concern no call of a plan.
LEMMA CallsElsewhere ==
  ASSUME PlanInv, UNCHANGED coordVars,
         \A r \in Requests, k \in Positions : call'[<<r, k>>] = call[<<r, k>>]
  PROVE  PlanInv'
<1>1. TypeOK'
  BY DEF PlanInv, TypeOK, coordVars
<1>2. \A r \in Requests : lost[r] \subseteq Positions
  BY DEF PlanInv, TypeOK
<1>3. InOrder'
  BY <1>2 DEF PlanInv, InOrder, Over, coordVars
<1>4. \A r \in Requests : StepsOf(r) \subseteq Positions /\ StepsOf(r)' = StepsOf(r)
  BY Steps DEF PlanInv, StepsOf, coordVars
<1>5. AnswerIsComplete'
  <2> SUFFICES ASSUME NEW r \in Requests, phase[r] \in {"succeeded", "failed"}
               PROVE  /\ \A k \in StepsOf(r) : Over(r, k)'
                      /\ phase[r] = "succeeded" <=> \E k \in StepsOf(r) : Succeeded(r, k)'
    BY <1>4 DEF AnswerIsComplete, coordVars
  <2>1. \A k \in StepsOf(r) : Over(r, k)' = Over(r, k) /\ Succeeded(r, k)' = Succeeded(r, k)
    BY <1>4 DEF Over, Succeeded, coordVars
  <2> QED BY <2>1 DEF PlanInv, AnswerIsComplete
<1> QED BY <1>1, <1>3, <1>5 DEF PlanInv

LEMMA DistributeInv ==
  ASSUME PlanInv, NEW r \in Requests, Distribute(r)
  PROVE  PlanInv'
<1>1. PICK n \in Positions :
        \E plan \in [1..n -> Capabilities], pick \in [1..n -> Agents \cup {None}] :
          caps' = [caps EXCEPT ![r] = plan] /\ target' = [target EXCEPT ![r] = pick]
  BY DEF Distribute
<1>2. /\ phase[r] = "idle" /\ phase' = [phase EXCEPT ![r] = "running"]
      /\ next' = next /\ lost' = lost /\ call' = call
  BY DEF Distribute, runtimeVars
<1>3. TypeOK'
  <2>1. n \in 0..MaxSteps
    BY StepsAssumption DEF Positions
  <2> QED BY <1>1, <1>2, <2>1 DEF PlanInv, TypeOK
<1>4. InOrder'
  BY <1>2 DEF PlanInv, TypeOK, InOrder, Over
<1>5. AnswerIsComplete'
  <2> SUFFICES ASSUME NEW s \in Requests, phase'[s] \in {"succeeded", "failed"}
               PROVE  /\ \A j \in StepsOf(s)' : Over(s, j)'
                      /\ phase'[s] = "succeeded" <=> \E j \in StepsOf(s)' : Succeeded(s, j)'
    BY DEF AnswerIsComplete
  <2>1. s # r /\ phase'[s] = phase[s] /\ StepsOf(s)' = StepsOf(s)
    BY <1>1, <1>2 DEF PlanInv, TypeOK, StepsOf
  <2>2. \A j \in StepsOf(s) : Over(s, j)' = Over(s, j) /\ Succeeded(s, j)' = Succeeded(s, j)
    BY <1>2 DEF Over, Succeeded
  <2> QED BY <2>1, <2>2 DEF PlanInv, AnswerIsComplete
<1> QED BY <1>3, <1>4, <1>5 DEF PlanInv

\* The step whose turn it is was neither lost nor called before, and the one
\* before it is over.
LEMMA TaskStartInv ==
  ASSUME RuntimeInv, PlanInv, NEW r \in Requests, TaskStart(r)
  PROVE  PlanInv'
<1> DEFINE k == next[r]
<1>1. /\ phase[r] = "running" /\ k \in StepsOf(r) /\ (k > 1 => Over(r, k - 1))
      /\ next' = [next EXCEPT ![r] = k + 1]
      /\ UNCHANGED <<phase, caps, target>>
  BY DEF TaskStart
<1>2. k \in Positions /\ k \in Nat \ {0} /\ <<r, k>> \in Calls
  BY <1>1, Steps, CallsAssumption, StepsAssumption DEF PlanInv, Positions
<1>3. \/ lost' = [lost EXCEPT ![r] = @ \cup {k}] /\ call' = call
      \/ /\ lost' = lost
         /\ \A d \in Calls : d # <<r, k>> => call'[d] = call[d]
  <2>1. PICK a \in Resolved(r, k) :
          IF a = None
            THEN lost' = [lost EXCEPT ![r] = @ \cup {k}] /\ UNCHANGED runtimeVars
            ELSE /\ \E retries \in 0..MaxRetries : CallStart(<<r, k>>, a, retries)
                 /\ UNCHANGED lost
    BY DEF TaskStart
  <2>2. a \in Agents \cup {None}
    BY <1>1, ResolvedAgents DEF PlanInv
  <2>3. CASE a = None
    BY <2>1, <2>3 DEF runtimeVars
  <2>4. CASE a # None
    BY <2>1, <2>2, <2>4, <1>2, OneCall DEF RuntimeInv
  <2> QED BY <2>3, <2>4
<1>4. /\ phase \in [Requests -> {"idle", "running", "succeeded", "failed"}]
      /\ next \in [Requests -> 1..(MaxSteps + 1)] /\ lost \in [Requests -> SUBSET Positions]
      /\ \A s \in Requests, j \in Positions : <<s, j>> \in Calls
  BY CallsAssumption DEF PlanInv, TypeOK
<1>5. k \notin lost[r] /\ call[<<r, k>>].at = "idle"
  BY <1>2 DEF PlanInv, InOrder
<1>6. \A s \in Requests, j \in Positions :
        <<s, j>> # <<r, k>> =>
          /\ call'[<<s, j>>] = call[<<s, j>>]
          /\ j \in lost'[s] <=> j \in lost[s]
  BY <1>3, <1>4
<1>7. TypeOK'
  <2>1. next' \in [Requests -> 1..(MaxSteps + 1)]
    BY <1>1, <1>2, <1>4, StepsAssumption DEF Positions
  <2>2. lost' \in [Requests -> SUBSET Positions]
    BY <1>2, <1>3, <1>4
  <2> QED BY <1>1, <2>1, <2>2 DEF PlanInv, TypeOK
<1>8. InOrder'
  <2> SUFFICES ASSUME NEW s \in Requests
               PROVE  /\ phase'[s] = "idle" => next'[s] = 1
                      /\ \A j \in Positions : j + 1 < next'[s] => Over(s, j)'
                      /\ \A j \in Positions : j >= next'[s] =>
                           j \notin lost'[s] /\ call'[<<s, j>>].at = "idle"
                      /\ \A j \in lost'[s] : call'[<<s, j>>].at = "idle"
    BY DEF InOrder
  <2>1. CASE s # r
    <3>1. next'[s] = next[s] /\ phase'[s] = phase[s]
      BY <1>1, <1>4, <2>1
    <3>2. lost'[s] = lost[s] /\ lost[s] \subseteq Positions
      BY <1>3, <1>4, <2>1
    <3> QED BY <2>1, <3>1, <3>2, <1>6 DEF PlanInv, InOrder, Over
  <2>2. CASE s = r
    <3>1. next'[r] = k + 1 /\ phase'[r] = "running"
      BY <1>1, <1>4
    <3>2. ASSUME NEW j \in Positions, j + 1 < k + 1
          PROVE  Over(r, j)'
      <4>1. j \in Nat \ {0} /\ j < k
        BY <1>2, <3>2, StepsAssumption DEF Positions
      <4>2. Over(r, j)
        <5>1. CASE j + 1 < k
          BY <5>1 DEF PlanInv, InOrder
        <5>2. CASE j = k - 1
          BY <1>1, <1>2, <4>1, <5>2
        <5> QED BY <1>2, <4>1, <5>1, <5>2
      <4> QED BY <4>1, <4>2, <1>6 DEF Over
    <3>3. ASSUME NEW j \in Positions, j >= k + 1
          PROVE  j \notin lost'[r] /\ call'[<<r, j>>].at = "idle"
      <4>1. j # k /\ j >= k
        BY <1>2, <3>3, StepsAssumption DEF Positions
      <4> QED BY <4>1, <1>6 DEF PlanInv, InOrder
    <3>4. ASSUME NEW j \in lost'[r]
          PROVE  call'[<<r, j>>].at = "idle"
      <4>1. CASE j = k
        BY <4>1, <1>3, <1>4, <1>5, <3>4
      <4>2. CASE j # k
        <5>1. j \in lost[r] /\ j \in Positions
          BY <1>3, <1>4, <3>4, <4>2
        <5> QED BY <5>1, <4>2, <1>6 DEF PlanInv, InOrder
      <4> QED BY <4>1, <4>2
    <3> QED BY <2>2, <3>1, <3>2, <3>3, <3>4
  <2> QED BY <2>1, <2>2
<1>9. AnswerIsComplete'
  <2> SUFFICES ASSUME NEW s \in Requests, phase'[s] \in {"succeeded", "failed"}
               PROVE  /\ \A j \in StepsOf(s)' : Over(s, j)'
                      /\ phase'[s] = "succeeded" <=> \E j \in StepsOf(s)' : Succeeded(s, j)'
    BY DEF AnswerIsComplete
  <2>1. s # r /\ phase[s] = phase'[s] /\ StepsOf(s)' = StepsOf(s)
    BY <1>1 DEF StepsOf
  <2>2. StepsOf(s) \subseteq Positions
    BY Steps DEF PlanInv
  <2>3. \A j \in StepsOf(s) : Over(s, j)' = Over(s, j) /\ Succeeded(s, j)' = Succeeded(s, j)
    BY <1>6, <2>1, <2>2 DEF Over, Succeeded
  <2> QED BY <2>1, <2>3 DEF PlanInv, AnswerIsComplete
<1> QED BY <1>7, <1>8, <1>9 DEF PlanInv

LEMMA AggregateInv ==
  ASSUME PlanInv, NEW r \in Requests, Aggregate(r)
  PROVE  PlanInv'
<1>1. /\ phase[r] = "running" /\ next[r] \notin StepsOf(r) /\ Over(r, next[r] - 1)
      /\ phase' = [phase EXCEPT ![r] =
           IF \E k \in StepsOf(r) : Succeeded(r, k) THEN "succeeded" ELSE "failed"]
      /\ UNCHANGED <<call, caps, target, next, lost>>
  BY DEF Aggregate, runtimeVars
<1>2. phase \in [Requests -> {"idle", "running", "succeeded", "failed"}]
  BY DEF PlanInv, TypeOK
<1>3. TypeOK'
  BY <1>1, <1>2 DEF PlanInv, TypeOK
<1>4. InOrder'
  BY <1>1, <1>2 DEF PlanInv, InOrder, Over
<1>5. \A k \in StepsOf(r) : Over(r, k)
  <2>1. PICK n \in 0..MaxSteps : StepsOf(r) = 1..n /\ 1..n \subseteq Positions
    BY Steps DEF PlanInv
  <2>2. next[r] \in Nat /\ next[r] > n
    BY <1>1, <2>1, StepsAssumption DEF PlanInv, TypeOK
  <2> SUFFICES ASSUME NEW k \in 1..n
               PROVE  Over(r, k)
    BY <2>1
  <2>3. CASE k + 1 < next[r]
    BY <2>1, <2>3 DEF PlanInv, InOrder
  <2>4. CASE k = next[r] - 1
    BY <1>1, <2>4
  <2> QED BY <2>2, <2>3, <2>4, StepsAssumption
<1>6. AnswerIsComplete'
  <2> SUFFICES ASSUME NEW s \in Requests, phase'[s] \in {"succeeded", "failed"}
               PROVE  /\ \A j \in StepsOf(s) : Over(s, j)
                      /\ phase'[s] = "succeeded" <=> \E j \in StepsOf(s) : Succeeded(s, j)
    BY <1>1 DEF AnswerIsComplete, StepsOf, Over, Succeeded
  <2>1. CASE s = r
    <3>1. phase'[r] = IF \E j \in StepsOf(r) : Succeeded(r, j) THEN "succeeded" ELSE "failed"
      BY <1>1, <1>2
    <3> QED BY <2>1, <3>1, <1>5
  <2>2. CASE s # r
    <3>1. phase'[s] = phase[s]
      BY <1>1, <1>2, <2>2
    <3> QED BY <3>1 DEF PlanInv, AnswerIsComplete
  <2> QED BY <2>1, <2>2
<1> QED BY <1>3, <1>4, <1>6 DEF PlanInv

\* A call that ends is of a step of a plan that is not answered.
LEMMA TaskEndsInv ==
  ASSUME RuntimeInv, PlanInv, NEW r \in Requests, NEW k \in Positions, TaskEnds(r, k)
  PROVE  PlanInv'
<1>1. AttemptEnds(<<r, k>>) /\ UNCHANGED coordVars
  BY DEF TaskEnds
<1>2. <<r, k>> \in Calls /\ \A s \in Requests, j \in Positions : <<s, j>> \in Calls
  BY CallsAssumption
<1>3. /\ call[<<r, k>>].at = "running"
      /\ \A s \in Requests, j \in Positions :
           <<s, j>> # <<r, k>> => call'[<<s, j>>] = call[<<s, j>>]
  BY <1>1, <1>2, OneCall DEF RuntimeInv
<1>4. k \notin lost[r] /\ ~Over(r, k)
  BY <1>3 DEF PlanInv, InOrder, Over
<1>5. ~(k >= next[r]) /\ ~(k + 1 < next[r])
  BY <1>3, <1>4 DEF PlanInv, InOrder
<1>6. \A s \in Requests, j \in Positions :
        /\ Over(s, j) => <<s, j>> # <<r, k>> /\ Over(s, j)'
        /\ j \in lost[s] => <<s, j>> # <<r, k>>
        /\ j >= next[s] => <<s, j>> # <<r, k>>
  BY <1>1, <1>3, <1>4, <1>5 DEF Over, coordVars
<1>7. TypeOK'
  BY <1>1 DEF PlanInv, TypeOK, coordVars
<1>8. InOrder'
  <2>1. \A s \in Requests : lost[s] \subseteq Positions
    BY DEF PlanInv, TypeOK
  <2>2. /\ next' = next /\ lost' = lost /\ phase' = phase
    BY <1>1 DEF coordVars
  <2> QED BY <1>3, <1>6, <2>1, <2>2 DEF PlanInv, InOrder
<1>9. AnswerIsComplete'
  <2> SUFFICES ASSUME NEW s \in Requests, phase[s] \in {"succeeded", "failed"}
               PROVE  /\ \A j \in StepsOf(s) : Over(s, j)'
                      /\ phase[s] = "succeeded" <=> \E j \in StepsOf(s) : Succeeded(s, j)'
    BY <1>1 DEF AnswerIsComplete, coordVars, StepsOf
  <2>1. StepsOf(s) \subseteq Positions /\ \A j \in StepsOf(s) : Over(s, j)
    BY Steps DEF PlanInv, AnswerIsComplete
  <2>2. \A j \in StepsOf(s) : Over(s, j)' /\ Succeeded(s, j)' = Succeeded(s, j)
    BY <1>3, <1>6, <2>1 DEF Succeeded
  <2> QED BY <2>2 DEF PlanInv, AnswerIsComplete
<1> QED BY <1>7, <1>8, <1>9 DEF PlanInv

-----------------------------------------------------------------------------
(* The invariant                                                            *)

LEMMA CInvInit == Init => CInv
<1> SUFFICES ASSUME Init PROVE CInv
  OBVIOUS
<1>1. RuntimeInv
  BY RuntimeInitInv DEF Init
<1>2. TypeOK
  <2>1. <<>> \in [1..0 -> Capabilities] /\ <<>> \in [1..0 -> Agents \cup {None}]
    BY EmptySeq, LenProperties
  <2>2. \A r \in Requests : caps[r] = <<>> /\ target[r] = <<>>
    BY DEF Init
  <2>3. \A r \in Requests : /\ caps[r] \in [1..0 -> Capabilities]
                            /\ target[r] \in [1..0 -> Agents \cup {None}]
    BY <2>1, <2>2
  <2>4. 0 \in 0..MaxSteps /\ 1 \in 1..(MaxSteps + 1)
    BY StepsAssumption
  <2>5. \A r \in Requests : \E n \in 0..MaxSteps :
          /\ caps[r] \in [1..n -> Capabilities]
          /\ target[r] \in [1..n -> Agents \cup {None}]
    BY <2>3, <2>4
  <2> QED BY <2>4, <2>5 DEF Init, TypeOK
<1>3. \A r \in Requests, k \in Positions : call[<<r, k>>].at = "idle"
  BY CallsAssumption DEF Init, RuntimeInit, IdleCall
<1>4. InOrder
  BY <1>3, StepsAssumption DEF Init, InOrder, Positions
<1>5. AnswerIsComplete
  BY DEF Init, AnswerIsComplete
<1> QED BY <1>1, <1>2, <1>4, <1>5 DEF CInv, PlanInv

LEMMA CInvStep == CInv /\ [Next]_vars => CInv'
<1> SUFFICES ASSUME CInv, [Next]_vars
             PROVE  CInv'
  OBVIOUS
<1>1. RuntimeInv'
  BY FrameworkStep, RuntimeStepInv DEF CInv, PlanInv
<1>2. RuntimeInv /\ PlanInv /\ RuntimeTypeOK
  BY DEF CInv, RuntimeInv
<1>3. ASSUME NEW r \in Requests, Distribute(r) \/ Progress(r)
      PROVE  PlanInv'
  BY <1>2, <1>3, DistributeInv, TaskStartInv, AggregateInv DEF Progress
<1>4. ASSUME NEW r \in Requests, NEW k \in Positions, TaskEnds(r, k)
      PROVE  PlanInv'
  BY <1>2, <1>4, TaskEndsInv
<1>5. ASSUME NEW c \in Direct, Execute(c) \/ AttemptEnds(c), UNCHANGED coordVars
      PROVE  PlanInv'
  <2>1. \A r \in Requests, k \in Positions : <<r, k>> \in Calls /\ <<r, k>> # c
    BY CallsAssumption
  <2>2. c \in Calls
    BY CallsAssumption
  <2>3. \A r \in Requests, k \in Positions : call'[<<r, k>>] = call[<<r, k>>]
    BY <1>2, <1>5, <2>1, <2>2, OneCall DEF Execute
  <2> QED BY <1>2, <1>5, <2>3, CallsElsewhere
<1>6. ASSUME (\E a \in Changing : Register(a) \/ Unregister(a)) /\ UNCHANGED coordVars
      PROVE  PlanInv'
  <2>1. call' = call
    BY <1>6 DEF Register, Unregister
  <2> QED BY <1>2, <1>6, <2>1, CallsElsewhere
<1>7. ASSUME UNCHANGED vars
      PROVE  PlanInv'
  BY <1>2, <1>7, CallsElsewhere DEF vars, runtimeVars
<1>8. PlanInv'
  BY <1>3, <1>4, <1>5, <1>6, <1>7 DEF Next
<1> QED BY <1>1, <1>8 DEF CInv

(* The invariant holds in every reachable state.                            *)
THEOREM CoordinationInvariance == Spec => []CInv
BY CInvInit, CInvStep, PTL DEF Spec

(* Type correctness of the coordinations.                                   *)
THEOREM CoordinationTypeCorrect == Spec => []TypeOK
<1>1. CInv => TypeOK
  BY DEF CInv, PlanInv
<1> QED BY CoordinationInvariance, <1>1, PTL

(* An answer stands on steps that are all over, and tells of a success      *)
(* exactly when there was one, whatever agents came and went.               *)
THEOREM CoordinationAnswers == Spec => []AnswerIsComplete
<1>1. CInv => AnswerIsComplete
  BY DEF CInv, PlanInv
<1> QED BY CoordinationInvariance, <1>1, PTL

(* The coordinator and the clients beside it do nothing to the framework    *)
(* that a client of POST /agents/execute could not: Coordination refines    *)
(* the runtime.                                                             *)
THEOREM CoordinatorIsClient == Spec => RuntimeSpec
<1>1. Init => RuntimeInit
  BY DEF Init
<1>2. CInv => TypeOK
  BY DEF CInv, PlanInv
<1> QED BY <1>1, <1>2, FrameworkStep, CoordinationInvariance, PTL DEF Spec, RuntimeSpec

(* With the coordinator, too, no instance is left busy by calls that ended. *)
THEOREM CoordinationLeavesNoneBusy == Spec => []BusyWhileRunning
BY CoordinatorIsClient, NoneLeftBusy, PTL
=============================================================================
