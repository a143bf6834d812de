-------------------------------- MODULE Planning --------------------------------
(***************************************************************************)
(* The query planner (services/planning) - classify, decompose, validate   *)
(* and execute a plan - and the response orchestrator                      *)
(* (services/orchestrator), which runs the five parts of an answer and     *)
(* stands in for the parts that gave nothing.  A planner and a coordinator *)
(* keep no state between requests, so one execution or one answer is       *)
(* followed at a time.  A query is the set of kinds whose keywords it      *)
(* contains and the number of parts "first", "then" ... split it into.     *)
(***************************************************************************)
EXTENDS Integers, FiniteSets, SequencesExt

CONSTANTS PlanChunks,     \* what a retriever may find
          Signals,        \* the keyword kinds queries contain: a set of sets of kinds
          MaxParts,       \* bound: parts of a query
          Unnamed,        \* those of them without a chunk_id
          StepIds,        \* ids in a plan a caller wrote
          MaxSteps,       \* bound: steps of such a plan
          MaxDeps,        \* bound: dependencies of such a step
          EvidenceLimit   \* chunks the answer step hands on (10)

Priority == <<"multi_step", "comparison", "regulatory_change", "timeline", "cross_document",
              "definition", "procedural", "factual">>
PlanKinds == ToSet(Priority) \cup {"unknown"}
StepTypes == {"retrieve", "compare", "extract_timeline", "aggregate", "detect_change",
              "detect_contradiction", "answer"}
Parts == <<"generation", "citation", "confidence", "guard", "attribution">>

ASSUME PlanningAssumption ==
  /\ IsFiniteSet(PlanChunks) /\ Unnamed \subseteq PlanChunks /\ IsFiniteSet(StepIds) /\ Signals \subseteq SUBSET ToSet(Priority)
  /\ {MaxParts, MaxSteps, MaxDeps, EvidenceLimit} \subseteq Nat \ {0}

VARIABLES plan,      \* the plan, of no steps before one is there
          supplied,  \* chunks the request brings along
          pass,      \* indices of the steps this round has still to look at, in their order
          remaining, \* indices of the steps that have not run, in their order
          results,   \* in order: [step, status, output]
          stage,     \* "idle", "planned", "running", "finished"
          planAsked,     \* the answer's request: [parts, failOpen]
          context,   \* what its parts have produced
          answered   \* "no", "working", "refused", "delivered"
planningVars == <<plan, supplied, pass, remaining, results, stage, planAsked, context, answered>>
executionVars == <<plan, supplied, pass, remaining, results, stage>>
answerVars == <<planAsked, context, answered>>

-----------------------------------------------------------------------------
(* Plans *)

\* The first kind of the order whose keyword occurs.
Classify(signals) ==
  IF signals = {} THEN "unknown" ELSE Priority[SelectInSeq(Priority, LAMBDA k : k \in signals)]

PlanStep(id, type, deps, optional) == [id |-> id, type |-> type, deps |-> deps, optional |-> optional]
Free(types) == [i \in DOMAIN types |-> PlanStep(i, types[i], {}, FALSE)]
Simple == Free(<<"retrieve", "answer">>)

\* A retrieval and an aggregation for each part, each after the one before.
MultiStep(parts) ==
  [i \in 1..2 * parts + 1 |->
     IF i = 2 * parts + 1 THEN PlanStep(i, "answer", {i - 1}, FALSE)
     ELSE IF i % 2 = 1 THEN PlanStep(i, "retrieve", {i - 1} \ {0}, FALSE)
     ELSE PlanStep(i, "aggregate", {i - 1}, TRUE)]

Decompose(kind, parts) ==
  CASE kind = "comparison" -> Free(<<"retrieve", "retrieve", "compare", "answer">>)
    [] kind = "timeline" -> Free(<<"retrieve", "extract_timeline", "aggregate", "answer">>)
    [] kind = "regulatory_change" ->
         [Free(<<"retrieve", "retrieve", "detect_change", "answer">>) EXCEPT ![2].optional = TRUE]
    [] kind = "cross_document" ->
         Free(<<"retrieve", "retrieve", "detect_contradiction", "aggregate", "answer">>)
    [] kind = "multi_step" /\ parts > 1 -> MultiStep(parts)
    [] OTHER -> Simple

\* Only an answer step that names none gets dependencies: all steps before it.
ResolveDependencies(steps) ==
  LET last == Len(steps)
  IN IF steps[last].type = "answer" /\ steps[last].deps = {}
     THEN [steps EXCEPT ![last].deps = {steps[i].id : i \in 1..last - 1}] ELSE steps

DefaultExpected(kind) ==
  CASE kind \in {"comparison", "cross_document"} -> 2
    [] kind \in {"timeline", "regulatory_change", "multi_step"} -> 3
    [] OTHER -> 1

SelectStrategy(kind, expected) ==
  CASE kind \in {"definition", "factual", "procedural"} /\ expected <= 1 -> "single_doc"
    [] kind \in {"comparison", "cross_document", "regulatory_change"} -> "multi_doc"
    [] kind \in {"timeline", "multi_step"} -> "iterative"
    [] OTHER -> IF expected > 1 THEN "multi_doc" ELSE "evidence_based"

Complexity(steps, expected) ==
  CASE steps <= 2 /\ expected <= 1 -> "simple"
    [] steps <= 5 /\ expected <= 3 -> "moderate"
    [] OTHER -> "complex"

\* generate; hint 0 leaves the number of documents to the kind.
GeneratedPlan(signals, parts, hint) ==
  LET kind == Classify(signals)
      expected == IF hint = 0 THEN DefaultExpected(kind) ELSE hint
      steps == ResolveDependencies(Decompose(kind, parts))
  IN [kind |-> kind, steps |-> steps, expected |-> expected, generated |-> TRUE,
      strategy |-> SelectStrategy(kind, expected), complexity |-> Complexity(Len(steps), expected)]

\* A plan a caller of the executor or of /validate wrote himself; id 0 is
\* no step's.
RawStep == {PlanStep(id, "compare", deps, FALSE) :
              id \in StepIds, deps \in {d \in SUBSET (StepIds \cup {0}) : Cardinality(d) <= MaxDeps}}
RawPlan(steps) == [kind |-> "unknown", steps |-> steps, expected |-> 1, generated |-> FALSE,
                   strategy |-> "evidence_based", complexity |-> "simple"]
NoPlan == RawPlan(<<>>)

-----------------------------------------------------------------------------
(* Validation *)

StepIdsOf(p) == {p.steps[i].id : i \in DOMAIN p.steps}
Duplicates(p) == \E i, j \in DOMAIN p.steps : i < j /\ p.steps[i].id = p.steps[j].id
MissingDeps(p) == \E i \in DOMAIN p.steps : ~(p.steps[i].deps \subseteq StepIdsOf(p))

\* The graph keeps the last step of an id; the depth-first search finds a
\* cycle exactly when some set of steps each waits for another of the set.
DepsOf(p, id) == p.steps[CHOOSE i \in DOMAIN p.steps :
                           p.steps[i].id = id /\ \A j \in DOMAIN p.steps : p.steps[j].id = id => j <= i].deps
HasCycle(p) ==
  \E ring \in (SUBSET StepIdsOf(p)) \ {{}} : \A id \in ring : DepsOf(p, id) \cap ring # {}

AcceptedPlan(p) ==
  /\ p.steps # <<>> /\ p.expected >= 1
  /\ ~Duplicates(p) /\ ~MissingDeps(p) /\ ~HasCycle(p)

-----------------------------------------------------------------------------
(* Execution *)

Status(id) == results[CHOOSE k \in DOMAIN results :
                        /\ plan.steps[results[k].step].id = id
                        /\ \A l \in DOMAIN results : plan.steps[results[l].step].id = id => l <= k].status
Completed == {plan.steps[results[k].step].id : k \in DOMAIN results}

\* A step runs when each dependency has a result, a failed one included.
ReadyAfterSuccess(i) == \A id \in plan.steps[i].deps : id \in Completed /\ Status(id) = "success"
Ready(i) == plan.steps[i].deps \subseteq Completed

PassagesFound(chunks) == [chunks |-> chunks, cites |-> ToSet(chunks) \ Unnamed, answers |-> FALSE]
NothingFound == PassagesFound(<<>>)

\* The answer step draws on every result so far, in the order they came, and
\* hands on the first ten chunks; the citations are all kept.
Gathered ==
  LET upTo[k \in 0..Len(results)] == IF k = 0 THEN <<>> ELSE upTo[k - 1] \o results[k].output.chunks
  IN upTo[Len(results)]
Cited == UNION {results[k].output.cites : k \in DOMAIN results}
AnswerOf(chunks, cites) ==
  [chunks |-> IF Len(chunks) > EvidenceLimit THEN SubSeq(chunks, 1, EvidenceLimit) ELSE chunks,
   cites |-> cites, answers |-> TRUE]

\* A retrieval takes the chunks the request brought, or those the retriever
\* finds; aggregation and answer cannot fail, retriever and reasoner can.
Outcomes(i) ==
  LET type == plan.steps[i].type
      ok(output) == [step |-> i, status |-> "success", output |-> output]
      failed == [step |-> i, status |-> IF plan.steps[i].optional THEN "skipped" ELSE "failed",
                 output |-> NothingFound]
  IN CASE type = "retrieve" -> IF supplied # <<>> THEN {ok(PassagesFound(supplied))}
                               ELSE {ok(PassagesFound(<<c>>)) : c \in PlanChunks} \cup {ok(NothingFound), failed}
       [] type = "aggregate" -> {ok(NothingFound)}
       [] type = "answer" -> {ok(AnswerOf(Gathered, Cited))}
       [] OTHER -> {ok(NothingFound), failed}

GeneratePlan(signals, parts, hint, chunks) ==
  /\ stage = "idle" /\ answered = "no"
  /\ plan' = GeneratedPlan(signals, parts, hint) /\ supplied' = chunks /\ stage' = "planned"
  /\ UNCHANGED <<pass, remaining, results>> /\ UNCHANGED answerVars

Submit(steps) ==
  /\ stage = "idle" /\ answered = "no"
  /\ plan' = RawPlan(steps) /\ supplied' = <<>> /\ stage' = "planned"
  /\ UNCHANGED <<pass, remaining, results>> /\ UNCHANGED answerVars

\* Nothing asks the validator before: a plan it rejects is executed as well.
Execute ==
  /\ stage = "planned"
  /\ stage' = "running" /\ results' = <<>>
  /\ remaining' = DOMAIN plan.steps /\ pass' = DOMAIN plan.steps
  /\ UNCHANGED <<plan, supplied>> /\ UNCHANGED answerVars

\* One step of the round: the first that is ready.
RunStep ==
  /\ stage = "running"
  /\ \E i \in pass :
       /\ Ready(i) /\ \A j \in pass : j < i => ~Ready(j)
       /\ \E r \in Outcomes(i) : results' = Append(results, r)
       /\ remaining' = remaining \ {i} /\ pass' = {j \in pass : j > i}
  /\ UNCHANGED <<plan, supplied, stage>> /\ UNCHANGED answerVars

\* The k-th of what was left over, in the order of the plan.
LeftOver(k) == CHOOSE i \in remaining : Cardinality({j \in remaining : j < i}) = k - 1

\* The round is over.  It let a step run when it is not that all that
\* remain were passed over; then another round, else the rest is skipped.
EndRound ==
  /\ stage = "running" /\ \A i \in pass : ~Ready(i)
  /\ IF \E i \in remaining : Ready(i)
     THEN pass' = remaining /\ UNCHANGED <<remaining, results, stage>>
     ELSE /\ results' = results \o [k \in 1..Cardinality(remaining) |->
                [step |-> LeftOver(k), status |-> "missing", output |-> NothingFound]]
          /\ remaining' = {} /\ pass' = {} /\ stage' = "finished"
  /\ UNCHANGED <<plan, supplied>> /\ UNCHANGED answerVars

Overall == IF \E k \in DOMAIN results : results[k].status = "failed" THEN "failed" ELSE "success"

\* The last answer step's output, else the last output of all.
FinalOutput ==
  LET given == {k \in DOMAIN results : results[k].status = "success"}
      answers == {k \in given : results[k].output.answers}
      Latest(ks) == CHOOSE k \in ks : \A l \in ks : l <= k
  IN CASE answers # {} -> results[Latest(answers)].output
       [] answers = {} /\ given # {} -> results[Latest(given)].output
       [] OTHER -> NothingFound

Discard ==
  /\ stage \in {"planned", "finished"}
  /\ plan' = NoPlan /\ supplied' = <<>> /\ pass' = {} /\ remaining' = {} /\ results' = <<>>
  /\ stage' = "idle" /\ UNCHANGED answerVars

-----------------------------------------------------------------------------
(* The response orchestrator *)

EmptyContext == [steps |-> <<>>, answer |-> "none", cited |-> "none", confidence |-> "none",
          faith |-> "none", flagged |-> FALSE, attributed |-> FALSE, warnings |-> {}]
NoRequest == [parts |-> {}, failOpen |-> TRUE]

AskAnswer(parts, failOpen) ==
  /\ stage = "idle" /\ answered = "no"
  /\ planAsked' = [parts |-> parts, failOpen |-> failOpen] /\ context' = EmptyContext /\ answered' = "working"
  /\ UNCHANGED executionVars

\* Every part but the first needs the generated answer; an error or a
\* timeout leaves the context as it was.
Produced(part, c, unsupported) ==
  CASE part = "generation" -> [c EXCEPT !.answer = "generated"]
    [] part = "citation" -> [c EXCEPT !.cited = "annotated"]
    [] part = "confidence" -> [c EXCEPT !.confidence = "scored"]
    [] part = "guard" -> [c EXCEPT !.faith = "verified", !.flagged = unsupported]
    [] part = "attribution" -> [c EXCEPT !.attributed = TRUE]
MayDo(part) == part = "generation" \/ context.answer = "generated"

\* The parts asked for that have not run yet, in order.
Outstanding == SelectSeq(Parts, LAMBDA p : p \in planAsked.parts /\ p \notin {s.part : s \in ToSet(context.steps)})

RunPart ==
  /\ answered = "working" /\ Outstanding # <<>>
  /\ \E good \in {MayDo(Head(Outstanding)), FALSE}, unsupported \in BOOLEAN :
       LET part == Head(Outstanding)
           seen == [context EXCEPT !.steps = Append(@, [part |-> part, good |-> good])]
       IN /\ context' = IF good THEN Produced(part, seen, unsupported) ELSE seen
          /\ answered' = IF good \/ planAsked.failOpen THEN "working" ELSE "refused"
  /\ UNCHANGED planAsked /\ UNCHANGED executionVars

\* Stand-ins for what is missing, each with a warning - but none for the
\* attributions.  The endpoint refuses a request without chunks, so the
\* stub of an answer can always be cut from the first.
StandIn(c) ==
  LET missing == {f \in {"answer", "cited", "confidence", "faith"} : c[f] = "none"}
  IN [c EXCEPT !.answer = IF @ = "none" THEN "stub" ELSE @,
               !.cited = IF @ = "none" THEN "empty" ELSE @,
               !.confidence = IF @ = "none" THEN "neutral" ELSE @,
               !.faith = IF @ = "none" THEN "assumed" ELSE @,
               !.flagged = @ \/ "faith" \in missing, !.warnings = missing]

BuildResponse ==
  /\ answered = "working" /\ Outstanding = <<>>
  /\ context' = StandIn(context) /\ answered' = "delivered"
  /\ UNCHANGED planAsked /\ UNCHANGED executionVars

TakeResponse ==
  /\ answered \in {"delivered", "refused"}
  /\ answered' = "no" /\ context' = EmptyContext /\ planAsked' = NoRequest /\ UNCHANGED executionVars

-----------------------------------------------------------------------------
PlanningInit ==
  /\ plan = NoPlan /\ supplied = <<>> /\ pass = {} /\ remaining = {} /\ results = <<>>
  /\ stage = "idle" /\ planAsked = NoRequest /\ context = EmptyContext /\ answered = "no"

PlanningNext ==
  \/ \E signals \in Signals, parts \in 1..MaxParts, hint \in {0, 1, 3},
        chunks \in {<<>>, SetToSeq(PlanChunks)} : GeneratePlan(signals, parts, hint, chunks)
  \/ \E n \in 0..MaxSteps : \E steps \in [1..n -> RawStep] : Submit(steps)
  \/ Execute \/ RunStep \/ EndRound \/ Discard
  \/ \E parts \in SUBSET ToSet(Parts), failOpen \in BOOLEAN : AskAnswer(parts, failOpen)
  \/ RunPart \/ BuildResponse \/ TakeResponse

PlanningSpec == PlanningInit /\ [][PlanningNext]_planningVars

-----------------------------------------------------------------------------
PlanningTypeOK ==
  /\ stage \in {"idle", "planned", "running", "finished"}
  /\ ToSet(supplied) \subseteq PlanChunks /\ plan.kind \in PlanKinds
  /\ \A i \in DOMAIN plan.steps : plan.steps[i].type \in StepTypes
  /\ pass \subseteq remaining /\ remaining \subseteq DOMAIN plan.steps
  /\ \A k \in DOMAIN results :
       /\ results[k].step \in DOMAIN plan.steps
       /\ results[k].status \in {"success", "failed", "skipped", "missing"}
  /\ planAsked.parts \subseteq ToSet(Parts) /\ answered \in {"no", "working", "refused", "delivered"}

\* A plan that passes the validator - every plan the generator makes does -
\* runs whole: each step once, none before a step it depends on, none left
\* over for "missing dependencies"; it counts as a success only when each
\* mandatory step succeeded, and the answer of a generated plan cites every
\* chunk with a chunk_id that any of its retrievals found.
AcceptedPlansRunWhole ==
  /\ plan.generated => AcceptedPlan(plan)
  /\ stage = "finished" /\ AcceptedPlan(plan) =>
       /\ Len(results) = Len(plan.steps) /\ {r.step : r \in ToSet(results)} = DOMAIN plan.steps
       /\ \A k \in DOMAIN results :
            /\ results[k].status # "missing"
            /\ plan.steps[results[k].step].deps \subseteq {plan.steps[results[l].step].id : l \in 1..k - 1}
       /\ Overall = "success" =>
            \A r \in ToSet(results) : plan.steps[r.step].optional \/ r.status = "success"
       /\ plan.generated =>
            FinalOutput.cites = (UNION {ToSet(r.output.chunks) : r \in ToSet(results)}) \ Unnamed

=============================================================================
