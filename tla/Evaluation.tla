------------------------------ MODULE Evaluation ------------------------------
(***************************************************************************)
(* app/evaluation: the command line that measures retrieval strategies on  *)
(* a golden dataset.  Each run is a process of its own; runs share the     *)
(* files of datasets, of the history of each strategy and of reports, and  *)
(* rewrite them as a whole.  The retrieval is simulated by a generator or  *)
(* is the real one.  EvalMetrics are integers, in units of 1/Whole, and sums    *)
(* over the queries stand for their averages; latencies are left out.      *)
(***************************************************************************)
EXTENDS Naturals, Sequences, SequencesExt, FiniteSets, FiniteSetsExt

CONSTANTS Evaluators,      \* runs of the command
          RunRequests,     \* what each may be asked for
          EvalStrategies,  \* the strategies
          RecallBias,      \* percentage of what is relevant that a simulation finds
          IndexedChunks,   \* the chunks the simulation knows
          GoldenFiles,     \* datasets on disk at first: the relevant chunks of each query
          DefaultSet, Sample, \* name and queries of the dataset made when one is missing
          ShortK, LongK, Depth, \* 5, 10 and 20 in the code
          Whole, Discount,  \* 1/log2(rank + 1), in the same units
          MetricWeights,   \* of the composite score
          NoSuchFile, Emptied, Unparsable, \* no file, one without text, one in pieces
          MaxEvalClock, EvalFaults \* bounds: seconds, failing writes and killed runs

EvalMetrics == {"recall_short", "recall_long", "mrr", "precision_short", "precision_long",
            "hit_rate", "ndcg_short", "ndcg_long"}

ASSUME EvaluationAssumption ==
  /\ 0 < ShortK /\ ShortK <= LongK /\ LongK <= Depth /\ Whole \in Nat \ {0}
  /\ \A i \in 1..LongK : Discount[i] \in 1..Whole /\ (i > 1 => Discount[i] < Discount[i - 1])
  /\ MetricWeights \in [EvalMetrics \ {"precision_long"} -> 1..100]
  /\ \A r \in Evaluators : \A q \in RunRequests[r] :
       q.simulated \in BOOLEAN /\ q.strategies \in Seq(EvalStrategies) /\ IsInjective(q.strategies)

VARIABLES evalFiles,  \* datasets by name, histories by strategy, reports by second
          evaluation, \* what each run is doing
          opened,     \* the file that a run has truncated and not written yet
          evalClock, evalFaults

evaluationVars == <<evalFiles, evaluation, opened, evalClock, evalFaults>>

DatasetFile(d) == <<"dataset", d>>
HistoryFile(s) == <<"history", s>>
ReportFile(t) == <<"report", t>>

-----------------------------------------------------------------------------
(* MetricsEngine *)

Top(ranking, k) == SubSeq(ranking, 1, IF k < Len(ranking) THEN k ELSE Len(ranking))
HitsAt(ranking, relevant, k) == Cardinality(ToSet(Top(ranking, k)) \cap relevant)

RecallAt(ranking, relevant, k) ==
  IF relevant = {} THEN 0 ELSE (Whole * HitsAt(ranking, relevant, k)) \div Cardinality(relevant)

PrecisionAt(ranking, relevant, k) == (Whole * HitsAt(ranking, relevant, k)) \div k

Mrr(ranking, relevant) ==
  LET ranks == {i \in DOMAIN ranking : ranking[i] \in relevant}
  IN  IF ranks = {} THEN 0 ELSE Whole \div Min(ranks)

HitRate(ranking, relevant) == IF HitsAt(ranking, relevant, LongK) > 0 THEN Whole ELSE 0

GainOf(ranks) == MapThenSumSet(LAMBDA i : Discount[i], ranks)

\* The ideal ranking puts every relevant chunk first.
NdcgAt(ranking, relevant, k) ==
  IF relevant = {} THEN 0
  ELSE LET ideal == IF Cardinality(relevant) < k THEN Cardinality(relevant) ELSE k
       IN  (Whole * GainOf({i \in DOMAIN Top(ranking, k) : ranking[i] \in relevant}))
             \div GainOf(1..ideal)

AllMetrics(ranking, relevant) ==
  [m \in EvalMetrics |->
     CASE m = "recall_short" -> RecallAt(ranking, relevant, ShortK)
       [] m = "recall_long" -> RecallAt(ranking, relevant, LongK)
       [] m = "precision_short" -> PrecisionAt(ranking, relevant, ShortK)
       [] m = "precision_long" -> PrecisionAt(ranking, relevant, LongK)
       [] m = "mrr" -> Mrr(ranking, relevant)
       [] m = "hit_rate" -> HitRate(ranking, relevant)
       [] m = "ndcg_short" -> NdcgAt(ranking, relevant, ShortK)
       [] m = "ndcg_long" -> NdcgAt(ranking, relevant, LongK)]

\* The sums over the queries of a strategy, and the score it is ranked by.
Aggregate(queries) == [m \in EvalMetrics |-> MapThenSumSet(LAMBDA i : queries[i].metrics[m], DOMAIN queries)]
Composite(totals) == MapThenSumSet(LAMBDA m : MetricWeights[m] * totals[m], DOMAIN MetricWeights)

\* The sort is stable.
BoardOf(results) ==
  LET Before(i, j) == \/ Composite(results[i].totals) > Composite(results[j].totals)
                      \/ Composite(results[i].totals) = Composite(results[j].totals) /\ i < j
      Rank(i) == 1 + Cardinality({j \in DOMAIN results \ {i} : Before(j, i)})
  IN  [k \in DOMAIN results |-> results[CHOOSE i \in DOMAIN results : Rank(i) = k].strategy]

-----------------------------------------------------------------------------
(* Retrieval *)

Rankings(chunks, lengths) == UNION {{s \in [1..n -> chunks] : IsInjective(s)} : n \in lengths}

\* SimulatedRetriever: its scores, and with them the order, are random.
Picked(relevant, s) ==
  LET biased == (Cardinality(relevant) * RecallBias[s]) \div 100
  IN  IF biased = 0 THEN (IF relevant = {} THEN 0 ELSE 1) ELSE biased
Noise(relevant) == Cardinality(IndexedChunks \ relevant)

\* A sample of a negative number of chunks raises.
CanSimulate(relevant, s) == Picked(relevant, s) <= Depth

Simulated(relevant, s) ==
  LET room == Depth - Picked(relevant, s)
      length == Picked(relevant, s) + (IF Noise(relevant) < room THEN Noise(relevant) ELSE room)
  IN  {ranking \in Rankings(IndexedChunks \cup relevant, {length}) :
         Cardinality(ToSet(ranking) \cap relevant) = Picked(relevant, s)}

RankedBy(r, relevant, s) ==
  IF evaluation[r].request.simulated THEN Simulated(relevant, s)
  ELSE Rankings(IndexedChunks, 0..Depth)

-----------------------------------------------------------------------------
(* Files.  A write opens the file, which truncates it, and fills it; when    *)
(* others write it meanwhile, what is left may not parse.                    *)

Unopened == <<"none">>
Parses(file) == evalFiles[file] \notin {NoSuchFile, Emptied, Unparsable}

OpensFile(r, file) ==
  /\ evalFiles' = [evalFiles EXCEPT ![file] = Emptied]
  /\ opened' = [opened EXCEPT ![r] = file]

FillsFile(r, content) ==
  LET alone == /\ evalFiles[opened[r]] = Emptied
               /\ \A v \in Evaluators \ {r} : opened[v] # opened[r]
  IN  /\ \E result \in {content} \cup (IF alone THEN {} ELSE {Unparsable}) :
           evalFiles' = [evalFiles EXCEPT ![opened[r]] = result]
      /\ opened' = [opened EXCEPT ![r] = Unopened]

\* A write ends half-way.
BreaksOff(r) ==
  /\ evalFaults < EvalFaults /\ evalFaults' = evalFaults + 1
  /\ evalFiles' = [f \in DOMAIN evalFiles |-> IF f = opened[r] THEN Unparsable ELSE evalFiles[f]]
  /\ opened' = [opened EXCEPT ![r] = Unopened]

DoesStep(r, step, next) ==
  evaluation[r].step = step /\ evaluation' = [evaluation EXCEPT ![r].step = next]

NoRun == [step |-> "idle", request |-> NoSuchFile, queries |-> <<>>, results |-> <<>>, read |-> <<>>,
          second |-> 0]

EvaluationInit ==
  /\ evalFiles = [f \in {DatasetFile(d) : d \in DOMAIN GoldenFiles \cup {DefaultSet}}
                         \cup {HistoryFile(s) : s \in EvalStrategies}
                         \cup {ReportFile(t) : t \in 0..MaxEvalClock} |->
                    IF f[1] = "dataset" /\ f[2] \in DOMAIN GoldenFiles THEN GoldenFiles[f[2]] ELSE NoSuchFile]
  /\ evaluation = [r \in Evaluators |-> NoRun] /\ opened = [r \in Evaluators |-> Unopened]
  /\ evalClock = 0 /\ evalFaults = 0

-----------------------------------------------------------------------------
(* A run *)

\* DatasetManager.load_dataset: for one that is missing the default is taken,
\* or made; a file that does not parse ends the run.
StartRun(r) ==
  /\ evaluation[r].step = "idle"
  /\ \E request \in RunRequests[r] :
       LET asked == DatasetFile(request.dataset)
           file == IF asked \in DOMAIN evalFiles /\ evalFiles[asked] # NoSuchFile
                   THEN asked ELSE DatasetFile(DefaultSet)
       IN  evaluation' = [evaluation EXCEPT ![r] =
             [NoRun EXCEPT !.request = request,
                           !.queries = IF Parses(file) THEN evalFiles[file] ELSE Sample,
                           !.step = IF Parses(file) THEN "evaluating"
                                    ELSE IF evalFiles[file] = NoSuchFile THEN "sampling" ELSE "failed"]]
  /\ UNCHANGED <<evalFiles, opened, evalClock, evalFaults>>

OpenSample(r) ==
  /\ DoesStep(r, "sampling", "saving sample") /\ OpensFile(r, DatasetFile(DefaultSet))
  /\ UNCHANGED <<evalClock, evalFaults>>

SaveSample(r) ==
  /\ DoesStep(r, "saving sample", "evaluating") /\ FillsFile(r, Sample)
  /\ UNCHANGED <<evalClock, evalFaults>>

\* The strategy that is evaluated next.
StrategiesLeft(r) == Len(evaluation[r].results) < Len(evaluation[r].request.strategies)
NextStrategy(r) == evaluation[r].request.strategies[Len(evaluation[r].results) + 1]

\* One strategy on all queries; its history is read.
EvaluateStrategy(r) ==
  /\ evaluation[r].step = "evaluating" /\ StrategiesLeft(r)
  /\ LET s == NextStrategy(r)
         queries == evaluation[r].queries
     IN  /\ evaluation[r].request.simulated => \A i \in DOMAIN queries : CanSimulate(queries[i], s)
         /\ \E rankings \in [DOMAIN queries -> UNION {RankedBy(r, queries[i], s) : i \in DOMAIN queries}] :
              /\ \A i \in DOMAIN queries : rankings[i] \in RankedBy(r, queries[i], s)
              /\ LET found == [i \in DOMAIN queries |->
                                 [ranking |-> rankings[i], relevant |-> queries[i],
                                  metrics |-> AllMetrics(rankings[i], queries[i])]]
                 IN  evaluation' = [evaluation EXCEPT
                       ![r].results = Append(@, [strategy |-> s, queries |-> found,
                                                 totals |-> Aggregate(found)]),
                       ![r].read = IF Parses(HistoryFile(s)) THEN evalFiles[HistoryFile(s)] ELSE <<>>,
                       ![r].step = "read"]
  /\ UNCHANGED <<evalFiles, opened, evalClock, evalFaults>>

\* A retrieval raises: the real one for any reason, the simulated one if it
\* would have to find more than it may return.  The run ends.
RetrievalRaises(r) ==
  /\ DoesStep(r, "evaluating", "failed") /\ StrategiesLeft(r)
  /\ evaluation[r].request.simulated =>
       \E i \in DOMAIN evaluation[r].queries : ~CanSimulate(evaluation[r].queries[i], NextStrategy(r))
  /\ UNCHANGED <<evalFiles, opened, evalClock, evalFaults>>

\* MetricsStorage.store_strategy_result: a failure to write is logged.
OpenHistory(r) ==
  /\ DoesStep(r, "read", "storing")
  /\ OpensFile(r, HistoryFile(Last(evaluation[r].results).strategy))
  /\ UNCHANGED <<evalClock, evalFaults>>

WriteHistory(r) ==
  /\ DoesStep(r, "storing", "evaluating")
  /\ FillsFile(r, Append(evaluation[r].read, [by |-> r, totals |-> Last(evaluation[r].results).totals]))
  /\ UNCHANGED <<evalClock, evalFaults>>

StoringFails(r) ==
  /\ DoesStep(r, "read", "evaluating") \/ DoesStep(r, "storing", "evaluating")
  /\ BreaksOff(r) /\ UNCHANGED evalClock

\* The report of a run takes the name of its second.
MakeReport(r) ==
  /\ evaluation[r].step = "evaluating" /\ ~StrategiesLeft(r)
  /\ evaluation' = [evaluation EXCEPT ![r].step = "reporting", ![r].second = evalClock]
  /\ UNCHANGED <<evalFiles, opened, evalClock, evalFaults>>

OpenReport(r) ==
  /\ DoesStep(r, "reporting", "saving") /\ OpensFile(r, ReportFile(evaluation[r].second))
  /\ UNCHANGED <<evalClock, evalFaults>>

WriteReport(r) ==
  /\ DoesStep(r, "saving", "done")
  /\ FillsFile(r, [by |-> r, board |-> BoardOf(evaluation[r].results)])
  /\ UNCHANGED <<evalClock, evalFaults>>

\* The run is killed, or a write raises where nothing handles it.
RunEnds(r) ==
  /\ evaluation[r].step \notin {"idle", "done", "failed"}
  /\ evaluation' = [evaluation EXCEPT ![r].step = "failed"]
  /\ BreaksOff(r) /\ UNCHANGED evalClock

EvaluationTick ==
  /\ evalClock < MaxEvalClock /\ evalClock' = evalClock + 1
  /\ UNCHANGED <<evalFiles, evaluation, opened, evalFaults>>

EvaluationNext ==
  \/ EvaluationTick
  \/ \E r \in Evaluators :
       \/ StartRun(r) \/ OpenSample(r) \/ SaveSample(r) \/ EvaluateStrategy(r) \/ RetrievalRaises(r)
       \/ OpenHistory(r) \/ WriteHistory(r) \/ StoringFails(r)
       \/ MakeReport(r) \/ OpenReport(r) \/ WriteReport(r) \/ RunEnds(r)

EvaluationSpec == EvaluationInit /\ [][EvaluationNext]_evaluationVars

-----------------------------------------------------------------------------
(* Properties *)

\* The type invariant: a run is in a history at most once, and no file is
\* held open by a run that is over (storage.py, reporting.py).
EvaluationTypeOK ==
  /\ evalClock \in 0..MaxEvalClock /\ evalFaults \in 0..EvalFaults
  /\ \A s \in EvalStrategies : Parses(HistoryFile(s)) =>
       IsInjective([k \in DOMAIN evalFiles[HistoryFile(s)] |-> evalFiles[HistoryFile(s)][k].by])
  /\ \A r \in Evaluators :
       /\ opened[r] \in DOMAIN evalFiles \cup {Unopened}
       /\ evaluation[r].step \in {"idle", "done", "failed"} => opened[r] = Unopened

\* The figures of a query are computed by different walks over the ranking
\* and tell one story: a hit, a recall and a gain go together, precision and
\* recall count the same chunks, more results lower no recall, and the gain is
\* whole exactly when the first results are all that they could be.  And a
\* strategy that is no worse in any figure and better in one that has a
\* weight is ranked before the other.
EvaluationsAgree ==
  \A r \in Evaluators :
    LET results == evaluation[r].results
    IN  /\ \A i \in DOMAIN results : \A k \in DOMAIN results[i].queries :
             LET q == results[i].queries[k]
                 n == Cardinality(q.relevant)
                 Ideal(depth) == \A j \in 1..(IF n < depth THEN n ELSE depth) :
                                   j \in DOMAIN q.ranking /\ q.ranking[j] \in q.relevant
             IN  IF n = 0 THEN \A m \in EvalMetrics : q.metrics[m] = 0
                 ELSE /\ (q.metrics["hit_rate"] = Whole) <=> q.metrics["recall_long"] > 0
                      /\ q.metrics["recall_long"] > 0 <=> q.metrics["ndcg_long"] > 0
                      /\ q.metrics["mrr"] * LongK >= Whole <=> q.metrics["hit_rate"] = Whole
                      /\ q.metrics["recall_short"] <= q.metrics["recall_long"]
                      /\ q.metrics["recall_short"] * n = q.metrics["precision_short"] * ShortK
                      /\ q.metrics["recall_long"] * n = q.metrics["precision_long"] * LongK
                      /\ (q.metrics["ndcg_short"] = Whole) <=> Ideal(ShortK)
                      /\ (q.metrics["ndcg_long"] = Whole) <=> Ideal(LongK)
                      /\ q.metrics["ndcg_long"] <= Whole
        /\ LET board == BoardOf(results)
               Better(i, j) == /\ \A m \in EvalMetrics : results[i].totals[m] >= results[j].totals[m]
                               /\ \E m \in DOMAIN MetricWeights : results[i].totals[m] > results[j].totals[m]
               Place(i) == CHOOSE k \in DOMAIN board : board[k] = results[i].strategy
           IN  \A i, j \in DOMAIN results : Better(i, j) => Place(i) < Place(j)
=============================================================================
