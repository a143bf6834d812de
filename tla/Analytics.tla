-------------------------------- MODULE Analytics --------------------------------
(***************************************************************************)
(* The retrieval analytics (services/analytics, repositories/analytics):   *)
(* metrics of single queries, snapshots that aggregate a window, and       *)
(* reports.  Each request is one transaction of the database (external:    *)
(* statements see what is committed, an UPDATE writes the changed columns  *)
(* only), committed when the handler returns and rolled back when it       *)
(* raises.  One reading stands for the fourteen measures of a record.      *)
(***************************************************************************)
EXTENDS Integers, FiniteSets, SequencesExt

CONSTANTS Strategies,      \* ALL_STRATEGIES, in order
          Readings,        \* values of the measure; -1 is a record without it
          Windows,         \* aggregation windows, 1..n in time
          Calls,           \* requests served at a time
          MaxMetrics, MaxSnapshots  \* bounds

ASSUME AnalyticsAssumption ==
  /\ Len(Strategies) > 0 /\ Readings \subseteq -1..100 /\ Windows = 1..Cardinality(Windows)
  /\ IsFiniteSet(Calls) /\ MaxMetrics \in Nat /\ MaxSnapshots \in Nat

NoReading == -1
IdleCall == [stage |-> "idle"]
NoComparison == [best |-> 0, total |-> 0, trends |-> <<>>]

VARIABLES metrics,     \* committed records: [strategy, window, reading, batch, size]
          snapshots,   \* committed rows: [strategy, named, window, mean, count]
          calls,       \* call -> what its transaction holds
          report       \* the last report, NoReport once anything else happens
analyticsVars == <<metrics, snapshots, calls, report>>

AnalyticsInit ==
  /\ metrics = <<>> /\ snapshots = <<>>
  /\ calls = [c \in Calls |-> IdleCall] /\ report = NoComparison

Elements(s) == {s[k] : k \in DOMAIN s}
CallGoes(c, state) == calls' = [calls EXCEPT ![c] = state]

-----------------------------------------------------------------------------
(* Metrics: the items of a batch are flushed one by one *)

BeginBatch(c, size) ==
  /\ calls[c] = IdleCall /\ Len(metrics) + size <= MaxMetrics
  /\ CallGoes(c, [stage |-> "batch", new |-> <<>>, size |-> size])
  /\ UNCHANGED <<metrics, snapshots>>
AddMetric(c, strategy, window, reading) ==
  /\ calls[c].stage = "batch" /\ Len(calls[c].new) < calls[c].size
  /\ CallGoes(c, [calls[c] EXCEPT !.new = Append(@, [strategy |-> strategy, window |-> window, reading |-> reading,
                                                  batch |-> 0, size |-> calls[c].size])])
  /\ UNCHANGED <<metrics, snapshots>>
\* In the database the batch is named by its first record.
WithBatch(c) == metrics \o [k \in DOMAIN calls[c].new |-> [calls[c].new[k] EXCEPT !.batch = Len(metrics) + 1]]
CommitBatch(c) ==
  /\ calls[c].stage = "batch" /\ Len(calls[c].new) = calls[c].size /\ Len(metrics) + calls[c].size <= MaxMetrics
  /\ metrics' = WithBatch(c) /\ CallGoes(c, IdleCall) /\ UNCHANGED snapshots

\* An error in any call ends its transaction.
FlushedStay(c) == IF calls[c].stage = "batch" THEN WithBatch(c) ELSE metrics
RolledBack(c) == metrics
RaiseCall(c) ==
  /\ calls[c] # IdleCall /\ metrics' = RolledBack(c) /\ CallGoes(c, IdleCall) /\ UNCHANGED snapshots

-----------------------------------------------------------------------------
(* Snapshots *)

Of(strategy, first, last) == {k \in DOMAIN metrics : metrics[k].strategy = strategy /\ metrics[k].window \in first..last}
\* The mean of the readings there are; a mean of zero counts as none.
MeanOf(ks) ==
  LET read == {k \in ks : metrics[k].reading # NoReading}
      sum == FoldLeft(LAMBDA a, k : IF k \in read THEN a + metrics[k].reading ELSE a, 0, [k \in DOMAIN metrics |-> k])
  IN IF sum = 0 THEN NoReading ELSE (60 * sum) \div Cardinality(read)

Compute(c, strategy, named, window) ==
  /\ calls[c] = IdleCall
  /\ LET ks == Of(strategy, window, window)
     IN CallGoes(c, [stage |-> "computed", row |-> [strategy |-> strategy, named |-> named, window |-> window,
                                                mean |-> MeanOf(ks), count |-> Cardinality(ks)]])
  /\ UNCHANGED <<metrics, snapshots>>

\* get_latest of the strategy, window type and dataset - of whichever window;
\* more than one row is an error.
Rows(row) == {k \in DOMAIN snapshots : snapshots[k].strategy = row.strategy /\ snapshots[k].named = row.named}
FindSnapshot(c) ==
  /\ calls[c].stage = "computed" /\ UNCHANGED <<metrics, snapshots>>
  /\ LET rows == Rows(calls[c].row)
     IN \/ rows = {} /\ CallGoes(c, [stage |-> "insert", row |-> calls[c].row])
        \/ \E k \in rows : rows = {k} /\ CallGoes(c, [stage |-> "update", row |-> calls[c].row, at |-> k, seen |-> snapshots[k]])
        \/ Cardinality(rows) > 1 /\ CallGoes(c, IdleCall)

\* The columns whose value is not the one read.
Updated(row, seen, new) == [f \in DOMAIN row |-> IF new[f] = seen[f] THEN row[f] ELSE new[f]]
\* One row per window of a named dataset; rows without dataset are never equal.
UniqueRows(rows) == \A j, k \in DOMAIN rows :
  rows[j].named /\ rows[k].named /\ rows[j].strategy = rows[k].strategy /\ rows[j].window = rows[k].window => j = k
StoreSnapshot(c) ==
  LET call == calls[c]
      rows == IF call.stage = "insert" THEN Append(snapshots, call.row)
              ELSE [snapshots EXCEPT ![call.at] = Updated(@, call.seen, call.row)]
  IN /\ calls[c].stage \in {"insert", "update"} /\ Len(rows) <= MaxSnapshots
     /\ snapshots' = IF UniqueRows(rows) THEN rows ELSE snapshots
     /\ CallGoes(c, IdleCall) /\ UNCHANGED metrics

-----------------------------------------------------------------------------
(* Reports *)

\* The sign of the least-squares slope over the windows with readings; a
\* missing mean reads as zero.
Trend(strategy) ==
  LET points == SelectSeq([w \in Windows |-> w], LAMBDA w : \E k \in Of(strategy, w, w) : metrics[k].reading # NoReading)
      n == Len(points)
      value(i) == LET m == MeanOf(Of(strategy, points[i], points[i])) IN IF m = NoReading THEN 0 ELSE m
      slope == FoldLeft(LAMBDA a, i : a + (2 * i - n - 1) * value(i), 0, [i \in 1..n |-> i])
  IN CASE n < 2 -> "none" [] n >= 2 /\ slope > 0 -> "improving" [] n >= 2 /\ slope < 0 -> "degrading" [] OTHER -> "stable"

\* A report asks for one strategy after the other; those without queries are
\* passed over, and the first of the best scores wins: no score at all is 0.
BeginReport(c, first) ==
  /\ calls[c] = IdleCall /\ CallGoes(c, [stage |-> "report", first |-> first, read |-> <<>>])
  /\ UNCHANGED <<metrics, snapshots>>
ReadStrategy(c) ==
  /\ calls[c].stage = "report" /\ Len(calls[c].read) < Len(Strategies)
  /\ LET strategy == Strategies[Len(calls[c].read) + 1]
         ks == Of(strategy, calls[c].first, Cardinality(Windows))
     IN CallGoes(c, [calls[c] EXCEPT !.read = Append(@, [count |-> Cardinality(ks), mean |-> MeanOf(ks), trend |-> Trend(strategy)])])
  /\ UNCHANGED <<metrics, snapshots>>

ScoreOf(r) == IF r.mean = NoReading THEN 0 ELSE r.mean
BestOf(read) ==
  LET some == {k \in DOMAIN read : read[k].count > 0}
      best == {k \in some : \A j \in some : ScoreOf(read[j]) <= ScoreOf(read[k])}
  IN IF some = {} THEN 0 ELSE CHOOSE k \in best : \A j \in best : k <= j
GiveReport(c) ==
  /\ calls[c].stage = "report" /\ Len(calls[c].read) = Len(Strategies) /\ CallGoes(c, IdleCall)
  /\ report' = [best |-> BestOf(calls[c].read),
                total |-> FoldLeft(LAMBDA a, r : a + r.count, 0, calls[c].read),
                trends |-> [k \in DOMAIN calls[c].read |-> calls[c].read[k].trend]]
  /\ UNCHANGED <<metrics, snapshots>>

Called(c) ==
  \/ \E size \in 1..2 : BeginBatch(c, size)
  \/ \E strategy \in Elements(Strategies), window \in Windows, reading \in Readings : AddMetric(c, strategy, window, reading)
  \/ CommitBatch(c) \/ RaiseCall(c)
  \/ \E strategy \in Elements(Strategies), named \in BOOLEAN, window \in Windows : Compute(c, strategy, named, window)
  \/ FindSnapshot(c) \/ StoreSnapshot(c) \/ ReadStrategy(c)
  \/ \E first \in Windows : BeginReport(c, first)
AnalyticsNext ==
  \E c \in Calls : (Called(c) /\ report' = NoComparison) \/ GiveReport(c)
AnalyticsSpec == AnalyticsInit /\ [][AnalyticsNext]_analyticsVars

-----------------------------------------------------------------------------
\* Concurrent first snapshots of a strategy and dataset leave one row each -
\* after which the key can be computed no more - but never more than that.
AnalyticsTypeOK ==
  /\ \A k \in DOMAIN snapshots : Cardinality(Rows(snapshots[k])) <= Cardinality(Calls)
  /\ UniqueRows(snapshots) /\ Len(metrics) <= MaxMetrics /\ report.best \in 0..Len(Strategies)

\* The metrics of a batch are in the database all or none, whatever item
\* fails and whatever other requests do meanwhile.
BatchesAreWhole ==
  \A k \in DOMAIN metrics : Cardinality({j \in DOMAIN metrics : metrics[j].batch = metrics[k].batch}) = metrics[k].size
==================================================================================
