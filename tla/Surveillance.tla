----------------------------- MODULE Surveillance -----------------------------
(***************************************************************************)
(* The monitoring engine and the two schedulers that drive it and the      *)
(* ingestion of what it finds: app/services/monitoring and the scheduler   *)
(* of app/services/ingestion.  Rounds of the background tasks and rounds   *)
(* that clients ask for interleave wherever a source is fetched or a       *)
(* document is ingested.  Discoveries carry what tells them apart: source, *)
(* address and version.  The ingestion of one document is the module       *)
(* Ingestion; here it is taken, or it raises.                              *)
(***************************************************************************)
EXTENDS Naturals, Sequences, FiniteSets

CONSTANTS Clients,
          Sources,      \* registered sources, all enabled
          Listings,     \* what a source may list: a set of sequences of rows
          NoVersion,    \* a row without a version
          Window,       \* page_size of DiscoveryFilter_All
          Nobody,       \* who holds a lock that is free
          MaxFound, MaxRounds, \* bounds: discoveries, rounds and requests
          SurveyFaults, SurveyCrashes \* bounds: failed appends, restarts

Loops  == {"monitoring", "ingestion"}   \* each scheduler has one background task
Actors == Clients \cup Loops
Rows   == UNION {UNION {{rows[i] : i \in DOMAIN rows} : rows \in Listings[s]} : s \in Sources}
Discoveries == [source: Sources, row: Rows, change: {"NEW", "UNCHANGED"}, known: BOOLEAN]

ASSUME SurveillanceAssumption ==
  /\ IsFiniteSet(Sources)
  /\ \A s \in Sources : Listings[s] \subseteq Seq([url: STRING, version: STRING \cup {NoVersion}])
  /\ Nobody \notin Actors /\ Clients \cap Loops = {}
  /\ Window \in Nat \ {0} /\ MaxFound \in Nat /\ MaxRounds \in Nat
  /\ SurveyFaults \in Nat /\ SurveyCrashes \in Nat

VARIABLES found,     \* the discoveries in memory, oldest first
          monitorRuns, \* the runs in memory
          saved,     \* what monitoring.jsonl holds up to the first bad line
          loop,      \* of each scheduler: running, its task, who holds its lock
          job,       \* what each client and background task is doing
          taken,     \* history: the places of discoveries that were ingested
          rounds, svFaults, svCrashes

surveillanceVars ==
  <<found, monitorRuns, saved, loop, job, taken, rounds, svFaults, svCrashes>>

Idle == [at |-> "idle", of |-> "monitoring", todo |-> <<>>, since |-> 0]

SurveillanceInit ==
  /\ found = <<>> /\ monitorRuns = <<>> /\ taken = {}
  /\ saved = [found |-> <<>>, runs |-> <<>>, broken |-> FALSE]
  /\ loop = [l \in Loops |-> [running |-> FALSE, task |-> "none", lock |-> Nobody]]
  /\ job = [a \in Actors |-> Idle]
  /\ rounds = 0 /\ svFaults = 0 /\ svCrashes = 0

-----------------------------------------------------------------------------
(* InMemoryMonitoringStore: a line that cannot be parsed ends the loading. *)

SavedWith(f, docs, run) ==
  IF f.broken THEN f
  ELSE [f EXCEPT !.found = @ \o docs, !.runs = Append(@, run)]

Save(docs, run) ==
  \/ saved' = SavedWith(saved, docs, run) /\ UNCHANGED svFaults
  \/ /\ svFaults < SurveyFaults /\ svFaults' = svFaults + 1
     /\ \/ \E n \in DOMAIN docs :    \* one line is not written, or only a piece
             \/ saved' = SavedWith(saved, SubSeq(docs, 1, n - 1) \o SubSeq(docs, n + 1, Len(docs)), run)
             \/ saved' = IF saved.broken THEN saved
                         ELSE [saved EXCEPT !.found = @ \o SubSeq(docs, 1, n - 1), !.broken = TRUE]
        \/ saved' = IF saved.broken THEN saved
                    ELSE [saved EXCEPT !.found = @ \o docs, !.broken = TRUE]

-----------------------------------------------------------------------------
(* MonitoringRepository.add_discovery *)

\* find_discovery_by_url: the first that was added.
FirstAt(list, url) ==
  {list[i] : i \in {j \in DOMAIN list : /\ list[j].row.url = url
                      /\ \A k \in 1..(j - 1) : list[k].row.url # url}}

Noted(list, s, row) ==
  LET existing == FirstAt(list, row.url)
  IN  [source |-> s, row |-> row, known |-> existing # {},
       change |-> IF row.version # NoVersion /\ \E d \in existing : d.row.version = row.version
                  THEN "UNCHANGED" ELSE "NEW"]

\* Mutant of AddAll: the known addresses are looked up before the source is
\* fetched.
AddAllStale(list, since, s, rows) ==
  list \o [i \in DOMAIN rows |-> Noted(SubSeq(list, 1, since), s, rows[i])]

\* The documents of a listing are added one after another, after the fetch.
AddAll(list, since, s, rows) ==
  LET added[i \in 0..Len(rows)] ==
        IF i = 0 THEN list ELSE Append(added[i - 1], Noted(added[i - 1], s, rows[i]))
  IN  added[Len(rows)]

-----------------------------------------------------------------------------
(* Rounds.  RegulatoryMonitor.run_all takes the sources in turn;             *)
(* ingest_pending_discoveries takes the newest discoveries, newest first.    *)

Newest(n) == [i \in 1..n |-> Len(found) + 1 - i]

Agenda(l) ==
  IF l = "ingestion"
  THEN {Newest(IF Len(found) < Window THEN Len(found) ELSE Window)}
  ELSE {order \in [1..Cardinality(Sources) -> Sources] :
          \A i, j \in DOMAIN order : order[i] = order[j] => i = j}

Round(l, todo) == [at |-> "round", of |-> l, todo |-> todo, since |-> Len(found)]

\* After a round a client has its answer and a background task sleeps.
Finished(a) == IF a \in Loops THEN [Idle EXCEPT !.at = "asleep", !.of = a] ELSE Idle
Proceed(a) == IF Len(job[a].todo) = 1 THEN Finished(a)
              ELSE [job[a] EXCEPT !.todo = Tail(@), !.since = Len(found')]

AtRound(a, l) == job[a].at = "round" /\ job[a].of = l /\ job[a].todo # <<>>

\* RegulatoryMonitor.run_source, after the adapter has answered.
SourceListed(a) ==
  /\ AtRound(a, "monitoring")
  /\ LET s == Head(job[a].todo)
     IN  \E rows \in Listings[s] :
           LET all == AddAll(found, job[a].since, s, rows)
               run == [source |-> s, healthy |-> TRUE, count |-> Len(rows)]
           IN  /\ Len(all) <= MaxFound
               /\ found' = all /\ monitorRuns' = Append(monitorRuns, run)
               /\ Save(SubSeq(all, Len(found) + 1, Len(all)), run)
  /\ job' = [job EXCEPT ![a] = Proceed(a)]
  /\ UNCHANGED <<loop, taken, rounds, svCrashes>>

\* The adapter raises: the run is unhealthy and the round goes on.
SourceFailed(a) ==
  /\ AtRound(a, "monitoring")
  /\ LET run == [source |-> Head(job[a].todo), healthy |-> FALSE, count |-> 0]
     IN  monitorRuns' = Append(monitorRuns, run) /\ Save(<<>>, run)
  /\ found' = found
  /\ job' = [job EXCEPT ![a] = Proceed(a)]
  /\ UNCHANGED <<loop, taken, rounds, svCrashes>>

DocumentTaken(a) ==
  /\ AtRound(a, "ingestion")
  /\ taken' = taken \cup {Head(job[a].todo)}
  /\ found' = found
  /\ job' = [job EXCEPT ![a] = Proceed(a)]
  /\ UNCHANGED <<monitorRuns, saved, loop, rounds, svFaults, svCrashes>>

\* One ingestion raises: the rest of the round is dropped.
DocumentRaised(a) ==
  /\ AtRound(a, "ingestion")
  /\ job' = [job EXCEPT ![a] = Finished(a)]
  /\ UNCHANGED <<found, monitorRuns, saved, loop, taken, rounds, svFaults, svCrashes>>

BeginRound(a, l) ==
  /\ rounds < MaxRounds /\ rounds' = rounds + 1
  /\ \E todo \in Agenda(l) :
       job' = [job EXCEPT ![a] = IF todo = <<>> THEN Finished(a) ELSE Round(l, todo)]
  /\ UNCHANGED <<found, monitorRuns, saved, loop, taken, svFaults, svCrashes>>

-----------------------------------------------------------------------------
(* The schedulers: start and stop under their lock, and the background task. *)

\* A request of a client: a round, one source, one discovery, start or stop.
RequestRound(c, l) == job[c].at = "idle" /\ BeginRound(c, l)

RequestOne(c) ==
  /\ job[c].at = "idle" /\ rounds < MaxRounds /\ rounds' = rounds + 1
  /\ \/ \E s \in Sources : job' = [job EXCEPT ![c] = Round("monitoring", <<s>>)]
     \/ \E i \in DOMAIN found : job' = [job EXCEPT ![c] = Round("ingestion", <<i>>)]
  /\ UNCHANGED <<found, monitorRuns, saved, loop, taken, svFaults, svCrashes>>

Unchanged == UNCHANGED <<found, monitorRuns, saved, taken, svFaults, svCrashes>>

RequestSwitch(c, l) ==
  /\ job[c].at = "idle" /\ rounds < MaxRounds /\ rounds' = rounds + 1
  /\ \E at \in {"starting", "stopping"} :
       job' = [job EXCEPT ![c] = [Idle EXCEPT !.at = at, !.of = l]]
  /\ UNCHANGED loop /\ Unchanged

\* Mutant of LockFree: start and stop do not take the lock.
LockIgnored(l) == loop[l].lock \in Actors \cup {Nobody}

LockFree(l) == loop[l].lock = Nobody

StartLoop(c) ==
  LET l == job[c].of
  IN  /\ job[c].at = "starting" /\ LockFree(l)
      /\ IF loop[l].running
         THEN /\ job' = [job EXCEPT ![c] = Idle] /\ UNCHANGED loop
         ELSE /\ loop' = [loop EXCEPT ![l].running = TRUE, ![l].task = "live"]
              /\ job' = [job EXCEPT ![c] = Idle, ![l] = Finished(l)]
      /\ UNCHANGED rounds /\ Unchanged

\* stop cancels the task and awaits it with the lock held.
StopLoop(c) ==
  LET l == job[c].of
  IN  /\ job[c].at = "stopping" /\ LockFree(l)
      /\ IF ~loop[l].running
         THEN /\ job' = [job EXCEPT ![c] = Idle] /\ UNCHANGED loop
         ELSE /\ loop' = [loop EXCEPT ![l] = [running |-> FALSE, task |-> "cancelled", lock |-> c]]
              /\ job' = [job EXCEPT ![c].at = "joining"]
      /\ UNCHANGED rounds /\ Unchanged

\* The cancellation reaches the task where it awaits; what it fetched is lost.
TaskEnds(c) ==
  LET l == job[c].of
  IN  /\ job[c].at = "joining"
      /\ loop' = [loop EXCEPT ![l].task = "none", ![l].lock = Nobody]
      /\ job' = [job EXCEPT ![c] = Idle, ![l] = Idle]
      /\ UNCHANGED rounds /\ Unchanged

Works(a) == IF a \in Loops THEN loop[a].task = "live" ELSE TRUE

Wake(l) == Works(l) /\ job[l].at = "asleep" /\ BeginRound(l, l)

ServiceRestart ==
  /\ svCrashes < SurveyCrashes /\ svCrashes' = svCrashes + 1
  /\ found' = saved.found /\ monitorRuns' = saved.runs
  /\ loop' = [l \in Loops |-> [running |-> FALSE, task |-> "none", lock |-> Nobody]]
  /\ job' = [a \in Actors |-> Idle]
  /\ taken' = {}
  /\ UNCHANGED <<saved, rounds, svFaults>>

SurveillanceNext ==
  \/ ServiceRestart
  \/ \E c \in Clients : RequestOne(c) \/ StartLoop(c) \/ StopLoop(c) \/ TaskEnds(c)
  \/ \E c \in Clients, l \in Loops : RequestRound(c, l) \/ RequestSwitch(c, l)
  \/ \E l \in Loops : Wake(l)
  \/ \E a \in Actors : Works(a) /\
       (SourceListed(a) \/ SourceFailed(a) \/ DocumentTaken(a) \/ DocumentRaised(a))

SurveillanceSpec == SurveillanceInit /\ [][SurveillanceNext]_surveillanceVars

-----------------------------------------------------------------------------
(* Health and properties *)

\* MonitoringHealthChecker: the discoveries that the runs add up to.
TotalDiscoveries ==
  LET upTo[i \in 0..Len(monitorRuns)] ==
        IF i = 0 THEN 0 ELSE upTo[i - 1] + monitorRuns[i].count
  IN  upTo[Len(monitorRuns)]

SurveillanceTypeOK ==
  /\ found \in Seq(Discoveries) /\ Len(found) <= MaxFound
  /\ saved.found \in Seq(Discoveries) /\ saved.broken \in BOOLEAN
  /\ loop \in [Loops -> [running: BOOLEAN, task: {"none", "live", "cancelled"},
                         lock: Clients \cup {Nobody}]]
  /\ \A a \in Actors :
       /\ job[a].at \in {"idle", "asleep", "round", "starting", "stopping", "joining"}
       /\ job[a].of \in Loops
  /\ taken \subseteq 1..MaxFound

\* However start and stop overlap, a scheduler whose lock is free runs exactly
\* when it has a task to stop, and a task that works belongs to a scheduler
\* that says it runs: no task is left behind that nothing can stop.
SchedulersAsReported ==
  \A l \in Loops :
    /\ loop[l].lock = Nobody => (loop[l].running <=> loop[l].task = "live")
    /\ job[l].at # "idle" /\ loop[l].task = "live" => loop[l].running

\* Overlapping rounds announce nothing twice: whatever the order in which
\* sources answer the background task and the clients, a document that comes
\* again in the version in which it was first found is not new, and the
\* runs add up to the discoveries, until a line of the file is lost.
AnnouncedOnce ==
  svFaults = 0 =>
    /\ \A i, j \in DOMAIN found :
         /\ i < j /\ found[i].row = found[j].row /\ found[i].row.version # NoVersion
         /\ \A k \in 1..(i - 1) : found[k].row.url # found[i].row.url
         => found[j].change = "UNCHANGED"
    /\ TotalDiscoveries = Len(found)
=============================================================================
