# A TLA+ model of RegIntel AI

RegIntel AI is a backend (FastAPI, Python) that ingests regulatory documents,
watches the regulators' sites for new ones, answers questions about them with
a search, a pipeline and a set of agents, and keeps what people make of the
answers: assessments, recommendations, workflows, reviews, governance decisions
and an audit log.  This directory models the parts of `app/` that keep state
over time or decide something that several other parts rely on: what several
requests, coroutines or worker processes can do to it, and what a failed
statement, a torn file or a restart leaves of it.  TLC checks the models on
small instances; TLAPS proves most of the results for every value of the
constants.

Paths below are relative to the repository; `services/` stands for
`app/services/`.

Contents: [the system](#1-the-system) · [modules](#2-modules) ·
[ingestion and agents](#3-ingestion-and-the-agent-runtime) ·
[review and audit](#4-review-and-audit-log) ·
[casework](#5-casework-what-people-make-of-the-documents) ·
[serving](#6-serving-what-answers-a-request) · [runs](#7-the-runs) ·
[proofs](#8-the-proofs) ·
[divergences](#9-where-code-and-documentation-disagree) ·
[not modelled](#10-what-is-not-modelled) · [plan](#11-plan)

## 1. The system

One process is one asyncio event loop; `docker-compose.production.yml` starts
several such processes (uvicorn workers), which share the database and the
files under `data/` and nothing else.  Services are built once per process
(`app/api/dependencies.py`).  A handler runs without interruption from one
`await` that really waits to the next, so:

* a service whose methods never await is atomic in one process;
* a service that awaits the database, a parser, a sender or an agent is
  interleaved at those points with every other request;
* providers of services, and handlers that are not coroutines, run in threads
  of a pool;
* two processes are interleaved everywhere.

Most services keep a dict in memory and a file beside it.  Two habits recur:
*append a JSON line at every save, keep the last line per id at the next start*
(reviews, ingestion runs, workflows, diffs, assessments, alerts, conversations,
memories, the graph), and *rewrite the whole file from memory at every change*
(audit log, governance, administration).  A write that fails is logged and
otherwise ignored.

| Component | State | Operations | Talks to | What is hard |
|---|---|---|---|---|
| Auto-ingestion (`services/ingestion`) | runs in memory, `ingestion.jsonl`, one `AsyncSession` for all runs | `ingest` (URL), `ingest_upload`, `FailureRecovery.run`, scheduler and pending discoveries | registry, parser, chunker, embedder, index, graph; monitoring | duplicates racing past a check; retries of half-done work; a session nobody rolls back; a restart in the middle |
| Document registry (`services/document.py`, `parser_service.py`, `storage_service.py`) | `documents`, pages and chunks tables; files | register, update status, parse | ingestion, routers | a rule checked on a status read earlier; the identity map |
| Agent framework (`services/agents`) | registry, health and status of agents | register, unregister, execute, coordinate | agents, orchestration | several calls on one agent; timeouts and retries; agents replaced while they run |
| Orchestration (`services/orchestration`) | plans, evidence store, runs | `orchestrate`, `run_graph`, routing | agent framework | shared plan and shared evidence; order and end of waves |
| Review (`services/review`) | reviews in memory, `reviews.jsonl` | create, start, decide, approve, reject, escalate, withdraw | audit, workflow | two approval endpoints; no status is final; torn appends |
| Audit log (`services/audit`) | records, evidence and reports in memory, `audit.jsonl` | append, add evidence, verify | every service that records | a file that every worker rewrites from its own memory |
| Workflow (`services/workflow`) | workflows and tasks of each worker, one file | create, advance, complete, block, tasks | recommendations, review | several copies of one workflow; completion while tasks change |
| Change detection, impact, risk, recommendations, forecasts | a store per stage and worker, a file per stage | compare, analyze, assess, recommend, forecast | each other, by file | a stage looks up the stage before it in the file |
| Monitoring (`services/monitoring`) | discoveries, runs, two background tasks | rounds, start and stop, ingest pending | ingestion | overlapping rounds; tasks started and stopped by many clients |
| Alerting (`services/alerting`) | alerts, subscriptions, two files | create, process_pending, subscribe | senders | reading PENDING before an await |
| Governance (`services/governance`) | policies and decisions of each worker, one file | seed, create, evaluate | answers | defaults added again at every start; whole-file writes |
| Accounts (`services/admin`, `app/security`) | users and roles in every worker, tokens, lockouts, one file | administration, signup, login, refresh | audit | several services over one file, each rewriting it whole |
| Middleware (`app/middleware`, `app/security`) | windows of the limiter, access log, threats | every request | all | sliding windows under interleaving; who records what |
| Wiring (`app/api/dependencies.py`, `app/core`) | singletons of a worker, seeds | providers, start | all | check-then-build in threads |
| Keyword index, search, answers | index file and rows; a context per request | build, search, fuse, rerank, answer | database, LLM provider | workers that build one index; stages that fail one by one |
| Intelligence agents, research, audit agent | knowledge, reports, counters | run, coordinate | answers, compliance stages | several records for one request |
| Planning, reasoning, knowledge graph | a plan, a report, a graph and its file | plan and execute, compare, traverse | search | dependencies and cycles; greedy matching |
| Copilot, conversation, memory | two stores, requests under way | ask, turn, remember, expire | search, answers | memories of others; appends that fail; restarts that bring back what was deleted |
| Analytics, observability, evaluation | rows; counters; files of runs | record, aggregate, measure | all | counters that must agree; transactions that overlap; runs over one file |

`PROJECT.json` lists every component with its sources and status, and every
hazard at the line where it bites.

## 2. Modules

| Module | Models | Proofs in |
|---|---|---|
| `DocumentLifecycle` | the transition table of a document's status | — |
| `Ingestion` | runs by URL and by upload, the registry, the parser, the shared session, the run store, restarts | `IngestionProofs` |
| `AgentRuntime` | registry of agents and the execution engine: the abstract specification `RuntimeSpec` of what clients may rely on, and the actions it is built from | `AgentRuntimeProofs` |
| `Orchestration` | orchestrations, plans, waves, evidence; an implementation of `RuntimeSpec` | `OrchestrationProofs` |
| `Coordination` | planner, distributor and aggregator beside direct executions; extends `AgentRuntime` | `CoordinationProofs` |
| `JsonlFile` | a file that a store appends to and reads back line by line; instantiated by `Review` and `Workflow` | — |
| `Review` | the review requests and the consensus of requirements | `RecursionProofs` |
| `AuditLog` | several workers' copies of one hash chain and their file | `RecursionProofs` |
| `Workflow` | one workflow, its tasks, and the copies that workers have of it | `CaseworkProofs` |
| `ComplianceChain` | diff, impact, risk, recommendation, workflow and review requests, forecasts: what refers to what | `CaseworkProofs` |
| `Surveillance` | rounds, discoveries, both schedulers, ingestion of what is pending | `CaseworkProofs` |
| `Alerting` | alerts, deduplication, delivery by overlapping calls, subscriptions | `CaseworkProofs` |
| `Governance` | policies, approval policies, decisions, the judgement of a decision | `CaseworkProofs` |
| `Accounts` | users, roles, signup, login, tokens: an administration per worker over one file | `CaseworkProofs` |
| `Gateway` | the middleware around a request, rate limit, access log, threat detector | `RecursionProofs` |
| `Platform` | start of a worker, a binding that may fail, lazily built services | `ServingProofs` |
| `ChangeDetection` | the comparison of two versions, as the loop it is | `ServingProofs` |
| `KeywordIndex` | both BM25 indexes, their file and rows | `ServingProofs` |
| `HybridSearch` | classification, two sources, fusion, reranking | `RecursionProofs` |
| `Answers` | the stages of the answer pipeline, each of which may fail | `RecursionProofs` |
| `IntelligenceAgents` | research, compliance and risk agent, the coordinated pipeline, reports | `ServingProofs` |
| `AuditAgent` | one audit run and its verdict | `ServingProofs` |
| `Planning` | the planner, the validator, the executor; the response orchestrator | `RecursionProofs` |
| `KnowledgeGraph` | nodes, relationships, traversals, cycles, both back ends | `ServingProofs` |
| `Reasoning` | comparison, timeline, changes, contradictions | `RecursionProofs` |
| `Copilot` | conversations, memories, answers of overlapping requests | `ServingProofs` |
| `Analytics` | metrics, batches, snapshots, comparisons, as transactions | `ServingProofs` |
| `Observability` | the counters of all collectors, tracked blocks, resets | — |
| `Evaluation` | runs of the evaluation command and the files they rewrite | — |

`MCIngestion`, `MCOrchestration`, `MCCoordination`, `MCReview`, `MCAuditLog`
define the constants of one module's instances that a `.cfg` cannot write.
`MCCasework` and `MCServing` do so for several modules at once: these parts
share no variable, a variable `focus` chooses in the initial state which one
moves, and the others stay where they are.  The behaviours are therefore those
of the parts one by one; what the parts exchange at their borders is an input of
each (a discovery, a risk assessment on file, a reply of a search).

Three modules of proofs combine several components: `CaseworkProofs` those that
`MCCasework` runs side by side, with theorems about the composition,
`ServingProofs` and `RecursionProofs` the others.  `Induction` has what all three
share: induction over the numbers, and that recursive functions over `0..n` exist.

Some definitions are plausible faulty versions of the one they stand beside
(`RrfShareUngrouped` before `RrfShare`, `RegisterInsertTwice` before
`RegisterInsert`, ...); `PROJECT.json` lists them as mutants.  They are not part
of the specifications: substituting one breaks the property it is meant for,
which shows that the property is about the code and not about the model.  `map`
in `PROJECT.json` names the lines each definition models; a small helper goes
with the definition that uses it.

Bounds have a constant each.  `MaxAttempts`, `FailureLimit`, `MaxSteps`,
`Window`, `DedupWindow`, `HandoffCap`, `EvidenceLimit` and the settings of the
limiter and the login exist in the code too, with larger values; the others
(`Max…`, `…Faults`, `…Crashes`) only cap the state space and appear in guards.

## 3. Ingestion and the agent runtime

**Ingestion.** `pc[r]` is the place of run `r`'s coroutine, `status` the
`IngestionRun` in memory, `disk` what a start would read of it in
`ingestion.jsonl`, `journal` whether a bad line cuts that file off, `answer`
what the caller got, `shown` the end that `GET /ingestion/runs` then lists.  A
document is identified with its checksum, UNIQUE in the schema, and a checksum
with the content.  `docs`, `pages`, `chunks`, `embeddings` are the tables;
`session` says whether the one session of the service can still be used.

| Action | Code |
|---|---|
| `Trigger`, `Download`, `DuplicateCheck`, `SaveDownload`, `RegisterCheck`, `RegisterInsert` | `AutoIngestionService.ingest` up to the registration; `DuplicateDetector`; `register_document` |
| `UploadCheck`, `StoreBlob`, `UploadRegister`, `UploadStart`, `Lookup` | the upload request, then `ingest_upload` |
| `ParseLoad`, `ParseBegin`, `Refresh`, `ParseBody`, `ParseEnd` | `ParserService.parse_document` with its identity map, its FAILED mark and the refresh |
| `Chunk`, `EmbedBegin`, `EmbedEnd`, `Index`, `ExtractGraph` | the steps both handlers share, each with its own error path |
| `PatchRead`, `PatchWrite` | a status change by hand: read and check, then write |
| `DbOk`, `DbFails` | a statement on the shared session: once one fails all fail, because nothing rolls back |
| `Retry`, `AttemptFails`, `Settle`, `Escape` | `FailureRecovery.run`, a returned run, an exception that leaves the handler |
| `AppendRun`, `AuditFails`, `ReadBack` | the run store: an append that fails is only logged and may leave a piece of a line; a start reads up to the first line it cannot parse |
| `Restart` | a restart: coroutines are lost, the run store is read again, the session is new |

One process; all chunks of a document are one batch of embeddings; an update and
its commit are one step, the refresh after them is another.  A piece of a line
that lacks nothing but its newline is left out: it would be read back. An upload
is answered "processing" whatever came of it.  The branch of `ingest_upload`
that would mark the document INDEXED cannot be reached (`RegistryExposesService
= FALSE`, section 9).

Properties: two runs may pass the duplicate check, one registers
(`OneRunPerDocument`); "completed" means processed (`CompletedIsProcessed`); the
end of a run that was appended before a bad line survives every restart, and of
any other a restart may know less but never another end, though an append may
fail and cut off whatever follows (`AnswerSurvivesRestart`); every run ends
(`EveryRunEnds`).

**Agent runtime.** `AgentRuntime` has one `call` per `AgentExecutionEngine.run`
and one number per registered instance of an agent, because an agent can be
registered anew while its old instance still runs.  `CallStart` is the lookup
and the first attempt; `AttemptEnds` is an attempt that returns, is refused by
validation, fails, or is ended by `asyncio.wait_for`, followed by the next
attempt or the end of the call; `Register` and `Unregister` are the registry.
Health is a streak of failures up to `FailureLimit`.

`Orchestration` adds `orchestrate` and `run_graph`: `Begin` clears the evidence
store, `OpenWave` computes the eligible steps or takes the first pending one
when there is none, `StepStart` routes a step (a named agent, or by
capability) and writes the agent's name into the plan that all orchestrations
of that workflow share, `StepEnds` collects the output, `CloseWave` is the end
of `gather`, `Finish` turns outputs into evidence and reads the whole store.
`Coordination` has `Distribute` (planner and distributor), `TaskStart`
(resolution of the agent when the step's turn comes), `TaskEnds` and
`Aggregate`; the calls in `Direct` are `POST /agents/execute`.

`RuntimeSpec` is what the framework promises its clients.  `Orchestration`
implements it under `Calls <- Orchs \X Positions` (TLC checks `RuntimeSpec` as a
property, `OrchestratorIsClient` proves it), `Coordination` under its own calls
(`CoordinatorIsClient`).  Priorities and the order of registration are
abstracted to "any of the candidates"; whether an agent returns an output is
nondeterministic; capability lists are constant.  The models have finer steps
than the code's points of suspension, which only adds behaviours.

Properties: `BusyWhileRunning`, `ChainInOrder`, `OwnEvidenceKept`,
`AnswerIsComplete`, and that every orchestration and coordination ends.

## 4. Review and audit log

**Review.** `review` is the one review in the store's memory: its status and its
requirements (role, number of approvals, who approved, who rejected); `file` is
what `reviews.jsonl` says of it.  The endpoint of creation takes requirements
with approvals and rejections in them, and the consensus counts a list that may
name an approver twice: `repeats` is how many entries do, and `created` keeps
the requirements as they came.  Properties: an approved review has enough
approvals, nobody against it, and only what its list repeated at creation counts
for nobody (`ApprovedIsUnanimous`); consensus that was not there at creation
takes effect at once (`ConsensusTakesEffect`).  Every handler is one action,
because none awaits: `Create`, `Start`, `DecideApprove`/`DecideReject` (`POST
/decide` and `/approve`), `RecordApproval`/`RecordRejection` (the approvals
endpoint, with different rules for the status), `Escalate`, `Withdraw`,
`Annotate` (all that saves without changing what is modelled), each followed by
`Save`, which appends a line, perhaps a torn one; `Restart` reads the file.
`JsonlFile` assumes that a failed append leaves nothing or a piece of a line,
and follows the code in that a later append continues such a line.  One process
and one review: reviews share no state but the file, whose lines are independent
except for a torn one.  `clean` counts saves since the last failed write, up to
two.

**Audit log.** `memory[w]` is the `AuditStore` of worker `w` (`Closed` before
its first request), `auditFile` the one file of all.  `AppendRecord` and
`Attach` change the worker's store under its lock and open the file, which
truncates it; `WriteFile` and `WriteFails` end the write; `Load` reads the file;
`Stop` ends a worker, in a write or between requests.  While a file is open for
writing it is `Torn`: it does not parse, and a worker that loads it logs an
error and starts empty.  When the writes of two workers overlap, their pieces
mix.  The model lets the result be unparsable, or the head of one store with the
records of another; `overlapped` remembers that it happened.  After an overlap
only the type and `ForksStayApart` are claimed: without the condition
`~overlapped`, TLC finds `ChainIntact` broken in eight states (two workers write
at once, the mixture parses, a new worker loads it and its chain does not
verify).  Assumed: SHA-256 is free of collisions over the fields it hashes; a
JSON round trip is faithful; records differ (their id and time are hashed).  The
metadata of a record is not hashed (section 9) and not modelled, so nothing here
says that a change of it shows. `ForksStayApart`: workers append to their copies
without seeing each other, so histories part; whatever is written over what, no
copy ever mixes two branches or has a record twice, and a rewrite erases only
the end of a history.

## 5. Casework: what people make of the documents

**`Workflow`.** `copy[w]` is the workflow in the memory of worker `w`, `lines`
its lines in `workflows.jsonl`.  `CreateWorkflow`, `CreateWithTasks` (the
workflow, then the same with its tasks), `ChangeWorkflow` (each operation of
the engine and of the task manager on the worker's copy: advance, complete,
block, escalate, add and finish tasks, with the code's refusals) and
`WorkerRestart`.  `CompletedCoversItsTasks`: what "workflow.completed" recorded
covers the tasks the workflow had when it was completed, in every worker's copy
and in every version a restart may load, although tasks can be added later,
completions report any status, and older copies are saved over newer ones.

**`ComplianceChain`.** A stage that needs an earlier result builds a fresh store
over the file of that stage.  `produced` numbers what each stage made, `file`
is what such a fresh store finds, `held` the recommendations a worker holds;
an action per stage (`DetectChange`, `AnalyzeImpact`, `AssessRisk`,
`GenerateRecommendations`, `Feedback`, `CreateForRecommendation`,
`CreateForRisk`, `CreateReview`, `Forecast`) with the templates, thresholds and
priorities of the code.  `ProvenanceStays`: what a record was made from is in
the file of its stage, then and later, for every worker.  The exception is the
default assessment that the code makes up when a request names none that is on
file: it has an id of its own, is never stored, and the recommendation refers to
it (`Unstored`, section 9); the property says that this happens for no known
area, and never when the request named an assessment and no write failed.

**`Surveillance`.** `job` is what each client and each background task is doing
between two awaits, `loop` the flag, the task and the lock of each of the two
schedulers, `found` and `monitorRuns` the engine's lists, `saved` the file.
`RequestRound`, `SourceListed`, `SourceFailed` are a round source by source;
`RequestSwitch`, `StartLoop`, `StopLoop`, `TaskEnds`, `Wake` are start, stop and
the ticks; `DocumentTaken`, `DocumentRaised` the ingestion of pending
discoveries.  `SchedulersAsReported`: no task that nothing can stop, no flag
without a task.  `AnnouncedOnce`: the version in which an address was first found
is not new when it comes again, and the runs add up to the discoveries; later
versions are compared with the first only (section 9).

**`Alerting`.** `call[c]` is one call of `process_pending`: the alerts it took,
the one in hand, what was delivered; `sent` remembers what the senders were
asked.  `AlertsAccountable`: a delivered alert reached somebody,
and without a failed write exactly the repetitions within the window are
skipped.

**`Governance`.** `store[w]` is a worker's register, `govFile` the last complete
write.  `StartService` loads the file and adds the default policies with fresh
ids.  The rules, scopes and the verdict of a decision are those of the engine.
`NoUnguardedStart`: after every start the baseline policies are in force,
whatever was switched off, deleted or lost before.

**`Accounts`.** `desk[s]` is the directory that the administration of worker `s`
has in memory (`NoDesk` before the first request for it), `adminFile` the one
file of all; signup and login open a directory of their own over the file, which
seeds it when it is empty.  All of them write it as a whole, so one
administration erases what another did: `upToDate` are the workers whose
administration knows the last write of an administration.  Tokens are issued, used up
and lost with the process; failed logins lock an address in one
worker.  `DirectoryAgrees`: as long as no read or write fails or meets another's,
the file has what an up-to-date administration knows, and nobody who was deleted.

## 6. Serving: what answers a request

**`Gateway`.** `sockets[s]` is the request on its way through the layers in the
order in which `main.py` adds them; `EnterGateway` is authentication and the
key gate, `RateLimit` the window, `Respond` the endpoint, `RecordAccess` the
log.  `InspectRequest` is the probe detector.  `WindowsHeld`: no window of
an identity ever admits more than its limit, and probing is reported exactly
when enough different paths were touched within the window.

**`Platform`.** `asking[w][t]` is the stack of services that a thread is
building; the check and the assignment of a singleton are separate steps.
`BindCrossModuleServices` may fail after any of its services; the code drops the
error and starts anyway, so the rest is left to the first requests.
`BoundServicesAreOne`: once the administration is bound to an instance, no request
of that worker is given another one.

**`KeywordIndex`.** A worker's start counts chunks, compares, writes the file,
then the row (`StartWarmup` … `FinishWarmup`, `IndexCrash` anywhere between);
the endpoints build an index in memory.  `AddedChunksAreFound`: while one
builder works at a time, a finished start leaves an index that holds every
chunk it saw.

**`HybridSearch`, `Answers`.** The classifier and the recommended strategy, two
sources that answer or fail in either order, four fusion methods in exact
integers, reranking with its fallbacks (`UnanimousOrderKept`); then retrieval,
generation, citation, confidence, verification, routing, enrichment and audit,
each with a step that fails (`UnflaggedIsWellGrounded`: an answer leaves without
a flag only on strong evidence).

**`ChangeDetection`.** The loop over sections, the blocks of difflib (any
alignment with the right common parts), and the greedy pairing of clauses in a
replaced block.  `DiffIsExact`: every clause of either version ends in exactly
one change.

**`IntelligenceAgents`, `AuditAgent`.** A request is a step.  The outcomes of
the services they call are inputs; scores, levels, cuts, deadlines and the
counters are those of the code.  An archived report has the kind of a general
one and the request's number of steps, whatever the mode.  `AnswersConsistent`
and `VerdictSeesAllFindings` are about the order in which lists are cut and
answers are made of them.

**`Planning`.** The generator's plans for each kind of query, a plan a caller
wrote, the validator, and the executor round by round and step by step; beside
it the response orchestrator with its stand-ins.  `AcceptedPlansRunWhole`: a
plan that passes the validator, as every generated one does, leaves no step out,
and its answer cites what was retrieved.  Chunks without a chunk_id (`Unnamed`)
are used and never cited.

**`KnowledgeGraph`, `Reasoning`.** The graph in memory and on file, on either
back end (`GraphOutlivesRestart`), with its traversals compared to a reference
definition of reachability (`AnalysesAreExact`).  The search for cycles keeps an
index per node of its stack; as it enters a node once, the set of relationships
it has looked at (`looked`) stands for them.  The depth and the number of steps
that the code reports are left out.  In `Reasoning` the walks over pairs of
passages whose results must agree (`ReportsAgree`).

**`Copilot`.** `conversations` and `memories` with their files, `asks[q]` a
request between reading the memories and writing the turn.  An append may fail,
which the code swallows, and may leave a piece of a line, behind which a start
reads nothing (`cut`); a search of the memories saves each one it finds, as its
access is counted.  `begun` and `recorded` are history: what a memory was first
recorded with is never changed.
`MemoryStaysWithItsUser`: what is remembered of an answer rests, at every
remove, on memories of that user and conversation; also when memory and file no
longer agree.

**`Analytics`, `Observability`, `Evaluation`.** Requests as transactions of the
database (`BatchesAreWhole`); a bag of counters per collector, and blocks that
end normally, by an exception or by cancellation; runs of the evaluation
command, each a process, over shared files.  `CountersTellOneStory` joins what
their figures, and those of the intelligence agents, must have in common.

## 7. The runs

Distinct states are those of two TLC workers; every run ends within five
minutes.

| Run | Instance | Checks | States |
|---|---|---|---|
| `ingestion_race` | 2 runs by URL, 1 upload, 2 contents, 2 attempts, 1 failing statement or append, 1 restart, no status change by hand; symmetry of URL runs and contents | `OneRunPerDocument`, `CompletedIsProcessed`, `AnswerSurvivesRestart` | 2,209,268 |
| `ingestion_patch` | 1 run by URL, 1 upload, 1 content, 1 status change by hand, 2 attempts, 1 fault, 1 restart; fair | `EveryRunEnds` | 394,414 |
| `orchestration_shared` | 2 orchestrations of one plan of 2 steps in both modes, 2 agents, one of which comes and goes | `OwnEvidenceKept`, the refinement `RuntimeSpec` | 676,425 |
| `orchestration_graphs` | 1 orchestration of 3 steps: chain, circle, names as dependencies, backward; fair | `ChainInOrder`, `EveryOrchestrationEnds` | 50,038 |
| `orchestration_deps` | 3 steps, backward dependencies, sequential | refutes `DependenciesRespected` | — |
| `coordination` | 1 coordination of up to 2 steps, 1 direct execution, 2 agents, one of which comes and goes, 1 retry; fair | `BusyWhileRunning`, `AnswerIsComplete`, `EveryCoordinationEnds` | 366,867 |
| `review_panel` | 2 actors, 2 roles, 5 kinds of requirement lists, two of them with votes in them at creation, 2 failed writes, 2 restarts; symmetry of actors | `ApprovedIsUnanimous`, `ConsensusTakesEffect` | 250,314 |
| `audit_chain` | 2 workers, 4 records, 1 attachment, 2 failed writes, 2 ended workers; symmetry of workers and records | `ChainIntact`, `ForksStayApart` | 726,526 |
| `audit_workers` | 2 workers, 3 records, no failures | refutes `AppendOnly` | — |
| `casework` | the six parts of section 5, each with two workers or clients, one fault and one restart; symmetry of the workers of `Accounts` | one property of each part (two of `Surveillance`), and the types | 1,621,098 |
| `serving_front` | detection, gateway, platform, keyword index, search, answers, audit agent | one property of each, and the types | 409,086 |
| `serving_agents` | intelligence agents, observability, planning, graph, reasoning, copilot, analytics, evaluation; symmetry of the copilot's requests | their properties and the types | 618,440 |

**Why the bounds are enough to be interesting.** The hazards of ingestion need
two runs on one content and a third party: the loser of the UNIQUE index
breaks the session of the other, an upload registers through another session.
Two contents are needed for a run that fails because of a document that is not
its own.  Two attempts are what a retry needs; a fault and a restart may fall
anywhere.  In the orchestrator two runs with two steps cover every overlap of
clearing, adding and reading evidence; the graphs need three steps for an order
that list order does not give.  In the review two actors and two requirements
make quorums, repeated roles and split votes; two failures reach a torn line
appended to a torn line.  In the audit log four records let two workers diverge
by two each.

In `casework` two workers hold different copies of one workflow, and the older
is saved last; the monitoring has two clients and both background tasks on two
sources, one of which lists an address twice; two calls of `process_pending`
overlap on two alerts; the governance holds the three defaults and enough
policies for a second and third seeding; two workers have an administration
each, and two addresses suffice for an account that only one of them knows.  In
`serving_front` the gateway has two requests under way and a clock that leaves
the window, the platform two threads of one worker and a binding that fails at
any service, the keyword index two workers and crashes between every two steps,
the search all ways in which two sources agree on three chunks, the answers
every combination of failing stages.  `serving_agents` reaches cycles of the
graph with parallel relationships, circular and unknown dependencies of plans,
queries too long for the agents' research, chunks without a chunk_id, and
memories of a user and of anonymous requests in one conversation, with an append
that fails or is torn.  Every property has a mutant that TLC finds under the
same configuration, and together the runs take every action of every
specification.

**Deadlock** is checked for `review_panel`, `audit_chain` and `audit_workers`,
where some request is always possible.  The other systems stop by design when
every request has been answered and the bounds are used up, and their
configurations say `CHECK_DEADLOCK FALSE`; where it matters that they do not
stop earlier, a liveness property says so.

**Symmetry** is used only in runs without liveness properties.

**Fairness.** Weak fairness of each run's steps (`ingestion_patch`), of
`Progress` of each orchestration and coordination, and of the end of each
attempt.  The first two are the event loop, which resumes a coroutine once
what it awaits is there, and the database, the parser and the other callees
answer or raise.  The last is `asyncio.wait_for`, which ends an attempt that
does not end by itself.  Requests, faults, restarts, registrations and status
changes by hand are never fair: nothing has to happen for the properties to
hold.  No strong fairness is used.

## 8. The proofs

Everything below holds for every value of the constants that satisfies the
named assumptions (`RunsAssumption`, `CallsAssumption`, `GatewayAssumption`,
...), which TLC evaluates in the runs.  The assumptions say what kind of values
the constants are - finite sets, numbers, distinguished values outside the
sets they complete - and what the code fixes, such as thresholds in their order.
One asks more, `RoutingAssumption` (see `Answers` below).

### The arguments

**`IngestionProofs`.** `TypeOK` is not inductive: the type of `docs` after a
step needs to know that the run has a document.  `IInv` adds, for each run,
`HasDocument`, `ParseProgress` (a second attempt at parsing meets a FAILED
document or a broken session, unless somebody changes the status by hand),
`StoredSoFar` (what is stored follows from the place of the run) and
`Finished`; over all runs `OneRunPerDocument` and `UntouchedInv` (nothing is
stored of a document no run registered).  From it follow `TypeCorrect`,
`OneWinner`, `ParsedOnce` (for `Patches = {}`), `NeverStoredTwice`,
`CompletedSound`, and the action property `NothingResumes`.  `AnswersSurvive`
has an invariant of its own, `AnswerInv`: a run that is not over is at most
pending in the file, and one that is over is there with its end, or as that
earlier state if its append failed or came after a bad line.

**`AgentRuntimeProofs`.** `RuntimeInv` is the type, `BusyWhileRunning` and
`EveryAttemptGranted`: an attempt's number stays in its type only because no
call makes more attempts than it was granted, and a busy instance stays
explained only when the instance numbers of running calls are in use.

**`OrchestrationProofs`.** `OInv` says that calls of an orchestration run only
in its open wave (`CallsInWave`), that every step which is no longer pending is
over (`Behind`), and that a finished answer holds its own outputs.  From it:
`AnswersComplete`, `AnswersKeepOwnEvidence`, and the refinement
`OrchestratorIsClient`: initial states map to initial states, and every step of
the orchestrator is a step of `RuntimeSpec` or a stutter; `NoneLeftBusy` carries
over.  `ChainsRunInOrder` holds when each orchestration has a plan of its own
whose ids are not the name of an agent, which is how `build_default_graph` makes
them (fresh `stp-…` tokens); its invariant `ChainInv` follows the wave: nothing
is eligible, so the first pending step is taken, and in a chain the first is the
one whose dependency is over.

**`CoordinationProofs`.** Steps behind the next but one are over, no call was
made for the next step or a later one, and none is made for a step whose agent
was gone (`CInv`): `CoordinationAnswers`; and the refinement `CoordinatorIsClient`.

**`CaseworkProofs`.** *Workflow*: what holds of the copy of one worker must hold
of every line of the file, because a restart loads it; `WorkflowInv` speaks of
both, and of the last worker to save.  *Alerting*: a call of `process_pending`
holds alerts that another call may settle meanwhile; `AlertInv` says that they
stay in the store and were not skipped, that what a call has delivered was sent,
and that without a fault file and memory agree and each skipped alert repeats an
earlier one.  *Governance*: the register of a worker that changed no policy
since its start holds the baseline policy, whatever the file held (`GovInv`).
*Surveillance*: `SchedulerInv` follows flag, task and lock through start and
stop; `AnnouncedInv` says that the book of discoveries, the runs and the file
tell the same history as long as no append failed; `SurveyTypes` adds that the
file holds no more than memory, which bounds what a start reads.
*ComplianceChain*: `ChainInv` says of every record of every stage that what it
was made from is in the files, or is the default assessment of no known area
(`StagesOK`, files only grow), and that while no append failed the files hold
all records (`FilesWhole`). *Accounts*: `AccountsInv` compares the file with the
directory of each worker that is up to date (`Agrees`, `Knows`) through the
seeding, signup, login and every whole-file write, and says that nobody who was
deleted is in the file. *The composition*: a step of one part leaves the
variables of the others as they are, so `CaseworkSpec` implements the
specification of each part (`PartsAsAlone`); every theorem about a part carries
over (`CaseworkTypesCorrect`, `CaseworkStaysSound`).

**`Induction`.** Handlers that go over a list are recursive functions over
`0..n`.  The library's induction theorems take an operator as a parameter, which
the provers cannot instantiate; but a *set* can take its place.  `UpToInduction`
and `RecursionExists` state induction for an arbitrary subset of the numbers and
the existence of a recursive function over it; each use names the set.

**`RecursionProofs`.** *Review*: `ReviewInv` is unanimity of the review in
memory and of every version a restart may load, with `Healed`, which relates the
two by the number of clean saves; what holds since a review's creation compares
its requirements with those it was created with, where only votes are added.
*AuditLog*: the invariant is `AuditTypeOK`, `BodiesUsed`, `StoresSound` (every
store, and the file when it parses, is a chain whose every digest spells the
history up to it), `WritersOpen` and `OneWriteSavesAll`, each under
`~overlapped` where overlapping writes void it.  `BranchesStayApart` needs none
of this: a body is used for one record (`BodiesUsed`), whose digest spells the
history it was appended to, so a record two copies share has one past in both.
`AloneAppendOnly` proves `AppendOnly`, which `audit_workers` refutes for two
workers, for the deployment it was written for: one worker that neither fails to
write nor ends. *Gateway*: `GatewayInv` ties each deque to the history of
admissions: `Traced` maps every hit to the admission it stands for, so that an
admission it misses has left the window, and the limit on the deque is a limit
on the history; `Remembers` does the same for the detector, which counts
distinct paths.  Both rest on what dropping from the left of a sorted deque
leaves (`FirstKeptIs`).  *Planning*: `PlanInv` says of an execution of an
accepted plan that its results and what remains are together every step
(`Progress`), and that each result came in its turn.  If a round let nothing
run, what remains would be a ring, which the validator rejects (`NoneLeftOver`);
a generated plan has no ring because its steps wait for smaller numbers only
(`GeneratedIsAccepted`), which also makes it run in order, the answer last.
*Answers*: `AnswersInv` says of the context of each query what the stages it
passed guarantee: no abstention with evidence, no confidence without a score, no
missing flag below the threshold (`ContextSound`).  The stages are easy; the
weighted mean is not: `HalfIsNotEnough` bounds each factor over the sums of its
loops (`FactorBounds`) and adds the bounds up with the weights.  It needs
`RoutingAssumption`, a bound of the weights by the upper threshold that the
defaults of `app/core/config.py` and of the weights meet and that other settings
may not: nothing in the code relates the two. *Reasoning*: the alignment is a
loop over the passages of one document that marks what it used of the other; a
comparison and a contradiction apply the same test to two passages in opposite
orders, which is where the symmetry of the overlap is needed
(`ReasoningAssumption`; the code blends a cosine with a Jaccard overlap,
`services/citation/mapper.py:172`).  *HybridSearch*: each method of fusion is
monotone in the rank or the score of every source, so an order that all sources
agree on survives the sum; scores are whole multiples of a unit that all the
divisions of the code divide (`Unit`, `RrfUnit`), and differences below the
rounding of floating-point sums are not modelled.

**`ServingProofs`.** *Platform*: a thread builds only what was missing when it
asked, and when the administration is bound all it is bound to exists before any
thread asks (`PlatformInv`); if the binding failed nothing is bound.
*KnowledgeGraph*: memory and file agree but for lost writes.  *Copilot*: as long
as no append failed what is held is on file; whatever failed, each memory in the
store or the file is one that was recorded (`AsRecorded`), and what was recorded
only grows, so a restart can bring nothing else back. *Analytics*: `BatchInv`
knows of each transaction which of its items are flushed. *KeywordIndex*:
`KeywordInv` follows a builder between count, file and row (`WarmupKnows`) and
states why comparing two numbers is enough: chunks are only ever added, so an
index of the same size has the same chunks. *AuditAgent*: severities are cut
after sorting, so what is cut is no worse than what is left.
*IntelligenceAgents*: actions are made of the gaps that were kept; scores grow
with their adjustment and levels with their score, by the code's thresholds.
`CountersInv` says what each method of the metrics keeps (`MetricsAgree`) and
that in the broker a first hand-off is followed by its second one, so that
cutting the oldest entry never leaves more of the first than of the second.
*ChangeDetection*: the loop of `compare_documents` is a cursor that splits both
versions into what is paired and what is left; a replaced block gives each of
its clauses to one partner, because a partner that was taken is not offered
again. *KnowledgeGraph*, analyses: the queue of an impact traversal is sorted by
depth, and what was seen at a depth is what is `Within` it; the stack of the
search for cycles is a path, no relationship leads from a finished node to one
that is not, so a ring is closed before its last node is left, and the search
ends because every round of its loop looks at a node or finishes one.

### The results

| Module | Theorems (with the property of a run they state) |
|---|---|
| `IngestionProofs` | `TypeCorrect`, `OneWinner` (`OneRunPerDocument`), `ParsedOnce`, `NeverStoredTwice`, `CompletedSound` (`CompletedIsProcessed`), `AnswersSurvive` (`AnswerSurvivesRestart`), `NothingResumes` |
| `AgentRuntimeProofs` | `RuntimeTypeCorrect`, `NoneLeftBusy` (`BusyWhileRunning`), `AttemptsExact` |
| `OrchestrationProofs` | `OrchestrationTypeCorrect`, `AnswersComplete`, `AnswersKeepOwnEvidence` (`OwnEvidenceKept`), `ChainsRunInOrder` (`ChainInOrder`), `OrchestratorIsClient` (`RuntimeSpec`), `OrchestrationLeavesNoneBusy` |
| `CoordinationProofs` | `CoordinationTypeCorrect`, `CoordinationAnswers` (`AnswerIsComplete`), `CoordinatorIsClient`, `CoordinationLeavesNoneBusy` (`BusyWhileRunning`) |
| `CaseworkProofs` | `WorkflowTypeCorrect`, `CompletionSound` (`CompletedCoversItsTasks`), `LastSaveStands`, `OverIsOver`; `AlertingTypeCorrect`, `AlertsTrue` (`AlertsAccountable`); `GovernanceTypeCorrect`, `StartsGuarded` (`NoUnguardedStart`); `SurveillanceTypeCorrect`, `SchedulersStayAsReported` (`SchedulersAsReported`), `NothingAnnouncedTwice` (`AnnouncedOnce`); `ChainTypeCorrect`, `ProvenanceStaysTrue` (`ProvenanceStays`); `AccountsTypeCorrect`, `DirectoriesAgree` (`DirectoryAgrees`); `PartsAsAlone`, `CaseworkTypesCorrect` (`CaseworkTypesOK`), `CaseworkStaysSound` |
| `RecursionProofs` | `ReviewTypeCorrect`, `OnlyUnanimous` (`ApprovedIsUnanimous`), `VerdictAtOnce` (`ConsensusTakesEffect`), `HealsAfterTwo`; `AuditTypeCorrect`, `ChainAlwaysIntact` (`ChainIntact`), `BranchesStayApart` (`ForksStayApart`), `CopiesAgree`, `WriteMakesDurable`, `AloneAppendOnly` (`AppendOnly` for one worker); `WindowsAreHeld` (`WindowsHeld`); `PlansRunWhole` (`AcceptedPlansRunWhole`); `UnflaggedAnswersAreGrounded` (`UnflaggedIsWellGrounded`); `ReportsAlwaysAgree` (`ReportsAgree`); `UnanimousOrderIsKept` (`UnanimousOrderKept`) |
| `ServingProofs` | `PlatformTypeCorrect`, `BoundServicesStayOne` (`BoundServicesAreOne`); `GraphTypeCorrect`, `RestartsKeepTheGraph` (`GraphOutlivesRestart`), `AnalysesStayExact` (`AnalysesAreExact`); `CopilotTypeCorrect`, `MemoriesStayOwn` (`MemoryStaysWithItsUser`); `BatchesStayWhole` (`BatchesAreWhole`); `ChunksAreFound` (`AddedChunksAreFound`); `VerdictIsOfAll` (`VerdictSeesAllFindings`); `AnswersStayConsistent` (`AnswersConsistent`), `CountersStayTogether` (`CountersAgree`); `DetectionTypeCorrect`, `DiffAccountsForAll` (`DiffIsExact`) |

### Only model-checked

* Liveness: `EveryRunEnds`, `EveryOrchestrationEnds`, `EveryCoordinationEnds`.
  The prover handles neither liveness under fairness nor ENABLED.
* `ServingTypesOK` and `AssistantTypesOK`, which put the types of fifteen modules
  together, each those that its run moves; those of
  `Platform`, `KnowledgeGraph`, `Copilot` and `ChangeDetection` are theorems,
  the others hold what the proofs needed of them in their invariants.
* Two parts of `CountersTellOneStory`, `MetricsAddUp` and `EvaluationsAgree`: their
  sums are folds and bags of the community modules, whose definitions the provers
  do not unfold, and the figures of a ranking are divisions, of which neither
  backend knows enough.  The third, `CountersAgree`, is a theorem: the sums of
  `IntelligenceAgents` are numbers of elements (`SumOver`).

## 9. Where code and documentation disagree

Refuted by a run:

1. `orchestration_deps`: "a step is eligible when all its deps are done"
   (`services/orchestration/__init__.py:569`), but ids are compared with agent
   names, so no step with a dependency is ever eligible and list order decides.
1. `audit_workers`: the "append-only log" (`services/audit/__init__.py:95`)
   loses records when two workers write in turn, and the rest verifies.

Observed while modelling, without a run of their own.  *Ingestion and agents*:

* the document of a completed upload stays PARSED: the code looks for an
  attribute the adapter does not have (`services/ingestion/__init__.py:1312`;
  the comment of line 1307 says it becomes INDEXED);
* `update_document_status` "enforces lifecycle transition rules"
  (`services/document.py:117`) on a status it read before an await;
* overlapping orchestrations may find each other's outputs in their answers,
  and dispatching a step writes the chosen agent into the registered workflow
  (`services/orchestration/__init__.py:425`), so later runs are bound to it;
* the coordinator ignores `depends_on` (`services/agents/__init__.py:835`;
  `app/schemas/agents.py:130` describes it);
* a forced ingestion of a known checksum is refused by the registry
  (`services/document.py:27`; `app/schemas/ingestion.py:158`);
* UPLOADED to PARSING is allowed (`services/document.py:133`), against the
  docstring of line 120;
* the scheduler fetches the newest discoveries only, so older ones can starve,
  and one that raises ends the round (`services/ingestion/__init__.py:1363`,
  `1369`; docstrings say "every discovery").

*Review, audit, casework*:

* `_TERMINAL_STATUSES` (`services/review/__init__.py:53`) is consulted by
  nobody: a withdrawn or escalated review can still be approved;
* overlapping audit writes can leave a file whose chain is broken (section 4);
  a comment says any change of a record breaks the chain
  (`services/audit/__init__.py:62`), but its metadata is not hashed;
* a recommendation made without an assessment refers to a default one that is never
  stored (`services/recommendations/__init__.py:420`, `510-537`);
* monitoring compares a discovery with the first one of its address only: of the
  versions A, B, B the last B is announced as new again
  (`services/monitoring/__init__.py:353-358`, `409-413`);
* with two workers a workflow that is COMPLETED in the file can become ACTIVE
  again; nothing enforces `requires_approval` or `depends_on` when it advances;
* stores that stop loading at the first bad line lose what follows it (diffs,
  monitoring, conversations, memories, ingestion runs);
* two calls of `process_pending` deliver an alert twice, and a later FAILED
  overwrites DELIVERED; subscriptions that were removed come back at a restart;
* the default policies are added again at every start; approval policies are
  matched and enforced by nothing;
* a user made by signup, or by another worker's administration, is unknown to
  the running administration, whose next write erases it
  (`services/admin/__init__.py:927-946`; production runs `WORKERS` "2");
  deleting every user brings the default accounts back.

*Serving*:

* an error while the administration is bound to its services at the start is
  dropped (`app/api/dependencies.py:1159-1175`, `app/main.py:87-92`), and the
  services that are missing then are built by racing requests;
* requests that a guard refuses get no access record and no security headers;
  `app/main.py` says that tracing wraps everything, but it is the innermost layer;
* a second rebuild of the keyword index fails on the unique name `bm25_v1`;
  chunks added after a start are missing from the hybrid keyword index until
  the next one;
* `hallucination_detected` changes neither routing nor confidence; below the
  threshold of abstention an answer with evidence is only flagged;
* the policy check of the intelligence agents calls a method that
  `GovernanceService` does not have, and swallows the error;
* a chain of the audit log is verified only when evidence is asked for, so a
  broken one is otherwise not seen; in the deployed wiring the audit agent has
  no services (`app/api/dependencies.py:1247-1270`);
* a plan step runs although a step it depends on failed, against
  `app/schemas/planning.py:87-90`; invalid plans are executed;
* after a restart deleted conversations and memories are back; anonymous
  searches see every user's memories;
* copilot answers report retrieval from a flag that all requests share
  (`services/copilot/__init__.py:345`;
  `docs/architecture/copilot-retrieval.md:30-32`);
* two concurrent first snapshots leave two rows, after which this snapshot can
  never be computed again; the endpoint of query distributions passes strings
  where its service expects dicts;
* two evaluation runs that overlap lose records of a history, and one that
  reads a torn history starts it anew.

## 10. What is not modelled

* Of the modelled components: `RegistrySynchronizer`; metadata updates, listing
  and deletion of documents; the agents' metadata file; pause, disable and start
  of agents, which nothing calls; the message bus, which has no subscriber;
  queries, statistics, timelines and the wording of records and reports.
* Structure detection, metadata extraction, the embedding model and the vector
  index: text and vector algorithms.  The pipeline's calls of them succeed or
  fail in steps of `Ingestion`, the dense source answers or fails in
  `HybridSearch`.
* Scores of texts (BM25, similarity, keyword tables, sentiment of clauses):
  inputs or constants of the modules that compare them.
* Dashboards and the feedback and analytics of single services: read-only
  aggregation, and lists that are only appended to.
* Security headers, secrets, content screening, frontend, migrations, scripts:
  patterns over texts, configuration, or no state of their own.  The schema's
  UNIQUE constraints are used in `Ingestion`, `KeywordIndex` and `Analytics`.

## 11. Plan

Done: all modules of section 2 with their runs, and the proofs of section 8.

Next, proofs of what is only model-checked: the types of the parts of
`ServingTypesOK` and `AssistantTypesOK` one after the other, then
`MetricsAddUp`, with collectors that are counts of keys and a sum that is a
number of elements, as in `IntelligenceAgents`.

And models: several worker processes for `Review` and the run store of
`Ingestion`, the agents' metadata file with a restart.
