------------------------------ MODULE Workflow ------------------------------
(***************************************************************************)
(* One workflow of app/services/workflow: the engine that moves its        *)
(* status, the manager of its tasks, and the store.  Every worker process  *)
(* keeps its own copy of the workflow, changes it in place and appends it  *)
(* to a file which all workers share and read only when they start.  No    *)
(* handler awaits anything, so a request is one step of its worker.        *)
(* Names, assignees, escalation rules, metadata and the audit trail, but   *)
(* for the number of tasks that "workflow.completed" records, are left     *)
(* out: no status depends on them.                                         *)
(***************************************************************************)
EXTENDS Naturals, Sequences

CONSTANTS Processes,    \* the worker processes
          StepCounts,   \* numbers of steps a workflow can be created with
          MaxTasks,     \* bound: tasks of a workflow
          Reported,     \* statuses that a completion request reports
          NoWorkflow,   \* a worker or a file that has no copy
          NoProcess,    \* no worker
          WorkflowFaults, \* bound: failed writes
          WorkflowCrashes \* bound: restarts of workers

OpenTask == {"PENDING", "IN_PROGRESS", "BLOCKED", "FAILED"}
DoneTask == {"COMPLETED", "SKIPPED"}
Ended    == {"COMPLETED", "CANCELLED", "FAILED"}
Workflows ==
  [status: {"DRAFT", "ACTIVE", "PAUSED"} \cup Ended,
   started: BOOLEAN,                  \* started_at is set
   steps: StepCounts, index: Nat,     \* current_step_index
   tasks: Seq(OpenTask \cup DoneTask),
   total: Nat]                        \* total_tasks of the audit trail

ASSUME WorkflowAssumption ==
  /\ StepCounts \subseteq Nat
  /\ Reported \subseteq OpenTask \cup DoneTask
  /\ NoWorkflow \notin Workflows /\ NoProcess \notin Processes
  /\ MaxTasks \in Nat /\ WorkflowFaults \in Nat /\ WorkflowCrashes \in Nat

VARIABLES copy,      \* the workflow in the memory of each worker
          lines,     \* its lines in workflows.jsonl
          saver,     \* history: the last worker to save, once its line is whole
          wfFaults, wfCrashes

workflowVars == <<copy, lines, saver, wfFaults, wfCrashes>>

WorkflowFile == INSTANCE JsonlFile WITH Objects <- Workflows, Absent <- NoWorkflow

WorkflowInit ==
  /\ copy = [w \in Processes |-> NoWorkflow]
  /\ lines = WorkflowFile!EmptyFile
  /\ saver = NoProcess
  /\ wfFaults = 0 /\ wfCrashes = 0

-----------------------------------------------------------------------------
(* The store *)

\* add: a line that follows a torn one is lost with it, and an append that
\* fails is swallowed.
StoreAdd(w, wf) ==
  /\ copy' = [copy EXCEPT ![w] = wf]
  /\ \/ /\ lines' = WorkflowFile!Appended(lines, wf)
        /\ saver' = IF lines.torn THEN NoProcess ELSE w
        /\ UNCHANGED wfFaults
     \/ /\ wfFaults < WorkflowFaults /\ wfFaults' = wfFaults + 1
        /\ lines' \in WorkflowFile!Damaged(lines)
        /\ saver' = NoProcess

\* A worker is started again and loads the file.
WorkerRestart(w) ==
  /\ wfCrashes < WorkflowCrashes /\ wfCrashes' = wfCrashes + 1
  /\ copy' = [copy EXCEPT ![w] = WorkflowFile!Loaded(lines)]
  /\ UNCHANGED <<lines, saver, wfFaults>>

-----------------------------------------------------------------------------
(* WorkflowEngine *)

Fresh(n) == [status |-> IF n = 0 THEN "DRAFT" ELSE "ACTIVE", started |-> FALSE,
             steps |-> n, index |-> 0, tasks |-> <<>>, total |-> 0]

Nowhere == /\ \A w \in Processes : copy[w] = NoWorkflow
           /\ WorkflowFile!Loaded(lines) = NoWorkflow

CreateWorkflow(w) ==
  /\ Nowhere
  /\ \E n \in StepCounts : StoreAdd(w, Fresh(n))
  /\ UNCHANGED wfCrashes

\* create_from_recommendation and create_from_risk_assessment save the
\* workflow, add a task for each step of the plan, and save it again.
CreateWithTasks(w) ==
  /\ Nowhere
  /\ \E n \in StepCounts \ {0}, k \in 0..MaxTasks :
       LET bare == Fresh(n)
           full == [bare EXCEPT !.tasks = [i \in 1..k |-> "PENDING"]]
       IN  /\ copy' = [copy EXCEPT ![w] = full]
           /\ \/ /\ lines' = WorkflowFile!Appended(WorkflowFile!Appended(lines, bare), full)
                 /\ saver' = w
                 /\ UNCHANGED wfFaults
              \/ /\ wfFaults < WorkflowFaults /\ wfFaults' = wfFaults + 1
                 /\ saver' = NoProcess
                 /\ \/ lines' \in WorkflowFile!Damaged(WorkflowFile!Appended(lines, bare))
                    \/ \E f \in WorkflowFile!Damaged(lines) :
                         lines' = WorkflowFile!Appended(f, full)
  /\ UNCHANGED wfCrashes

StartWorkflow(wf) ==
  IF wf.status \in Ended THEN {}
  ELSE {[wf EXCEPT !.status = "ACTIVE", !.started = TRUE]}

PauseWorkflow(wf) == IF wf.status # "ACTIVE" THEN {} ELSE {[wf EXCEPT !.status = "PAUSED"]}

ResumeWorkflow(wf) == IF wf.status # "PAUSED" THEN {} ELSE {[wf EXCEPT !.status = "ACTIVE"]}

CancelWorkflow(wf) ==
  IF wf.status \in Ended THEN {} ELSE {[wf EXCEPT !.status = "CANCELLED"]}

AllDone(wf) == \A i \in DOMAIN wf.tasks : wf.tasks[i] \in DoneTask

\* Mutant of CompleteWorkflow: the task of the last step is not looked at.
CompleteButLast(wf) ==
  IF wf.status # "ACTIVE"
     \/ \E i \in 1..(Len(wf.tasks) - 1) : wf.tasks[i] \notin DoneTask THEN {}
  ELSE {[wf EXCEPT !.status = "COMPLETED", !.total = Len(wf.tasks)]}

CompleteWorkflow(wf) ==
  IF wf.status # "ACTIVE" \/ ~AllDone(wf) THEN {}
  ELSE {[wf EXCEPT !.status = "COMPLETED", !.total = Len(wf.tasks)]}

\* advance_step asks for no status.
AdvanceStep(wf) ==
  {IF wf.index + 1 < wf.steps THEN [wf EXCEPT !.index = @ + 1] ELSE wf}

-----------------------------------------------------------------------------
(* TaskManager *)

\* A task can be added to a workflow in any status, if it has a step.
AddTask(wf) ==
  IF wf.steps = 0 \/ Len(wf.tasks) = MaxTasks THEN {}
  ELSE {[wf EXCEPT !.tasks = Append(@, "PENDING")]}

StartTask(wf) ==
  {[wf EXCEPT !.tasks[i] = "IN_PROGRESS"] :
     i \in {j \in DOMAIN wf.tasks : wf.tasks[j] \in {"PENDING", "BLOCKED"}}}

\* A completion reports whatever status the request names.
CompleteTask(wf) ==
  {[wf EXCEPT !.tasks[i] = s] :
     i \in {j \in DOMAIN wf.tasks : wf.tasks[j] \notin DoneTask}, s \in Reported}

\* Assigning a task and escalating change only what is left out.
Annotated(wf) == {wf}

-----------------------------------------------------------------------------
(* AutomationService: a request that raises saves nothing. *)

Outcomes(wf) ==
  UNION {StartWorkflow(wf), PauseWorkflow(wf), ResumeWorkflow(wf), CancelWorkflow(wf),
         CompleteWorkflow(wf), AdvanceStep(wf), AddTask(wf), StartTask(wf),
         CompleteTask(wf), Annotated(wf)}

ChangeWorkflow(w) ==
  /\ copy[w] # NoWorkflow
  /\ \E wf \in Outcomes(copy[w]) : StoreAdd(w, wf)
  /\ UNCHANGED wfCrashes

WorkflowNext ==
  \E w \in Processes :
    CreateWorkflow(w) \/ CreateWithTasks(w) \/ ChangeWorkflow(w) \/ WorkerRestart(w)

WorkflowSpec == WorkflowInit /\ [][WorkflowNext]_workflowVars

-----------------------------------------------------------------------------
(* Properties *)

WorkflowTypeOK ==
  /\ copy \in [Processes -> Workflows \cup {NoWorkflow}]
  /\ lines \in WorkflowFile!Files
  /\ saver \in Processes \cup {NoProcess}
  /\ wfFaults \in 0..WorkflowFaults /\ wfCrashes \in 0..WorkflowCrashes

CoversItsTasks(wf) ==
  wf # NoWorkflow /\ wf.status = "COMPLETED" =>
    wf.total <= Len(wf.tasks) /\ \A i \in 1..wf.total : wf.tasks[i] \in DoneTask

\* A completed workflow speaks for its tasks: those that it counted when it
\* was completed are done, in every copy and after every restart, although
\* tasks are added to completed workflows, and a completion of a task may
\* report it as failed or blocked.
CompletedCoversItsTasks ==
  /\ \A w \in Processes : CoversItsTasks(copy[w])
  /\ CoversItsTasks(WorkflowFile!Loaded(lines))

\* No request of a worker brings a workflow back that has ended in its copy,
\* or reopens a task that is done, in whatever order the engine, the task
\* manager and the orchestrator are called.  Only a restart can, by loading
\* what another worker saved or what is left after failed writes.
NothingReopens ==
  [][\A w \in Processes :
       wfCrashes' = wfCrashes /\ copy[w] # NoWorkflow =>
         /\ copy[w].status \in Ended => copy'[w].status = copy[w].status
         /\ \A i \in DOMAIN copy[w].tasks : copy[w].tasks[i] \in DoneTask
              => copy'[w].tasks[i] = copy[w].tasks[i]]_workflowVars

\* Whatever the last worker to save shows of the workflow is what a restart
\* finds: no request changes a copy in place and keeps it to itself.
LastSaveIsFound ==
  saver # NoProcess => WorkflowFile!Loaded(lines) = copy[saver]
=============================================================================
