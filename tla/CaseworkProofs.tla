--------------------------- MODULE CaseworkProofs ---------------------------
(*****************************************************************************)
(* Proofs about the parts that MCCasework runs side by side: Workflow,       *)
(* Surveillance, ComplianceChain, Alerting, Governance and Accounts, for     *)
(* any number of callers, workers, sources, rows, requests, faults and       *)
(* restarts. A completed workflow speaks for its tasks; a scheduler runs if  *)
(* and only if it is reported to; a version of a document is announced       *)
(* once; what a record was made from can be found; an alert's status is      *)
(* true, because what a call of process_pending has in hand stays in the     *)
(* store; every start puts the default policies in force; without a failed   *)
(* write the directories of the administration and of the file agree. Each   *)
(* theorem speaks of one of these parts, and the last one of all.            *)
(*****************************************************************************)
EXTENDS MCCasework, Induction, SequenceTheorems, FiniteSetTheorems, TLAPS

-----------------------------------------------------------------------------
(* Workflow: what has ended does not start again but by a restart.           *)

TaskStatuses == OpenTask \cup DoneTask

WorkflowInv == WorkflowTypeOK /\ CompletedCoversItsTasks /\ LastSaveIsFound

\* No status that has ended and no task that is done changes.
Keeps(wf, new) ==
  /\ wf.status \in Ended => new.status = wf.status
  /\ \A i \in DOMAIN wf.tasks : wf.tasks[i] \in DoneTask => new.tasks[i] = wf.tasks[i]

-----------------------------------------------------------------------------
(* What a request makes of a workflow *)

\* The fields of a version.
LEMMA Fields ==
  ASSUME NEW wf \in Workflows
  PROVE  /\ wf.status \in {"DRAFT", "ACTIVE", "PAUSED"} \cup Ended
         /\ wf.started \in BOOLEAN /\ wf.steps \in StepCounts
         /\ wf.index \in Nat /\ wf.total \in Nat /\ wf.tasks \in Seq(TaskStatuses)
         /\ Len(wf.tasks) \in Nat /\ DOMAIN wf.tasks = 1..Len(wf.tasks)
         /\ \A i \in DOMAIN wf.tasks : wf.tasks[i] \in TaskStatuses
         /\ wf # NoWorkflow
<1>1. /\ wf.status \in {"DRAFT", "ACTIVE", "PAUSED"} \cup Ended
      /\ wf.started \in BOOLEAN /\ wf.steps \in StepCounts
      /\ wf.index \in Nat /\ wf.total \in Nat /\ wf.tasks \in Seq(TaskStatuses)
  BY DEF Workflows, TaskStatuses
<1>2. Len(wf.tasks) \in Nat /\ DOMAIN wf.tasks = 1..Len(wf.tasks)
  BY <1>1, LenProperties
<1>3. \A i \in DOMAIN wf.tasks : wf.tasks[i] \in TaskStatuses
  BY <1>1, <1>2, ElementOfSeq
<1>4. wf # NoWorkflow
  BY WorkflowAssumption
<1> QED BY <1>1, <1>2, <1>3, <1>4

\* A new status that is not COMPLETED, of a workflow that has not ended.
LEMMA StatusChanged ==
  ASSUME NEW wf \in Workflows, wf.status \notin Ended,
         NEW new \in StartWorkflow(wf) \cup PauseWorkflow(wf) \cup ResumeWorkflow(wf)
                     \cup CancelWorkflow(wf)
  PROVE  new \in Workflows /\ CoversItsTasks(new) /\ Keeps(wf, new)
<1>1. \/ new = [wf EXCEPT !.status = "ACTIVE", !.started = TRUE]
      \/ new = [wf EXCEPT !.status = "PAUSED"]
      \/ new = [wf EXCEPT !.status = "ACTIVE"]
      \/ new = [wf EXCEPT !.status = "CANCELLED"]
  BY DEF StartWorkflow, PauseWorkflow, ResumeWorkflow, CancelWorkflow
<1>2. new \in Workflows
  BY <1>1 DEF Workflows, Ended
<1>3. new.status # "COMPLETED" /\ new.tasks = wf.tasks
  BY <1>1 DEF Workflows
<1> QED BY <1>2, <1>3 DEF CoversItsTasks, Keeps

\* A completion counts the tasks, all of them done.
LEMMA Completed ==
  ASSUME NEW wf \in Workflows, NEW new \in CompleteWorkflow(wf)
  PROVE  new \in Workflows /\ CoversItsTasks(new) /\ Keeps(wf, new)
<1>1. /\ wf.status = "ACTIVE" /\ AllDone(wf)
      /\ new = [wf EXCEPT !.status = "COMPLETED", !.total = Len(wf.tasks)]
  BY DEF CompleteWorkflow
<1>2. Len(wf.tasks) \in Nat /\ DOMAIN wf.tasks = 1..Len(wf.tasks)
  BY Fields
<1>3. new \in Workflows /\ new.tasks = wf.tasks /\ new.total = Len(wf.tasks)
  BY <1>1, <1>2 DEF Workflows, Ended
<1>4. CoversItsTasks(new)
  BY <1>1, <1>2, <1>3 DEF CoversItsTasks, AllDone
<1>5. wf.status \notin Ended
  BY <1>1 DEF Ended
<1> QED BY <1>3, <1>4, <1>5 DEF Keeps

\* Other tasks, of which those that were done stay: what the workflow counted
\* stays counted.
LEMMA TasksChanged ==
  ASSUME NEW wf \in Workflows, CoversItsTasks(wf), NEW tasks \in Seq(TaskStatuses),
         Len(tasks) >= Len(wf.tasks),
         \A i \in DOMAIN wf.tasks : wf.tasks[i] \in DoneTask => tasks[i] = wf.tasks[i],
         NEW new, new = [wf EXCEPT !.tasks = tasks]
  PROVE  new \in Workflows /\ CoversItsTasks(new) /\ Keeps(wf, new)
<1>1. /\ new \in Workflows /\ new.tasks = tasks
      /\ new.status = wf.status /\ new.total = wf.total
  BY DEF Workflows, TaskStatuses
<1>2. /\ Len(wf.tasks) \in Nat /\ DOMAIN wf.tasks = 1..Len(wf.tasks) /\ wf # NoWorkflow
      /\ wf.total \in Nat /\ Len(tasks) \in Nat
  BY Fields, LenProperties
<1>3. CoversItsTasks(new)
  BY <1>1, <1>2 DEF CoversItsTasks
<1> QED BY <1>1, <1>3 DEF Keeps

\* One task that is not done gets another status.
LEMMA TaskChanged ==
  ASSUME NEW wf \in Workflows, CoversItsTasks(wf), NEW i \in DOMAIN wf.tasks,
         wf.tasks[i] \notin DoneTask, NEW s \in TaskStatuses,
         NEW new, new = [wf EXCEPT !.tasks[i] = s]
  PROVE  new \in Workflows /\ CoversItsTasks(new) /\ Keeps(wf, new)
<1> DEFINE tasks == [wf.tasks EXCEPT ![i] = s]
<1>1. wf.tasks \in Seq(TaskStatuses) /\ DOMAIN wf.tasks = 1..Len(wf.tasks) /\ Len(wf.tasks) \in Nat
  BY Fields
<1>2. /\ tasks \in Seq(TaskStatuses) /\ Len(tasks) = Len(wf.tasks)
      /\ \A j \in 1..Len(wf.tasks) : tasks[j] = IF j = i THEN s ELSE wf.tasks[j]
  BY <1>1, ExceptSeq
<1>3. new = [wf EXCEPT !.tasks = tasks]
  OBVIOUS
<1>4. /\ Len(tasks) >= Len(wf.tasks)
      /\ \A j \in DOMAIN wf.tasks : wf.tasks[j] \in DoneTask => tasks[j] = wf.tasks[j]
  BY <1>1, <1>2
<1> HIDE DEF tasks
<1> QED BY <1>2, <1>3, <1>4, TasksChanged

\* Whatever a request makes of a sound version is sound and keeps what is over.
LEMMA OutcomeSound ==
  ASSUME NEW wf \in Workflows, CoversItsTasks(wf), NEW new \in Outcomes(wf)
  PROVE  new \in Workflows /\ CoversItsTasks(new) /\ Keeps(wf, new)
<1>1. CASE new \in StartWorkflow(wf) \cup PauseWorkflow(wf) \cup ResumeWorkflow(wf)
                   \cup CancelWorkflow(wf)
  <2>1. wf.status \notin Ended
    BY <1>1 DEF StartWorkflow, PauseWorkflow, ResumeWorkflow, CancelWorkflow, Ended
  <2> QED BY <1>1, <2>1, StatusChanged
<1>2. CASE new \in CompleteWorkflow(wf)
  BY <1>2, Completed
<1>3. CASE new \in AdvanceStep(wf) \cup Annotated(wf)
  <2>1. new = wf \/ new = [wf EXCEPT !.index = @ + 1]
    BY <1>3 DEF AdvanceStep, Annotated
  <2>2. /\ new \in Workflows /\ new.tasks = wf.tasks
        /\ new.status = wf.status /\ new.total = wf.total
    BY <2>1 DEF Workflows
  <2> QED BY <2>2, Fields DEF CoversItsTasks, Keeps
<1>4. CASE new \in AddTask(wf)
  <2>1. new = [wf EXCEPT !.tasks = Append(wf.tasks, "PENDING")]
    BY <1>4 DEF AddTask
  <2>2. /\ wf.tasks \in Seq(TaskStatuses) /\ "PENDING" \in TaskStatuses
        /\ Len(wf.tasks) \in Nat /\ DOMAIN wf.tasks = 1..Len(wf.tasks)
    BY Fields DEF TaskStatuses, OpenTask
  <2>3. /\ Append(wf.tasks, "PENDING") \in Seq(TaskStatuses)
        /\ Len(Append(wf.tasks, "PENDING")) = Len(wf.tasks) + 1
        /\ \A i \in 1..Len(wf.tasks) : Append(wf.tasks, "PENDING")[i] = wf.tasks[i]
    BY <2>2, AppendProperties
  <2> DEFINE tasks == Append(wf.tasks, "PENDING")
  <2>4. /\ tasks \in Seq(TaskStatuses) /\ Len(tasks) >= Len(wf.tasks)
        /\ \A i \in DOMAIN wf.tasks : wf.tasks[i] \in DoneTask => tasks[i] = wf.tasks[i]
        /\ new = [wf EXCEPT !.tasks = tasks]
    BY <2>1, <2>2, <2>3
  <2> HIDE DEF tasks
  <2> QED BY <2>4, TasksChanged
<1>5. CASE new \in StartTask(wf)
  <2>1. PICK i \in DOMAIN wf.tasks :
          wf.tasks[i] \in {"PENDING", "BLOCKED"} /\ new = [wf EXCEPT !.tasks[i] = "IN_PROGRESS"]
    BY <1>5 DEF StartTask
  <2>2. wf.tasks[i] \notin DoneTask /\ "IN_PROGRESS" \in TaskStatuses
    BY <2>1 DEF DoneTask, TaskStatuses, OpenTask
  <2> QED BY <2>1, <2>2, TaskChanged
<1>6. CASE new \in CompleteTask(wf)
  <2>1. PICK i \in DOMAIN wf.tasks, s \in Reported :
          wf.tasks[i] \notin DoneTask /\ new = [wf EXCEPT !.tasks[i] = s]
    BY <1>6 DEF CompleteTask
  <2>2. s \in TaskStatuses
    BY WorkflowAssumption DEF TaskStatuses
  <2> QED BY <2>1, <2>2, TaskChanged
<1> QED BY <1>1, <1>2, <1>3, <1>4, <1>5, <1>6 DEF Outcomes

-----------------------------------------------------------------------------
(* The store *)

\* A new workflow is sound, and so is one with the tasks of a plan.
LEMMA FreshSound ==
  ASSUME NEW n \in StepCounts
  PROVE  /\ Fresh(n) \in Workflows /\ CoversItsTasks(Fresh(n))
         /\ \A k \in Nat : LET full == [Fresh(n) EXCEPT !.tasks = [i \in 1..k |-> "PENDING"]]
                           IN  full \in Workflows /\ CoversItsTasks(full)
<1>1. /\ Fresh(n) \in Workflows /\ Fresh(n).status # "COMPLETED"
  BY EmptySeq DEF Fresh, Workflows
<1>2. ASSUME NEW k \in Nat,
             NEW full, full = [Fresh(n) EXCEPT !.tasks = [i \in 1..k |-> "PENDING"]]
      PROVE  full \in Workflows /\ CoversItsTasks(full)
  <2>1. [i \in 1..k |-> "PENDING"] \in Seq(OpenTask \cup DoneTask)
    BY DEF OpenTask
  <2>2. full \in Workflows /\ full.status = Fresh(n).status
    BY <1>1, <1>2, <2>1 DEF Workflows
  <2> QED BY <1>1, <2>2 DEF CoversItsTasks
<1> QED BY <1>1, <1>2 DEF CoversItsTasks

\* The file after a write: what a restart would find is what it would have
\* found, or what was written.
LEMMA FileAfter ==
  ASSUME NEW f \in WorkflowFile!Files, NEW wf \in Workflows, NEW g,
         g = WorkflowFile!Appended(f, wf) \/ g \in WorkflowFile!Damaged(f)
  PROVE  /\ g \in WorkflowFile!Files
         /\ WorkflowFile!Loaded(g) \in {WorkflowFile!Loaded(f), wf}
         /\ ~f.torn /\ g = WorkflowFile!Appended(f, wf) => WorkflowFile!Loaded(g) = wf
         /\ g = WorkflowFile!Appended(f, wf) => ~g.torn
<1>1. /\ f = [last |-> f.last, torn |-> f.torn]
      /\ f.last \in Workflows \cup {NoWorkflow} /\ f.torn \in BOOLEAN
  BY DEF WorkflowFile!Files
<1>2. [f EXCEPT !.torn = TRUE] \in WorkflowFile!Files /\ [f EXCEPT !.torn = TRUE].last = f.last
  <2>1. f \in [last: Workflows \cup {NoWorkflow}, torn: BOOLEAN]
    BY DEF WorkflowFile!Files
  <2>2. /\ [f EXCEPT !.torn = TRUE] \in [last: Workflows \cup {NoWorkflow}, torn: BOOLEAN]
        /\ [f EXCEPT !.torn = TRUE].last = f.last
    BY <2>1
  <2> QED BY <2>2 DEF WorkflowFile!Files
<1>3. CASE g = WorkflowFile!Appended(f, wf)
  <2>1. g = [last |-> IF f.torn THEN f.last ELSE wf, torn |-> FALSE]
    BY <1>3 DEF WorkflowFile!Appended
  <2>2. g.last = (IF f.torn THEN f.last ELSE wf) /\ g.torn = FALSE
    BY <2>1
  <2>3. g.last \in Workflows \cup {NoWorkflow}
    BY <1>1, <2>2
  <2>4. g \in WorkflowFile!Files
    BY <2>1, <2>2, <2>3 DEF WorkflowFile!Files
  <2> QED BY <2>2, <2>4 DEF WorkflowFile!Loaded
<1>4. CASE g \in WorkflowFile!Damaged(f)
  <2>1. g \in WorkflowFile!Files /\ g.last = f.last
    BY <1>2, <1>4 DEF WorkflowFile!Damaged
  <2>2. g = WorkflowFile!Appended(f, wf) => g.torn = FALSE /\ (~f.torn => g.last = wf)
    BY DEF WorkflowFile!Appended
  <2> QED BY <2>1, <2>2 DEF WorkflowFile!Loaded
<1> QED BY <1>3, <1>4

\* Saving a sound version keeps the invariant, whether the write fails or not.
LEMMA StoreAddKeeps ==
  ASSUME WorkflowInv, NEW w \in Processes, NEW wf \in Workflows, CoversItsTasks(wf),
         StoreAdd(w, wf), UNCHANGED wfCrashes
  PROVE  WorkflowInv'
<1>1. /\ copy \in [Processes -> Workflows \cup {NoWorkflow}]
      /\ lines \in WorkflowFile!Files /\ saver \in Processes \cup {NoProcess}
      /\ wfFaults \in 0..WorkflowFaults /\ wfCrashes \in 0..WorkflowCrashes
      /\ \A v \in Processes : CoversItsTasks(copy[v])
      /\ CoversItsTasks(WorkflowFile!Loaded(lines))
  BY DEF WorkflowInv, WorkflowTypeOK, CompletedCoversItsTasks
<1>2. /\ copy' = [copy EXCEPT ![w] = wf]
      /\ lines' = WorkflowFile!Appended(lines, wf) \/ lines' \in WorkflowFile!Damaged(lines)
      /\ saver' \in {w, NoProcess} /\ wfFaults' \in 0..WorkflowFaults
      /\ saver' # NoProcess => ~lines.torn /\ lines' = WorkflowFile!Appended(lines, wf)
  BY <1>1, WorkflowAssumption DEF StoreAdd
<1>3. /\ lines' \in WorkflowFile!Files
      /\ WorkflowFile!Loaded(lines') \in {WorkflowFile!Loaded(lines), wf}
      /\ saver' # NoProcess => WorkflowFile!Loaded(lines') = wf
  BY <1>1, <1>2, FileAfter
<1>4. \A v \in Processes : copy'[v] = IF v = w THEN wf ELSE copy[v]
  BY <1>1, <1>2
<1>5. WorkflowTypeOK'
  BY <1>1, <1>2, <1>3 DEF WorkflowTypeOK
<1>6. CompletedCoversItsTasks'
  BY <1>1, <1>3, <1>4 DEF CompletedCoversItsTasks, CoversItsTasks, WorkflowFile!Loaded
<1>7. LastSaveIsFound'
  BY <1>2, <1>3, <1>4 DEF LastSaveIsFound, WorkflowFile!Loaded
<1> QED BY <1>5, <1>6, <1>7 DEF WorkflowInv

\* Two writes, of the bare workflow and of the one with its tasks.
LEMMA CreateWithTasksKeeps ==
  ASSUME WorkflowInv, NEW w \in Processes, CreateWithTasks(w)
  PROVE  WorkflowInv'
<1>1. PICK n \in StepCounts \ {0}, k \in 0..MaxTasks :
        LET bare == Fresh(n)
            full == [bare EXCEPT !.tasks = [i \in 1..k |-> "PENDING"]]
        IN  /\ copy' = [copy EXCEPT ![w] = full]
            /\ \/ /\ lines' = WorkflowFile!Appended(WorkflowFile!Appended(lines, bare), full)
                  /\ saver' = w
                  /\ UNCHANGED wfFaults
               \/ /\ wfFaults < WorkflowFaults /\ wfFaults' = wfFaults + 1
                  /\ saver' = NoProcess
                  /\ \/ lines' \in WorkflowFile!Damaged(WorkflowFile!Appended(lines, bare))
                     \/ \E f \in WorkflowFile!Damaged(lines) :
                          lines' = WorkflowFile!Appended(f, full)
  BY DEF CreateWithTasks
<1> DEFINE bare == Fresh(n)
           full == [bare EXCEPT !.tasks = [i \in 1..k |-> "PENDING"]]
<1>2. /\ bare \in Workflows /\ CoversItsTasks(bare)
      /\ full \in Workflows /\ CoversItsTasks(full)
  <2>1. k \in Nat
    BY WorkflowAssumption
  <2> QED BY <2>1, FreshSound
<1>3. /\ copy \in [Processes -> Workflows \cup {NoWorkflow}]
      /\ lines \in WorkflowFile!Files
      /\ wfFaults \in 0..WorkflowFaults /\ wfCrashes \in 0..WorkflowCrashes
      /\ \A v \in Processes : CoversItsTasks(copy[v])
      /\ CoversItsTasks(WorkflowFile!Loaded(lines))
  BY DEF WorkflowInv, WorkflowTypeOK, CompletedCoversItsTasks
<1> HIDE DEF bare, full
<1>4. PICK f \in WorkflowFile!Files :
        /\ WorkflowFile!Loaded(f) \in {WorkflowFile!Loaded(lines), bare}
        /\ \/ lines' = WorkflowFile!Appended(f, full)
           \/ lines' \in WorkflowFile!Damaged(f)
        /\ saver' # NoProcess => lines' = WorkflowFile!Appended(f, full) /\ ~f.torn
  <2>1. CASE saver' = w /\ lines' = WorkflowFile!Appended(WorkflowFile!Appended(lines, bare), full)
    BY <1>2, <1>3, <2>1, FileAfter
  <2>2. CASE saver' = NoProcess /\ lines' \in WorkflowFile!Damaged(WorkflowFile!Appended(lines, bare))
    BY <1>2, <1>3, <2>2, FileAfter
  <2>3. CASE saver' = NoProcess /\ \E f \in WorkflowFile!Damaged(lines) :
                                     lines' = WorkflowFile!Appended(f, full)
    BY <1>2, <1>3, <2>3, FileAfter
  <2> QED BY <1>1, <2>1, <2>2, <2>3 DEF bare, full
<1>5. /\ copy' = [copy EXCEPT ![w] = full] /\ saver' \in {w, NoProcess}
      /\ wfFaults' \in 0..WorkflowFaults /\ wfCrashes' = wfCrashes
  <2>1. wfCrashes' = wfCrashes
    BY DEF CreateWithTasks
  <2>2. /\ copy' = [copy EXCEPT ![w] = full]
        /\ \/ saver' = w /\ wfFaults' = wfFaults
           \/ wfFaults < WorkflowFaults /\ wfFaults' = wfFaults + 1 /\ saver' = NoProcess
    BY <1>1 DEF bare, full
  <2> QED BY <1>3, <2>1, <2>2, WorkflowAssumption
<1>6. /\ lines' \in WorkflowFile!Files
      /\ WorkflowFile!Loaded(lines') \in {WorkflowFile!Loaded(lines), bare, full}
      /\ saver' # NoProcess => WorkflowFile!Loaded(lines') = full
  BY <1>2, <1>4, FileAfter
<1>7. \A v \in Processes : copy'[v] = IF v = w THEN full ELSE copy[v]
  BY <1>3, <1>5
<1>8. WorkflowTypeOK'
  BY <1>2, <1>3, <1>5, <1>6 DEF WorkflowTypeOK
<1>9. CompletedCoversItsTasks'
  BY <1>2, <1>3, <1>6, <1>7 DEF CompletedCoversItsTasks, CoversItsTasks, WorkflowFile!Loaded
<1>10. LastSaveIsFound'
  BY <1>5, <1>6, <1>7 DEF LastSaveIsFound, WorkflowFile!Loaded
<1> QED BY <1>8, <1>9, <1>10 DEF WorkflowInv

-----------------------------------------------------------------------------
(* The invariant *)

LEMMA InitInv == WorkflowInit => WorkflowInv
<1> SUFFICES ASSUME WorkflowInit
             PROVE  WorkflowInv
  OBVIOUS
<1>1. WorkflowTypeOK
  BY WorkflowAssumption
     DEF WorkflowInit, WorkflowTypeOK, WorkflowFile!Files, WorkflowFile!EmptyFile
<1>2. CompletedCoversItsTasks /\ LastSaveIsFound
  BY DEF WorkflowInit, CompletedCoversItsTasks, CoversItsTasks, LastSaveIsFound,
         WorkflowFile!Loaded, WorkflowFile!EmptyFile
<1> QED BY <1>1, <1>2 DEF WorkflowInv

LEMMA RestartKeeps ==
  ASSUME WorkflowInv, NEW w \in Processes, WorkerRestart(w)
  PROVE  WorkflowInv'
<1>1. /\ copy \in [Processes -> Workflows \cup {NoWorkflow}]
      /\ WorkflowFile!Loaded(lines) \in Workflows \cup {NoWorkflow}
      /\ copy' = [copy EXCEPT ![w] = WorkflowFile!Loaded(lines)]
      /\ lines' = lines /\ saver' = saver /\ wfFaults' = wfFaults
  BY DEF WorkflowInv, WorkflowTypeOK, WorkerRestart, WorkflowFile!Files, WorkflowFile!Loaded
<1>2. \A v \in Processes : copy'[v] = IF v = w THEN WorkflowFile!Loaded(lines) ELSE copy[v]
  BY <1>1
<1>3. WorkflowTypeOK'
  BY <1>1, WorkflowAssumption DEF WorkflowInv, WorkflowTypeOK, WorkerRestart
<1>4. CompletedCoversItsTasks'
  BY <1>1, <1>2 DEF WorkflowInv, CompletedCoversItsTasks, CoversItsTasks, WorkflowFile!Loaded
<1>5. LastSaveIsFound'
  BY <1>1, <1>2 DEF WorkflowInv, WorkflowTypeOK, LastSaveIsFound, WorkflowFile!Loaded
<1> QED BY <1>3, <1>4, <1>5 DEF WorkflowInv

LEMMA StepInv == WorkflowInv /\ [WorkflowNext]_workflowVars => WorkflowInv'
<1> SUFFICES ASSUME WorkflowInv, [WorkflowNext]_workflowVars
             PROVE  WorkflowInv'
  OBVIOUS
<1>1. ASSUME NEW w \in Processes, CreateWorkflow(w)
      PROVE  WorkflowInv'
  <2>1. PICK n \in StepCounts : StoreAdd(w, Fresh(n)) /\ UNCHANGED wfCrashes
    BY <1>1 DEF CreateWorkflow
  <2> QED BY <2>1, FreshSound, StoreAddKeeps
<1>2. ASSUME NEW w \in Processes, ChangeWorkflow(w)
      PROVE  WorkflowInv'
  <2>1. PICK wf \in Outcomes(copy[w]) : StoreAdd(w, wf) /\ UNCHANGED wfCrashes
    BY <1>2 DEF ChangeWorkflow
  <2>2. copy[w] \in Workflows /\ CoversItsTasks(copy[w])
    BY <1>2 DEF ChangeWorkflow, WorkflowInv, WorkflowTypeOK, CompletedCoversItsTasks
  <2> QED BY <2>1, <2>2, OutcomeSound, StoreAddKeeps
<1>3. CASE UNCHANGED workflowVars
  BY <1>3 DEF workflowVars, WorkflowInv, WorkflowTypeOK, CompletedCoversItsTasks, CoversItsTasks,
              LastSaveIsFound, WorkflowFile!Loaded
<1> QED BY <1>1, <1>2, <1>3, CreateWithTasksKeeps, RestartKeeps DEF WorkflowNext

\* Type, completion and last save hold in every reachable state.
THEOREM WorkflowInvariance == WorkflowSpec => []WorkflowInv
BY InitInv, StepInv, PTL DEF WorkflowSpec

\* Type correctness of the workers' copies and of their file.
THEOREM WorkflowTypeCorrect == WorkflowSpec => []WorkflowTypeOK
<1>1. WorkflowInv => WorkflowTypeOK
  BY DEF WorkflowInv
<1> QED BY WorkflowInvariance, <1>1, PTL

\* The tasks a completed workflow counted are done in every copy and on file,
\* whatever is added to it or reported of its tasks afterwards.
THEOREM CompletionSound == WorkflowSpec => []CompletedCoversItsTasks
<1>1. WorkflowInv => CompletedCoversItsTasks
  BY DEF WorkflowInv
<1> QED BY WorkflowInvariance, <1>1, PTL

\* A restart finds what the last worker to save shows.
THEOREM LastSaveStands == WorkflowSpec => []LastSaveIsFound
<1>1. WorkflowInv => LastSaveIsFound
  BY DEF WorkflowInv
<1> QED BY WorkflowInvariance, <1>1, PTL

\* No request, on any worker, brings back what has ended.
THEOREM OverIsOver == WorkflowSpec => NothingReopens
<1> DEFINE Stays(w) ==
      wfCrashes' = wfCrashes /\ copy[w] # NoWorkflow =>
        /\ copy[w].status \in Ended => copy'[w].status = copy[w].status
        /\ \A i \in DOMAIN copy[w].tasks : copy[w].tasks[i] \in DoneTask
             => copy'[w].tasks[i] = copy[w].tasks[i]
<1>1. WorkflowInv /\ [WorkflowNext]_workflowVars => [\A w \in Processes : Stays(w)]_workflowVars
  <2> SUFFICES ASSUME WorkflowInv, WorkflowNext, NEW v \in Processes,
                      wfCrashes' = wfCrashes, copy[v] # NoWorkflow
               PROVE  Keeps(copy[v], copy'[v])
    BY DEF Keeps
  <2>1. copy \in [Processes -> Workflows \cup {NoWorkflow}]
    BY DEF WorkflowInv, WorkflowTypeOK
  <2>2. PICK w \in Processes :
          CreateWorkflow(w) \/ CreateWithTasks(w) \/ ChangeWorkflow(w) \/ WorkerRestart(w)
    BY DEF WorkflowNext
  <2>3. ~CreateWorkflow(w) /\ ~CreateWithTasks(w)
    BY DEF CreateWorkflow, CreateWithTasks, Nowhere
  <2>4. ~WorkerRestart(w)
    BY DEF WorkerRestart, WorkflowInv, WorkflowTypeOK
  <2>5. PICK wf \in Outcomes(copy[w]) : copy' = [copy EXCEPT ![w] = wf]
    BY <2>2, <2>3, <2>4 DEF ChangeWorkflow, StoreAdd
  <2>6. CASE v = w
    <3>1. copy[w] \in Workflows /\ CoversItsTasks(copy[w]) /\ copy'[w] = wf
      BY <2>1, <2>5, <2>6 DEF WorkflowInv, CompletedCoversItsTasks
    <3> QED BY <2>6, <3>1, OutcomeSound
  <2>7. CASE v # w
    BY <2>1, <2>5, <2>7 DEF Keeps
  <2> QED BY <2>6, <2>7
<1> QED BY <1>1, WorkflowInvariance, PTL DEF WorkflowSpec, NothingReopens

-----------------------------------------------------------------------------
(* Alerting and Governance                                                   *)

-----------------------------------------------------------------------------
(* Alerting *)

Reached(i, log) == \E d \in log : d.alert = i /\ d.ok

\* Alerts as memory or a file may hold them.
IsTable(table, n, log, now) ==
  /\ DOMAIN table \subseteq 1..n
  /\ \A i \in DOMAIN table :
       /\ table[i] \in Alerts /\ table[i].created <= now
       /\ table[i].status = "DELIVERED" => Reached(i, log)

Closely(table, i, j) ==
  i < j /\ table[i].topic = table[j].topic /\ table[j].created - table[i].created <= DedupWindow

SkippedRightly(table) ==
  \A j \in DOMAIN table :
    table[j].status = "SKIPPED" <=> \E i \in DOMAIN table : Closely(table, i, j)

IsCall(k, table, log) ==
  /\ DOMAIN k = {"todo", "alert", "left", "ok"}
  /\ k.todo \subseteq DOMAIN table /\ k.ok \in BOOLEAN
  /\ k.alert # 0 => k.alert \in DOMAIN table /\ table[k.alert].status # "SKIPPED"
  /\ k.ok => Reached(k.alert, log)

AlertInv ==
  /\ clock \in 0..MaxClock /\ made \in 0..MaxAlerts /\ alFaults \in Nat
  /\ IsTable(alerts, made, sent, clock)
  /\ DOMAIN alertFile = {"torn", "last"} /\ alertFile.torn \in BOOLEAN
  /\ IsTable(alertFile.last, made, sent, clock)
  /\ subscribed \subseteq Subscriptions /\ subFile \subseteq Subscriptions
  /\ DOMAIN call = Callers /\ \A c \in Callers : IsCall(call[c], alerts, sent)
  /\ alFaults = 0 => /\ alertFile.torn = FALSE /\ alertFile.last = alerts
                     /\ subscribed \subseteq subFile
                     /\ SkippedRightly(alerts)

\* What a line leaves in the file: without a fault, what was to be written.
LEMMA SavedLine ==
  ASSUME AlertInv, NEW last, NEW subs, SaveLine(last, subs)
  PROVE  /\ DOMAIN alertFile' = {"torn", "last"} /\ alertFile'.torn \in BOOLEAN
         /\ alertFile'.last \in {alertFile.last, last} /\ subFile' \in {subFile, subs}
         /\ alFaults' \in Nat /\ (alFaults' = 0 => alFaults = 0)
         /\ alFaults' = 0 => /\ alertFile'.torn = FALSE /\ alertFile'.last = last
                             /\ subFile' = subs
<1>1. /\ DOMAIN alertFile = {"torn", "last"} /\ alertFile.torn \in BOOLEAN /\ alFaults \in Nat
      /\ alFaults = 0 => alertFile.torn = FALSE
  BY DEF AlertInv
<1>2. CASE /\ ~alertFile.torn
           /\ alertFile' = [alertFile EXCEPT !.last = last] /\ subFile' = subs
           /\ UNCHANGED alFaults
  <2>1. /\ DOMAIN alertFile' = {"torn", "last"} /\ alertFile'.last = last
        /\ alertFile'.torn = alertFile.torn
    BY <1>1, <1>2
  <2> QED BY <1>1, <1>2, <2>1
<1>3. CASE /\ alertFile.torn
           /\ alertFile' = [alertFile EXCEPT !.torn = FALSE]
           /\ UNCHANGED <<subFile, alFaults>>
  <2>1. /\ DOMAIN alertFile' = {"torn", "last"} /\ alertFile'.last = alertFile.last
        /\ alertFile'.torn = FALSE
    BY <1>1, <1>3
  <2>2. alFaults' # 0
    BY <1>1, <1>3
  <2> QED BY <1>1, <1>3, <2>1, <2>2
<1>4. CASE /\ alFaults < AlertFaults /\ alFaults' = alFaults + 1
           /\ alertFile' \in {alertFile, [alertFile EXCEPT !.torn = TRUE]}
           /\ UNCHANGED subFile
  <2>1. /\ DOMAIN alertFile' = {"torn", "last"} /\ alertFile'.last = alertFile.last
        /\ alertFile'.torn \in BOOLEAN
    BY <1>1, <1>4
  <2>2. alFaults' \in Nat /\ alFaults' # 0
    BY <1>1, <1>4
  <2> QED BY <1>4, <2>1, <2>2
<1> QED BY <1>2, <1>3, <1>4 DEF SaveLine

LEMMA CreateAlertInv ==
  ASSUME AlertInv, CreateAlert
  PROVE  AlertInv'
<1>1. PICK topic \in Topics, level \in Levels, chs \in Channels, to \in Targets \cup {NoTarget} :
        LET alert == [topic |-> topic, severity |-> level,
                      channels |-> IF chs = {} THEN {InApp} ELSE chs,
                      target |-> to, created |-> clock,
                      status |-> IF Repeated(topic) THEN "SKIPPED" ELSE "PENDING"]
        IN  alerts' = Recorded(alerts, made', alert) /\ SaveAlert(made', alert)
  BY DEF CreateAlert
<1> DEFINE alert == [topic |-> topic, severity |-> level,
                     channels |-> IF chs = {} THEN {InApp} ELSE chs,
                     target |-> to, created |-> clock,
                     status |-> IF Repeated(topic) THEN "SKIPPED" ELSE "PENDING"]
<1>2. /\ alert \in Alerts /\ alert.status # "DELIVERED" /\ alert.topic = topic
      /\ alert.created = clock /\ (alert.status = "SKIPPED" <=> Repeated(topic))
  <2>1. clock \in Nat /\ chs \subseteq UNION Channels
    BY AlertingAssumption DEF AlertInv
  <2> QED BY <2>1 DEF Alerts, AlertStatus
<1>3. /\ made' = made + 1 /\ made' \in 1..MaxAlerts /\ made \in Nat /\ clock \in Nat
      /\ UNCHANGED <<clock, subscribed, sent, call>>
      /\ DOMAIN alerts \subseteq 1..made /\ DOMAIN alertFile.last \subseteq 1..made
  BY AlertingAssumption DEF CreateAlert, AlertInv, IsTable
<1>4. alerts' = Recorded(alerts, made', alert)
      /\ SaveLine(Recorded(alertFile.last, made', alert), subFile)
  BY <1>1 DEF SaveAlert
<1> HIDE DEF alert
<1>5. /\ DOMAIN alertFile' = {"torn", "last"} /\ alertFile'.torn \in BOOLEAN
      /\ alertFile'.last \in {alertFile.last, Recorded(alertFile.last, made', alert)}
      /\ subFile' = subFile /\ alFaults' \in Nat /\ (alFaults' = 0 => alFaults = 0)
      /\ alFaults' = 0 => /\ alertFile'.torn = FALSE
                          /\ alertFile'.last = Recorded(alertFile.last, made', alert)
  BY <1>4, SavedLine
<1>6. ASSUME NEW table, IsTable(table, made, sent, clock)
      PROVE  /\ IsTable(table, made', sent', clock')
             /\ IsTable(Recorded(table, made', alert), made', sent', clock')
  <2> DEFINE n == made + 1
             full == Recorded(table, n, alert)
  <2>1. /\ DOMAIN full = DOMAIN table \cup {n} /\ full[n] = alert
        /\ \A j \in DOMAIN table : j # n => full[j] = table[j]
    BY DEF Recorded
  <2>2. DOMAIN table \subseteq 1..n /\ n \in 1..n /\ alert.created <= clock
    BY <1>2, <1>3, <1>6 DEF IsTable
  <2> HIDE DEF full
  <2>3. IsTable(table, n, sent, clock) /\ IsTable(full, n, sent, clock)
    BY <1>2, <1>6, <2>1, <2>2 DEF IsTable
  <2> QED BY <1>3, <2>3 DEF full
<1>7. /\ DOMAIN alerts' = DOMAIN alerts \cup {made'} /\ alerts'[made'] = alert
      /\ \A j \in DOMAIN alerts : j # made' /\ alerts'[j] = alerts[j]
  <2>1. \A j \in DOMAIN alerts : j # made'
    BY <1>3
  <2> QED BY <1>4, <2>1 DEF Recorded
<1>8. \A c \in Callers : IsCall(call'[c], alerts', sent')
  BY <1>3, <1>7 DEF AlertInv, IsCall
<1>9. ASSUME alFaults' = 0
       PROVE  SkippedRightly(alerts')
  <2>1. SkippedRightly(alerts)
    BY <1>5, <1>9 DEF AlertInv
  <2>2. \A i, j \in DOMAIN alerts : Closely(alerts', i, j) <=> Closely(alerts, i, j)
    BY <1>7 DEF Closely
  <2>3. \A j \in DOMAIN alerts' : ~Closely(alerts', made', j)
    BY <1>3, <1>7 DEF Closely
  <2>4. ASSUME NEW i \in DOMAIN alerts
        PROVE  Closely(alerts', i, made') <=>
                 alerts[i].topic = topic /\ alerts[i].created + DedupWindow >= clock
    <3>1. alerts[i].created \in Nat
      BY DEF AlertInv, IsTable, Alerts
    <3>2. i \in 1..made /\ alerts'[i] = alerts[i] /\ alerts'[made'] = alert
      BY <1>3, <1>7
    <3> QED BY <1>2, <1>3, <3>1, <3>2, AlertingAssumption DEF Closely
  <2>5. alert.status = "SKIPPED" <=> \E i \in DOMAIN alerts : Closely(alerts', i, made')
    BY <1>2, <2>4 DEF Repeated
  <2>6. ~Closely(alerts', made', made')
    BY <1>3 DEF Closely
  <2>7. ASSUME NEW j \in DOMAIN alerts'
        PROVE  alerts'[j].status = "SKIPPED" <=> \E i \in DOMAIN alerts' : Closely(alerts', i, j)
    <3>1. CASE j = made'
      BY <1>7, <2>5, <2>6, <3>1
    <3>2. CASE j \in DOMAIN alerts
      BY <1>7, <2>1, <2>2, <2>3, <3>2 DEF SkippedRightly
    <3> QED BY <1>7, <3>1, <3>2
  <2> QED BY <2>7 DEF SkippedRightly
<1>10. IsTable(alerts', made', sent', clock') /\ IsTable(alertFile'.last, made', sent', clock')
  BY <1>4, <1>5, <1>6 DEF AlertInv
<1> QED BY <1>3, <1>4, <1>5, <1>8, <1>9, <1>10 DEF AlertInv

\* A step that changes no alert: it may append a line of another kind, send,
\* and move a call on.
LEMMA AlertsKept ==
  ASSUME AlertInv, UNCHANGED <<made, alerts>>, sent \subseteq sent',
         clock' \in 0..MaxClock, clock <= clock',
         NEW subs, subs \subseteq Subscriptions,
         \/ UNCHANGED <<alertFile, subFile, alFaults>> /\ subs = subFile
         \/ SaveLine(alertFile.last, subs),
         subscribed' \subseteq Subscriptions,
         alFaults' = 0 => subscribed' \subseteq subs,
         DOMAIN call' = Callers, \A c \in Callers : IsCall(call'[c], alerts, sent')
  PROVE  AlertInv'
<1>1. /\ DOMAIN alertFile' = {"torn", "last"} /\ alertFile'.torn \in BOOLEAN
      /\ alertFile'.last = alertFile.last /\ subFile' \in {subFile, subs}
      /\ alFaults' \in Nat /\ (alFaults' = 0 => alFaults = 0)
      /\ alFaults' = 0 => alertFile'.torn = FALSE /\ subFile' = subs
  <2>1. CASE UNCHANGED <<alertFile, subFile, alFaults>> /\ subs = subFile
    BY <2>1 DEF AlertInv
  <2>2. CASE SaveLine(alertFile.last, subs)
    BY <2>2, SavedLine
  <2> QED BY <2>1, <2>2
<1>2. ASSUME NEW table, IsTable(table, made, sent, clock)
      PROVE  IsTable(table, made', sent', clock')
  BY <1>2, AlertingAssumption DEF AlertInv, IsTable, Reached, Alerts
<1>3. alFaults' = 0 => SkippedRightly(alerts') /\ alertFile'.last = alerts'
  BY <1>1 DEF AlertInv
<1> QED BY <1>1, <1>2, <1>3 DEF AlertInv

LEMMA SubscriptionInv ==
  ASSUME AlertInv, NEW s \in Subscriptions, Subscribe(s) \/ Unsubscribe(s)
  PROVE  AlertInv'
<1>1. /\ UNCHANGED <<clock, made, alerts, sent, call>>
      /\ clock \in 0..MaxClock /\ clock <= clock
  BY AlertingAssumption DEF Subscribe, Unsubscribe, AlertInv
<1>2. DOMAIN call' = Callers /\ \A c \in Callers : IsCall(call'[c], alerts, sent')
  BY <1>1 DEF AlertInv
<1>3. CASE Subscribe(s)
  <2>1. /\ SaveLine(alertFile.last, subFile \cup {s}) /\ subscribed' = subscribed \cup {s}
        /\ subFile \cup {s} \subseteq Subscriptions /\ subscribed' \subseteq Subscriptions
    BY <1>3 DEF Subscribe, AlertInv
  <2>2. alFaults' = 0 => alFaults = 0
    BY <2>1, SavedLine
  <2>3. alFaults' = 0 => subscribed' \subseteq subFile \cup {s}
    BY <2>1, <2>2 DEF AlertInv
  <2> QED BY <1>1, <1>2, <2>1, <2>3, AlertsKept
<1>4. CASE Unsubscribe(s)
  <2>1. /\ UNCHANGED <<alertFile, subFile, alFaults>> /\ subscribed' = subscribed \ {s}
        /\ subFile \subseteq Subscriptions /\ subscribed' \subseteq Subscriptions
        /\ alFaults' = 0 => subscribed' \subseteq subFile
    BY <1>4 DEF Unsubscribe, AlertInv
  <2> QED BY <1>1, <1>2, <2>1, AlertsKept
<1> QED BY <1>3, <1>4

\* A call takes up what the store has, and holds on to no alert that was
\* skipped.
LEMMA CallInv ==
  ASSUME AlertInv, NEW c \in Callers, ProcessPending(c) \/ PassOver(c) \/ TakeAlert(c)
  PROVE  AlertInv'
<1>1. /\ UNCHANGED <<clock, made, alerts, subscribed, sent, alertFile, subFile, alFaults>>
      /\ clock \in 0..MaxClock /\ clock <= clock
      /\ subFile \subseteq Subscriptions /\ subscribed' \subseteq Subscriptions
      /\ alFaults' = 0 => subscribed' \subseteq subFile
  BY AlertingAssumption DEF ProcessPending, PassOver, TakeAlert, AlertInv
<1>2. DOMAIN call = Callers /\ IsCall(call[c], alerts, sent)
  BY DEF AlertInv
<1>3. \E k : IsCall(k, alerts, sent) /\ call' = [call EXCEPT ![c] = k]
  <2>1. CASE ProcessPending(c)
    <3> DEFINE k == [NoCall EXCEPT !.todo = DOMAIN alerts]
    <3>1. call' = [call EXCEPT ![c] = k]
      BY <2>1 DEF ProcessPending
    <3>2. IsCall(k, alerts, sent)
      BY DEF NoCall, IsCall
    <3> QED BY <3>1, <3>2
  <2>2. CASE PassOver(c)
    <3>1. PICK i \in Upcoming(c) : call' = [call EXCEPT ![c].todo = @ \ {i}]
      BY <2>2 DEF PassOver
    <3> DEFINE k == [call[c] EXCEPT !.todo = @ \ {i}]
    <3>2. call' = [call EXCEPT ![c] = k]
      BY <3>1
    <3>3. IsCall(k, alerts, sent)
      BY <1>2 DEF IsCall
    <3> QED BY <3>2, <3>3
  <2>3. CASE TakeAlert(c)
    <3>1. PICK i \in Upcoming(c) :
            /\ alerts[i].status = "PENDING"
            /\ call' = [call EXCEPT ![c] =
                 [todo |-> @.todo \ {i}, alert |-> i, ok |-> FALSE,
                  left |-> TargetsOf(alerts[i]) \X alerts[i].channels]]
      BY <2>3 DEF TakeAlert
    <3> DEFINE k == [todo |-> call[c].todo \ {i}, alert |-> i, ok |-> FALSE,
                     left |-> TargetsOf(alerts[i]) \X alerts[i].channels]
    <3>2. call' = [call EXCEPT ![c] = k]
      BY <3>1
    <3>3. i \in call[c].todo
      BY DEF Upcoming
    <3>4. IsCall(k, alerts, sent)
      BY <1>2, <3>1, <3>3 DEF IsCall
    <3> QED BY <3>2, <3>4
  <2> QED BY <2>1, <2>2, <2>3
<1>4. DOMAIN call' = Callers /\ \A d \in Callers : IsCall(call'[d], alerts, sent')
  BY <1>1, <1>2, <1>3 DEF AlertInv
<1> QED BY <1>1, <1>4, AlertsKept

LEMMA SendOneInv ==
  ASSUME AlertInv, NEW c \in Callers, SendOne(c)
  PROVE  AlertInv'
<1>1. PICK p \in call[c].left, ok \in BOOLEAN :
        /\ sent' = sent \cup {[alert |-> call[c].alert, target |-> p[1], channel |-> p[2],
                               ok |-> ok]}
        /\ call' = [call EXCEPT ![c].left = @ \ {p}, ![c].ok = @ \/ ok]
  BY DEF SendOne
<1>2. /\ SaveLine(alertFile.last, subFile)
      /\ UNCHANGED <<clock, made, alerts, subscribed>>
      /\ clock \in 0..MaxClock /\ clock <= clock
      /\ subFile \subseteq Subscriptions /\ subscribed' \subseteq Subscriptions
      /\ sent \subseteq sent'
  BY <1>1, AlertingAssumption DEF SendOne, AlertInv
<1>3. alFaults' = 0 => subscribed' \subseteq subFile
  <2>1. alFaults' = 0 => alFaults = 0
    BY <1>2, SavedLine
  <2> QED BY <1>2, <2>1 DEF AlertInv
<1>4. DOMAIN call = Callers /\ IsCall(call[c], alerts, sent)
  BY DEF AlertInv
<1>5. DOMAIN call' = Callers /\ \A d \in Callers : d # c => call'[d] = call[d]
  BY <1>1, <1>4
<1>6. IsCall(call'[c], alerts, sent')
  <2> DEFINE either == call[c].ok \/ ok
             d == [alert |-> call[c].alert, target |-> p[1], channel |-> p[2], ok |-> ok]
  <2>1. either \in BOOLEAN
    OBVIOUS
  <2>2. d \in sent' /\ d.alert = call[c].alert /\ d.ok = ok
    BY <1>1
  <2>3. either => Reached(call[c].alert, sent')
    <3>1. CASE ok
      <4> HIDE DEF d
      <4>1. d.ok
        BY <2>2, <3>1
      <4> QED BY <2>2, <4>1 DEF Reached
    <3>2. CASE call[c].ok
      BY <1>2, <1>4, <3>2 DEF IsCall, Reached
    <3> QED BY <3>1, <3>2
  <2>4. call' = [call EXCEPT ![c].left = @ \ {p}, ![c].ok = either]
    BY <1>1
  <2> HIDE DEF either
  <2>5. /\ DOMAIN call'[c] = {"todo", "alert", "left", "ok"}
        /\ call'[c].todo = call[c].todo /\ call'[c].alert = call[c].alert
        /\ call'[c].ok = either
    BY <1>4, <2>4 DEF IsCall
  <2> QED BY <1>4, <2>1, <2>3, <2>5 DEF IsCall
<1>7. \A d \in Callers : IsCall(call[d], alerts, sent) => IsCall(call[d], alerts, sent')
  BY <1>2 DEF IsCall, Reached
<1>8. DOMAIN call' = Callers /\ \A d \in Callers : IsCall(call'[d], alerts, sent')
  BY <1>5, <1>6, <1>7 DEF AlertInv
<1> QED BY <1>2, <1>3, <1>8, AlertsKept

\* The alert a call settles was not skipped, and is delivered only if one of
\* the call's sendings worked.
LEMMA SettleAlertInv ==
  ASSUME AlertInv, NEW c \in Callers, SettleAlert(c)
  PROVE  AlertInv'
<1> DEFINE i == call[c].alert
           alert == [alerts[i] EXCEPT !.status = Outcome(c)]
           idle == [call[c] EXCEPT !.alert = 0, !.left = {}, !.ok = FALSE]
<1>1. /\ i # 0 /\ UNCHANGED <<clock, made, subscribed, sent>>
      /\ alerts' = Recorded(alerts, i, alert)
      /\ SaveLine(Recorded(alertFile.last, i, alert), subFile)
      /\ call' = [call EXCEPT ![c] = idle]
  BY DEF SettleAlert, SaveAlert
<1>2. /\ DOMAIN call = Callers /\ IsCall(call[c], alerts, sent)
      /\ IsTable(alerts, made, sent, clock) /\ IsTable(alertFile.last, made, sent, clock)
  BY DEF AlertInv
<1>3. /\ i \in DOMAIN alerts /\ i \in 1..made /\ alerts[i] \in Alerts
      /\ alerts[i].created <= clock
      /\ alerts[i].status # "SKIPPED"
      /\ call[c].ok => Reached(i, sent)
  BY <1>1, <1>2 DEF IsCall, IsTable
<1>4. /\ alert \in Alerts /\ alert.status = Outcome(c)
      /\ alert.topic = alerts[i].topic /\ alert.created = alerts[i].created
  BY <1>3 DEF Alerts, AlertStatus, Outcome
<1>5. /\ Outcome(c) # "SKIPPED"
      /\ Outcome(c) = "DELIVERED" => Reached(i, sent)
  BY <1>3 DEF Outcome
<1>6. IsCall(idle, alerts, sent)
  BY <1>2 DEF IsCall
<1> HIDE DEF alert, idle
<1>7. ASSUME NEW table, IsTable(table, made, sent, clock)
      PROVE  IsTable(Recorded(table, i, alert), made, sent, clock)
  <2> DEFINE full == Recorded(table, i, alert)
  <2>1. /\ DOMAIN full = DOMAIN table \cup {i} /\ full[i] = alert
        /\ \A j \in DOMAIN table : j # i => full[j] = table[j]
    BY DEF Recorded
  <2>2. alert.created <= clock
    BY <1>3, <1>4
  <2> HIDE DEF full
  <2>3. IsTable(full, made, sent, clock)
    BY <1>3, <1>4, <1>5, <1>7, <2>1, <2>2 DEF IsTable
  <2> QED BY <2>3 DEF full
<1>8. /\ DOMAIN alerts' = DOMAIN alerts
      /\ \A j \in DOMAIN alerts : alerts'[j] = IF j = i THEN alert ELSE alerts[j]
  BY <1>1, <1>3 DEF Recorded
<1>9. /\ DOMAIN alertFile' = {"torn", "last"} /\ alertFile'.torn \in BOOLEAN
      /\ alertFile'.last \in {alertFile.last, Recorded(alertFile.last, i, alert)}
      /\ subFile' = subFile /\ alFaults' \in Nat /\ (alFaults' = 0 => alFaults = 0)
      /\ alFaults' = 0 => /\ alertFile'.torn = FALSE
                          /\ alertFile'.last = Recorded(alertFile.last, i, alert)
  BY <1>1, SavedLine
<1>10. IsTable(alerts', made', sent', clock') /\ IsTable(alertFile'.last, made', sent', clock')
  BY <1>1, <1>2, <1>7, <1>9
<1>11. DOMAIN call' = Callers /\ \A d \in Callers : IsCall(call'[d], alerts', sent')
  <2>1. ASSUME NEW k, IsCall(k, alerts, sent)
        PROVE  IsCall(k, alerts', sent')
    BY <1>1, <1>4, <1>5, <1>8, <2>1 DEF IsCall
  <2> QED BY <1>1, <1>2, <1>6, <2>1 DEF AlertInv
<1>12. ASSUME alFaults' = 0
       PROVE  SkippedRightly(alerts')
  <2>1. SkippedRightly(alerts)
    BY <1>9, <1>12 DEF AlertInv
  <2>2. \A j, k \in DOMAIN alerts : Closely(alerts', j, k) <=> Closely(alerts, j, k)
    BY <1>4, <1>8 DEF Closely
  <2>3. \A j \in DOMAIN alerts : alerts'[j].status = "SKIPPED" <=> alerts[j].status = "SKIPPED"
    BY <1>3, <1>4, <1>5, <1>8
  <2> QED BY <1>8, <2>1, <2>2, <2>3 DEF SkippedRightly
<1> QED BY <1>1, <1>9, <1>10, <1>11, <1>12 DEF AlertInv

LEMMA TickInv ==
  ASSUME AlertInv, AlertingTick
  PROVE  AlertInv'
<1>1. /\ clock' \in 0..MaxClock /\ clock <= clock'
      /\ UNCHANGED <<made, alerts, subscribed, sent, alertFile, subFile, call, alFaults>>
  BY AlertingAssumption DEF AlertingTick, AlertInv
<1>2. DOMAIN call' = Callers /\ \A c \in Callers : IsCall(call'[c], alerts, sent')
  BY <1>1 DEF AlertInv
<1>3. /\ sent \subseteq sent' /\ subFile \subseteq Subscriptions /\ subscribed' \subseteq Subscriptions
      /\ alFaults' = 0 => subscribed' \subseteq subFile
  BY <1>1 DEF AlertInv
<1> QED BY <1>1, <1>2, <1>3, AlertsKept

\* A restart forgets the calls and takes the file for memory: without a fault
\* it is the same.
LEMMA AlertingRestartInv ==
  ASSUME AlertInv, AlertingRestart
  PROVE  AlertInv'
<1>1. /\ alerts' = alertFile.last /\ subscribed' = subFile
      /\ call' = [c \in Callers |-> NoCall]
      /\ UNCHANGED <<clock, made, sent, alertFile, subFile, alFaults>>
  BY DEF AlertingRestart
<1>2. \A c \in Callers : IsCall(call'[c], alerts', sent')
  BY <1>1 DEF IsCall, NoCall
<1> QED BY <1>1, <1>2 DEF AlertInv

LEMMA AlertInitInv ==
  ASSUME AlertingInit
  PROVE  AlertInv
<1>1. IsTable(alerts, made, sent, clock) /\ IsTable(alertFile.last, made, sent, clock)
      /\ SkippedRightly(alerts) /\ DOMAIN alerts = {}
  BY DEF AlertingInit, IsTable, SkippedRightly
<1>2. DOMAIN call = Callers /\ \A c \in Callers : IsCall(call[c], alerts, sent)
  BY DEF AlertingInit, IsCall, NoCall
<1> QED BY <1>1, <1>2, AlertingAssumption DEF AlertingInit, AlertInv

LEMMA AlertStepInv ==
  ASSUME AlertInv, [AlertingNext]_alertingVars
  PROVE  AlertInv'
<1>1. CASE CreateAlert
  BY <1>1, CreateAlertInv
<1>2. CASE AlertingTick
  BY <1>2, TickInv
<1>3. CASE AlertingRestart
  BY <1>3, AlertingRestartInv
<1>4. ASSUME NEW s \in Subscriptions, Subscribe(s) \/ Unsubscribe(s)
      PROVE  AlertInv'
  BY <1>4, SubscriptionInv
<1>5. ASSUME NEW c \in Callers, ProcessPending(c) \/ PassOver(c) \/ TakeAlert(c)
      PROVE  AlertInv'
  BY <1>5, CallInv
<1>6. ASSUME NEW c \in Callers, SendOne(c)
      PROVE  AlertInv'
  BY <1>6, SendOneInv
<1>7. ASSUME NEW c \in Callers, SettleAlert(c)
      PROVE  AlertInv'
  BY <1>7, SettleAlertInv
<1>8. CASE UNCHANGED alertingVars
  BY <1>8 DEF alertingVars, AlertInv, IsTable, IsCall, SkippedRightly, Closely, Reached
<1> QED BY <1>1, <1>2, <1>3, <1>4, <1>5, <1>6, <1>7, <1>8 DEF AlertingNext

\* What the calls in hand, memory and the file say of the alerts.
THEOREM AlertingInvariance == AlertingSpec => []AlertInv
<1>1. AlertingInit => AlertInv
  BY AlertInitInv
<1>2. AlertInv /\ [AlertingNext]_alertingVars => AlertInv'
  BY AlertStepInv
<1> QED BY <1>1, <1>2, PTL DEF AlertingSpec

\* The stores, the file, and what the calls have in hand keep their types.
THEOREM AlertingTypeCorrect == AlertingSpec => []AlertingTypeOK
<1>1. ASSUME AlertInv
      PROVE  AlertingTypeOK
  <2>1. ASSUME NEW c \in Callers
        PROVE  call[c].todo \subseteq 1..made /\ call[c].alert \in 0..made
    <3>1. IsCall(call[c], alerts, sent) /\ DOMAIN alerts \subseteq 1..made /\ made \in Nat
      BY <1>1, AlertingAssumption DEF AlertInv, IsTable
    <3> QED BY <3>1 DEF IsCall
  <2> QED BY <1>1, <2>1 DEF AlertInv, AlertingTypeOK, IsTable
<1> QED BY <1>1, AlertingInvariance, PTL

\* However calls of process_pending overlap and wherever the service starts
\* again, a delivered alert reached somebody and only repetitions are skipped.
THEOREM AlertsTrue == AlertingSpec => []AlertsAccountable
<1>1. ASSUME AlertInv
      PROVE  AlertsAccountable
  <2>1. \A i \in DOMAIN alerts : alerts[i].status = "DELIVERED" => Reached(i, sent)
    BY <1>1 DEF AlertInv, IsTable
  <2>2. alFaults = 0 => SkippedRightly(alerts)
    BY <1>1 DEF AlertInv
  <2> QED BY <2>1, <2>2 DEF AlertsAccountable, Reached, SkippedRightly, Closely
<1> QED BY <1>1, AlertingInvariance, PTL

-----------------------------------------------------------------------------
(* Governance *)

Switched(p, on) == [p EXCEPT !.enabled = on]
MadePolicies == PolicyRequests \cup {Seeds[i] : i \in 1..3}
Policies == MadePolicies \cup {Switched(p, on) : p \in MadePolicies, on \in BOOLEAN}
Entries == [of: Submissions, verdict: [required: SUBSET RuleActions, compliant: BOOLEAN]]

Held(r) ==
  /\ DOMAIN r = {"policies", "approvals", "decisions"}
  /\ r.policies \in Seq(Policies) /\ r.approvals \subseteq ApprovalRequests
  /\ r.decisions \in Seq(Entries)

Guarded(r) == \E i \in DOMAIN r.policies : r.policies[i] = Baseline

GovInv ==
  /\ DOMAIN store = Staff /\ DOMAIN judged = Staff /\ touched \subseteq Staff
  /\ \A w \in Staff : store[w] = NoRegister \/ Held(store[w])
  /\ govFile = NoRegister \/ Held(govFile)
  /\ \A w \in Staff \ touched : store[w] = NoRegister \/ Guarded(store[w])
  /\ NoUnguardedStart

IsPolicy(p) ==
  /\ DOMAIN p = {"scope", "value", "enabled", "rules"}
  /\ p.scope \in Scopes /\ p.enabled \in BOOLEAN
  /\ \A r \in p.rules : r.action \in RuleActions

LEMMA SeedsArePolicies ==
  /\ Seeds \in Seq(Policies) /\ Len(Seeds) = 3 /\ Seeds[1] = Baseline
  /\ \A p \in MadePolicies : IsPolicy(p)
<1>1. Len(Seeds) = 3 /\ DOMAIN Seeds = 1..3 /\ Seeds[1] = Baseline
  BY DEF Seeds
<1>2. Seeds \in Seq({Seeds[i] : i \in 1..3})
  BY DEF Seeds
<1>3. \A i \in 1..3 : IsPolicy(Seeds[i])
  <2>1. ASSUME NEW kind, NEW param, NEW action \in RuleActions
        PROVE  IsPolicy(Global(Rule(kind, action, param)))
    BY DEF IsPolicy, Global, Rule, Scopes
  <2>2. {"BLOCK", "REQUIRE_HUMAN_REVIEW", "WARN"} \subseteq RuleActions
    BY DEF RuleActions
  <2>3. IsPolicy(Baseline)
    BY <2>1, <2>2 DEF Baseline
  <2>4. IsPolicy(Global(Rule("HUMAN_IN_LOOP", "REQUIRE_HUMAN_REVIEW", {})))
        /\ IsPolicy(Global(Rule("EXPLAINABILITY_REQUIRED", "WARN", {})))
    BY <2>1, <2>2
  <2> QED BY <2>3, <2>4 DEF Seeds
<1>4. \A p \in PolicyRequests : IsPolicy(p)
  BY GovernanceAssumption DEF IsPolicy
<1> QED BY <1>1, <1>2, <1>3, <1>4 DEF Policies, MadePolicies

LEMMA PoliciesArePolicies ==
  /\ \A p \in Policies : IsPolicy(p)
  /\ \A p \in Policies, on \in BOOLEAN : Switched(p, on) \in Policies
<1>1. \A p, on : IsPolicy(p) /\ on \in BOOLEAN => IsPolicy(Switched(p, on))
  BY DEF IsPolicy, Switched
<1>2. \A p, one, other : IsPolicy(p) => Switched(Switched(p, one), other) = Switched(p, other)
  BY DEF IsPolicy, Switched
<1> QED BY <1>1, <1>2, SeedsArePolicies DEF Policies

\* The baseline applies to every decision: what it lets pass has the
\* confidence it asks for.
LEMMA BaselineBlocks ==
  ASSUME NEW policies \in Seq(Policies), NEW d \in Submissions,
         \E i \in DOMAIN policies : policies[i] = Baseline,
         Verdict(policies, d).compliant
  PROVE  d.confidence >= 70
<1> DEFINE rule == Rule("CONFIDENCE_THRESHOLD", "BLOCK", 70)
<1>1. /\ rule \in Baseline.rules /\ Baseline.enabled /\ Baseline.scope = "GLOBAL"
      /\ rule.kind = "CONFIDENCE_THRESHOLD" /\ rule.action = "BLOCK" /\ rule.param = 70
      /\ rule.enabled
  BY DEF Baseline, Global, Rule
<1> HIDE DEF rule
<1>2. Baseline \in PoliciesFor(policies, d)
  BY <1>1 DEF PoliciesFor, Applies
<1>3. "BLOCK" \notin {r.action : r \in
         UNION {{r \in p.rules : r.enabled /\ Violated(r, d)} : p \in PoliciesFor(policies, d)}}
  BY DEF Verdict
<1>4. ~Violated(rule, d)
  BY <1>1, <1>2, <1>3
<1>5. ~(d.confidence < 70)
  BY <1>1, <1>4 DEF Violated
<1>6. d.confidence \in 0..100
  BY GovernanceAssumption
<1>7. \A n \in 0..100 : ~(n < 70) => n >= 70
  OBVIOUS
<1> QED BY <1>5, <1>6, <1>7

LEMMA VerdictType ==
  ASSUME NEW policies \in Seq(Policies), NEW d \in Submissions
  PROVE  Verdict(policies, d) \in [required: SUBSET RuleActions, compliant: BOOLEAN]
<1>1. \A p \in PoliciesFor(policies, d) : p \in Policies
  BY DEF PoliciesFor
<1>2. \A p \in PoliciesFor(policies, d) : \A r \in p.rules : r.action \in RuleActions
  BY <1>1, PoliciesArePolicies DEF IsPolicy
<1> QED BY <1>2 DEF Verdict

\* A start takes the file, or nothing if it cannot be loaded, and adds the
\* default policies.
LEMMA SeededGuarded == GovInv => Held(Seeded(Loaded)) /\ Guarded(Seeded(Loaded))
<1> SUFFICES ASSUME GovInv PROVE Held(Seeded(Loaded)) /\ Guarded(Seeded(Loaded))
  OBVIOUS
<1>1. Held(EmptyRegister)
  BY DEF Held, EmptyRegister
<1>2. Held(Loaded)
  BY <1>1 DEF GovInv, Loaded
<1> DEFINE r == Loaded
           s == Seeded(r)
<1>3. /\ DOMAIN s = {"policies", "approvals", "decisions"}
      /\ s.policies = r.policies \o Seeds /\ s.approvals = r.approvals
      /\ s.decisions = r.decisions
  BY <1>2 DEF Held, Seeded
<1>4. r.policies \in Seq(Policies)
  BY <1>2 DEF Held
<1> HIDE DEF r, s
<1> DEFINE all == r.policies \o Seeds
           first == Len(r.policies) + 1
<1>5. all \in Seq(Policies) /\ first \in DOMAIN all /\ all[first] = Baseline
  <2>1. /\ all \in Seq(Policies) /\ Len(all) = Len(r.policies) + Len(Seeds)
        /\ \A i \in 1..Len(r.policies) + Len(Seeds) :
             all[i] = IF i <= Len(r.policies) THEN r.policies[i]
                      ELSE Seeds[i - Len(r.policies)]
    BY <1>4, SeedsArePolicies, ConcatProperties
  <2>2. Len(r.policies) \in Nat /\ Len(Seeds) = 3 /\ Seeds[1] = Baseline
    BY <1>4, SeedsArePolicies
  <2> HIDE DEF all
  <2>3. first \in 1..Len(all) /\ ~(first <= Len(r.policies)) /\ first - Len(r.policies) = 1
    BY <2>1, <2>2
  <2> QED BY <2>1, <2>2, <2>3
<1>6. Held(s) /\ Guarded(s)
  BY <1>2, <1>3, <1>5 DEF Held, Guarded, r
<1> QED BY <1>6 DEF r, s

\* One worker's register changes, and the file with it.
LEMMA ChangeInv ==
  ASSUME GovInv, NEW w \in Staff, NEW register, Held(register),
         store' = [store EXCEPT ![w] = register], WriteRegister(register),
         touched' \subseteq Staff, touched \subseteq touched', DOMAIN judged' = Staff,
         w \notin touched' => Guarded(register),
         NoUnguardedStart'
  PROVE  GovInv'
<1>1. govFile' \in {register, govFile, NoRegister}
  BY DEF WriteRegister
<1>2. DOMAIN store' = Staff /\ \A v \in Staff : store'[v] = IF v = w THEN register ELSE store[v]
  BY DEF GovInv
<1>3. \A v \in Staff \ touched' : store'[v] = NoRegister \/ Guarded(store'[v])
  BY <1>2 DEF GovInv
<1> QED BY <1>1, <1>2, <1>3 DEF GovInv

LEMMA GovInitInv == GovernanceInit => GovInv
<1>1. Held(EmptyRegister)
  BY DEF Held, EmptyRegister
<1> QED BY <1>1 DEF GovernanceInit, GovInv, NoUnguardedStart

LEMMA StartServiceInv ==
  ASSUME GovInv, NEW w \in Staff, StartService(w)
  PROVE  GovInv'
<1>1. /\ store' = [store EXCEPT ![w] = Seeded(Loaded)] /\ WriteRegister(Seeded(Loaded))
      /\ UNCHANGED <<touched, judged>>
  BY DEF StartService
<1>2. NoUnguardedStart' /\ touched' \subseteq Staff /\ DOMAIN judged' = Staff
  BY <1>1 DEF GovInv, NoUnguardedStart
<1> QED BY <1>1, <1>2, SeededGuarded, ChangeInv

LEMMA EndServiceInv ==
  ASSUME GovInv, NEW w \in Staff, EndService(w)
  PROVE  GovInv'
<1>1. /\ store' = [store EXCEPT ![w] = NoRegister] /\ touched' = touched \ {w}
      /\ judged' = [judged EXCEPT ![w] = {}] /\ UNCHANGED govFile
  BY DEF EndService
<1>2. NoUnguardedStart'
  BY <1>1 DEF GovInv, NoUnguardedStart
<1> QED BY <1>1, <1>2 DEF GovInv

LEMMA PolicyInv ==
  ASSUME GovInv, NEW w \in Staff, CreatePolicy(w) \/ UpdatePolicy(w) \/ DeletePolicy(w)
  PROVE  GovInv'
<1>1. store[w] # NoRegister /\ Held(store[w]) /\ UNCHANGED judged
  BY DEF CreatePolicy, UpdatePolicy, DeletePolicy, InUse, GovInv
<1> DEFINE list == store[w].policies
<1>2. list \in Seq(Policies)
  BY <1>1 DEF Held
<1>3. ASSUME NEW new \in Seq(Policies)
      PROVE  /\ Held([store[w] EXCEPT !.policies = new])
             /\ [store[w] EXCEPT !.policies = new].policies = new
  BY <1>1 DEF Held
<1>4. CASE CreatePolicy(w)
  <2>1. PICK p \in PolicyRequests : Change(w, [store[w] EXCEPT !.policies = Append(@, p)])
    BY <1>4 DEF CreatePolicy
  <2> DEFINE new == Append(list, p)
             register == [store[w] EXCEPT !.policies = new]
  <2>2. new \in Seq(Policies) /\ Len(new) = Len(list) + 1
        /\ \A i \in 1..Len(list) : new[i] = list[i]
    BY <1>2 DEF Policies, MadePolicies
  <2>3. Held(register) /\ register.policies = new
    BY <1>3, <2>2
  <2>4. store' = [store EXCEPT ![w] = register] /\ WriteRegister(register)
        /\ touched' = touched
    BY <1>4, <2>1 DEF Change, CreatePolicy
  <2>5. w \notin touched' => Guarded(register)
    <3>1. SUFFICES ASSUME w \notin touched' PROVE Guarded(register)
      OBVIOUS
    <3>2. PICK i \in DOMAIN list : list[i] = Baseline
      BY <1>1, <2>4, <3>1 DEF GovInv, Guarded
    <3> HIDE DEF new, register
    <3>3. i \in DOMAIN new /\ new[i] = Baseline
      BY <1>2, <2>2, <3>2
    <3> QED BY <2>3, <3>3 DEF Guarded
  <2>6. NoUnguardedStart' /\ touched' \subseteq Staff /\ DOMAIN judged' = Staff
    BY <1>1, <2>4 DEF GovInv, NoUnguardedStart
  <2> HIDE DEF register
  <2> QED BY <2>3, <2>4, <2>5, <2>6, ChangeInv
<1>5. CASE UpdatePolicy(w)
  <2>1. PICK i \in DOMAIN list, on \in BOOLEAN :
          Change(w, [store[w] EXCEPT !.policies[i].enabled = on])
    BY <1>5 DEF UpdatePolicy
  <2> DEFINE new == [list EXCEPT ![i] = Switched(list[i], on)]
             register == [store[w] EXCEPT !.policies = new]
  <2>2. register = [store[w] EXCEPT !.policies[i].enabled = on]
    BY DEF Switched
  <2>3. Switched(list[i], on) \in Policies
    BY <1>2, PoliciesArePolicies
  <2>4. new \in Seq(Policies)
    <3> DEFINE p == Switched(list[i], on)
    <3> HIDE DEF p
    <3>1. [list EXCEPT ![i] = p] \in Seq(Policies)
      BY <1>2, <2>3, ExceptSeq DEF p
    <3> QED BY <3>1 DEF p
  <2>5. Held(register)
    BY <1>3, <2>4
  <2>6. /\ store' = [store EXCEPT ![w] = register] /\ WriteRegister(register)
        /\ touched' = touched \cup {w}
    BY <1>5, <2>1, <2>2 DEF Change, UpdatePolicy
  <2>7. NoUnguardedStart' /\ touched' \subseteq Staff /\ DOMAIN judged' = Staff
    BY <1>1, <2>6 DEF GovInv, NoUnguardedStart
  <2> HIDE DEF register
  <2> QED BY <2>5, <2>6, <2>7, ChangeInv
<1>6. CASE DeletePolicy(w)
  <2>1. PICK i \in DOMAIN list : Change(w, [store[w] EXCEPT !.policies = Without(@, i)])
    BY <1>6 DEF DeletePolicy
  <2> DEFINE new == Without(list, i)
             register == [store[w] EXCEPT !.policies = new]
  <2>2. new \in Seq(Policies)
    BY <1>2 DEF Without
  <2>3. Held(register)
    BY <1>3, <2>2
  <2>4. /\ store' = [store EXCEPT ![w] = register] /\ WriteRegister(register)
        /\ touched' = touched \cup {w}
    BY <1>6, <2>1 DEF Change, DeletePolicy
  <2>5. NoUnguardedStart' /\ touched' \subseteq Staff /\ DOMAIN judged' = Staff
    BY <1>1, <2>4 DEF GovInv, NoUnguardedStart
  <2> HIDE DEF register
  <2> QED BY <2>3, <2>4, <2>5, ChangeInv
<1> QED BY <1>4, <1>5, <1>6

LEMMA ApprovalInv ==
  ASSUME GovInv, NEW w \in Staff, CreateApprovalPolicy(w) \/ DeleteApprovalPolicy(w)
  PROVE  GovInv'
<1>1. store[w] # NoRegister /\ Held(store[w]) /\ UNCHANGED <<touched, judged>>
  BY DEF CreateApprovalPolicy, DeleteApprovalPolicy, InUse, GovInv
<1>2. PICK new \in SUBSET ApprovalRequests : Change(w, [store[w] EXCEPT !.approvals = new])
  BY <1>1 DEF CreateApprovalPolicy, DeleteApprovalPolicy, Held
<1> DEFINE register == [store[w] EXCEPT !.approvals = new]
<1>3. Held(register) /\ register.policies = store[w].policies
  BY <1>1 DEF Held
<1>4. store' = [store EXCEPT ![w] = register] /\ WriteRegister(register)
  BY <1>2 DEF Change
<1> HIDE DEF register
<1>5. w \notin touched' => Guarded(register)
  BY <1>1, <1>3 DEF GovInv, Guarded
<1>6. NoUnguardedStart' /\ touched' \subseteq Staff /\ DOMAIN judged' = Staff
  BY <1>1 DEF GovInv, NoUnguardedStart
<1> QED BY <1>1, <1>3, <1>4, <1>5, <1>6, ChangeInv

\* While the worker has changed no policy its register has the baseline, and
\* a checked decision is judged by it.
LEMMA DecisionInv ==
  ASSUME GovInv, NEW w \in Staff, RegisterDecision(w)
  PROVE  GovInv'
<1>1. store[w] # NoRegister /\ Held(store[w]) /\ UNCHANGED touched
  BY DEF RegisterDecision, InUse, GovInv
<1>2. PICK d \in Submissions :
        LET entry == [of |-> d, verdict |-> IF d.check THEN Verdict(store[w].policies, d)
                                            ELSE Unchecked]
        IN  /\ Change(w, [store[w] EXCEPT !.decisions = Append(@, entry)])
            /\ judged' = [judged EXCEPT ![w] = @ \cup {entry}]
  BY DEF RegisterDecision
<1> DEFINE entry == [of |-> d, verdict |-> IF d.check THEN Verdict(store[w].policies, d)
                                           ELSE Unchecked]
           register == [store[w] EXCEPT !.decisions = Append(@, entry)]
<1>3. /\ store' = [store EXCEPT ![w] = register] /\ WriteRegister(register)
      /\ judged' = [judged EXCEPT ![w] = @ \cup {entry}]
  BY <1>2 DEF Change
<1>4. entry \in Entries /\ entry.of = d
      /\ (d.check => entry.verdict = Verdict(store[w].policies, d))
  <2>1. Unchecked \in [required: SUBSET RuleActions, compliant: BOOLEAN]
    BY DEF Unchecked
  <2>2. Verdict(store[w].policies, d) \in [required: SUBSET RuleActions, compliant: BOOLEAN]
    BY <1>1, VerdictType DEF Held
  <2> QED BY <2>1, <2>2 DEF Entries
<1> HIDE DEF entry
<1>5. Held(register) /\ register.policies = store[w].policies
  <2> DEFINE new == Append(store[w].decisions, entry)
  <2>1. new \in Seq(Entries)
    BY <1>1, <1>4 DEF Held
  <2> HIDE DEF new
  <2>2. register = [store[w] EXCEPT !.decisions = new]
    BY DEF new
  <2> QED BY <1>1, <2>1, <2>2 DEF Held
<1> HIDE DEF register
<1>6. w \notin touched' => Guarded(register)
  BY <1>1, <1>5 DEF GovInv, Guarded
<1>7. ASSUME w \notin touched, d.check, entry.verdict.compliant
      PROVE  d.confidence >= 70
  <2>1. store[w].policies \in Seq(Policies)
        /\ \E i \in DOMAIN store[w].policies : store[w].policies[i] = Baseline
    BY <1>1, <1>7 DEF GovInv, Guarded, Held
  <2> QED BY <1>4, <1>7, <2>1, BaselineBlocks
<1>8. NoUnguardedStart'
  <2> SUFFICES ASSUME NEW v \in Staff \ touched', NEW e \in judged'[v],
                      e.of.check, e.verdict.compliant
               PROVE  e.of.confidence >= 70
    BY DEF NoUnguardedStart
  <2>1. CASE e \in judged[v]
    BY <1>1, <2>1 DEF GovInv, NoUnguardedStart
  <2>2. CASE v = w /\ e = entry
    BY <1>1, <1>4, <1>7, <2>2
  <2> QED BY <1>3, <2>1, <2>2 DEF GovInv
<1>9. touched' \subseteq Staff /\ DOMAIN judged' = Staff
  BY <1>1, <1>3 DEF GovInv
<1> QED BY <1>1, <1>3, <1>5, <1>6, <1>8, <1>9, ChangeInv

LEMMA GovStepInv ==
  ASSUME GovInv, [GovernanceNext]_governanceVars
  PROVE  GovInv'
<1>1. CASE UNCHANGED governanceVars
  BY <1>1 DEF governanceVars, GovInv, NoUnguardedStart
<1>2. CASE GovernanceNext
  <2>1. PICK w \in Staff :
          \/ StartService(w) \/ EndService(w)
          \/ CreatePolicy(w) \/ UpdatePolicy(w) \/ DeletePolicy(w)
          \/ CreateApprovalPolicy(w) \/ DeleteApprovalPolicy(w) \/ RegisterDecision(w)
    BY <1>2 DEF GovernanceNext
  <2> QED BY <2>1, StartServiceInv, EndServiceInv, PolicyInv, ApprovalInv, DecisionInv
<1> QED BY <1>1, <1>2

\* Every register, in memory or on file, is one, and those in use are
\* guarded.
THEOREM GovernanceInvariance == GovernanceSpec => []GovInv
<1>1. GovInv /\ [GovernanceNext]_governanceVars => GovInv'
  BY GovStepInv
<1> QED BY <1>1, GovInitInv, PTL DEF GovernanceSpec

\* What each worker holds, and what the file is left with, stays a register.
THEOREM GovernanceTypeCorrect == GovernanceSpec => []GovernanceTypeOK
<1>1. \A r : Held(r) => IsRegister(r)
  <2> SUFFICES ASSUME NEW r, Held(r) PROVE IsRegister(r)
    OBVIOUS
  <2>1. \A i \in DOMAIN r.policies : IsPolicy(r.policies[i])
    BY PoliciesArePolicies DEF Held
  <2>2. \A i \in DOMAIN r.decisions : r.decisions[i] \in Entries
    BY DEF Held
  <2> QED BY <2>1, <2>2 DEF Held, IsRegister, IsPolicy, Entries
<1>2. GovInv => GovernanceTypeOK
  BY <1>1 DEF GovInv, GovernanceTypeOK
<1> QED BY <1>2, GovernanceInvariance, PTL

\* Every start puts the default policies in force, whatever was switched off,
\* deleted or lost before it, in however many workers.
THEOREM StartsGuarded == GovernanceSpec => []NoUnguardedStart
<1>1. GovInv => NoUnguardedStart
  BY DEF GovInv
<1> QED BY <1>1, GovernanceInvariance, PTL

-----------------------------------------------------------------------------
(* Surveillance: a scheduler runs if and only if it is reported to.          *)

\* The fields of a job and of a scheduler.
JobFields == {"at", "of", "todo", "since"}
LoopFields == {"running", "task", "lock"}

\* Who joins a cancelled task holds the lock of its scheduler, and nobody
\* else holds a lock.
JobsOK ==
  /\ DOMAIN job = Actors
  /\ \A a \in Actors : DOMAIN job[a] = JobFields /\ job[a].of \in Loops
  /\ \A c \in Clients : job[c].at = "joining" => loop[job[c].of].lock = c
  /\ \A l \in Loops : job[l].at # "joining"
LoopsOK ==
  /\ DOMAIN loop = Loops
  /\ \A l \in Loops :
       /\ DOMAIN loop[l] = LoopFields
       /\ loop[l].lock = Nobody => (loop[l].running <=> loop[l].task = "live")
       /\ loop[l].lock # Nobody =>
            /\ loop[l].lock \in Clients /\ ~loop[l].running /\ loop[l].task # "live"
SchedulerInv == JobsOK /\ LoopsOK

\* What a job may become without the schedulers being touched.
JobGoes(a, j) ==
  /\ job' = [job EXCEPT ![a] = j] /\ loop' = loop
  /\ job[a].at # "joining" /\ j.at # "joining" /\ DOMAIN j = JobFields /\ j.of \in Loops

\* A step of a round leaves the schedulers alone.
LEMMA JobGoesOn ==
  ASSUME SchedulerInv, NEW a \in Actors, NEW j, JobGoes(a, j)
  PROVE  SchedulerInv'
<1>1. JobsOK'
  BY DEF SchedulerInv, JobGoes, JobsOK, Actors
<1>2. LoopsOK'
  BY DEF SchedulerInv, JobGoes, LoopsOK
<1>3. QED
  BY <1>1, <1>2 DEF SchedulerInv

LEMMA FinishedJob ==
  ASSUME NEW a
  PROVE  Finished(a).at # "joining" /\ DOMAIN Finished(a) = JobFields /\ Finished(a).of \in Loops
BY DEF Finished, Idle, JobFields, Loops

LEMMA RoundSteps ==
  ASSUME SchedulerInv, NEW a \in Actors,
         SourceListed(a) \/ SourceFailed(a) \/ DocumentTaken(a) \/ DocumentRaised(a)
  PROVE  SchedulerInv'
<1>1. job[a].at = "round" /\ loop' = loop
      /\ job' \in {[job EXCEPT ![a] = Proceed(a)], [job EXCEPT ![a] = Finished(a)]}
  BY DEF SourceListed, SourceFailed, DocumentTaken, DocumentRaised, AtRound
<1>2. Proceed(a).at # "joining" /\ DOMAIN Proceed(a) = JobFields /\ Proceed(a).of \in Loops
  <2> DEFINE on == [job[a] EXCEPT !.todo = Tail(@), !.since = Len(found')]
  <2>1. DOMAIN job[a] = JobFields /\ job[a].of \in Loops
    BY DEF SchedulerInv, JobsOK
  <2>2. DOMAIN on = JobFields /\ on.at = "round" /\ on.of = job[a].of
    BY <1>1, <2>1 DEF JobFields
  <2> HIDE DEF on
  <2>3. Proceed(a) = Finished(a) \/ Proceed(a) = on
    BY DEF Proceed, on
  <2>4. QED
    BY <2>1, <2>2, <2>3, FinishedJob
<1>3. QED
  BY <1>1, <1>2, FinishedJob, JobGoesOn DEF JobGoes

LEMMA BeginSteps ==
  ASSUME SchedulerInv, NEW a \in Actors, NEW l \in Loops, job[a].at # "joining", BeginRound(a, l)
  PROVE  SchedulerInv'
<1>1. PICK todo : job' = [job EXCEPT ![a] = IF todo = <<>> THEN Finished(a) ELSE Round(l, todo)]
  BY DEF BeginRound
<1>2. Round(l, todo).at # "joining" /\ DOMAIN Round(l, todo) = JobFields /\ Round(l, todo).of \in Loops
  BY DEF Round, JobFields
<1>3. loop' = loop
  BY DEF BeginRound
<1>4. \E j : job' = [job EXCEPT ![a] = j] /\ j.at # "joining" /\ DOMAIN j = JobFields /\ j.of \in Loops
  BY <1>1, <1>2, FinishedJob
<1>5. QED
  BY <1>3, <1>4, JobGoesOn DEF JobGoes

LEMMA RequestSteps ==
  ASSUME SchedulerInv, NEW c \in Clients,
         RequestOne(c) \/ \E l \in Loops : RequestRound(c, l) \/ RequestSwitch(c, l)
  PROVE  SchedulerInv'
<1>1. c \in Actors
  BY DEF Actors
<1>2. ASSUME NEW l \in Loops, RequestRound(c, l) PROVE SchedulerInv'
  BY <1>1, <1>2, BeginSteps DEF RequestRound
<1>3. ASSUME NEW j, job' = [job EXCEPT ![c] = j], loop' = loop, job[c].at = "idle",
             j.at # "joining", DOMAIN j = JobFields, j.of \in Loops
      PROVE  SchedulerInv'
  BY <1>1, <1>3, JobGoesOn DEF JobGoes
<1>4. ASSUME RequestOne(c) PROVE SchedulerInv'
  <2>0. PICK l \in Loops : \E todo : job' = [job EXCEPT ![c] = Round(l, todo)]
    BY <1>4 DEF RequestOne, Loops
  <2>1. PICK todo : job' = [job EXCEPT ![c] = Round(l, todo)]
    BY <2>0
  <2>2. Round(l, todo).at # "joining" /\ DOMAIN Round(l, todo) = JobFields /\ Round(l, todo).of \in Loops
    BY DEF Round, JobFields
  <2>3. QED
    BY <1>3, <1>4, <2>1, <2>2 DEF RequestOne
<1>5. ASSUME NEW l \in Loops, RequestSwitch(c, l) PROVE SchedulerInv'
  <2>1. PICK at \in {"starting", "stopping"} : job' = [job EXCEPT ![c] = [Idle EXCEPT !.at = at, !.of = l]]
    BY <1>5 DEF RequestSwitch
  <2> DEFINE j == [Idle EXCEPT !.at = at, !.of = l]
  <2>2. j.at # "joining" /\ DOMAIN j = JobFields /\ j.of \in Loops
    BY DEF Idle, JobFields
  <2>3. job' = [job EXCEPT ![c] = j] /\ loop' = loop /\ job[c].at = "idle"
    BY <1>5, <2>1 DEF RequestSwitch
  <2> HIDE DEF j
  <2>4. QED
    BY <1>3, <2>2, <2>3
<1>6. QED
  BY <1>2, <1>4, <1>5

LEMMA StartLoopInv ==
  ASSUME SchedulerInv, NEW c \in Clients, StartLoop(c)
  PROVE  SchedulerInv'
<1> DEFINE l == job[c].of
<1>1. c \in Actors /\ l \in Loops /\ l \in Actors /\ c # l /\ c \notin Loops
  BY SurveillanceAssumption DEF SchedulerInv, JobsOK, Actors
<1>2. Idle.at # "joining" /\ DOMAIN Idle = JobFields /\ Idle.of \in Loops
  BY DEF Idle, JobFields, Loops
<1>3. CASE loop[l].running
  BY <1>1, <1>2, <1>3, JobGoesOn DEF StartLoop, JobGoes
<1>4. CASE ~loop[l].running
  <2>1. /\ loop[l].lock = Nobody
        /\ loop' = [loop EXCEPT ![l].running = TRUE, ![l].task = "live"]
        /\ job' = [job EXCEPT ![c] = Idle, ![l] = Finished(l)]
    BY <1>4 DEF StartLoop, LockFree
  <2>2. DOMAIN loop = Loops /\ DOMAIN loop[l] = LoopFields
    BY <1>1 DEF SchedulerInv, LoopsOK
  <2>3. /\ DOMAIN loop' = Loops /\ DOMAIN loop'[l] = LoopFields
        /\ loop'[l].lock = Nobody /\ loop'[l].running /\ loop'[l].task = "live"
        /\ \A k \in Loops : k # l => loop'[k] = loop[k]
    BY <1>1, <2>1, <2>2 DEF LoopFields
  <2>4. /\ DOMAIN job' = Actors /\ job'[c] = Idle /\ job'[l] = Finished(l)
        /\ \A a \in Actors : a # c /\ a # l => job'[a] = job[a]
    BY <1>1, <2>1 DEF SchedulerInv, JobsOK
  <2> HIDE DEF l
  <2>5. LoopsOK'
    BY <1>1, <2>3 DEF SchedulerInv, LoopsOK
  <2>6. JobsOK'
    <3>1. \A a \in Actors : DOMAIN job'[a] = JobFields /\ job'[a].of \in Loops
      BY <1>2, <2>4, FinishedJob DEF SchedulerInv, JobsOK
    <3>2. ASSUME NEW d \in Clients, job'[d].at = "joining" PROVE loop'[job'[d].of].lock = d
      <4>1. d \in Actors /\ d # l /\ d # Nobody
        BY <1>1, SurveillanceAssumption DEF Actors
      <4>2. job'[d] = job[d] /\ job[d].at = "joining"
        BY <1>2, <2>4, <3>2, <4>1
      <4>3. loop[job[d].of].lock = d /\ job[d].of \in Loops
        BY <4>1, <4>2 DEF SchedulerInv, JobsOK
      <4>4. job[d].of # l
        BY <2>1, <4>1, <4>3
      <4>5. QED
        BY <2>3, <4>2, <4>3, <4>4
    <3>3. ASSUME NEW k \in Loops PROVE job'[k].at # "joining"
      <4>1. k \in Actors /\ k # c
        BY <1>1 DEF Actors
      <4>2. QED
        BY <2>4, <4>1, FinishedJob DEF SchedulerInv, JobsOK
    <3>4. QED
      BY <2>4, <3>1, <3>2, <3>3 DEF JobsOK
  <2>7. QED
    BY <2>5, <2>6 DEF SchedulerInv
<1>5. QED
  BY <1>3, <1>4

LEMMA StopLoopInv ==
  ASSUME SchedulerInv, NEW c \in Clients, StopLoop(c)
  PROVE  SchedulerInv'
<1> DEFINE l == job[c].of
<1>1. c \in Actors /\ l \in Loops /\ c \notin Loops /\ c # Nobody
  BY SurveillanceAssumption DEF SchedulerInv, JobsOK, Actors
<1>2. Idle.at # "joining" /\ DOMAIN Idle = JobFields /\ Idle.of \in Loops
  BY DEF Idle, JobFields, Loops
<1>3. CASE ~loop[l].running
  BY <1>1, <1>2, <1>3, JobGoesOn DEF StopLoop, JobGoes
<1>4. CASE loop[l].running
  <2> DEFINE cancelled == [running |-> FALSE, task |-> "cancelled", lock |-> c]
  <2>1. loop[l].lock = Nobody /\ loop' = [loop EXCEPT ![l] = cancelled]
        /\ job' = [job EXCEPT ![c].at = "joining"]
    BY <1>4 DEF StopLoop, LockFree
  <2>2. cancelled.running = FALSE /\ cancelled.task = "cancelled" /\ cancelled.lock = c
        /\ DOMAIN cancelled = LoopFields
    BY DEF LoopFields
  <2> HIDE DEF cancelled
  <2>3. /\ DOMAIN loop' = Loops /\ loop'[l] = cancelled
        /\ \A k \in Loops : k # l => loop'[k] = loop[k]
    BY <1>1, <2>1 DEF SchedulerInv, LoopsOK
  <2>4. /\ DOMAIN job' = Actors /\ job'[c].of = l /\ job'[c].at = "joining" /\ DOMAIN job'[c] = JobFields
        /\ \A a \in Actors : a # c => job'[a] = job[a]
    BY <1>1, <2>1 DEF SchedulerInv, JobsOK, JobFields
  <2> HIDE DEF l
  <2>5. LoopsOK'
    <3>1. ASSUME NEW k \in Loops, k = l
          PROVE  /\ DOMAIN loop'[k] = LoopFields /\ loop'[k].lock = c
                 /\ ~loop'[k].running /\ loop'[k].task # "live"
      BY <2>2, <2>3, <3>1
    <3>2. ASSUME NEW k \in Loops, k # l PROVE loop'[k] = loop[k]
      BY <2>3, <3>2
    <3>3. QED
      BY <1>1, <2>3, <3>1, <3>2 DEF SchedulerInv, LoopsOK
  <2>6. JobsOK'
    <3>1. \A a \in Actors : DOMAIN job'[a] = JobFields /\ job'[a].of \in Loops
      BY <1>1, <2>4 DEF SchedulerInv, JobsOK
    <3>2. ASSUME NEW d \in Clients, job'[d].at = "joining" PROVE loop'[job'[d].of].lock = d
      <4>1. d \in Actors /\ d # Nobody
        BY SurveillanceAssumption DEF Actors
      <4>2. CASE d = c
        BY <2>2, <2>3, <2>4, <4>2
      <4>3. CASE d # c
        <5>1. job'[d] = job[d] /\ loop[job[d].of].lock = d /\ job[d].of \in Loops
          BY <2>4, <3>2, <4>1, <4>3 DEF SchedulerInv, JobsOK
        <5>2. job[d].of # l
          BY <2>1, <4>1, <5>1 
        <5>3. QED
          BY <2>3, <5>1, <5>2
      <4>4. QED
        BY <4>2, <4>3
    <3>3. \A k \in Loops : job'[k].at # "joining"
      BY <1>1, <2>4 DEF SchedulerInv, JobsOK, Actors
    <3>4. QED
      BY <2>4, <3>1, <3>2, <3>3 DEF JobsOK
  <2>7. QED
    BY <2>5, <2>6 DEF SchedulerInv
<1>5. QED
  BY <1>3, <1>4

LEMMA TaskEndsInv ==
  ASSUME SchedulerInv, NEW c \in Clients, TaskEnds(c)
  PROVE  SchedulerInv'
<1> DEFINE l == job[c].of
<1>1. c \in Actors /\ l \in Loops /\ l \in Actors /\ c \notin Loops /\ c # l /\ c # Nobody
  BY SurveillanceAssumption DEF SchedulerInv, JobsOK, Actors
<1>2. Idle.at # "joining" /\ DOMAIN Idle = JobFields /\ Idle.of \in Loops
  BY DEF Idle, JobFields, Loops
<1>3. /\ job[c].at = "joining" /\ loop' = [loop EXCEPT ![l].task = "none", ![l].lock = Nobody]
      /\ job' = [job EXCEPT ![c] = Idle, ![l] = Idle]
  BY DEF TaskEnds
<1>4. loop[l].lock = c /\ ~loop[l].running /\ DOMAIN loop[l] = LoopFields /\ DOMAIN loop = Loops
  BY <1>1, <1>3 DEF SchedulerInv, JobsOK, LoopsOK
<1>5. /\ DOMAIN loop' = Loops /\ DOMAIN loop'[l] = LoopFields
      /\ loop'[l].lock = Nobody /\ (loop'[l].running <=> loop[l].running) /\ loop'[l].task = "none"
      /\ \A k \in Loops : k # l => loop'[k] = loop[k]
  BY <1>1, <1>3, <1>4 DEF LoopFields
<1>6. /\ DOMAIN job' = Actors /\ job'[c] = Idle /\ job'[l] = Idle
      /\ \A a \in Actors : a # c /\ a # l => job'[a] = job[a]
  BY <1>1, <1>3 DEF SchedulerInv, JobsOK
<1> HIDE DEF l
<1>7. LoopsOK'
  <2>1. ~loop'[l].running /\ loop'[l].task # "live"
    BY <1>4, <1>5
  <2>2. ASSUME NEW k \in Loops, k # l PROVE loop'[k] = loop[k]
    BY <1>5, <2>2
  <2>3. QED
    BY <1>5, <2>1, <2>2 DEF SchedulerInv, LoopsOK
<1>8. JobsOK'
  <2>1. \A a \in Actors : DOMAIN job'[a] = JobFields /\ job'[a].of \in Loops
    BY <1>2, <1>6 DEF SchedulerInv, JobsOK
  <2>2. ASSUME NEW d \in Clients, job'[d].at = "joining" PROVE loop'[job'[d].of].lock = d
    <3>1. d \in Actors /\ d # l
      BY <1>1, SurveillanceAssumption DEF Actors
    <3>2. d # c /\ job'[d] = job[d]
      BY <1>2, <1>6, <2>2, <3>1
    <3>3. loop[job[d].of].lock = d /\ job[d].of \in Loops
      BY <2>2, <3>1, <3>2 DEF SchedulerInv, JobsOK
    <3>4. job[d].of # l
      BY <1>4, <3>2, <3>3
    <3>5. QED
      BY <1>5, <3>2, <3>3, <3>4
  <2>3. \A k \in Loops : job'[k].at # "joining"
    BY <1>1, <1>2, <1>6 DEF SchedulerInv, JobsOK, Actors
  <2>4. QED
    BY <1>6, <2>1, <2>2, <2>3 DEF JobsOK
<1>9. QED
  BY <1>7, <1>8 DEF SchedulerInv

\* What a start of the service makes of the schedulers.
LEMMA FreshStart ==
  ASSUME NEW loops, loops = [l \in Loops |-> [running |-> FALSE, task |-> "none", lock |-> Nobody]]
  PROVE  /\ DOMAIN loops = Loops
         /\ \A l \in Loops : /\ DOMAIN loops[l] = LoopFields /\ ~loops[l].running
                             /\ loops[l].task = "none" /\ loops[l].lock = Nobody
BY DEF LoopFields

LEMMA SchedulerInvInit == SurveillanceInit => SchedulerInv
<1> SUFFICES ASSUME SurveillanceInit PROVE SchedulerInv
  OBVIOUS
<1>1. Idle.at = "idle" /\ DOMAIN Idle = JobFields /\ Idle.of \in Loops
  BY DEF Idle, JobFields, Loops
<1>2. JobsOK
  BY <1>1 DEF SurveillanceInit, JobsOK, Actors
<1>3. LoopsOK
  BY FreshStart DEF SurveillanceInit, LoopsOK
<1>4. QED
  BY <1>2, <1>3 DEF SchedulerInv

LEMMA RestartInv == SchedulerInv /\ ServiceRestart => SchedulerInv'
<1> SUFFICES ASSUME ServiceRestart PROVE SchedulerInv'
  OBVIOUS
<1>1. Idle.at = "idle" /\ DOMAIN Idle = JobFields /\ Idle.of \in Loops
  BY DEF Idle, JobFields, Loops
<1>2. JobsOK'
  BY <1>1 DEF ServiceRestart, JobsOK, Actors
<1>3. LoopsOK'
  BY FreshStart DEF ServiceRestart, LoopsOK
<1>4. QED
  BY <1>2, <1>3 DEF SchedulerInv

LEMMA SchedulerInvStep == SchedulerInv /\ [SurveillanceNext]_surveillanceVars => SchedulerInv'
<1> SUFFICES ASSUME SchedulerInv, [SurveillanceNext]_surveillanceVars PROVE SchedulerInv'
  OBVIOUS
<1>1. ASSUME NEW l \in Loops, Wake(l) PROVE SchedulerInv'
  BY <1>1, BeginSteps DEF Wake, Actors
<1>2. CASE UNCHANGED surveillanceVars
  BY <1>2 DEF surveillanceVars, SchedulerInv, JobsOK, LoopsOK
<1>3. QED
  BY <1>1, <1>2, RestartInv, RequestSteps, StartLoopInv, StopLoopInv, TaskEndsInv, RoundSteps
  DEF SurveillanceNext

\* A scheduler whose lock is free runs exactly when it has a task to stop,
\* and a task that works belongs to one that says it runs (start and stop of
\* the discovery and ingestion schedulers): however many clients start and
\* stop it, and whenever the service starts again.
THEOREM SchedulersStayAsReported == SurveillanceSpec => []SchedulersAsReported
<1>1. SchedulerInv => SchedulersAsReported
  BY DEF SchedulerInv, LoopsOK, SchedulersAsReported
<1>2. QED
  BY <1>1, SchedulerInvInit, SchedulerInvStep, PTL DEF SurveillanceSpec

-----------------------------------------------------------------------------
(* Surveillance: the same version of a document is announced once.           *)

\* Of two discoveries of one version of a document the later one is marked
\* unchanged, unless an older discovery of its url hides the first.
Announced(list) ==
  \A i, j \in DOMAIN list :
    /\ i < j /\ list[i].row = list[j].row /\ list[i].row.version # NoVersion
    /\ \A k \in 1..(i - 1) : list[k].row.url # list[i].row.url
    => list[j].change = "UNCHANGED"

LEMMA NotedIsDiscovery ==
  ASSUME NEW list, NEW s \in Sources, NEW row \in Rows
  PROVE  Noted(list, s, row) \in Discoveries /\ Noted(list, s, row).row = row
BY DEF Noted, Discoveries

\* add_discovery compares with the oldest discovery of the url.
LEMMA NotedKnown ==
  ASSUME NEW list \in Seq(Discoveries), NEW s, NEW i \in DOMAIN list,
         list[i].row.version # NoVersion,
         \A k \in 1..(i - 1) : list[k].row.url # list[i].row.url
  PROVE  Noted(list, s, list[i].row).change = "UNCHANGED"
<1>1. list[i] \in FirstAt(list, list[i].row.url)
  BY DEF FirstAt
<1>2. QED
  BY <1>1 DEF Noted

\* One more row does not announce again.
LEMMA AnnouncedGrows ==
  ASSUME NEW list \in Seq(Discoveries), NEW s \in Sources, NEW row \in Rows, Announced(list)
  PROVE  Announced(Append(list, Noted(list, s, row)))
<1> DEFINE d == Noted(list, s, row)
           all == Append(list, d)
<1>1. d \in Discoveries /\ d.row = row
  BY NotedIsDiscovery
<1> HIDE DEF d
<1>2. /\ all \in Seq(Discoveries) /\ DOMAIN all = 1..Len(list) + 1 /\ Len(list) \in Nat
      /\ DOMAIN list = 1..Len(list)
      /\ all[Len(list) + 1] = d /\ \A i \in 1..Len(list) : all[i] = list[i]
  BY <1>1, AppendProperties, LenProperties
<1> HIDE DEF all
<1>3. ASSUME NEW i \in DOMAIN all, NEW j \in DOMAIN all,
             i < j, all[i].row = all[j].row, all[i].row.version # NoVersion,
             \A k \in 1..(i - 1) : all[k].row.url # all[i].row.url
      PROVE  all[j].change = "UNCHANGED"
  <2>1. i \in 1..Len(list) /\ all[i] = list[i]
    BY <1>2, <1>3
  <2>2. \A k \in 1..(i - 1) : list[k].row.url # list[i].row.url
    <3>1. \A k \in 1..(i - 1) : k \in 1..Len(list)
      BY <1>2, <2>1
    <3>2. QED
      BY <1>2, <1>3, <2>1, <3>1
  <2>3. CASE j = Len(list) + 1
    <3>1. all[j] = d /\ list[i].row = row /\ list[i].row.version # NoVersion
      BY <1>1, <1>2, <1>3, <2>1, <2>3
    <3>2. i \in DOMAIN list
      BY <1>2, <2>1
    <3>3. Noted(list, s, list[i].row).change = "UNCHANGED"
      BY <2>2, <3>1, <3>2, NotedKnown
    <3>4. QED
      BY <3>1, <3>3 DEF d
  <2>4. CASE j \in 1..Len(list)
    BY <1>2, <1>3, <2>1, <2>2, <2>4 DEF Announced
  <2>5. QED
    BY <1>2, <2>3, <2>4
<1>4. Announced(all)
  BY <1>3 DEF Announced
<1>5. QED
  BY <1>4 DEF all, d

\* What a listing leaves of the discoveries.
Extends(all, list, n) ==
  /\ all \in Seq(Discoveries) /\ Len(all) = Len(list) + n
  /\ \A i \in 1..Len(list) : all[i] = list[i]
  /\ Announced(list) => Announced(all)

\* The rows of a source are added one by one, none twice.
LEMMA AddAllExtends ==
  ASSUME NEW list \in Seq(Discoveries), NEW since, NEW s \in Sources, NEW rows \in Listings[s]
  PROVE  Extends(AddAll(list, since, s, rows), list, Len(rows)) /\ Len(rows) \in Nat
<1> DEFINE n == Len(rows)
           added[i \in 0..n] == IF i = 0 THEN list ELSE Append(added[i - 1], Noted(added[i - 1], s, rows[i]))
           G == [p \in Seq(Discoveries) \X (1..n) |-> Append(p[1], Noted(p[1], s, rows[p[2]]))]
<1>1. n \in Nat /\ \A i \in 1..n : rows[i] \in Rows
  <2>1. rows \in Seq([url: STRING, version: STRING \cup {NoVersion}])
    BY SurveillanceAssumption
  <2>2. n \in Nat /\ DOMAIN rows = 1..n
    BY <2>1, LenProperties
  <2>3. {rows[i] : i \in DOMAIN rows} \in UNION {{{r[i] : i \in DOMAIN r} : r \in Listings[x]} : x \in Sources}
    OBVIOUS
  <2>4. {rows[i] : i \in DOMAIN rows} \subseteq Rows
    BY <2>3 DEF Rows
  <2>5. QED
    BY <2>2, <2>4
<1> HIDE DEF n
<1>2. G \in [Seq(Discoveries) \X (1..n) -> Seq(Discoveries)]
  <2> SUFFICES ASSUME NEW l \in Seq(Discoveries), NEW i \in 1..n
               PROVE  Append(l, Noted(l, s, rows[i])) \in Seq(Discoveries)
    OBVIOUS
  <2>1. QED
    BY <1>1, NotedIsDiscovery, AppendProperties
<1>3. PICK f : Recursion(Seq(Discoveries), list, n, G, f)
  <2>1. RecursionData(Seq(Discoveries), list, n, G)
    BY <1>1, <1>2 DEF RecursionData
  <2> HIDE DEF G, added
  <2>2. QED
    BY <2>1, RecursionExists
<1>4. \A i \in 1..n : i - 1 \in 0..n /\ i \in 0..n /\ f[i - 1] \in Seq(Discoveries)
  BY <1>1, <1>3 DEF Recursion
<1>5. \A i \in 1..n : f[i] = Append(f[i - 1], Noted(f[i - 1], s, rows[i]))
  BY <1>3, <1>4 DEF Recursion
<1> HIDE DEF G
<1>6. f = [i \in 0..n |-> IF i = 0 THEN list ELSE Append(f[i - 1], Noted(f[i - 1], s, rows[i]))]
  <2>1. ASSUME NEW i \in 0..n
        PROVE  f[i] = IF i = 0 THEN list ELSE Append(f[i - 1], Noted(f[i - 1], s, rows[i]))
    <3>1. i = 0 \/ i \in 1..n
      BY <1>1
    <3>2. QED
      BY <1>3, <1>5, <3>1 DEF Recursion
  <2>2. QED
    BY <1>3, <2>1 DEF Recursion
<1>7. added = [i \in 0..n |-> IF i = 0 THEN list ELSE Append(added[i - 1], Noted(added[i - 1], s, rows[i]))]
  BY <1>6
<1>8. AddAll(list, since, s, rows) = added[n]
  BY DEF AddAll, n
<1> HIDE DEF added
<1> DEFINE Good(i) == Extends(added[i], list, i)
           P == {i \in 0..n : Good(i)}
<1>9. added[0] = list /\ \A i \in 1..n : added[i] = Append(added[i - 1], Noted(added[i - 1], s, rows[i]))
  <2>1. 0 \in 0..n /\ \A i \in 1..n : i \in 0..n /\ i # 0
    BY <1>1
  <2>2. QED
    BY <1>7, <2>1
<1>10. 0 \in P
  BY <1>1, <1>9, LenProperties DEF Extends
<1>11. ASSUME NEW i \in 1..n, i - 1 \in P PROVE i \in P
  <2> DEFINE l == added[i - 1]
             d == Noted(l, s, rows[i])
  <2>1. l \in Seq(Discoveries) /\ Len(l) = Len(list) + (i - 1) /\ Len(list) \in Nat
        /\ (\A k \in 1..Len(list) : l[k] = list[k]) /\ (Announced(list) => Announced(l))
    BY <1>11, LenProperties DEF Extends
  <2>2. d \in Discoveries /\ rows[i] \in Rows
    BY <1>1, NotedIsDiscovery
  <2>3. Announced(l) => Announced(Append(l, d))
    BY <2>1, <2>2, AnnouncedGrows
  <2> HIDE DEF l, d
  <2>4. /\ Append(l, d) \in Seq(Discoveries) /\ Len(Append(l, d)) = Len(l) + 1
        /\ \A k \in 1..Len(l) : Append(l, d)[k] = l[k]
    BY <2>1, <2>2, AppendProperties
  <2>5. \A k \in 1..Len(list) : k \in 1..Len(l)
    BY <2>1
  <2>6. Extends(Append(l, d), list, i)
    BY <2>1, <2>3, <2>4, <2>5 DEF Extends
  <2>7. added[i] = Append(l, d)
    BY <1>9 DEF l, d
  <2>8. i \in 0..n /\ Good(i)
    BY <1>1, <2>6, <2>7
  <2>9. QED
    BY <2>8
<1> HIDE DEF P
<1>12. 0..n \subseteq P
  BY <1>1, <1>10, <1>11, UpToInduction
<1>13. n \in P
  BY <1>1, <1>12
<1>14. QED
  BY <1>1, <1>8, <1>13 DEF P, n

-----------------------------------------------------------------------------
MonitorRun == [source: Sources, healthy: BOOLEAN, count: Nat]
Total(runs) ==
  LET upTo[i \in 0..Len(runs)] == IF i = 0 THEN 0 ELSE upTo[i - 1] + runs[i].count
  IN  upTo[Len(runs)]
SumsUp(runs, f) ==
  /\ f[0] = 0 /\ \A i \in 1..Len(runs) : f[i] = f[i - 1] + runs[i].count
  /\ \A i \in 0..Len(runs) : f[i] \in Nat
  /\ Total(runs) = f[Len(runs)]

\* The total over the recorded runs is a recursive sum.
LEMMA TotalIsASum ==
  ASSUME NEW runs \in Seq(MonitorRun)
  PROVE  \E f : SumsUp(runs, f)
<1> DEFINE n == Len(runs)
           upTo[i \in 0..n] == IF i = 0 THEN 0 ELSE upTo[i - 1] + runs[i].count
           G == [p \in Nat \X (1..n) |-> p[1] + runs[p[2]].count]
<1>1. n \in Nat /\ \A i \in 1..n : runs[i].count \in Nat
  <2>1. n \in Nat /\ DOMAIN runs = 1..n /\ \A i \in 1..n : runs[i] \in MonitorRun
    BY LenProperties
  <2>2. QED
    BY <2>1 DEF MonitorRun
<1>2. Total(runs) = upTo[n]
  BY DEF Total
<1> HIDE DEF n
<1>3. RecursionData(Nat, 0, n, G)
  <2>1. G \in [Nat \X (1..n) -> Nat]
    BY <1>1
  <2> HIDE DEF G, upTo
  <2>2. QED
    BY <1>1, <2>1 DEF RecursionData
<1>4. PICK f : Recursion(Nat, 0, n, G, f)
  <2> HIDE DEF G, upTo
  <2>1. QED
    BY <1>3, RecursionExists
<1>5. \A i \in 1..n : f[i - 1] \in Nat /\ f[i] = f[i - 1] + runs[i].count
  <2>1. \A i \in 1..n : i - 1 \in 0..n
    BY <1>1
  <2>2. QED
    BY <1>4, <2>1 DEF Recursion
<1> HIDE DEF G
<1>6. f = [i \in 0..n |-> IF i = 0 THEN 0 ELSE f[i - 1] + runs[i].count]
  <2>1. ASSUME NEW i \in 0..n
        PROVE  f[i] = IF i = 0 THEN 0 ELSE f[i - 1] + runs[i].count
    <3>1. i = 0 \/ i \in 1..n
      BY <1>1
    <3>2. QED
      BY <1>4, <1>5, <3>1 DEF Recursion
  <2>2. QED
    BY <1>4, <2>1 DEF Recursion
<1>7. upTo = [i \in 0..n |-> IF i = 0 THEN 0 ELSE upTo[i - 1] + runs[i].count]
  BY <1>6
<1> HIDE DEF upTo
<1>8. upTo[0] = 0 /\ \A i \in 1..n : upTo[i] = upTo[i - 1] + runs[i].count
  <2>1. 0 \in 0..n /\ \A i \in 1..n : i \in 0..n /\ i # 0
    BY <1>1
  <2>2. QED
    BY <1>7, <2>1
<1>9. \A i \in 0..n : upTo[i] \in Nat
  <2> DEFINE P == {i \in 0..n : upTo[i] \in Nat}
  <2>1. 0 \in P
    BY <1>1, <1>8
  <2>2. \A i \in 1..n : i - 1 \in P => i \in P
    BY <1>1, <1>8
  <2> HIDE DEF P
  <2>3. 0..n \subseteq P
    BY <1>1, <2>1, <2>2, UpToInduction
  <2>4. QED
    BY <2>3 DEF P
<1>10. SumsUp(runs, upTo)
  BY <1>2, <1>8, <1>9 DEF SumsUp, n
<1>11. QED
  BY <1>10

\* One more run adds its count to the total.
LEMMA SumsAgree ==
  ASSUME NEW runs \in Seq(MonitorRun), NEW run \in MonitorRun
  PROVE  Total(Append(runs, run)) = Total(runs) + run.count
<1> DEFINE n == Len(runs)
           more == Append(runs, run)
<1>1. n \in Nat /\ more \in Seq(MonitorRun) /\ Len(more) = n + 1 /\ more[n + 1] = run
      /\ \A i \in 1..n : more[i] = runs[i]
  BY LenProperties, AppendProperties
<1>2. PICK f : SumsUp(runs, f)
  BY TotalIsASum
<1> HIDE DEF more
<1>3. PICK g : SumsUp(more, g)
  BY <1>1, TotalIsASum
<1> DEFINE P == {i \in 0..n : g[i] = f[i]}
<1>4. 0 \in P
  BY <1>1, <1>2, <1>3 DEF SumsUp
<1>5. ASSUME NEW i \in 1..n, i - 1 \in P PROVE i \in P
  <2>1. i \in 1..(n + 1) /\ i \in 0..n
    BY <1>1
  <2>2. g[i] = g[i - 1] + more[i].count /\ f[i] = f[i - 1] + runs[i].count
    BY <1>1, <1>2, <1>3, <2>1 DEF SumsUp
  <2>3. QED
    BY <1>1, <1>5, <2>1, <2>2
<1> HIDE DEF P
<1>6. n \in P
  <2>1. 0..n \subseteq P
    BY <1>1, <1>4, <1>5, UpToInduction
  <2>2. QED
    BY <1>1, <2>1
<1>7. g[n] = f[n] /\ f[n] = Total(runs)
  BY <1>2, <1>6 DEF P, SumsUp
<1>8. g[n + 1] = g[n] + run.count /\ Total(more) = g[n + 1]
  <2>1. n + 1 \in 1..(n + 1) /\ (n + 1) - 1 = n
    BY <1>1
  <2>2. QED
    BY <1>1, <1>3, <2>1 DEF SumsUp
<1>9. QED
  BY <1>7, <1>8 DEF more

LEMMA NoRunsNoTotal == Total(<<>>) = 0
<1>1. <<>> \in Seq(MonitorRun) /\ Len(<<>>) = 0
  BY EmptySeq
<1>2. QED
  BY <1>1, TotalIsASum DEF SumsUp

-----------------------------------------------------------------------------
TodoFine(j) == j.of = "monitoring" => j.todo \in Seq(Sources)
TodoOK == DOMAIN job = Actors /\ \A a \in Actors : TodoFine(job[a])

\* While no append has failed the file holds what memory holds.
BookOK ==
  /\ found \in Seq(Discoveries) /\ monitorRuns \in Seq(MonitorRun)
  /\ saved.found = found /\ saved.runs = monitorRuns /\ ~saved.broken
  /\ DOMAIN saved = {"found", "runs", "broken"}
  /\ Announced(found) /\ Total(monitorRuns) = Len(found)
AnnouncedInv == TodoOK /\ svFaults \in Nat /\ (svFaults = 0 => BookOK)

JobSet(a, j) == job' = [job EXCEPT ![a] = j] /\ TodoFine(j)
BookKept == UNCHANGED <<found, monitorRuns, saved, svFaults>>

\* An idle actor has no sources left.
LEMMA NothingToDo ==
  /\ TodoFine(Idle) /\ \A a : TodoFine(Finished(a))
  /\ \A at, of : TodoFine([Idle EXCEPT !.at = at, !.of = of])
<1>1. <<>> \in Seq(Sources)
  BY EmptySeq
<1>2. QED
  BY <1>1 DEF TodoFine, Idle, Finished

\* The part of the invariant about what is left of a round.
LEMMA JobSetOK == ASSUME TodoOK, NEW a \in Actors, NEW j, JobSet(a, j) PROVE TodoOK'
BY DEF TodoOK, JobSet

\* A step that leaves the book alone.
LEMMA BookKeptOK == ASSUME svFaults \in Nat, svFaults = 0 => BookOK, BookKept
                    PROVE  svFaults' \in Nat /\ (svFaults' = 0 => BookOK')
BY DEF BookKept, BookOK

\* The sources are listed one by one: what is left is a part of the round.
LEMMA ProceedFine ==
  ASSUME TodoOK, NEW a \in Actors, job[a].at = "round", job[a].todo # <<>>
  PROVE  TodoFine(Proceed(a))
<1> DEFINE on == [job[a] EXCEPT !.todo = Tail(@), !.since = Len(found')]
<1>1. on.of = job[a].of /\ on.todo \in {Tail(job[a].todo), job[a].todo}
  OBVIOUS
<1>2. job[a].of = "monitoring" => job[a].todo \in Seq(Sources) /\ Tail(job[a].todo) \in Seq(Sources)
  BY HeadTailProperties DEF TodoOK, TodoFine
<1>3. TodoFine(on)
  BY <1>1, <1>2 DEF TodoFine
<1> HIDE DEF on
<1>4. Proceed(a) = Finished(a) \/ Proceed(a) = on
  BY DEF Proceed, on
<1>5. QED
  BY <1>3, <1>4, NothingToDo

\* A save fails or not.
LEMMA SaveCounts ==
  ASSUME NEW docs, NEW run, Save(docs, run)
  PROVE  svFaults' \in {svFaults, svFaults + 1}
BY DEF Save

\* A save without a fault appends the documents and the run.
LEMMA SaveOK ==
  ASSUME NEW docs \in Seq(Discoveries), NEW run \in MonitorRun,
         svFaults \in Nat, svFaults = 0 => BookOK, Save(docs, run)
  PROVE  /\ svFaults' \in Nat
         /\ svFaults' = 0 =>
              /\ svFaults = 0 /\ saved'.found = found \o docs /\ saved'.runs = Append(monitorRuns, run)
              /\ ~saved'.broken /\ DOMAIN saved' = {"found", "runs", "broken"}
<1>1. svFaults' = svFaults + 1 \/ (saved' = SavedWith(saved, docs, run) /\ svFaults' = svFaults)
  BY DEF Save
<1>2. CASE svFaults' = svFaults + 1
  BY <1>2
<1>3. CASE saved' = SavedWith(saved, docs, run) /\ svFaults' = svFaults
  <2> DEFINE more == [saved EXCEPT !.found = @ \o docs, !.runs = Append(@, run)]
  <2>1. DOMAIN saved = {"found", "runs", "broken"} =>
          /\ more.found = saved.found \o docs /\ more.runs = Append(saved.runs, run)
          /\ (more.broken <=> saved.broken) /\ DOMAIN more = DOMAIN saved
    OBVIOUS
  <2>2. ~saved.broken => saved' = more
    BY <1>3 DEF SavedWith
  <2> HIDE DEF more
  <2>3. QED
    BY <1>3, <2>1, <2>2 DEF BookOK
<1>4. QED
  BY <1>1, <1>2, <1>3

LEMMA ListedOK ==
  ASSUME AnnouncedInv, NEW a \in Actors, SourceListed(a)
  PROVE  AnnouncedInv'
<1>1. job[a].at = "round" /\ job[a].of = "monitoring" /\ job[a].todo # <<>>
  BY DEF SourceListed, AtRound
<1> DEFINE s == Head(job[a].todo)
<1>2. s \in Sources
  BY <1>1, HeadTailProperties DEF AnnouncedInv, TodoOK, TodoFine
<1>3. PICK rows \in Listings[s] :
        LET all == AddAll(found, job[a].since, s, rows)
            run == [source |-> s, healthy |-> TRUE, count |-> Len(rows)]
        IN  /\ found' = all /\ monitorRuns' = Append(monitorRuns, run)
            /\ Save(SubSeq(all, Len(found) + 1, Len(all)), run)
  BY DEF SourceListed
<1> DEFINE all == AddAll(found, job[a].since, s, rows)
           run == [source |-> s, healthy |-> TRUE, count |-> Len(rows)]
           docs == SubSeq(all, Len(found) + 1, Len(all))
<1>4. found' = all /\ monitorRuns' = Append(monitorRuns, run) /\ Save(docs, run)
  BY <1>3
<1>5. TodoOK'
  <2>1. job' = [job EXCEPT ![a] = Proceed(a)]
    BY DEF SourceListed
  <2>2. QED
    BY <1>1, <2>1, ProceedFine, JobSetOK DEF AnnouncedInv, JobSet
<1> HIDE DEF all, s
<1>6. CASE svFaults = 0
  <2>1. found \in Seq(Discoveries) /\ monitorRuns \in Seq(MonitorRun) /\ Announced(found)
        /\ Total(monitorRuns) = Len(found) /\ Len(found) \in Nat
    BY <1>6, LenProperties DEF AnnouncedInv, BookOK
  <2>2. Extends(all, found, Len(rows)) /\ Len(rows) \in Nat
    BY <1>2, <2>1, AddAllExtends DEF all
  <2>3. run \in MonitorRun /\ run.count = Len(rows)
    BY <1>2, <2>2 DEF MonitorRun
  <2> HIDE DEF run
  <2>4. all \in Seq(Discoveries) /\ Len(all) = Len(found) + Len(rows)
        /\ \A i \in 1..Len(found) : all[i] = found[i]
    BY <2>2 DEF Extends
  <2>5. /\ docs \in Seq(Discoveries) /\ Len(docs) = Len(rows)
        /\ \A i \in 1..Len(rows) : docs[i] = all[Len(found) + i]
    <3>1. \A i \in Len(found) + 1..Len(all) : all[i] \in Discoveries
      BY <2>1, <2>2, <2>4, LenProperties, ElementOfSeq
    <3>2. QED
      BY <2>1, <2>2, <2>4, <3>1, SubSeqProperties
  <2> HIDE DEF docs
  <2>6. found \o docs = all
    <3>1. /\ found \o docs \in Seq(Discoveries) /\ Len(found \o docs) = Len(all)
          /\ \A i \in 1..Len(all) : (found \o docs)[i] = all[i]
      <4>1. /\ found \o docs \in Seq(Discoveries) /\ Len(found \o docs) = Len(found) + Len(docs)
            /\ \A i \in 1..Len(found) + Len(docs) :
                 (found \o docs)[i] = IF i <= Len(found) THEN found[i] ELSE docs[i - Len(found)]
        BY <2>1, <2>5, ConcatProperties
      <4>2. ASSUME NEW i \in 1..Len(all) PROVE (found \o docs)[i] = all[i]
        <5>1. CASE i <= Len(found)
          <6>1. i \in 1..Len(found) /\ i \in 1..Len(found) + Len(docs)
            BY <2>1, <2>4, <2>5, <5>1
          <6>2. QED
            BY <2>4, <4>1, <5>1, <6>1
        <5>2. CASE i > Len(found)
          <6>1. i - Len(found) \in 1..Len(rows) /\ Len(found) + (i - Len(found)) = i
            BY <2>1, <2>2, <2>4, <5>2
          <6>2. QED
            BY <2>1, <2>2, <2>4, <2>5, <4>1, <5>2, <6>1
        <5>3. i \in Nat /\ Len(found) \in Nat
          BY <2>1, <2>2, <2>4
        <5>4. i <= Len(found) \/ i > Len(found)
          BY <5>3
        <5>5. QED
          BY <5>1, <5>2, <5>4
      <4>3. QED
        BY <2>4, <2>5, <4>1, <4>2
    <3>2. QED
      BY <2>4, <3>1, SeqEqual
  <2>7. /\ svFaults' \in Nat
        /\ svFaults' = 0 => /\ saved'.found = found' /\ saved'.runs = monitorRuns'
                             /\ ~saved'.broken /\ DOMAIN saved' = {"found", "runs", "broken"}
    BY <1>4, <2>3, <2>5, <2>6, SaveOK DEF AnnouncedInv
  <2>8. monitorRuns' \in Seq(MonitorRun) /\ Total(monitorRuns') = Total(monitorRuns) + Len(rows)
    BY <1>4, <2>1, <2>3, AppendProperties, SumsAgree
  <2>9. Announced(found') /\ Total(monitorRuns') = Len(found') /\ found' \in Seq(Discoveries)
    BY <1>4, <2>1, <2>2, <2>4, <2>8 DEF Extends
  <2>10. QED
    BY <1>5, <2>7, <2>8, <2>9 DEF AnnouncedInv, BookOK, Announced, Total
<1>7. CASE svFaults # 0
  <2>1. svFaults' \in Nat /\ svFaults' # 0
    BY <1>4, <1>7, SaveCounts DEF AnnouncedInv
  <2>2. QED
    BY <1>5, <2>1 DEF AnnouncedInv
<1>8. QED
  BY <1>6, <1>7

LEMMA FailedOK ==
  ASSUME AnnouncedInv, NEW a \in Actors, SourceFailed(a)
  PROVE  AnnouncedInv'
<1> DEFINE run == [source |-> Head(job[a].todo), healthy |-> FALSE, count |-> 0]
<1>1. /\ job[a].at = "round" /\ job[a].of = "monitoring" /\ job[a].todo # <<>>
      /\ found' = found /\ monitorRuns' = Append(monitorRuns, run) /\ Save(<<>>, run)
      /\ job' = [job EXCEPT ![a] = Proceed(a)]
  BY DEF SourceFailed, AtRound
<1>2. run \in MonitorRun /\ run.count = 0
  <2>1. Head(job[a].todo) \in Sources
    BY <1>1, HeadTailProperties DEF AnnouncedInv, TodoOK, TodoFine
  <2>2. QED
    BY <2>1 DEF MonitorRun
<1> HIDE DEF run
<1>3. TodoOK'
  BY <1>1, ProceedFine, JobSetOK DEF AnnouncedInv, JobSet
<1>4. CASE svFaults = 0
  <2>1. found \in Seq(Discoveries) /\ monitorRuns \in Seq(MonitorRun) /\ Announced(found)
        /\ Total(monitorRuns) = Len(found) /\ Len(found) \in Nat
    BY <1>4, LenProperties DEF AnnouncedInv, BookOK
  <2>2. <<>> \in Seq(Discoveries) /\ found \o <<>> = found
    BY <2>1, EmptySeq, ConcatEmptySeq
  <2>3. /\ svFaults' \in Nat
        /\ svFaults' = 0 => /\ saved'.found = found' /\ saved'.runs = monitorRuns'
                             /\ ~saved'.broken /\ DOMAIN saved' = {"found", "runs", "broken"}
    BY <1>1, <1>2, <2>2, SaveOK DEF AnnouncedInv
  <2>4. monitorRuns' \in Seq(MonitorRun) /\ Total(monitorRuns') = Total(monitorRuns)
    BY <1>1, <1>2, <2>1, AppendProperties, SumsAgree
  <2>5. Announced(found)' /\ Total(monitorRuns)' = Len(found')
    BY <1>1, <2>1, <2>4 DEF Announced, Total
  <2>6. QED
    BY <1>1, <1>3, <2>1, <2>3, <2>4, <2>5 DEF AnnouncedInv, BookOK
<1>5. CASE svFaults # 0
  <2>1. svFaults' \in Nat /\ svFaults' # 0
    BY <1>1, <1>5, SaveCounts DEF AnnouncedInv
  <2>2. QED
    BY <1>3, <2>1 DEF AnnouncedInv
<1>6. QED
  BY <1>4, <1>5

LEMMA BeginOK ==
  ASSUME AnnouncedInv, NEW a \in Actors, NEW l \in Loops, BeginRound(a, l)
  PROVE  AnnouncedInv'
<1>1. PICK todo \in Agenda(l) :
        job' = [job EXCEPT ![a] = IF todo = <<>> THEN Finished(a) ELSE Round(l, todo)]
  BY DEF BeginRound
<1>2. TodoFine(Round(l, todo))
  <2>1. l = "monitoring" => todo \in Seq(Sources)
    <3>1. SUFFICES ASSUME l = "monitoring" PROVE todo \in Seq(Sources)
      OBVIOUS
    <3>2. todo \in [1..Cardinality(Sources) -> Sources]
      BY <1>1, <3>1 DEF Agenda
    <3>3. Cardinality(Sources) \in Nat
      BY SurveillanceAssumption, FS_CardinalityType
    <3>4. QED
      BY <3>2, <3>3, SeqDef
  <2>2. QED
    BY <2>1 DEF TodoFine, Round
<1>3. TodoOK'
  BY <1>1, <1>2, NothingToDo, JobSetOK DEF AnnouncedInv, JobSet
<1>4. BookKept
  BY DEF BeginRound, BookKept
<1>5. QED
  BY <1>3, <1>4, BookKeptOK DEF AnnouncedInv

LEMMA RequestOK ==
  ASSUME AnnouncedInv, NEW c \in Clients,
         RequestOne(c) \/ \E l \in Loops : RequestRound(c, l) \/ RequestSwitch(c, l)
  PROVE  AnnouncedInv'
<1>1. c \in Actors
  BY DEF Actors
<1>2. ASSUME NEW l \in Loops, RequestRound(c, l) PROVE AnnouncedInv'
  BY <1>1, <1>2, BeginOK DEF RequestRound
<1>3. ASSUME RequestOne(c) PROVE AnnouncedInv'
  <2>1. \E j : JobSet(c, j)
    <3>1. ASSUME NEW s \in Sources PROVE TodoFine(Round("monitoring", <<s>>))
      <4>1. <<s>> \in Seq(Sources)
        OBVIOUS
      <4>2. QED
        BY <4>1 DEF TodoFine, Round
    <3>2. ASSUME NEW i PROVE TodoFine(Round("ingestion", <<i>>))
      BY DEF TodoFine, Round
    <3>3. QED
      BY <1>3, <3>1, <3>2 DEF RequestOne, JobSet
  <2>2. BookKept
    BY <1>3 DEF RequestOne, BookKept
  <2>3. QED
    BY <1>1, <2>1, <2>2, JobSetOK, BookKeptOK DEF AnnouncedInv
<1>4. ASSUME NEW l \in Loops, RequestSwitch(c, l) PROVE AnnouncedInv'
  <2>1. \E j : JobSet(c, j)
    BY <1>4, NothingToDo DEF RequestSwitch, JobSet
  <2>2. BookKept
    BY <1>4 DEF RequestSwitch, Unchanged, BookKept
  <2>3. QED
    BY <1>1, <2>1, <2>2, JobSetOK, BookKeptOK DEF AnnouncedInv
<1>5. QED
  BY <1>2, <1>3, <1>4

LEMMA LoopStepsOK ==
  ASSUME AnnouncedInv, NEW c \in Clients, StartLoop(c) \/ StopLoop(c) \/ TaskEnds(c)
  PROVE  AnnouncedInv'
<1>1. BookKept
  BY DEF StartLoop, StopLoop, TaskEnds, Unchanged, BookKept
<1>2. DOMAIN job = Actors /\ \A a \in Actors : TodoFine(job[a])
  BY DEF AnnouncedInv, TodoOK
<1>3. TodoFine([job[c] EXCEPT !.at = "joining"])
  BY <1>2 DEF TodoFine, Actors
<1>4. /\ DOMAIN job' = Actors
      /\ \A a \in Actors : job'[a] \in {job[a], Idle, Finished(job[c].of), [job[c] EXCEPT !.at = "joining"]}
  BY <1>2 DEF StartLoop, StopLoop, TaskEnds
<1>5. TodoOK'
  BY <1>2, <1>3, <1>4, NothingToDo DEF TodoOK
<1>6. QED
  BY <1>1, <1>5, BookKeptOK DEF AnnouncedInv

LEMMA TakenOK ==
  ASSUME AnnouncedInv, NEW a \in Actors, DocumentTaken(a) \/ DocumentRaised(a)
  PROVE  AnnouncedInv'
<1>1. job[a].at = "round" /\ job[a].todo # <<>>
      /\ job' \in {[job EXCEPT ![a] = Proceed(a)], [job EXCEPT ![a] = Finished(a)]}
  BY DEF DocumentTaken, DocumentRaised, AtRound
<1>2. TodoFine(Proceed(a))
  BY <1>1, ProceedFine DEF AnnouncedInv
<1>3. TodoOK'
  BY <1>1, <1>2, NothingToDo, JobSetOK DEF AnnouncedInv, JobSet
<1>4. BookKept
  BY DEF DocumentTaken, DocumentRaised, BookKept
<1>5. QED
  BY <1>3, <1>4, BookKeptOK DEF AnnouncedInv

LEMMA AnnouncedRestartOK == ASSUME AnnouncedInv, ServiceRestart PROVE AnnouncedInv'
<1>1. TodoOK'
  BY NothingToDo DEF ServiceRestart, TodoOK
<1>2. svFaults' = svFaults /\ saved' = saved /\ found' = saved.found /\ monitorRuns' = saved.runs
  BY DEF ServiceRestart
<1>3. svFaults = 0 => BookKept
  BY <1>2 DEF AnnouncedInv, BookOK, BookKept
<1>4. QED
  BY <1>1, <1>2, <1>3, BookKeptOK DEF AnnouncedInv

LEMMA AnnouncedInvInit == SurveillanceInit => AnnouncedInv
<1> SUFFICES ASSUME SurveillanceInit PROVE AnnouncedInv
  OBVIOUS
<1>1. TodoOK
  BY NothingToDo DEF SurveillanceInit, TodoOK
<1>2. <<>> \in Seq(Discoveries) /\ <<>> \in Seq(MonitorRun) /\ Len(<<>>) = 0 /\ Announced(<<>>)
  BY EmptySeq DEF Announced
<1>3. BookOK
  BY <1>2, NoRunsNoTotal DEF SurveillanceInit, BookOK
<1>4. QED
  BY <1>1, <1>3 DEF SurveillanceInit, AnnouncedInv

LEMMA AnnouncedInvStep == AnnouncedInv /\ [SurveillanceNext]_surveillanceVars => AnnouncedInv'
<1> SUFFICES ASSUME AnnouncedInv, [SurveillanceNext]_surveillanceVars PROVE AnnouncedInv'
  OBVIOUS
<1>1. ASSUME NEW l \in Loops, Wake(l) PROVE AnnouncedInv'
  BY <1>1, BeginOK DEF Wake, Actors
<1>2. CASE UNCHANGED surveillanceVars
  BY <1>2, BookKeptOK DEF surveillanceVars, AnnouncedInv, TodoOK, BookKept
<1>3. QED
  BY <1>1, <1>2, AnnouncedRestartOK, RequestOK, LoopStepsOK, ListedOK, FailedOK, TakenOK
  DEF SurveillanceNext

\* Whatever rounds overlap, and whenever the service starts again, the
\* version in which a document was first found is not announced again, and
\* the runs add up to the discoveries, until a save fails (add_discovery and
\* the monitoring store): for any number of clients, sources, rows and
\* faults.
THEOREM NothingAnnouncedTwice == SurveillanceSpec => []AnnouncedOnce
<1>1. TotalDiscoveries = Total(monitorRuns)
  BY DEF TotalDiscoveries, Total
<1>2. AnnouncedInv => AnnouncedOnce
  BY <1>1 DEF AnnouncedInv, BookOK, Announced, AnnouncedOnce
<1>3. QED
  BY <1>2, AnnouncedInvInit, AnnouncedInvStep, PTL DEF SurveillanceSpec

-----------------------------------------------------------------------------
(* Surveillance: what is found keeps its type.                               *)

Ats == {"idle", "asleep", "round", "starting", "stopping", "joining"}
LoopRecs == [running: BOOLEAN, task: {"none", "live", "cancelled"}, lock: Clients \cup {Nobody}]

\* A job has sources left, or places of discoveries.
JobFine(j) ==
  /\ DOMAIN j = JobFields /\ j.at \in Ats /\ j.of \in Loops
  /\ j.of = "monitoring" => j.todo \in Seq(Sources)
  /\ j.of = "ingestion" => j.todo \in Seq(1..MaxFound)
JobsFine == DOMAIN job = Actors /\ \A a \in Actors : JobFine(job[a])

\* The file holds no more discoveries than memory, so that a start reads no
\* more than there may be.
SavedFine(f, most) ==
  DOMAIN f = {"found", "runs", "broken"} /\ f.found \in Seq(Discoveries) /\ f.broken \in BOOLEAN /\ Len(f.found) <= most
FoundFine == found \in Seq(Discoveries) /\ Len(found) <= MaxFound /\ SavedFine(saved, Len(found))
SurveyTypes == FoundFine /\ JobsFine /\ loop \in [Loops -> LoopRecs] /\ taken \subseteq 1..MaxFound

Kept == UNCHANGED <<found, saved, loop, taken>>

LEMMA IdleFine ==
  /\ JobFine(Idle) /\ \A a \in Actors : JobFine(Finished(a))
  /\ \A at \in Ats, l \in Loops : JobFine([Idle EXCEPT !.at = at, !.of = l])
<1>1. <<>> \in Seq(Sources) /\ <<>> \in Seq(1..MaxFound)
  BY EmptySeq
<1>2. JobFine(Idle)
  BY <1>1 DEF JobFine, Idle, JobFields, Ats, Loops
<1>3. ASSUME NEW at \in Ats, NEW l \in Loops PROVE JobFine([Idle EXCEPT !.at = at, !.of = l])
  <2> DEFINE d == [Idle EXCEPT !.at = at, !.of = l]
  <2>1. DOMAIN d = JobFields /\ d.at = at /\ d.of = l /\ d.todo = <<>>
    BY DEF Idle, JobFields
  <2> HIDE DEF d
  <2>2. JobFine(d)
    BY <1>1, <2>1 DEF JobFine
  <2>3. QED
    BY <2>2 DEF d
<1>4. ASSUME NEW a \in Actors PROVE JobFine(Finished(a))
  <2>1. CASE a \in Loops
    <3>1. Finished(a) = [Idle EXCEPT !.at = "asleep", !.of = a]
      BY <2>1 DEF Finished
    <3>2. QED
      BY <1>3, <2>1, <3>1 DEF Ats
  <2>2. CASE a \notin Loops
    BY <1>2, <2>2 DEF Finished
  <2>3. QED
    BY <2>1, <2>2
<1>5. QED
  BY <1>2, <1>3, <1>4

\* A step that changes one job.
LEMMA OneJobFine ==
  ASSUME SurveyTypes, NEW a \in Actors, NEW j, JobFine(j), job' = [job EXCEPT ![a] = j]
  PROVE  JobsFine'
BY DEF SurveyTypes, JobsFine

LEMMA AtRoundFine ==
  ASSUME SurveyTypes, NEW a \in Actors, NEW l \in Loops, AtRound(a, l)
  PROVE  /\ JobFine(Proceed(a))
         /\ l = "monitoring" => Head(job[a].todo) \in Sources
         /\ l = "ingestion" => Head(job[a].todo) \in 1..MaxFound
<1> DEFINE j == job[a]
<1>1. JobFine(j) /\ j.of = l /\ j.todo # <<>> /\ j.at = "round"
  BY DEF SurveyTypes, JobsFine, AtRound
<1> HIDE DEF j
<1>2. l = "monitoring" \/ l = "ingestion"
  BY DEF Loops
<1>3. l = "monitoring" => Head(j.todo) \in Sources /\ Tail(j.todo) \in Seq(Sources)
  BY <1>1, HeadTailProperties DEF JobFine
<1>4. l = "ingestion" => Head(j.todo) \in 1..MaxFound /\ Tail(j.todo) \in Seq(1..MaxFound)
  BY <1>1, HeadTailProperties DEF JobFine
<1>5. JobFine([j EXCEPT !.todo = Tail(@), !.since = Len(found')])
  <2> DEFINE d == [j EXCEPT !.todo = Tail(@), !.since = Len(found')]
  <2>1. DOMAIN d = JobFields /\ d.at = j.at /\ d.of = l /\ d.todo = Tail(j.todo)
    BY <1>1 DEF JobFine, JobFields
  <2> HIDE DEF d
  <2>2. JobFine(d)
    BY <1>1, <1>2, <1>3, <1>4, <2>1 DEF JobFine
  <2>3. QED
    BY <2>2 DEF d
<1>6. JobFine(Proceed(a))
  BY <1>5, IdleFine DEF Proceed, j
<1>7. QED
  BY <1>3, <1>4, <1>6 DEF j

LEMMA SavedGrows ==
  ASSUME NEW f, NEW most \in Nat, SavedFine(f, most), NEW docs \in Seq(Discoveries), NEW run, NEW n \in Nat, Len(docs) <= n
  PROVE  /\ SavedFine(SavedWith(f, docs, run), most + n)
         /\ SavedFine(f, most + n)
         /\ SavedFine([f EXCEPT !.found = @ \o docs, !.broken = TRUE], most + n)
<1>1. f.found \in Seq(Discoveries) /\ Len(f.found) \in Nat /\ Len(docs) \in Nat /\ Len(f.found) <= most
  BY LenProperties DEF SavedFine
<1>2. f.found \o docs \in Seq(Discoveries) /\ Len(f.found \o docs) = Len(f.found) + Len(docs)
  BY <1>1, ConcatProperties
<1>3. Len(f.found \o docs) <= most + n /\ Len(f.found) <= most + n
  BY <1>1, <1>2
<1>4. SavedFine(f, most + n)
  BY <1>3 DEF SavedFine
<1>5. SavedFine([f EXCEPT !.found = @ \o docs, !.broken = TRUE], most + n)
  BY <1>2, <1>3 DEF SavedFine
<1>6. SavedFine([f EXCEPT !.found = @ \o docs, !.runs = Append(@, run)], most + n)
  BY <1>2, <1>3 DEF SavedFine
<1>7. QED
  BY <1>4, <1>5, <1>6 DEF SavedWith

LEMMA SaveFine ==
  ASSUME NEW most \in Nat, SavedFine(saved, most), NEW docs \in Seq(Discoveries), NEW run, Save(docs, run)
  PROVE  SavedFine(saved', most + Len(docs))
<1> DEFINE l == Len(docs)
<1>1. l \in Nat /\ DOMAIN docs = 1..l
  BY LenProperties
<1>0. /\ SavedFine(SavedWith(saved, docs, run), most + Len(docs)) /\ SavedFine(saved, most + Len(docs))
      /\ SavedFine([saved EXCEPT !.found = @ \o docs, !.broken = TRUE], most + Len(docs))
  <2>1. Len(docs) \in Nat /\ Len(docs) <= Len(docs)
    BY <1>1
  <2>2. QED
    BY <2>1, SavedGrows
<1>2. CASE saved' = SavedWith(saved, docs, run)
  BY <1>0, <1>2
<1>3. ASSUME NEW n \in 1..l
      PROVE  /\ SubSeq(docs, 1, n - 1) \in Seq(Discoveries) /\ Len(SubSeq(docs, 1, n - 1)) = n - 1
             /\ SubSeq(docs, n + 1, l) \in Seq(Discoveries) /\ Len(SubSeq(docs, n + 1, l)) = l - n
  <2>1. \A i \in 1..l : docs[i] \in Discoveries
    BY ElementOfSeq
  <2>2. \A i \in 1..n - 1 : docs[i] \in Discoveries
    BY <1>1, <2>1
  <2>3. \A i \in n + 1..l : docs[i] \in Discoveries
    BY <1>1, <2>1
  <2>4. SubSeq(docs, 1, n - 1) \in Seq(Discoveries) /\ Len(SubSeq(docs, 1, n - 1)) = IF 1 <= n - 1 THEN n - 1 - 1 + 1 ELSE 0
    BY <1>1, <2>2, SubSeqProperties
  <2>5. SubSeq(docs, n + 1, l) \in Seq(Discoveries) /\ Len(SubSeq(docs, n + 1, l)) = IF n + 1 <= l THEN l - (n + 1) + 1 ELSE 0
    BY <1>1, <2>3, SubSeqProperties
  <2>6. Len(SubSeq(docs, 1, n - 1)) = n - 1
    BY <1>1, <2>4
  <2>7. Len(SubSeq(docs, n + 1, l)) = l - n
    <3> DEFINE b == Len(SubSeq(docs, n + 1, l))
    <3>1. b = IF n + 1 <= l THEN l - (n + 1) + 1 ELSE 0
      BY <2>5
    <3> HIDE DEF b, l
    <3>2. b = l - n
      BY <1>1, <3>1
    <3>3. QED
      BY <3>2 DEF b, l
  <2>8. QED
    BY <2>4, <2>5, <2>6, <2>7
<1>4. ASSUME NEW n \in 1..l,
             \/ saved' = SavedWith(saved, SubSeq(docs, 1, n - 1) \o SubSeq(docs, n + 1, l), run)
             \/ saved' = IF saved.broken THEN saved
                         ELSE [saved EXCEPT !.found = @ \o SubSeq(docs, 1, n - 1), !.broken = TRUE]
      PROVE  SavedFine(saved', most + l)
  <2> DEFINE a == SubSeq(docs, 1, n - 1)
             b == SubSeq(docs, n + 1, l)
  <2>1. a \in Seq(Discoveries) /\ Len(a) = n - 1 /\ b \in Seq(Discoveries) /\ Len(b) = l - n
    BY <1>3
  <2> HIDE DEF a, b
  <2>2. a \o b \in Seq(Discoveries) /\ Len(a \o b) = Len(a) + Len(b)
    BY <2>1, ConcatProperties
  <2>3. Len(a \o b) <= l /\ Len(a) <= l
    BY <1>1, <2>1, <2>2
  <2>4. SavedFine(SavedWith(saved, a \o b, run), most + l)
    BY <1>1, <2>2, <2>3, SavedGrows
  <2>5. SavedFine(saved, most + l) /\ SavedFine([saved EXCEPT !.found = @ \o a, !.broken = TRUE], most + l)
    BY <1>1, <2>1, <2>3, SavedGrows
  <2>6. QED
    BY <1>4, <2>4, <2>5 DEF a, b
<1>5. CASE saved' = IF saved.broken THEN saved ELSE [saved EXCEPT !.found = @ \o docs, !.broken = TRUE]
  BY <1>0, <1>5
<1>6. ASSUME NEW n \in DOMAIN docs,
             \/ saved' = SavedWith(saved, SubSeq(docs, 1, n - 1) \o SubSeq(docs, n + 1, Len(docs)), run)
             \/ saved' = IF saved.broken THEN saved
                         ELSE [saved EXCEPT !.found = @ \o SubSeq(docs, 1, n - 1), !.broken = TRUE]
      PROVE  SavedFine(saved', most + l)
  BY <1>1, <1>4, <1>6
<1>7. \/ saved' = SavedWith(saved, docs, run)
      \/ \E n \in DOMAIN docs :
           \/ saved' = SavedWith(saved, SubSeq(docs, 1, n - 1) \o SubSeq(docs, n + 1, Len(docs)), run)
           \/ saved' = IF saved.broken THEN saved
                       ELSE [saved EXCEPT !.found = @ \o SubSeq(docs, 1, n - 1), !.broken = TRUE]
      \/ saved' = IF saved.broken THEN saved ELSE [saved EXCEPT !.found = @ \o docs, !.broken = TRUE]
  BY DEF Save
<1>8. QED
  BY <1>2, <1>5, <1>6, <1>7

LEMMA ListedFine ==
  ASSUME SurveyTypes, NEW a \in Actors, SourceListed(a) PROVE SurveyTypes'
<1>1. AtRound(a, "monitoring") /\ "monitoring" \in Loops
  BY DEF SourceListed, Loops
<1>2. JobsFine'
  <2>1. JobFine(Proceed(a))
    BY <1>1, AtRoundFine
  <2>2. job' = [job EXCEPT ![a] = Proceed(a)]
    BY DEF SourceListed
  <2>3. QED
    BY <2>1, <2>2, OneJobFine
<1> DEFINE s == Head(job[a].todo)
<1>3. s \in Sources
  BY <1>1, AtRoundFine
<1>4. found \in Seq(Discoveries) /\ Len(found) \in Nat /\ SavedFine(saved, Len(found))
  BY LenProperties DEF SurveyTypes, FoundFine
<1>5. PICK rows \in Listings[s] :
        LET all == AddAll(found, job[a].since, s, rows)
            run == [source |-> s, healthy |-> TRUE, count |-> Len(rows)]
        IN  /\ Len(all) <= MaxFound
            /\ found' = all
            /\ Save(SubSeq(all, Len(found) + 1, Len(all)), run)
  BY DEF SourceListed
<1> DEFINE all == AddAll(found, job[a].since, s, rows)
           docs == SubSeq(all, Len(found) + 1, Len(all))
           run == [source |-> s, healthy |-> TRUE, count |-> Len(rows)]
<1>6. Len(all) <= MaxFound /\ found' = all /\ Save(docs, run)
  BY <1>5
<1>7. Extends(all, found, Len(rows)) /\ Len(rows) \in Nat
  BY <1>3, <1>4, AddAllExtends
<1> HIDE DEF all, run, s
<1>8. all \in Seq(Discoveries) /\ Len(all) = Len(found) + Len(rows)
  BY <1>7 DEF Extends
<1>9. docs \in Seq(Discoveries) /\ Len(docs) = Len(all) - Len(found)
  <2>1. Len(all) \in Nat
    BY <1>4, <1>7, <1>8
  <2>2. \A i \in 1..Len(all) : all[i] \in Discoveries
    BY <1>8, ElementOfSeq
  <2>3. \A i \in Len(found) + 1..Len(all) : all[i] \in Discoveries
    BY <1>4, <2>1, <2>2
  <2>4. /\ docs \in Seq(Discoveries)
        /\ Len(docs) = IF Len(found) + 1 <= Len(all) THEN Len(all) - (Len(found) + 1) + 1 ELSE 0
    BY <1>4, <2>1, <2>3, SubSeqProperties
  <2>5. QED
    BY <1>4, <1>7, <1>8, <2>1, <2>4
<1> HIDE DEF docs
<1>10. SavedFine(saved', Len(found) + Len(docs))
  BY <1>4, <1>6, <1>9, SaveFine
<1>11. Len(found) + Len(docs) = Len(found')
  BY <1>4, <1>6, <1>7, <1>8, <1>9
<1>12. FoundFine'
  BY <1>6, <1>8, <1>10, <1>11 DEF FoundFine
<1>13. UNCHANGED <<loop, taken>>
  BY DEF SourceListed
<1>14. QED
  BY <1>2, <1>12, <1>13 DEF SurveyTypes

LEMMA FailedFine ==
  ASSUME SurveyTypes, NEW a \in Actors, SourceFailed(a) PROVE SurveyTypes'
<1>1. JobsFine'
  <2>1. AtRound(a, "monitoring") /\ "monitoring" \in Loops
    BY DEF SourceFailed, Loops
  <2>2. JobFine(Proceed(a))
    BY <2>1, AtRoundFine
  <2>3. job' = [job EXCEPT ![a] = Proceed(a)]
    BY DEF SourceFailed
  <2>4. QED
    BY <2>2, <2>3, OneJobFine
<1>2. found \in Seq(Discoveries) /\ Len(found) \in Nat /\ Len(found) <= MaxFound /\ SavedFine(saved, Len(found))
  BY LenProperties DEF SurveyTypes, FoundFine
<1>3. <<>> \in Seq(Discoveries) /\ Len(<<>>) = 0
  BY EmptySeq
<1>4. \E run : Save(<<>>, run)
  BY DEF SourceFailed
<1>5. SavedFine(saved', Len(found) + Len(<<>>))
  BY <1>2, <1>3, <1>4, SaveFine
<1>6. Len(found) + Len(<<>>) = Len(found)
  BY <1>2, <1>3
<1>7. FoundFine'
  BY <1>2, <1>5, <1>6 DEF FoundFine, SourceFailed
<1>8. UNCHANGED <<loop, taken>>
  BY DEF SourceFailed
<1>9. QED
  BY <1>1, <1>7, <1>8 DEF SurveyTypes

LEMMA TakenFine ==
  ASSUME SurveyTypes, NEW a \in Actors, DocumentTaken(a) \/ DocumentRaised(a) PROVE SurveyTypes'
<1>1. CASE DocumentTaken(a)
  <2>1. AtRound(a, "ingestion") /\ "ingestion" \in Loops
    BY <1>1 DEF DocumentTaken, Loops
  <2>2. JobFine(Proceed(a)) /\ Head(job[a].todo) \in 1..MaxFound
    BY <2>1, AtRoundFine
  <2>3. job' = [job EXCEPT ![a] = Proceed(a)] /\ taken' = taken \cup {Head(job[a].todo)} /\ UNCHANGED <<found, saved, loop>>
    BY <1>1 DEF DocumentTaken
  <2>4. JobsFine'
    BY <2>2, <2>3, OneJobFine
  <2>5. QED
    BY <2>2, <2>3, <2>4 DEF SurveyTypes, FoundFine
<1>2. CASE DocumentRaised(a)
  <2>1. job' = [job EXCEPT ![a] = Finished(a)] /\ Kept
    BY <1>2 DEF DocumentRaised, Kept
  <2>2. JobsFine'
    BY <2>1, IdleFine, OneJobFine
  <2>3. QED
    BY <2>1, <2>2 DEF SurveyTypes, FoundFine, Kept
<1>3. QED
  BY <1>1, <1>2

LEMMA RoundFine ==
  ASSUME NEW l \in Loops, NEW todo,
         l = "monitoring" => todo \in Seq(Sources), l = "ingestion" => todo \in Seq(1..MaxFound)
  PROVE  JobFine(Round(l, todo))
<1>1. l = "monitoring" \/ l = "ingestion"
  BY DEF Loops
<1>2. QED
  BY <1>1 DEF JobFine, Round, JobFields, Ats

LEMMA AgendaFine ==
  ASSUME SurveyTypes, NEW l \in Loops, NEW todo \in Agenda(l)
  PROVE  (l = "monitoring" => todo \in Seq(Sources)) /\ (l = "ingestion" => todo \in Seq(1..MaxFound))
<1>1. CASE l = "monitoring"
  <2>1. todo \in [1..Cardinality(Sources) -> Sources]
    BY <1>1 DEF Agenda
  <2>2. Cardinality(Sources) \in Nat
    BY SurveillanceAssumption, FS_CardinalityType
  <2>3. QED
    BY <1>1, <2>1, <2>2, IsASeq
<1>2. CASE l = "ingestion"
  <2> DEFINE n == IF Len(found) < Window THEN Len(found) ELSE Window
  <2>1. Len(found) \in Nat /\ Len(found) <= MaxFound /\ MaxFound \in Nat /\ Window \in Nat
    BY LenProperties, SurveillanceAssumption DEF SurveyTypes, FoundFine
  <2>2. n \in Nat /\ n <= Len(found)
    BY <2>1
  <2>3. todo = Newest(n)
    BY <1>2 DEF Agenda
  <2> HIDE DEF n
  <2>4. \A i \in 1..n : Len(found) + 1 - i \in 1..MaxFound
    BY <2>1, <2>2
  <2>5. todo \in [1..n -> 1..MaxFound]
    BY <2>3, <2>4 DEF Newest
  <2>6. todo \in Seq(1..MaxFound)
    <3> DEFINE S == 1..MaxFound
    <3>1. todo \in [1..n -> S]
      BY <2>5
    <3> HIDE DEF S
    <3>2. todo \in Seq(S)
      BY <2>2, <3>1
    <3>3. QED
      BY <3>2 DEF S
  <2>7. QED
    BY <1>2, <2>6
<1>3. QED
  BY <1>1, <1>2

LEMMA BeginFine ==
  ASSUME SurveyTypes, NEW a \in Actors, NEW l \in Loops, BeginRound(a, l) PROVE SurveyTypes'
<1>1. PICK todo \in Agenda(l) : job' = [job EXCEPT ![a] = IF todo = <<>> THEN Finished(a) ELSE Round(l, todo)]
  BY DEF BeginRound
<1>2. JobFine(Finished(a)) /\ JobFine(Round(l, todo))
  BY AgendaFine, RoundFine, IdleFine
<1>3. JobsFine'
  <2> DEFINE j == IF todo = <<>> THEN Finished(a) ELSE Round(l, todo)
  <2>1. JobFine(j)
    BY <1>2
  <2> HIDE DEF j
  <2>2. QED
    BY <1>1, <2>1, OneJobFine DEF j
<1>4. Kept
  BY DEF BeginRound, Kept
<1>5. QED
  BY <1>3, <1>4 DEF SurveyTypes, FoundFine, Kept

LEMMA RequestFine ==
  ASSUME SurveyTypes, NEW c \in Clients,
         RequestOne(c) \/ \E l \in Loops : RequestRound(c, l) \/ RequestSwitch(c, l)
  PROVE  SurveyTypes'
<1>1. c \in Actors
  BY DEF Actors
<1>2. CASE RequestOne(c)
  <2>1. Kept
    BY <1>2 DEF RequestOne, Kept
  <2>2. ASSUME NEW s \in Sources, job' = [job EXCEPT ![c] = Round("monitoring", <<s>>)] PROVE JobsFine'
    <3>1. <<s>> \in Seq(Sources) /\ "monitoring" \in Loops
      BY DEF Loops
    <3>2. JobFine(Round("monitoring", <<s>>))
      BY <3>1, RoundFine
    <3>3. QED
      BY <1>1, <2>2, <3>2, OneJobFine
  <2>3. ASSUME NEW i \in DOMAIN found, job' = [job EXCEPT ![c] = Round("ingestion", <<i>>)] PROVE JobsFine'
    <3>1. Len(found) \in Nat /\ Len(found) <= MaxFound /\ MaxFound \in Nat /\ i \in 1..Len(found)
      BY LenProperties, SurveillanceAssumption DEF SurveyTypes, FoundFine
    <3>2. i \in 1..MaxFound
      BY <3>1
    <3>3. <<i>> \in Seq(1..MaxFound) /\ "ingestion" \in Loops
      BY <3>2 DEF Loops
    <3>4. JobFine(Round("ingestion", <<i>>))
      BY <3>3, RoundFine
    <3>5. QED
      BY <1>1, <2>3, <3>4, OneJobFine
  <2>4. JobsFine'
    BY <1>2, <2>2, <2>3 DEF RequestOne
  <2>5. QED
    BY <2>1, <2>4 DEF SurveyTypes, FoundFine, Kept
<1>3. ASSUME NEW l \in Loops, RequestRound(c, l) PROVE SurveyTypes'
  BY <1>1, <1>3, BeginFine DEF RequestRound
<1>4. ASSUME NEW l \in Loops, RequestSwitch(c, l) PROVE SurveyTypes'
  <2>1. PICK at \in {"starting", "stopping"} : job' = [job EXCEPT ![c] = [Idle EXCEPT !.at = at, !.of = l]]
    BY <1>4 DEF RequestSwitch
  <2>2. at \in Ats
    BY DEF Ats
  <2>3. JobFine([Idle EXCEPT !.at = at, !.of = l])
    BY <2>2, IdleFine
  <2>4. JobsFine'
    BY <1>1, <2>1, <2>3, OneJobFine
  <2>5. Kept
    BY <1>4 DEF RequestSwitch, Unchanged, Kept
  <2>6. QED
    BY <2>4, <2>5 DEF SurveyTypes, FoundFine, Kept
<1>5. QED
  BY <1>2, <1>3, <1>4

LEMMA SwitchFine ==
  ASSUME SurveyTypes, NEW c \in Clients, StartLoop(c) \/ StopLoop(c) \/ TaskEnds(c) PROVE SurveyTypes'
<1> DEFINE l == job[c].of
<1>1. c \in Actors /\ JobFine(job[c]) /\ l \in Loops /\ l \in Actors /\ DOMAIN job = Actors
  BY DEF Actors, SurveyTypes, JobsFine, JobFine
<1>2. UNCHANGED <<found, saved, taken>>
  BY DEF StartLoop, StopLoop, TaskEnds, Unchanged
<1>3. loop \in [Loops -> LoopRecs] /\ loop[l] \in LoopRecs
  BY <1>1 DEF SurveyTypes
<1>4. JobFine(Idle) /\ JobFine(Finished(l))
  BY <1>1, IdleFine
<1> HIDE DEF l
<1>5. loop' \in [Loops -> LoopRecs]
  <2>1. CASE loop' = loop
    BY <1>3, <2>1
  <2>2. CASE loop' = [loop EXCEPT ![l].running = TRUE, ![l].task = "live"]
    BY <1>1, <1>3, <2>2 DEF LoopRecs
  <2>3. CASE loop' = [loop EXCEPT ![l] = [running |-> FALSE, task |-> "cancelled", lock |-> c]]
    BY <1>1, <1>3, <2>3 DEF LoopRecs
  <2>4. CASE loop' = [loop EXCEPT ![l].task = "none", ![l].lock = Nobody]
    BY <1>1, <1>3, <2>4 DEF LoopRecs
  <2>5. QED
    BY <2>1, <2>2, <2>3, <2>4 DEF StartLoop, StopLoop, TaskEnds, l
<1>6. JobsFine'
  <2>1. CASE job' = [job EXCEPT ![c] = Idle]
    BY <1>1, <1>4, <2>1, OneJobFine
  <2>2. CASE job' = [job EXCEPT ![c] = Idle, ![l] = Finished(l)]
    BY <1>1, <1>4, <2>2 DEF SurveyTypes, JobsFine
  <2>3. CASE job' = [job EXCEPT ![c].at = "joining"]
    <3> DEFINE j == [job[c] EXCEPT !.at = "joining"]
    <3>1. job' = [job EXCEPT ![c] = j]
      BY <2>3
    <3>2. DOMAIN j = JobFields /\ j.at = "joining" /\ j.of = job[c].of /\ j.todo = job[c].todo
      BY <1>1 DEF JobFine, JobFields
    <3> HIDE DEF j
    <3>3. JobFine(j)
      BY <1>1, <3>2 DEF JobFine, Ats
    <3>4. QED
      BY <1>1, <3>1, <3>3, OneJobFine
  <2>4. CASE job' = [job EXCEPT ![c] = Idle, ![l] = Idle]
    BY <1>1, <1>4, <2>4 DEF SurveyTypes, JobsFine
  <2>5. QED
    BY <2>1, <2>2, <2>3, <2>4 DEF StartLoop, StopLoop, TaskEnds, l
<1>7. QED
  BY <1>2, <1>5, <1>6 DEF SurveyTypes, FoundFine

LEMMA FreshLoops == [l \in Loops |-> [running |-> FALSE, task |-> "none", lock |-> Nobody]] \in [Loops -> LoopRecs]
BY DEF LoopRecs

LEMMA SurveyTypesInit == SurveillanceInit => SurveyTypes
<1> SUFFICES ASSUME SurveillanceInit PROVE SurveyTypes
  OBVIOUS
<1>1. <<>> \in Seq(Discoveries) /\ Len(<<>>) = 0 /\ MaxFound \in Nat
  BY EmptySeq, SurveillanceAssumption
<1>2. FoundFine
  BY <1>1 DEF SurveillanceInit, FoundFine, SavedFine
<1>3. JobsFine
  BY IdleFine DEF SurveillanceInit, JobsFine
<1>4. QED
  BY <1>2, <1>3, FreshLoops DEF SurveillanceInit, SurveyTypes

LEMMA SurveyRestarts == SurveyTypes /\ ServiceRestart => SurveyTypes'
<1> SUFFICES ASSUME SurveyTypes, ServiceRestart PROVE SurveyTypes'
  OBVIOUS
<1>1. found' = saved.found /\ saved' = saved /\ taken' = {} /\ job' = [a \in Actors |-> Idle]
  BY DEF ServiceRestart
<1>2. saved.found \in Seq(Discoveries) /\ Len(saved.found) \in Nat /\ Len(saved.found) <= Len(found)
      /\ Len(found) \in Nat /\ Len(found) <= MaxFound /\ MaxFound \in Nat
  BY LenProperties, SurveillanceAssumption DEF SurveyTypes, FoundFine, SavedFine
<1>3. SavedFine(saved, Len(saved.found))
  BY <1>2 DEF SurveyTypes, FoundFine, SavedFine
<1>4. Len(saved.found) <= MaxFound
  BY <1>2
<1>5. FoundFine'
  BY <1>1, <1>2, <1>3, <1>4 DEF FoundFine
<1>6. JobsFine'
  BY <1>1, IdleFine DEF JobsFine
<1>7. loop' \in [Loops -> LoopRecs]
  BY FreshLoops DEF ServiceRestart
<1>8. QED
  BY <1>1, <1>5, <1>6, <1>7 DEF SurveyTypes

LEMMA SurveyTypesStep == SurveyTypes /\ [SurveillanceNext]_surveillanceVars => SurveyTypes'
<1> SUFFICES ASSUME SurveyTypes, [SurveillanceNext]_surveillanceVars PROVE SurveyTypes'
  OBVIOUS
<1>1. ASSUME NEW l \in Loops, Wake(l) PROVE SurveyTypes'
  BY <1>1, BeginFine DEF Wake, Actors
<1>2. CASE UNCHANGED surveillanceVars
  BY <1>2 DEF surveillanceVars, SurveyTypes, FoundFine, JobsFine
<1>3. QED
  BY <1>1, <1>2, SurveyRestarts, RequestFine, SwitchFine, ListedFine, FailedFine, TakenFine DEF SurveillanceNext

\* Type correctness of the discoveries, their file, the schedulers and the rounds.
THEOREM SurveillanceTypeCorrect == SurveillanceSpec => []SurveillanceTypeOK
<1>1. SurveyTypes => SurveillanceTypeOK
  BY DEF SurveyTypes, FoundFine, SavedFine, JobsFine, JobFine, Ats, LoopRecs, SurveillanceTypeOK
<1>2. QED
  BY <1>1, SurveyTypesInit, SurveyTypesStep, PTL DEF SurveillanceSpec

-----------------------------------------------------------------------------
(* ComplianceChain: what a record was made from can be found.                *)

\* The types of the records of each stage and of their files.
Ids == Nat \cup {NoId}
RecordsOf ==
  [s \in Stages |->
     CASE s = "diff" -> Findings
       [] s = "impact" -> [diff: Nat, level: ImpactScale]
       [] s = "risk" -> [diff: Ids, report: Ids, seen: BOOLEAN, level: SeverityScale,
                         areas: SUBSET (Areas \cup {NoArea})]
       [] s = "recommendation" -> [asked: Ids, risk: Ids \cup {Unstored},
                                      area: Areas \cup {NoArea}, priority: 0..3]
       [] s = "workflow" -> [recommendation: Ids, risk: Ids, priority: 0..3]
       [] s = "review" -> [workflow: Nat]
       [] s = "forecast" -> [made: BOOLEAN]]
StageFiles == [ids: SUBSET Nat, torn: BOOLEAN, broken: BOOLEAN]
SavesEnd   == [file: StageFiles, faults: 0..ChainFaults]

\* What a line that was saved or failed keeps: the ids that were there and,
\* while nothing fails, the new id.
Grew(s, f, m, ids, o) ==
  /\ f.ids \subseteq o.file.ids /\ m <= o.faults
  /\ o.file.ids \subseteq f.ids \cup ids
  /\ o.faults = 0 /\ s # "forecast" /\ ~f.torn /\ ~f.broken =>
       ~o.file.torn /\ ~o.file.broken /\ ids \subseteq o.file.ids

\* A line that is saved, or fails to be, as LineSaved says.
LEMMA LineGrows ==
  ASSUME NEW s \in Stages, NEW o \in SavesEnd, NEW id \in Nat
  PROVE  /\ LineSaved(s, o, id) \in SUBSET SavesEnd
         /\ \A p \in LineSaved(s, o, id) : Grew(s, o.file, o.faults, {id}, p)
<1>1. /\ o.file.ids \in SUBSET Nat /\ o.file.torn \in BOOLEAN /\ o.file.broken \in BOOLEAN
      /\ o.faults \in 0..ChainFaults /\ ChainFaults \in Nat /\ o.file \in StageFiles
  BY ChainAssumption DEF SavesEnd, StageFiles
<1> DEFINE a == StageAppended(s, o.file, id)
<1>2. /\ a \in StageFiles /\ o.file.ids \subseteq a.ids /\ a.ids \subseteq o.file.ids \cup {id}
      /\ s # "forecast" /\ ~o.file.torn /\ ~o.file.broken => ~a.torn /\ ~a.broken /\ id \in a.ids
  BY <1>1 DEF StageAppended, StageFiles
<1> HIDE DEF a
<1>3. ASSUME NEW f \in StageDamaged(s, o.file) PROVE f \in StageFiles /\ f.ids = o.file.ids
  BY <1>1, <1>3 DEF StageDamaged, StageFiles
<1>4. ASSUME NEW p \in LineSaved(s, o, id)
      PROVE  \/ p.file = a /\ p.faults = o.faults /\ p \in SavesEnd
             \/ p.file \in StageDamaged(s, o.file) /\ p.faults = o.faults + 1 /\ p \in SavesEnd
  <2>1. \/ p = [file |-> a, faults |-> o.faults]
        \/ o.faults < ChainFaults /\ \E f \in StageDamaged(s, o.file) : p = [file |-> f, faults |-> o.faults + 1]
    BY <1>4 DEF LineSaved, a
  <2>2. QED
    BY <1>1, <1>2, <1>3, <2>1 DEF SavesEnd
<1>5. ASSUME NEW p \in LineSaved(s, o, id) PROVE Grew(s, o.file, o.faults, {id}, p)
  <2>1. CASE p.file = a /\ p.faults = o.faults
    BY <1>1, <1>2, <2>1 DEF Grew
  <2>2. CASE p.file \in StageDamaged(s, o.file) /\ p.faults = o.faults + 1
    BY <1>1, <1>3, <2>2 DEF Grew
  <2>3. QED
    BY <1>4, <2>1, <2>2
<1>6. QED
  BY <1>4, <1>5

\* Whatever the lines of some records become, a file keeps what it holds.
LEMMA LinesGrow ==
  ASSUME NEW s \in Stages, file[s] \in StageFiles, chFaults \in 0..ChainFaults, NEW ids \in Seq(Nat),
         SaveLines(s, ids)
  PROVE  \E o \in SavesEnd :
           /\ chFaults' = o.faults /\ file' = [file EXCEPT ![s] = o.file]
           /\ Grew(s, file[s], chFaults, {ids[i] : i \in 1..Len(ids)}, o)
<1> DEFINE n == Len(ids)
           start == {[file |-> file[s], faults |-> chFaults]}
           outcomes[i \in 0..n] ==
             IF i = 0 THEN {[file |-> file[s], faults |-> chFaults]}
             ELSE UNION {LineSaved(s, o, ids[i]) : o \in outcomes[i - 1]}
           S == SUBSET SavesEnd
           G == [p \in S \X (1..n) |-> UNION {LineSaved(s, o, ids[p[2]]) : o \in p[1]}]
<1>1. n \in Nat /\ \A i \in 1..n : ids[i] \in Nat
  BY LenProperties, ElementOfSeq
<1>2. PICK o \in outcomes[n] : chFaults' = o.faults /\ file' = [file EXCEPT ![s] = o.file]
  BY DEF SaveLines
<1>3. RecursionData(S, start, n, G)
  <2>1. start \in S
    BY DEF SavesEnd
  <2>2. ASSUME NEW X \in S, NEW i \in 1..n PROVE UNION {LineSaved(s, x, ids[i]) : x \in X} \in S
    <3>1. ids[i] \in Nat /\ \A x \in X : x \in SavesEnd
      BY <1>1
    <3>2. \A x \in X : LineSaved(s, x, ids[i]) \in SUBSET SavesEnd
      BY <3>1, LineGrows
    <3>3. QED
      BY <3>2
  <2>3. G \in [S \X (1..n) -> S]
    BY <2>2
  <2> HIDE DEF S, G, start, outcomes, n
  <2>4. QED
    BY <1>1, <2>1, <2>3 DEF RecursionData
<1>4. PICK f : Recursion(S, start, n, G, f)
  <2> HIDE DEF S, G, start, outcomes
  <2>1. QED
    BY <1>3, RecursionExists
<1>5. \A i \in 1..n : f[i - 1] \in S /\ f[i] = UNION {LineSaved(s, x, ids[i]) : x \in f[i - 1]}
  <2>1. \A i \in 1..n : i - 1 \in 0..n
    BY <1>1
  <2>2. \A i \in 1..n : f[i - 1] \in S /\ f[i] = G[<<f[i - 1], i>>]
    <3> HIDE DEF S, G, start, outcomes
    <3>1. QED
      BY <1>4, <2>1 DEF Recursion
  <2> HIDE DEF S, outcomes
  <2>3. QED
    BY <2>2
<1>6. f = [i \in 0..n |-> IF i = 0 THEN {[file |-> file[s], faults |-> chFaults]}
             ELSE UNION {LineSaved(s, x, ids[i]) : x \in f[i - 1]}]
  <2> HIDE DEF S, G, outcomes, n
  <2>1. ASSUME NEW i \in 0..n
        PROVE  f[i] = IF i = 0 THEN {[file |-> file[s], faults |-> chFaults]}
                      ELSE UNION {LineSaved(s, x, ids[i]) : x \in f[i - 1]}
    <3>1. i = 0 \/ i \in 1..n
      BY <1>1
    <3>2. QED
      BY <1>4, <1>5, <3>1 DEF Recursion
  <2>2. QED
    BY <1>4, <2>1 DEF Recursion
<1>7. outcomes = [i \in 0..n |-> IF i = 0 THEN {[file |-> file[s], faults |-> chFaults]}
                    ELSE UNION {LineSaved(s, x, ids[i]) : x \in outcomes[i - 1]}]
  BY <1>6
<1> HIDE DEF outcomes, S, G
<1>8. /\ outcomes[0] = {[file |-> file[s], faults |-> chFaults]}
      /\ \A i \in 1..n : outcomes[i] = UNION {LineSaved(s, x, ids[i]) : x \in outcomes[i - 1]}
  <2>1. 0 \in 0..n /\ \A i \in 1..n : i \in 0..n /\ i # 0
    BY <1>1
  <2>2. QED
    BY <1>7, <2>1
<1> DEFINE Good(i) == \A x \in outcomes[i] :
                        x \in SavesEnd /\ Grew(s, file[s], chFaults, {ids[j] : j \in 1..i}, x)
           P == {i \in 0..n : Good(i)}
<1>9. 0 \in P
  <2>1. Good(0)
    BY <1>8 DEF SavesEnd, Grew
  <2>2. QED
    BY <1>1, <2>1
<1>10. ASSUME NEW i \in 1..n, i - 1 \in P PROVE i \in P
  <2>1. ASSUME NEW x \in outcomes[i]
        PROVE  x \in SavesEnd /\ Grew(s, file[s], chFaults, {ids[j] : j \in 1..i}, x)
    <3>0. x \in UNION {LineSaved(s, y, ids[i]) : y \in outcomes[i - 1]}
      BY <1>8, <2>1
    <3>1. PICK y \in outcomes[i - 1] : x \in LineSaved(s, y, ids[i])
      BY <3>0
    <3>2. y \in SavesEnd /\ Grew(s, file[s], chFaults, {ids[j] : j \in 1..i - 1}, y)
      BY <1>10, <3>1
    <3>3. x \in SavesEnd /\ Grew(s, y.file, y.faults, {ids[i]}, x)
      BY <1>1, <3>1, <3>2, LineGrows
    <3>4. {ids[j] : j \in 1..i} = {ids[j] : j \in 1..i - 1} \cup {ids[i]}
      BY <1>1
    <3>5. y.faults \in Nat /\ x.faults \in Nat
      BY <3>2, <3>3 DEF SavesEnd
    <3>6. QED
      BY <3>2, <3>3, <3>4, <3>5 DEF Grew
  <2>2. Good(i)
    BY <2>1
  <2>3. i \in 0..n
    BY <1>1
  <2>4. QED
    BY <2>2, <2>3
<1> HIDE DEF P
<1>11. n \in P
  <2>1. 0..n \subseteq P
    BY <1>1, <1>9, <1>10, UpToInduction
  <2>2. QED
    BY <1>1, <2>1
<1>12. Good(n)
  BY <1>11 DEF P
<1>13. QED
  BY <1>2, <1>12

-----------------------------------------------------------------------------
\* What a record was made from is in the file of its stage.
Sourced(f, faults, s, a) ==
  /\ s = "risk" => /\ a.seen => a.diff \in f["diff"].ids
                   /\ faults = 0 /\ a.diff # NoId => a.seen
  /\ s = "recommendation" =>
       /\ a.risk # Unstored \/ a.area # NoArea => a.risk \in f["risk"].ids
       /\ faults = 0 /\ a.asked # NoId => a.risk = a.asked
  /\ s = "workflow" => /\ a.recommendation # NoId => a.recommendation \in f["recommendation"].ids
                       /\ a.risk # NoId => a.risk \in f["risk"].ids
  /\ s = "review" => a.workflow \in f["workflow"].ids

StagesOK ==
  /\ DOMAIN produced = Stages /\ DOMAIN file = Stages
  /\ \A s \in Stages :
       /\ produced[s] \in Seq(RecordsOf[s]) /\ Len(produced[s]) <= MaxMade[s]
       /\ file[s] \in StageFiles /\ file[s].ids \subseteq 1..Len(produced[s])
       /\ \A i \in 1..Len(produced[s]) : Sourced(file, chFaults, s, produced[s][i])
\* While no append has failed every file holds all records of its stage.
FilesWhole ==
  \A s \in Stages \ {"forecast"} :
    ~file[s].torn /\ ~file[s].broken /\ 1..Len(produced[s]) \subseteq file[s].ids
ChainInv ==
  /\ StagesOK /\ chFaults \in 0..ChainFaults /\ chCrashes \in 0..ChainCrashes
  /\ chFaults = 0 => FilesWhole
  /\ held \in [Workers -> SUBSET Nat]
  /\ \A w \in Workers : held[w] \subseteq 1..Len(produced["recommendation"])

\* The numbers that a stage gives to new records.
NewIds(ids, n, k, times) == ids = [i \in 1..(k * times) |-> n + 1 + ((i - 1) \div times)]
\* These numbers are a sequence over exactly the new ids.
Shifted(ids, len, h, n, k) ==
  /\ n \in Nat /\ k \in Nat /\ len \in Nat /\ h \in [1..len -> 0..(k - 1)] /\ ids \in [1..len -> Int]
  /\ \A i \in 1..len : ids[i] = n + 1 + h[i]
  /\ \A q \in 0..(k - 1) : \E i \in 1..len : h[i] = q

Numbered(ids, n, k) == ids \in Seq(Nat) /\ {ids[i] : i \in 1..Len(ids)} = (n + 1)..(n + k)

\* Every new id is numbered.
LEMMA NumbersOnto ==
  ASSUME NEW n, NEW k, NEW len, NEW h, NEW ids, Shifted(ids, len, h, n, k)
  PROVE  Numbered(ids, n, k)
<1>0. n \in Nat /\ k \in Nat /\ len \in Nat /\ ids \in [1..len -> Int]
  BY DEF Shifted
<1>1. \A i \in 1..len : h[i] \in 0..(k - 1) /\ ids[i] = n + 1 + h[i]
  BY DEF Shifted
<1>2. \A i \in 1..len : ids[i] \in Nat /\ ids[i] \in (n + 1)..(n + k)
  <2>1. \A x \in 0..(k - 1) : n + 1 + x \in Nat /\ n + 1 + x \in (n + 1)..(n + k)
    BY <1>0
  <2>2. QED
    BY <1>1, <2>1
<1>3. ids \in [1..len -> Nat]
  BY <1>0, <1>2
<1>4. ids \in Seq(Nat)
  BY <1>0, <1>3, SeqDef
<1>5. Len(ids) = len
  BY <1>0, <1>3, <1>4, LenProperties
<1>6. ASSUME NEW m \in (n + 1)..(n + k) PROVE \E i \in 1..len : ids[i] = m
  <2>1. m - n - 1 \in 0..(k - 1) /\ n + 1 + (m - n - 1) = m
    BY <1>0
  <2>2. PICK i \in 1..len : h[i] = m - n - 1
    BY <2>1 DEF Shifted
  <2>3. QED
    BY <1>1, <2>1, <2>2
<1>7. QED
  BY <1>2, <1>4, <1>5, <1>6 DEF Numbered

\* The ids that KeepSaving saves are those of the new records.
LEMMA IdsOfNew ==
  ASSUME NEW n, NEW k, NEW times, NEW ids, n \in Nat, k \in Nat, times \in {1, 2},
         NewIds(ids, n, k, times)
  PROVE  Numbered(ids, n, k)
<1> DEFINE len == k * times
           h == [i \in 1..len |-> (i - 1) \div times]
<1>1. len \in Nat
  OBVIOUS
<1>2. \A i \in 1..len : (i - 1) \div times \in 0..(k - 1)
  <2>1. CASE times = 1
    BY <2>1
  <2>2. CASE times = 2
    BY <2>2
  <2>3. QED
    BY <2>1, <2>2
<1>3. \A q \in 0..(k - 1) : \E i \in 1..len : (i - 1) \div times = q
  <2>1. SUFFICES ASSUME NEW q \in 0..(k - 1) PROVE \E i \in 1..len : (i - 1) \div times = q
    OBVIOUS
  <2>2. CASE times = 1
    <3>1. q + 1 \in 1..len /\ ((q + 1) - 1) \div times = q
      BY <2>2
    <3>2. QED
      BY <3>1
  <2>3. CASE times = 2
    <3>1. 2 * q + 1 \in 1..len /\ ((2 * q + 1) - 1) \div times = q
      BY <2>3
    <3>2. QED
      BY <3>1
  <2>4. QED
    BY <2>2, <2>3
<1>4. h \in [1..len -> 0..(k - 1)] /\ ids \in [1..len -> Int] /\ \A i \in 1..len : ids[i] = n + 1 + h[i]
  <2>1. \A i \in 1..len : n + 1 + ((i - 1) \div times) \in Int
    BY <1>2
  <2> HIDE DEF len
  <2>2. ids = [i \in 1..len |-> n + 1 + ((i - 1) \div times)]
    BY DEF len, NewIds
  <2>3. QED
    BY <1>2, <2>1, <2>2
<1>5. \A q \in 0..(k - 1) : \E i \in 1..len : h[i] = q
  BY <1>3
<1> HIDE DEF len, h
<1>6. Shifted(ids, len, h, n, k)
  BY <1>1, <1>4, <1>5 DEF Shifted
<1>7. QED
  BY <1>6, NumbersOnto

\* What SaveLines does to the file of a stage, and to no other.
LEMMA FilesGrow ==
  ASSUME ChainInv, NEW s \in Stages, NEW ids \in Seq(Nat), SaveLines(s, ids)
  PROVE  /\ chFaults' \in 0..ChainFaults /\ (chFaults' = 0 => chFaults = 0)
         /\ DOMAIN file' = Stages /\ \A q \in Stages : q # s => file'[q] = file[q]
         /\ file'[s] \in StageFiles /\ file[s].ids \subseteq file'[s].ids
         /\ file'[s].ids \subseteq file[s].ids \cup {ids[i] : i \in 1..Len(ids)}
         /\ chFaults' = 0 /\ s # "forecast" =>
              /\ ~file'[s].torn /\ ~file'[s].broken
              /\ {ids[i] : i \in 1..Len(ids)} \subseteq file'[s].ids
<1>1. file[s] \in StageFiles /\ chFaults \in 0..ChainFaults /\ DOMAIN file = Stages
      /\ (chFaults = 0 /\ s # "forecast" => ~file[s].torn /\ ~file[s].broken)
  BY DEF ChainInv, StagesOK, FilesWhole
<1>2. PICK o \in SavesEnd :
        /\ chFaults' = o.faults /\ file' = [file EXCEPT ![s] = o.file]
        /\ Grew(s, file[s], chFaults, {ids[i] : i \in 1..Len(ids)}, o)
  BY <1>1, LinesGrow
<1>3. o.file \in StageFiles /\ o.faults \in 0..ChainFaults /\ ChainFaults \in Nat
  BY ChainAssumption DEF SavesEnd
<1>4. file'[s] = o.file /\ DOMAIN file' = Stages /\ \A q \in Stages : q # s => file'[q] = file[q]
  BY <1>1, <1>2
<1>5. chFaults' = 0 => chFaults = 0
  BY <1>1, <1>2, <1>3 DEF Grew
<1>6. QED
  BY <1>1, <1>2, <1>3, <1>4, <1>5 DEF Grew

\* Nothing that was found in a file is lost from it.
LEMMA SourcesStay ==
  ASSUME NEW f, NEW g, \A q \in Stages : f[q].ids \subseteq g[q].ids,
         NEW m, NEW n, n = 0 => m = 0, NEW s, NEW a, Sourced(f, m, s, a)
  PROVE  Sourced(g, n, s, a)
BY DEF Sourced, Stages

\* New records whose sources are in their files keep the invariant, whichever
\* of their lines are lost.
LEMMA StageKeeps ==
  ASSUME ChainInv, NEW w \in Workers, NEW s \in Stages, NEW records \in Seq(RecordsOf[s]),
         \A i \in 1..Len(records) : Sourced(file, chFaults, s, records[i]), NEW times \in {1, 2},
         KeepSaving(w, s, records, times)
  PROVE  ChainInv'
<1> DEFINE n == Len(produced[s])
           k == Len(records)
           ids == [i \in 1..(k * times) |-> n + 1 + ((i - 1) \div times)]
<1>1. /\ n + k <= MaxMade[s] /\ produced' = [produced EXCEPT ![s] = @ \o records]
      /\ held' = IF s = "recommendation" THEN [held EXCEPT ![w] = @ \cup ((n + 1)..(n + k))] ELSE held
      /\ SaveLines(s, ids) /\ chCrashes' = chCrashes
  BY DEF KeepSaving
<1>2. n \in Nat /\ k \in Nat /\ produced[s] \in Seq(RecordsOf[s]) /\ DOMAIN produced = Stages
  BY LenProperties DEF ChainInv, StagesOK
<1>3. ids \in Seq(Nat) /\ {ids[i] : i \in 1..Len(ids)} = (n + 1)..(n + k)
  <2>1. NewIds(ids, n, k, times)
    BY DEF NewIds
  <2>2. n \in Nat /\ k \in Nat
    BY <1>2
  <2> HIDE DEF n, k, ids
  <2>3. Numbered(ids, n, k)
    BY <2>1, <2>2, IdsOfNew
  <2>4. QED
    BY <2>3 DEF Numbered
<1> HIDE DEF ids
<1>4. /\ chFaults' \in 0..ChainFaults /\ (chFaults' = 0 => chFaults = 0)
      /\ DOMAIN file' = Stages /\ \A q \in Stages : q # s => file'[q] = file[q]
      /\ file'[s] \in StageFiles /\ file[s].ids \subseteq file'[s].ids
      /\ file'[s].ids \subseteq file[s].ids \cup ((n + 1)..(n + k))
      /\ chFaults' = 0 /\ s # "forecast" =>
           ~file'[s].torn /\ ~file'[s].broken /\ (n + 1)..(n + k) \subseteq file'[s].ids
  BY <1>1, <1>3, FilesGrow
<1>5. /\ DOMAIN produced' = Stages /\ \A q \in Stages : q # s => produced'[q] = produced[q]
      /\ produced'[s] \in Seq(RecordsOf[s]) /\ Len(produced'[s]) = n + k
      /\ \A i \in 1..n : produced'[s][i] = produced[s][i]
      /\ \A i \in (n + 1)..(n + k) : i - n \in 1..k /\ produced'[s][i] = records[i - n]
  <2>1. produced'[s] = produced[s] \o records
    BY <1>1, <1>2
  <2>2. \A i \in 1..n : i \in 1..(n + k) /\ i <= n
    BY <1>2
  <2>3. \A i \in (n + 1)..(n + k) : i \in 1..(n + k) /\ ~(i <= n) /\ i - n \in 1..k
    BY <1>2
  <2>4. produced'[s] \in Seq(RecordsOf[s]) /\ Len(produced'[s]) = n + k
        /\ \A i \in 1..(n + k) : produced'[s][i] = IF i <= n THEN produced[s][i] ELSE records[i - n]
    BY <1>2, <2>1, ConcatProperties
  <2> HIDE DEF n, k
  <2>5. QED
    BY <1>1, <1>2, <2>2, <2>3, <2>4
<1> HIDE DEF n, k
<1>6. \A q \in Stages : file[q].ids \subseteq file'[q].ids
  BY <1>4
<1>7. \A q, a : Sourced(file, chFaults, q, a) => Sourced(file', chFaults', q, a)
  BY <1>4, <1>6, SourcesStay
<1>8. \A i \in 1..(n + k) : i \in 1..n \/ i \in (n + 1)..(n + k)
  BY <1>2
<1>9. \A i \in 1..Len(produced'[s]) : Sourced(file', chFaults', s, produced'[s][i])
  <2>1. \A i \in 1..n : Sourced(file, chFaults, s, produced[s][i])
    BY DEF ChainInv, StagesOK, n
  <2>2. \A i \in 1..k : Sourced(file, chFaults, s, records[i])
    BY DEF k
  <2>3. \A i \in 1..(n + k) : Sourced(file, chFaults, s, produced'[s][i])
    BY <1>5, <1>8, <2>1, <2>2
  <2>4. QED
    BY <1>5, <1>7, <2>3
<1>10. StagesOK'
  <2>1. ASSUME NEW q \in Stages
        PROVE  /\ produced'[q] \in Seq(RecordsOf[q]) /\ Len(produced'[q]) <= MaxMade[q]
               /\ file'[q] \in StageFiles /\ file'[q].ids \subseteq 1..Len(produced'[q])
               /\ \A i \in 1..Len(produced'[q]) : Sourced(file', chFaults', q, produced'[q][i])
    <3>1. CASE q = s
      <4>1. file'[s].ids \subseteq 1..(n + k)
        <5>1. file[s].ids \subseteq 1..n
          BY DEF ChainInv, StagesOK, n
        <5>2. \A i \in 1..n : i \in 1..(n + k)
          BY <1>2
        <5>3. \A i \in (n + 1)..(n + k) : i \in 1..(n + k)
          BY <1>2
        <5>4. QED
          BY <1>4, <5>1, <5>2, <5>3
      <4>2. QED
        BY <1>1, <1>4, <1>5, <1>9, <3>1, <4>1
    <3>2. CASE q # s
      BY <1>4, <1>5, <1>7, <3>2 DEF ChainInv, StagesOK
    <3>3. QED
      BY <3>1, <3>2
  <2>2. QED
    BY <1>4, <1>5, <2>1 DEF StagesOK
<1>11. chFaults' = 0 => FilesWhole'
  <2>1. ASSUME chFaults' = 0, NEW q \in Stages \ {"forecast"}
        PROVE  ~file'[q].torn /\ ~file'[q].broken /\ 1..Len(produced'[q]) \subseteq file'[q].ids
    <3>1. ~file[q].torn /\ ~file[q].broken /\ 1..Len(produced[q]) \subseteq file[q].ids
      BY <1>4, <2>1 DEF ChainInv, FilesWhole
    <3>2. CASE q = s
      BY <1>4, <1>5, <1>8, <2>1, <3>1, <3>2 DEF n
    <3>3. CASE q # s
      BY <1>4, <1>5, <3>1, <3>3
    <3>4. QED
      BY <3>2, <3>3
  <2>2. QED
    BY <2>1 DEF FilesWhole
<1>12. held' \in [Workers -> SUBSET Nat]
       /\ \A v \in Workers : held'[v] \subseteq 1..Len(produced'["recommendation"])
  <2>1. held \in [Workers -> SUBSET Nat] /\ \A v \in Workers : held[v] \subseteq 1..Len(produced["recommendation"])
    BY DEF ChainInv
  <2>2. CASE s = "recommendation"
    <3>1. \A i \in 1..n : i \in 1..(n + k)
      BY <1>2
    <3>2. \A i \in (n + 1)..(n + k) : i \in 1..(n + k) /\ i \in Nat
      BY <1>2
    <3>3. QED
      BY <1>1, <1>5, <2>1, <2>2, <3>1, <3>2 DEF n
  <2>3. CASE s # "recommendation"
    BY <1>1, <1>5, <2>1, <2>3 DEF Stages
  <2>4. QED
    BY <2>2, <2>3
<1>13. QED
  BY <1>1, <1>4, <1>10, <1>11, <1>12 DEF ChainInv

\* The same of a single record.
LEMMA RecordKeeps ==
  ASSUME ChainInv, NEW w \in Workers, NEW s \in Stages, NEW a, a \in RecordsOf[s],
         Sourced(file, chFaults, s, a), NEW times \in {1, 2}, KeepSaving(w, s, <<a>>, times)
  PROVE  ChainInv'
<1>1. <<a>> \in Seq(RecordsOf[s]) /\ Len(<<a>>) = 1 /\ <<a>>[1] = a
  <2> DEFINE S == RecordsOf[s]
  <2> HIDE DEF S
  <2>1. a \in S => <<a>> \in Seq(S)
    OBVIOUS
  <2>2. QED
    BY <2>1 DEF S
<1>2. \A i \in 1..Len(<<a>>) : Sourced(file, chFaults, s, <<a>>[i])
  <2>1. \A i \in 1..1 : i = 1
    OBVIOUS
  <2>2. QED
    BY <1>1, <2>1
<1> DEFINE records == <<a>>
<1> HIDE DEF records
<1>3. records \in Seq(RecordsOf[s]) /\ KeepSaving(w, s, records, times)
      /\ \A i \in 1..Len(records) : Sourced(file, chFaults, s, records[i])
  BY <1>1, <1>2 DEF records
<1>4. QED
  BY <1>3, StageKeeps

\* What a fresh store finds is a record of the stage.
LEMMA FoundIsMade ==
  ASSUME ChainInv, NEW s \in Stages, NEW id, FetchedFresh(s, id)
  PROVE  id \in Nat /\ id # NoId /\ produced[s][id] \in RecordsOf[s]
<1>1. file[s].ids \subseteq 1..Len(produced[s]) /\ produced[s] \in Seq(RecordsOf[s])
  BY DEF ChainInv, StagesOK
<1>2. id \in 1..Len(produced[s])
  BY <1>1 DEF FetchedFresh
<1>3. Len(produced[s]) \in Nat
  BY <1>1, LenProperties
<1>4. id \in Nat
  BY <1>2, <1>3
<1>5. QED
  BY <1>1, <1>2, <1>4, ElementOfSeq, ChainAssumption

\* What a request may name is an id or NoId.
LEMMA NamedIsId ==
  ASSUME ChainInv, NEW s \in Stages, NEW id \in Named(s)
  PROVE  id \in Ids
<1>1. produced[s] \in Seq(RecordsOf[s])
  BY DEF ChainInv, StagesOK
<1>2. DOMAIN produced[s] = 1..Len(produced[s]) /\ Len(produced[s]) \in Nat
  BY <1>1, LenProperties
<1>3. \A i \in 1..Len(produced[s]) : i \in Nat
  BY <1>2
<1>4. QED
  BY <1>2, <1>3 DEF Named, Ids

LEMMA DetectKeeps ==
  ASSUME ChainInv, NEW w \in Workers, DetectChange(w) PROVE ChainInv'
<1>1. PICK d \in Findings : KeepSaving(w, "diff", <<d>>, 1)
  BY DEF DetectChange, Keep
<1>2. d \in RecordsOf["diff"] /\ "diff" \in Stages /\ Sourced(file, chFaults, "diff", d)
  BY DEF RecordsOf, Stages, Sourced
<1>3. QED
  BY <1>1, <1>2, RecordKeeps

\* The levels that the scores are mapped to.
LEMMA ScoresAreLevels ==
  ASSUME NEW score PROVE RiskLevelOf(score) \in SeverityScale /\ ImpactLevelOf(score) \in ImpactScale
BY DEF RiskLevelOf, ImpactLevelOf, SeverityScale, ImpactScale, LOW, MEDIUM, HIGH, CRITICAL, NEGLIGIBLE

LEMMA ImpactKeeps ==
  ASSUME ChainInv, NEW w \in Workers, AnalyzeImpact(w) PROVE ChainInv'
<1>1. PICK d \in DOMAIN produced["diff"] :
        KeepSaving(w, "impact", <<[diff |-> d, level |-> ImpactLevelOf(ImpactScore(produced["diff"][d]))]>>, 1)
  BY DEF AnalyzeImpact, Keep
<1>2. d \in Nat
  <2>1. "diff" \in Stages /\ produced["diff"] \in Seq(RecordsOf["diff"])
    BY DEF ChainInv, StagesOK, Stages
  <2>2. QED
    BY <2>1, LenProperties
<1> DEFINE a == [diff |-> d, level |-> ImpactLevelOf(ImpactScore(produced["diff"][d]))]
<1>3. a \in RecordsOf["impact"] /\ "impact" \in Stages /\ Sourced(file, chFaults, "impact", a)
  BY <1>2, ScoresAreLevels DEF RecordsOf, Stages, Sourced
<1>4. QED
  BY <1>1, <1>3, RecordKeeps

\* While no append has failed, what is named is found.
LEMMA WholeIsFound ==
  ASSUME ChainInv, chFaults = 0, NEW s \in Stages \ {"forecast"}, NEW d \in Named(s), d # NoId
  PROVE  FetchedFresh(s, d)
<1>1. 1..Len(produced[s]) \subseteq file[s].ids
  BY DEF ChainInv, FilesWhole
<1>2. d \in DOMAIN produced[s]
  BY DEF Named
<1>3. DOMAIN produced[s] = 1..Len(produced[s])
  BY LenProperties DEF ChainInv, StagesOK
<1>4. QED
  BY <1>1, <1>2, <1>3 DEF FetchedFresh

LEMMA RiskKeeps ==
  ASSUME ChainInv, NEW w \in Workers, AssessRisk(w) PROVE ChainInv'
<1>1. "diff" \in Stages /\ "impact" \in Stages /\ "risk" \in Stages
  BY DEF Stages
<1>2. PICK d \in Named("diff") : \E r \in Named("impact") : \E areas \in AreasFound(d, r) :
        Keep(w, "risk",
         <<[diff |-> d, report |-> r, seen |-> FetchedFresh("diff", d),
            level |-> RiskLevelOf(RiskScore(Severity(d, r), Category(d), Impact(r), Count(d))),
            areas |-> areas]>>)
  BY DEF AssessRisk
<1>3. PICK r \in Named("impact") : \E areas \in AreasFound(d, r) :
        Keep(w, "risk",
         <<[diff |-> d, report |-> r, seen |-> FetchedFresh("diff", d),
            level |-> RiskLevelOf(RiskScore(Severity(d, r), Category(d), Impact(r), Count(d))),
            areas |-> areas]>>)
  BY <1>2
<1>4. PICK areas \in AreasFound(d, r) :
        Keep(w, "risk",
         <<[diff |-> d, report |-> r, seen |-> FetchedFresh("diff", d),
            level |-> RiskLevelOf(RiskScore(Severity(d, r), Category(d), Impact(r), Count(d))),
            areas |-> areas]>>)
  BY <1>3
<1> DEFINE a == [diff |-> d, report |-> r, seen |-> FetchedFresh("diff", d),
            level |-> RiskLevelOf(RiskScore(Severity(d, r), Category(d), Impact(r), Count(d))),
            areas |-> areas]
<1>5. areas \in SUBSET (Areas \cup {NoArea})
  BY DEF AreasFound
<1>6. d \in Ids /\ r \in Ids
  BY <1>1, NamedIsId
<1>7. FetchedFresh("diff", d) \in BOOLEAN
  BY DEF FetchedFresh
<1>8. a \in RecordsOf["risk"]
  <2>1. RecordsOf["risk"] = [diff: Ids, report: Ids, seen: BOOLEAN, level: SeverityScale,
                         areas: SUBSET (Areas \cup {NoArea})]
    BY <1>1 DEF RecordsOf
  <2>2. QED
    BY <1>5, <1>6, <1>7, <2>1, ScoresAreLevels
<1>9. chFaults = 0 /\ d # NoId => FetchedFresh("diff", d)
  BY <1>1, WholeIsFound DEF Stages
<1>10. Sourced(file, chFaults, "risk", a)
  <2>1. a.diff = d /\ (a.seen <=> FetchedFresh("diff", d))
    OBVIOUS
  <2> HIDE DEF a
  <2>2. QED
    BY <1>9, <2>1 DEF Sourced, FetchedFresh
<1>11. QED
  BY <1>1, <1>4, <1>8, <1>10, RecordKeeps DEF Keep

LEMMA RecommendationsKeep ==
  ASSUME ChainInv, NEW w \in Workers, GenerateRecommendations(w) PROVE ChainInv'
<1>1. "risk" \in Stages /\ "recommendation" \in Stages
      /\ RecordsOf["recommendation"] = [asked: Ids, risk: Ids \cup {Unstored},
                                      area: Areas \cup {NoArea}, priority: 0..3]
      /\ RecordsOf["risk"] = [diff: Ids, report: Ids, seen: BOOLEAN, level: SeverityScale,
                              areas: SUBSET (Areas \cup {NoArea})]
  BY DEF Stages, RecordsOf
<1>2. PICK a \in Named("risk") :
        LET assessed == FetchedFresh("risk", a)
            areas == IF assessed THEN produced["risk"][a].areas \ {NoArea} ELSE {}
        IN  IF areas = {}
            THEN Keep(w, "recommendation",
                  <<[asked |-> a, risk |-> IF assessed THEN a ELSE Unstored,
                     area |-> NoArea, priority |-> P3]>>)
            ELSE \E k \in 1..Cardinality(areas) : \E order \in [1..k -> areas] :
               /\ \A i, j \in 1..k : order[i] = order[j] => i = j
               /\ Keep(w, "recommendation",
                       [i \in 1..k |-> [asked |-> a, risk |-> a, area |-> order[i],
                                        priority |-> PriorityFor(produced["risk"][a].level)]])
  BY DEF GenerateRecommendations
<1> DEFINE assessed == FetchedFresh("risk", a)
           areas == IF assessed THEN produced["risk"][a].areas \ {NoArea} ELSE {}
<1>3. a \in Ids
  BY <1>1, NamedIsId
<1>4. CASE areas = {}
  <2> DEFINE b == [asked |-> a, risk |-> IF assessed THEN a ELSE Unstored,
                   area |-> NoArea, priority |-> P3]
  <2>1. KeepSaving(w, "recommendation", <<b>>, 1)
    BY <1>2, <1>4 DEF Keep
  <2>2. b \in RecordsOf["recommendation"]
    BY <1>1, <1>3 DEF P3, Ids
  <2>3. Sourced(file, chFaults, "recommendation", b)
    <3>1. chFaults = 0 /\ a # NoId => FetchedFresh("risk", a)
      BY <1>1, WholeIsFound DEF Stages
    <3>2. b.asked = a /\ b.area = NoArea /\ b.risk = IF FetchedFresh("risk", a) THEN a ELSE Unstored
      OBVIOUS
    <3> HIDE DEF b
    <3>3. QED
      BY <3>1, <3>2 DEF Sourced, FetchedFresh
  <2> HIDE DEF b
  <2>4. QED
    BY <1>1, <2>1, <2>2, <2>3, RecordKeeps
<1>5. CASE areas # {}
  <2>1. PICK k \in 1..Cardinality(areas) : \E order \in [1..k -> areas] :
               /\ \A i, j \in 1..k : order[i] = order[j] => i = j
               /\ Keep(w, "recommendation",
                       [i \in 1..k |-> [asked |-> a, risk |-> a, area |-> order[i],
                                        priority |-> PriorityFor(produced["risk"][a].level)]])
    BY <1>2, <1>5
  <2>2. PICK order \in [1..k -> areas] :
               Keep(w, "recommendation",
                       [i \in 1..k |-> [asked |-> a, risk |-> a, area |-> order[i],
                                        priority |-> PriorityFor(produced["risk"][a].level)]])
    BY <2>1
  <2>3. FetchedFresh("risk", a)
    BY <1>5
  <2>4. produced["risk"][a].level \in SeverityScale /\ areas \subseteq Areas \cup {NoArea}
    <3>1. produced["risk"][a] \in RecordsOf["risk"]
      BY <1>1, <2>3, FoundIsMade
    <3>2. QED
      BY <1>1, <3>1
  <2>5. areas # {} /\ IsFiniteSet(areas) => Cardinality(areas) \in Nat
    BY FS_CardinalityType
  <2> DEFINE p == PriorityFor(produced["risk"][a].level)
             records == [i \in 1..k |-> [asked |-> a, risk |-> a, area |-> order[i], priority |-> p]]
  <2>6. p \in 0..3
    BY <2>4 DEF PriorityFor, SeverityScale, LOW, CRITICAL
  <2> HIDE DEF p, areas
  <2>7. \A i \in 1..k : [asked |-> a, risk |-> a, area |-> order[i], priority |-> p] \in RecordsOf["recommendation"]
    BY <1>1, <1>3, <2>2, <2>4, <2>6
  <2>8. k \in Nat
    OBVIOUS
  <2>9. records \in Seq(RecordsOf["recommendation"]) /\ Len(records) = k
    BY <2>7, <2>8, SeqDef, LenProperties
  <2>10. \A i \in 1..Len(records) : Sourced(file, chFaults, "recommendation", records[i])
    <3>1. \A i \in 1..k : records[i].risk = a /\ records[i].asked = a
      OBVIOUS
    <3> HIDE DEF records
    <3>2. QED
      BY <2>3, <2>9, <3>1 DEF Sourced, FetchedFresh
  <2>11. KeepSaving(w, "recommendation", records, 1)
    BY <2>2 DEF Keep, p
  <2> HIDE DEF records
  <2>12. QED
    BY <1>1, <2>9, <2>10, <2>11, StageKeeps
<1>6. QED
  BY <1>4, <1>5

LEMMA WorkflowKeeps ==
  ASSUME ChainInv, NEW w \in Workers, CreateForRecommendation(w) \/ CreateForRisk(w)
  PROVE  ChainInv'
<1>1. "risk" \in Stages /\ "recommendation" \in Stages /\ "workflow" \in Stages
      /\ RecordsOf["recommendation"] = [asked: Ids, risk: Ids \cup {Unstored},
                                      area: Areas \cup {NoArea}, priority: 0..3]
      /\ RecordsOf["workflow"] = [recommendation: Ids, risk: Ids, priority: 0..3]
      /\ RecordsOf["risk"] = [diff: Ids, report: Ids, seen: BOOLEAN, level: SeverityScale,
                              areas: SUBSET (Areas \cup {NoArea})]
  BY DEF Stages, RecordsOf
<1>2. CASE CreateForRecommendation(w)
  <2>1. PICK r \in Named("recommendation") :
          /\ FetchedFresh("recommendation", r)
          /\ KeepSaving(w, "workflow", <<[recommendation |-> r, risk |-> NoId,
                                    priority |-> produced["recommendation"][r].priority]>>, 2)
    BY <1>2 DEF CreateForRecommendation
  <2>2. r \in Nat /\ produced["recommendation"][r].priority \in 0..3
    <3>1. r \in Nat /\ produced["recommendation"][r] \in RecordsOf["recommendation"]
      BY <1>1, <2>1, FoundIsMade
    <3>2. QED
      BY <1>1, <3>1
  <2> DEFINE a == [recommendation |-> r, risk |-> NoId,
                   priority |-> produced["recommendation"][r].priority]
  <2>3. a \in RecordsOf["workflow"] /\ Sourced(file, chFaults, "workflow", a)
    BY <1>1, <2>1, <2>2 DEF Ids, Sourced, FetchedFresh
  <2>4. KeepSaving(w, "workflow", <<a>>, 2)
    BY <2>1
  <2> HIDE DEF a
  <2>5. QED
    BY <1>1, <2>3, <2>4, RecordKeeps
<1>3. CASE CreateForRisk(w)
  <2>1. PICK r \in Named("risk") :
          /\ FetchedFresh("risk", r)
          /\ KeepSaving(w, "workflow", <<[recommendation |-> NoId, risk |-> r,
                                    priority |-> PriorityFor(produced["risk"][r].level)]>>, 2)
    BY <1>3 DEF CreateForRisk
  <2>2. r \in Nat /\ produced["risk"][r].level \in SeverityScale
    <3>1. r \in Nat /\ produced["risk"][r] \in RecordsOf["risk"]
      BY <1>1, <2>1, FoundIsMade
    <3>2. QED
      BY <1>1, <3>1
  <2>3. PriorityFor(produced["risk"][r].level) \in 0..3
    BY <2>2 DEF PriorityFor, SeverityScale, LOW, CRITICAL
  <2> DEFINE a == [recommendation |-> NoId, risk |-> r,
                   priority |-> PriorityFor(produced["risk"][r].level)]
  <2>4. a \in RecordsOf["workflow"] /\ Sourced(file, chFaults, "workflow", a)
    BY <1>1, <2>1, <2>2, <2>3 DEF Ids, Sourced, FetchedFresh
  <2>5. KeepSaving(w, "workflow", <<a>>, 2)
    BY <2>1
  <2> HIDE DEF a
  <2>6. QED
    BY <1>1, <2>4, <2>5, RecordKeeps
<1>4. QED
  BY <1>2, <1>3

LEMMA ReviewKeeps ==
  ASSUME ChainInv, NEW w \in Workers, CreateReview(w) PROVE ChainInv'
<1>1. "review" \in Stages /\ "workflow" \in Stages /\ RecordsOf["review"] = [workflow: Nat]
  BY DEF Stages, RecordsOf
<1>2. PICK f \in Named("workflow") : FetchedFresh("workflow", f) /\ KeepSaving(w, "review", <<[workflow |-> f]>>, 1)
  BY DEF CreateReview, Keep
<1>3. f \in Nat
  BY <1>1, <1>2, FoundIsMade
<1> DEFINE a == [workflow |-> f]
<1>4. a \in RecordsOf["review"] /\ Sourced(file, chFaults, "review", a) /\ KeepSaving(w, "review", <<a>>, 1)
  BY <1>1, <1>2, <1>3 DEF Sourced, FetchedFresh
<1> HIDE DEF a
<1>5. QED
  BY <1>1, <1>4, RecordKeeps

LEMMA ForecastKeeps ==
  ASSUME ChainInv, NEW w \in Workers, Forecast(w) PROVE ChainInv'
<1>1. "forecast" \in Stages /\ RecordsOf["forecast"] = [made: BOOLEAN]
  BY DEF Stages, RecordsOf
<1> DEFINE a == [made |-> TRUE]
<1>2. a \in RecordsOf["forecast"] /\ Sourced(file, chFaults, "forecast", a) /\ KeepSaving(w, "forecast", <<a>>, 1)
  BY <1>1 DEF Sourced, Forecast, Keep
<1> HIDE DEF a
<1>3. QED
  BY <1>1, <1>2, RecordKeeps

LEMMA FeedbackKeeps ==
  ASSUME ChainInv, NEW w \in Workers, Feedback(w) PROVE ChainInv'
<1>1. PICK r \in held[w] : SaveLines("recommendation", <<r>>)
  BY DEF Feedback
<1>2. UNCHANGED <<produced, held, chCrashes>>
  BY DEF Feedback
<1>3. "recommendation" \in Stages /\ r \in 1..Len(produced["recommendation"])
  BY DEF ChainInv, Stages
<1>4. Len(produced["recommendation"]) \in Nat
  BY <1>3, LenProperties DEF ChainInv, StagesOK
<1> DEFINE ids == <<r>>
<1>5. ids \in Seq(Nat) /\ {ids[i] : i \in 1..Len(ids)} = {r}
  <2>1. r \in Nat /\ \A i \in 1..1 : i = 1
    BY <1>3, <1>4
  <2>2. QED
    BY <2>1
<1>6. SaveLines("recommendation", ids)
  BY <1>1
<1> HIDE DEF ids
<1>7. /\ chFaults' \in 0..ChainFaults /\ (chFaults' = 0 => chFaults = 0)
      /\ DOMAIN file' = Stages /\ \A q \in Stages : q # "recommendation" => file'[q] = file[q]
      /\ file'["recommendation"] \in StageFiles
      /\ file["recommendation"].ids \subseteq file'["recommendation"].ids
      /\ file'["recommendation"].ids \subseteq file["recommendation"].ids \cup {r}
      /\ chFaults' = 0 => ~file'["recommendation"].torn /\ ~file'["recommendation"].broken
  BY <1>3, <1>5, <1>6, FilesGrow
<1>8. \A q \in Stages : file[q].ids \subseteq file'[q].ids
  BY <1>7
<1>9. \A q, a : Sourced(file, chFaults, q, a) => Sourced(file', chFaults', q, a)
  BY <1>7, <1>8, SourcesStay
<1>10. StagesOK'
  <2>1. ASSUME NEW q \in Stages
        PROVE  /\ produced[q] \in Seq(RecordsOf[q]) /\ Len(produced[q]) <= MaxMade[q]
               /\ file'[q] \in StageFiles /\ file'[q].ids \subseteq 1..Len(produced[q])
               /\ \A i \in 1..Len(produced[q]) : Sourced(file', chFaults', q, produced[q][i])
    <3>1. /\ produced[q] \in Seq(RecordsOf[q]) /\ Len(produced[q]) <= MaxMade[q]
          /\ file[q] \in StageFiles /\ file[q].ids \subseteq 1..Len(produced[q])
          /\ \A i \in 1..Len(produced[q]) : Sourced(file, chFaults, q, produced[q][i])
      BY DEF ChainInv, StagesOK
    <3>2. QED
      BY <1>3, <1>7, <1>9, <3>1
  <2>2. QED
    BY <1>2, <1>7, <2>1 DEF ChainInv, StagesOK
<1>11. chFaults' = 0 => FilesWhole'
  <2>1. ASSUME chFaults' = 0, NEW q \in Stages \ {"forecast"}
        PROVE  ~file'[q].torn /\ ~file'[q].broken /\ 1..Len(produced[q]) \subseteq file'[q].ids
    <3>1. ~file[q].torn /\ ~file[q].broken /\ 1..Len(produced[q]) \subseteq file[q].ids
      BY <1>7, <2>1 DEF ChainInv, FilesWhole
    <3>2. QED
      BY <1>7, <2>1, <3>1
  <2>2. QED
    BY <1>2, <2>1 DEF FilesWhole
<1>12. QED
  BY <1>2, <1>7, <1>10, <1>11 DEF ChainInv

LEMMA ChainRestartKeeps ==
  ASSUME ChainInv, NEW w \in Workers, ChainRestart(w) PROVE ChainInv'
<1>1. /\ chCrashes < ChainCrashes /\ chCrashes' = chCrashes + 1
      /\ held' = [held EXCEPT ![w] = file["recommendation"].ids]
      /\ UNCHANGED <<produced, file, chFaults>>
  BY DEF ChainRestart
<1>2. StagesOK' /\ (chFaults' = 0 => FilesWhole')
  BY <1>1 DEF ChainInv, StagesOK, FilesWhole
<1>3. file["recommendation"].ids \subseteq 1..Len(produced["recommendation"])
      /\ file["recommendation"].ids \subseteq Nat
  BY DEF ChainInv, StagesOK, Stages, StageFiles
<1>4. chCrashes' \in 0..ChainCrashes
  BY <1>1, ChainAssumption DEF ChainInv
<1>5. QED
  BY <1>1, <1>2, <1>3, <1>4 DEF ChainInv

LEMMA ChainInitKeeps == ChainInit => ChainInv
<1> SUFFICES ASSUME ChainInit PROVE ChainInv
  OBVIOUS
<1>1. ASSUME NEW s \in Stages
      PROVE  produced[s] \in Seq(RecordsOf[s]) /\ Len(produced[s]) = 0 /\ file[s] = EmptyStageFile
  <2>1. produced[s] = << >> /\ file[s] = EmptyStageFile
    BY DEF ChainInit
  <2> DEFINE S == RecordsOf[s]
  <2> HIDE DEF S
  <2>2. << >> \in Seq(S) /\ Len(<< >>) = 0
    OBVIOUS
  <2>3. QED
    BY <2>1, <2>2 DEF S
<1>2. EmptyStageFile \in StageFiles /\ EmptyStageFile.ids = {} /\ ~EmptyStageFile.torn /\ ~EmptyStageFile.broken
  BY DEF EmptyStageFile, StageFiles
<1>3. \A s \in Stages : MaxMade[s] \in Nat
  BY ChainAssumption
<1>4. StagesOK
  BY <1>1, <1>2, <1>3 DEF ChainInit, StagesOK
<1>5. FilesWhole
  BY <1>1, <1>2 DEF FilesWhole
<1>6. QED
  BY <1>4, <1>5, ChainAssumption DEF ChainInit, ChainInv

\* The invariant of the chain.
LEMMA ChainInvariant == ChainSpec => []ChainInv
<1>1. ChainInv /\ [ChainNext]_chainVars => ChainInv'
  <2> SUFFICES ASSUME ChainInv, [ChainNext]_chainVars PROVE ChainInv'
    OBVIOUS
  <2>1. ASSUME NEW w \in Workers, DetectChange(w) PROVE ChainInv'
    BY <2>1, DetectKeeps
  <2>2. ASSUME NEW w \in Workers, AnalyzeImpact(w) PROVE ChainInv'
    BY <2>2, ImpactKeeps
  <2>3. ASSUME NEW w \in Workers, AssessRisk(w) PROVE ChainInv'
    BY <2>3, RiskKeeps
  <2>4. ASSUME NEW w \in Workers, GenerateRecommendations(w) PROVE ChainInv'
    BY <2>4, RecommendationsKeep
  <2>5. ASSUME NEW w \in Workers, Feedback(w) PROVE ChainInv'
    BY <2>5, FeedbackKeeps
  <2>6. ASSUME NEW w \in Workers, CreateForRecommendation(w) \/ CreateForRisk(w) PROVE ChainInv'
    BY <2>6, WorkflowKeeps
  <2>7. ASSUME NEW w \in Workers, CreateReview(w) PROVE ChainInv'
    BY <2>7, ReviewKeeps
  <2>8. ASSUME NEW w \in Workers, Forecast(w) PROVE ChainInv'
    BY <2>8, ForecastKeeps
  <2>9. ASSUME NEW w \in Workers, ChainRestart(w) PROVE ChainInv'
    BY <2>9, ChainRestartKeeps
  <2>10. CASE UNCHANGED chainVars
    <3>1. UNCHANGED <<produced, held, file, chFaults, chCrashes>>
      BY <2>10 DEF chainVars
    <3>2. QED
      BY <3>1 DEF ChainInv, StagesOK, FilesWhole
  <2>11. QED
    BY <2>1, <2>2, <2>3, <2>4, <2>5, <2>6, <2>7, <2>8, <2>9, <2>10 DEF ChainNext
<1>2. QED
  BY ChainInitKeeps, <1>1, PTL DEF ChainSpec

\* The chain behind a piece of work can be followed back in the files (the
\* stores of impact, risk, recommendations, workflow and review): for any
\* number of workers, findings, areas and records, whatever appends fail and
\* whichever workers start again; only a default assessment, made for no
\* known area, is never stored.
THEOREM ProvenanceStaysTrue == ChainSpec => []ProvenanceStays
<1>1. ChainInv => ProvenanceStays
  <2> SUFFICES ASSUME ChainInv PROVE ProvenanceStays
    OBVIOUS
  <2>1. \A s \in Stages : DOMAIN produced[s] = 1..Len(produced[s])
    BY LenProperties DEF ChainInv, StagesOK
  <2>2. \A s \in Stages : \A i \in DOMAIN produced[s] : Sourced(file, chFaults, s, produced[s][i])
    BY <2>1 DEF ChainInv, StagesOK
  <2>3. {"risk", "recommendation", "workflow", "review"} \subseteq Stages
    BY DEF Stages
  <2>4. /\ \A i \in DOMAIN produced["risk"] : Sourced(file, chFaults, "risk", produced["risk"][i])
        /\ \A i \in DOMAIN produced["recommendation"] :
             Sourced(file, chFaults, "recommendation", produced["recommendation"][i])
        /\ \A i \in DOMAIN produced["workflow"] : Sourced(file, chFaults, "workflow", produced["workflow"][i])
        /\ \A i \in DOMAIN produced["review"] : Sourced(file, chFaults, "review", produced["review"][i])
    BY <2>2, <2>3
  <2>5. QED
    BY <2>4 DEF Sourced, ProvenanceStays, FetchedFresh
<1>2. QED
  BY ChainInvariant, <1>1, PTL

\* Type correctness of the records, the files and what the workers hold.
THEOREM ChainTypeCorrect == ChainSpec => []ChainTypeOK
<1>1. ChainInv => ChainTypeOK
  <2> SUFFICES ASSUME ChainInv PROVE ChainTypeOK
    OBVIOUS
  <2>1. ASSUME NEW s \in Stages
        PROVE  /\ Len(produced[s]) \in Nat /\ Len(produced[s]) <= MaxMade[s] /\ MaxMade[s] \in Nat
               /\ 1..Len(produced[s]) \subseteq 1..MaxMade[s]
    <3>1. Len(produced[s]) \in Nat /\ Len(produced[s]) <= MaxMade[s] /\ MaxMade[s] \in Nat
      BY LenProperties, ChainAssumption DEF ChainInv, StagesOK
    <3>2. QED
      BY <3>1
  <2>2. held \in [Workers -> SUBSET (1..MaxMade["recommendation"])]
    <3>1. "recommendation" \in Stages
      BY DEF Stages
    <3>2. \A w \in Workers : held[w] \in SUBSET (1..MaxMade["recommendation"])
      BY <2>1, <3>1 DEF ChainInv
    <3>3. QED
      BY <3>2 DEF ChainInv
  <2>3. \A s \in Stages : file[s] \in [ids: SUBSET (1..MaxMade[s]), torn: BOOLEAN, broken: BOOLEAN]
    <3>1. ASSUME NEW s \in Stages
          PROVE  file[s] \in [ids: SUBSET (1..MaxMade[s]), torn: BOOLEAN, broken: BOOLEAN]
      <4>1. file[s] \in StageFiles /\ file[s].ids \subseteq 1..MaxMade[s]
        BY <2>1 DEF ChainInv, StagesOK
      <4>2. QED
        BY <4>1 DEF StageFiles
    <3>2. QED
      BY <3>1
  <2>4. \A i \in DOMAIN produced["risk"] : produced["risk"][i].level \in SeverityScale
    <3>1. "risk" \in Stages /\ RecordsOf["risk"] = [diff: Ids, report: Ids, seen: BOOLEAN,
                              level: SeverityScale, areas: SUBSET (Areas \cup {NoArea})]
      BY DEF Stages, RecordsOf
    <3>2. produced["risk"] \in Seq(RecordsOf["risk"])
      BY <3>1 DEF ChainInv, StagesOK
    <3>3. \A i \in DOMAIN produced["risk"] : produced["risk"][i] \in RecordsOf["risk"]
      BY <3>2, LenProperties, ElementOfSeq
    <3>4. QED
      BY <3>1, <3>3
  <2>5. QED
    BY <2>1, <2>2, <2>3, <2>4 DEF ChainTypeOK, ChainInv
<1>2. QED
  BY ChainInvariant, <1>1, PTL

-----------------------------------------------------------------------------
(* Accounts: the directories of the administration and of the file agree.    *)

\* A directory whose users were made so far and whose built-in roles are there.
Holds(d, count) ==
  /\ d \in Directories /\ DOMAIN d.users \subseteq 1..count
  /\ DOMAIN BuiltInGrants \subseteq DOMAIN d.roles

\* What is in a directory, and what makes one.
LEMMA DirectoryParts ==
  ASSUME NEW d \in Directories
  PROVE  /\ d.users \in [DOMAIN d.users -> Accounts] /\ DOMAIN d.users \subseteq 1..MaxUsers
         /\ d.roles \in [DOMAIN d.roles -> SUBSET Codes] /\ DOMAIN d.roles \subseteq RoleNames
         /\ d # Unreadable
BY AccountsAssumption DEF Directories

LEMMA DirectoryMade ==
  ASSUME NEW U \in SUBSET (1..MaxUsers), NEW users \in [U -> Accounts],
         NEW R \in SUBSET RoleNames, NEW roles \in [R -> SUBSET Codes]
  PROVE  [users |-> users, roles |-> roles] \in Directories
BY DEF Directories

\* A store that is opened finds what was saved, with the built-in roles.
LEMMA LoadedIsHeld ==
  ASSUME NEW d, NEW count, Holds(d, count)
  PROVE  LoadDirectory(d) = d
<1>1. d \in Directories /\ d # Unreadable /\ d.roles \in [DOMAIN d.roles -> SUBSET Codes]
      /\ DOMAIN BuiltInGrants \subseteq DOMAIN d.roles
  BY DirectoryParts DEF Holds
<1>2. CompletedBy(d.roles, BuiltInGrants) = d.roles
  BY <1>1 DEF CompletedBy
<1>3. QED
  BY <1>1, <1>2 DEF LoadDirectory, Directories

\* A store over an unreadable file starts with the built-in roles.
LEMMA NothingToLoad ==
  Holds(LoadDirectory(Unreadable), 0) /\ DOMAIN LoadDirectory(Unreadable).users = {}
<1>1. <<>> \in [{} -> Accounts]
  OBVIOUS
<1>2. BuiltInGrants \in [DOMAIN BuiltInGrants -> SUBSET Codes] /\ DOMAIN BuiltInGrants \subseteq RoleNames
  BY AccountsAssumption DEF RoleNames
<1>3. [users |-> <<>>, roles |-> BuiltInGrants] \in Directories
  BY <1>1, <1>2, DirectoryMade
<1>4. QED
  BY <1>1, <1>3 DEF Holds, LoadDirectory

\* A user added to a directory.
LEMMA UserAdded ==
  ASSUME NEW d, NEW count \in Nat, Holds(d, count), NEW u \in 1..MaxUsers, u <= count,
         NEW e \in Emails, NEW status \in UserStatuses, NEW r \in SUBSET RoleNames
  PROVE  /\ Holds(WithUser(d, u, e, status, r), count)
         /\ DOMAIN WithUser(d, u, e, status, r).users = DOMAIN d.users \cup {u}
         /\ \A v \in DOMAIN d.users : v # u => WithUser(d, u, e, status, r).users[v] = d.users[v]
         /\ WithUser(d, u, e, status, r).roles = d.roles
<1> DEFINE a == [email |-> e, status |-> status, roles |-> r]
           users == With(d.users, u, a)
<1>1. a \in Accounts
  BY DEF Accounts
<1> HIDE DEF a
<1>2. d \in Directories /\ DOMAIN d.users \subseteq 1..count /\ DOMAIN BuiltInGrants \subseteq DOMAIN d.roles
      /\ d.users \in [DOMAIN d.users -> Accounts] /\ DOMAIN d.users \subseteq 1..MaxUsers
      /\ d.roles \in [DOMAIN d.roles -> SUBSET Codes] /\ DOMAIN d.roles \subseteq RoleNames
  BY DirectoryParts DEF Holds
<1>3. /\ users \in [DOMAIN d.users \cup {u} -> Accounts]
      /\ \A v \in DOMAIN d.users : v # u => users[v] = d.users[v]
  BY <1>1, <1>2 DEF With
<1> HIDE DEF users
<1>4. WithUser(d, u, e, status, r) = [users |-> users, roles |-> d.roles]
  BY <1>2 DEF WithUser, Directories, a, users
<1>5. WithUser(d, u, e, status, r) \in Directories
  BY <1>2, <1>3, <1>4, DirectoryMade
<1>6. QED
  BY <1>2, <1>3, <1>4, <1>5 DEF Holds

\* A sequence of directories that grew out of d, the last one being the result.
SeedingsOK(s, d, first) ==
  /\ Len(s) \in Nat /\ DOMAIN s = 1..Len(s) /\ (s = <<>> <=> Len(s) = 0)
  /\ \A i \in 1..Len(s) : Holds(s[i], first + Len(s))
  /\ Holds(LastOf(s, d), first + Len(s)) /\ LastOf(s, d).roles = d.roles
  /\ \A u \in DOMAIN d.users : u \in DOMAIN LastOf(s, d).users /\ LastOf(s, d).users[u] = d.users[u]
  /\ \A u \in DOMAIN LastOf(s, d).users : u \in DOMAIN d.users \/ u > first

\* More users made since do not matter.
LEMMA HoldsLonger ==
  ASSUME NEW d, NEW m \in Nat, NEW n \in Nat, m <= n, Holds(d, m)
  PROVE  Holds(d, n)
BY DEF Holds

\* How often the default users are written.
LEMMA SeedingsLength ==
  ASSUME NEW d, NEW first
  PROVE  /\ Len(Seedings(d, first)) \in Nat
         /\ DOMAIN d.users = {} => Len(Seedings(d, first)) = Len(SeedEmails)
<1> DEFINE n == Len(SeedEmails)
           grown[i \in 0..n] ==
             IF i = 0 THEN d ELSE WithUser(grown[i - 1], first + i, SeedEmails[i], "active", {"admin"})
<1>1. n \in Nat
  BY AccountsAssumption, LenProperties
<1>2. Seedings(d, first) = IF DOMAIN d.users # {} THEN <<>> ELSE [i \in 1..n |-> grown[i]]
  BY DEF Seedings
<1> HIDE DEF grown
<1>3. QED
  BY <1>1, <1>2

\* The directories that seeding writes grow one by one out of the first.
LEMMA SeedingsHold ==
  ASSUME NEW d, NEW first \in Nat, Holds(d, first),
         first + Len(Seedings(d, first)) <= MaxUsers
  PROVE  SeedingsOK(Seedings(d, first), d, first)
<1> DEFINE n == Len(SeedEmails)
           grown[i \in 0..n] ==
             IF i = 0 THEN d ELSE WithUser(grown[i - 1], first + i, SeedEmails[i], "active", {"admin"})
           S == {x \in Directories : Holds(x, MaxUsers)}
           G == [p \in S \X (1..n) |-> WithUser(p[1], first + p[2], SeedEmails[p[2]], "active", {"admin"})]
<1>1. n \in Nat /\ n <= MaxUsers /\ MaxUsers \in Nat /\ \A i \in 1..n : SeedEmails[i] \in Emails
  BY AccountsAssumption, LenProperties, ElementOfSeq
<1>2. Seedings(d, first) = IF DOMAIN d.users # {} THEN <<>> ELSE [i \in 1..n |-> grown[i]]
  BY DEF Seedings
<1>3. CASE DOMAIN d.users # {}
  BY <1>2, <1>3 DEF SeedingsOK, LastOf
<1>4. CASE DOMAIN d.users = {}
  <2>1. Seedings(d, first) = [i \in 1..n |-> grown[i]]
    BY <1>2, <1>4
  <2>2. Len(Seedings(d, first)) = n
    BY <1>1, <2>1
  <2>3. first + n <= MaxUsers /\ \A i \in 1..n : first + i \in 1..MaxUsers
    BY <1>1, <2>2
  <2>4. "active" \in UserStatuses /\ {"admin"} \in SUBSET RoleNames
    BY AccountsAssumption DEF UserStatuses, RoleNames
  <2>5. ASSUME NEW x \in S, NEW i \in 1..n
        PROVE  WithUser(x, first + i, SeedEmails[i], "active", {"admin"}) \in S
    <3>1. Holds(x, MaxUsers) /\ first + i \in 1..MaxUsers /\ first + i <= MaxUsers
      BY <1>1, <2>3
    <3>2. Holds(WithUser(x, first + i, SeedEmails[i], "active", {"admin"}), MaxUsers)
      BY <1>1, <2>4, <3>1, UserAdded
    <3>3. QED
      BY <3>2 DEF Holds
  <2>6. RecursionData(S, d, n, G)
    <3>1. d \in S
      BY <1>1, <2>3, HoldsLonger DEF Holds
    <3>2. G \in [S \X (1..n) -> S]
      BY <2>5
    <3> HIDE DEF S, G, grown
    <3>3. QED
      BY <1>1, <3>1, <3>2 DEF RecursionData
  <2>7. PICK f : Recursion(S, d, n, G, f)
    <3> HIDE DEF S, G, grown
    <3>1. QED
      BY <2>6, RecursionExists
  <2>8. \A i \in 1..n : f[i] = WithUser(f[i - 1], first + i, SeedEmails[i], "active", {"admin"})
    <3>1. \A i \in 1..n : f[i - 1] \in S
      <4>1. \A i \in 1..n : i - 1 \in 0..n
        BY <1>1
      <4> HIDE DEF S, G, grown
      <4>2. QED
        BY <2>7, <4>1 DEF Recursion
    <3>2. \A i \in 1..n : f[i] = G[<<f[i - 1], i>>]
      BY <2>7 DEF Recursion
    <3> HIDE DEF S, grown
    <3>3. QED
      BY <3>1, <3>2
  <2>9. f = [i \in 0..n |-> IF i = 0 THEN d
               ELSE WithUser(f[i - 1], first + i, SeedEmails[i], "active", {"admin"})]
    <3> HIDE DEF S, G, grown
    <3>1. ASSUME NEW i \in 0..n
          PROVE  f[i] = IF i = 0 THEN d
                        ELSE WithUser(f[i - 1], first + i, SeedEmails[i], "active", {"admin"})
      <4>1. i = 0 \/ i \in 1..n
        BY <1>1
      <4>2. QED
        BY <2>7, <2>8, <4>1 DEF Recursion
    <3>2. QED
      BY <2>7, <3>1 DEF Recursion
  <2>10. grown = [i \in 0..n |-> IF i = 0 THEN d
                   ELSE WithUser(grown[i - 1], first + i, SeedEmails[i], "active", {"admin"})]
    BY <2>9
  <2> HIDE DEF grown, S, G
  <2>11. grown[0] = d /\ \A i \in 1..n :
           grown[i] = WithUser(grown[i - 1], first + i, SeedEmails[i], "active", {"admin"})
    <3>1. 0 \in 0..n /\ \A i \in 1..n : i \in 0..n /\ i # 0
      BY <1>1
    <3>2. QED
      BY <2>10, <3>1
  <2> DEFINE Good(i) == /\ Holds(grown[i], first + i) /\ grown[i].roles = d.roles
                        /\ \A u \in DOMAIN grown[i].users : u > first
             P == {i \in 0..n : Good(i)}
  <2>12. 0 \in P
    BY <1>1, <1>4, <2>11
  <2>13. ASSUME NEW i \in 1..n, i - 1 \in P PROVE i \in P
    <3> DEFINE x == grown[i - 1]
    <3>1. Good(i - 1)
      BY <2>13
    <3>2. first + (i - 1) \in Nat /\ first + i \in Nat /\ first + (i - 1) <= first + i
      BY <1>1
    <3>3. Holds(x, first + i)
      BY <3>1, <3>2, HoldsLonger
    <3> DEFINE y == WithUser(x, first + i, SeedEmails[i], "active", {"admin"})
    <3>4. Holds(y, first + i) /\ DOMAIN y.users = DOMAIN x.users \cup {first + i} /\ y.roles = x.roles
      BY <1>1, <2>3, <2>4, <3>2, <3>3, UserAdded
    <3>5. grown[i] = y
      BY <2>11
    <3> HIDE DEF x, y
    <3>6. \A u \in DOMAIN y.users : u > first
      BY <3>1, <3>4 DEF x
    <3>7. i \in 0..n /\ Good(i)
      BY <1>1, <3>1, <3>4, <3>5, <3>6 DEF x
    <3>8. QED
      BY <3>7
  <2> HIDE DEF P
  <2>14. 0..n \subseteq P
    BY <1>1, <2>12, <2>13, UpToInduction
  <2>15. \A i \in 0..n : Good(i)
    BY <2>14 DEF P
  <2> DEFINE s == Seedings(d, first)
  <2>16. Len(s) = n /\ DOMAIN s = 1..n /\ (s = <<>> <=> n = 0) /\ \A i \in 1..n : s[i] = grown[i]
    BY <1>1, <2>1, <2>2
  <2>17. LastOf(s, d) = grown[n]
    <3>1. CASE n = 0
      BY <1>1, <2>1, <2>11, <3>1 DEF LastOf
    <3>2. CASE n # 0
      BY <1>1, <2>16, <3>2 DEF LastOf
    <3>3. QED
      BY <3>1, <3>2
  <2> HIDE DEF s
  <2>18. \A i \in 1..n : Holds(s[i], first + n)
    <3>1. SUFFICES ASSUME NEW i \in 1..n PROVE Holds(s[i], first + n)
      OBVIOUS
    <3>2. i \in 0..n /\ first + i \in Nat /\ first + n \in Nat /\ first + i <= first + n
      BY <1>1
    <3>3. Holds(grown[i], first + i)
      BY <2>15, <3>2
    <3>4. QED
      BY <2>16, <3>2, <3>3, HoldsLonger
  <2>19. Good(n)
    BY <1>1, <2>15
  <2> HIDE DEF n
  <2>20. SeedingsOK(s, d, first)
    BY <1>1, <1>4, <2>16, <2>17, <2>18, <2>19 DEF SeedingsOK
  <2>21. QED
    BY <2>20 DEF s
<1>5. QED
  BY <1>3, <1>4

-----------------------------------------------------------------------------
\* A directory has all that an administration knows, or that all of them
\* know which have seen the last write of one.
Knows(d, f) ==
  /\ \A u \in DOMAIN d.users : u \in DOMAIN f.users /\ f.users[u] = d.users[u]
  /\ f.roles = d.roles
Agrees(f) ==
  /\ dismissed \cap DOMAIN f.users = {}
  /\ \A s \in upToDate : Knows(desk[s], f)

FileOK(f, count) == f = Unreadable \/ Holds(f, count)
DirectoryInv ==
  /\ userCount \in 0..MaxUsers /\ dismissed \subseteq 1..userCount /\ acFaults \in Nat
  /\ desk \in [Servers -> Directories \cup {NoDesk}]
  /\ \A s \in Servers : desk[s] # NoDesk => Holds(desk[s], userCount)
  /\ upToDate \subseteq Servers /\ \A s \in upToDate : desk[s] # NoDesk
  /\ FileOK(adminFile, userCount)
  /\ acFaults = 0 => Agrees(LoadDirectory(adminFile))
SessionInv ==
  /\ attempts \in [Servers -> [Emails -> 0..MaxAttempts]]
  /\ IsFiniteSet(tokens) /\ \A t \in tokens : t.sub \in 1..userCount /\ t.serial \in 1..MaxTokens
  /\ revoked \in [Servers -> SUBSET (1..MaxTokens)]
AccountsInv == DirectoryInv /\ SessionInv

\* What RewriteFile leaves behind: readable or not, and without a fault the
\* last directory that was written, or what was there.
LEMMA Rewritten ==
  ASSUME NEW dirs, NEW count \in Nat, NEW m \in Nat, m <= count, FileOK(adminFile, m), NEW faults \in Nat,
         Len(dirs) \in Nat, \A i \in 1..Len(dirs) : Holds(dirs[i], count), RewriteFile(dirs, faults),
         dirs = <<>> <=> Len(dirs) = 0
  PROVE  /\ FileOK(adminFile', count) /\ acFaults' \in Nat
         /\ acFaults' = 0 => faults = 0 /\ LoadDirectory(adminFile') = LastOf(dirs, LoadDirectory(adminFile))
<1> DEFINE n == Len(dirs)
<1>0. FileOK(adminFile, count)
  BY HoldsLonger DEF FileOK
<1>1. CASE n = 0
  BY <1>0, <1>1 DEF RewriteFile, LastOf
<1>2. CASE n # 0
  <2>1. n \in 1..n /\ Holds(dirs[n], count) /\ LastOf(dirs, LoadDirectory(adminFile)) = dirs[n]
    BY <1>2 DEF LastOf
  <2>2. CASE adminFile' = dirs[n] /\ acFaults' = faults
    <3>1. LoadDirectory(dirs[n]) = dirs[n]
      BY <2>1, LoadedIsHeld
    <3> HIDE DEF n
    <3>2. QED
      BY <2>1, <2>2, <3>1 DEF FileOK
  <2>3. CASE acFaults' = faults + 1 /\ adminFile' \in {Unreadable, IF n = 1 THEN adminFile ELSE dirs[n - 1]}
    <3>0. n \in Nat
      OBVIOUS
    <3> HIDE DEF n
    <3>1. n # 1 => n - 1 \in 1..n
      BY <1>2, <3>0
    <3>2. FileOK(adminFile', count)
      BY <1>0, <2>3, <3>1 DEF FileOK, n
    <3>3. QED
      BY <2>3, <3>2
  <2>4. QED
    BY <1>2, <2>2, <2>3 DEF RewriteFile
<1>3. QED
  BY <1>1, <1>2

\* What a store opened over the file holds.
LEMMA FileLoads ==
  ASSUME NEW f, NEW count \in Nat, FileOK(f, count)
  PROVE  Holds(LoadDirectory(f), count)
<1>1. CASE f = Unreadable
  BY <1>1, NothingToLoad, HoldsLonger
<1>2. CASE Holds(f, count)
  BY <1>2, LoadedIsHeld
<1>3. QED
  BY <1>1, <1>2 DEF FileOK

\* The administration writes what it holds.
LEMMA DeskChanged ==
  ASSUME DirectoryInv, NEW s \in Servers, NEW d, DeskChange(s, d), Holds(d, userCount'), userCount' \in 0..MaxUsers,
         userCount <= userCount', \A u \in DOMAIN d.users : u \in DOMAIN desk[s].users \/ u \notin 1..userCount
  PROVE  DirectoryInv'
<1>1. userCount \in Nat /\ userCount' \in Nat /\ MaxUsers \in Nat
  BY AccountsAssumption DEF DirectoryInv
<1> DEFINE dirs == <<d>>
<1>2. Len(dirs) = 1 /\ dirs[1] = d /\ dirs # <<>> /\ RewriteFile(dirs, acFaults)
  BY DEF DeskChange
<1>3. LastOf(dirs, LoadDirectory(adminFile)) = d
  BY <1>2 DEF LastOf
<1> HIDE DEF dirs
<1>4. \A i \in 1..Len(dirs) : Holds(dirs[i], userCount')
  BY <1>2
<1>5. FileOK(adminFile', userCount') /\ acFaults' \in Nat
      /\ (acFaults' = 0 => acFaults = 0 /\ LoadDirectory(adminFile') = d)
  BY <1>1, <1>2, <1>3, <1>4, Rewritten DEF DirectoryInv
<1>6. /\ desk[s] # NoDesk /\ desk' = [desk EXCEPT ![s] = d] /\ upToDate' = {s}
      /\ dismissed' = (dismissed \ DOMAIN desk[s].users) \cup (DOMAIN desk[s].users \ DOMAIN d.users)
  BY DEF DeskChange
<1>7. DOMAIN desk[s].users \subseteq 1..userCount /\ dismissed \subseteq 1..userCount
  BY <1>6 DEF DirectoryInv, Holds
<1>8. dismissed' \cap DOMAIN d.users = {} /\ dismissed' \subseteq 1..userCount
  BY <1>6, <1>7
<1>9. 1..userCount \subseteq 1..userCount' /\ dismissed' \subseteq 1..userCount'
  BY <1>1, <1>8
<1>10. d \in Directories /\ d # NoDesk
  BY AccountsAssumption DEF Holds
<1>11. /\ desk' \in [Servers -> Directories \cup {NoDesk}] /\ desk'[s] = d
       /\ \A r \in Servers \ {s} : desk'[r] = desk[r]
  BY <1>6, <1>10 DEF DirectoryInv
<1>12. \A r \in Servers : desk'[r] # NoDesk => Holds(desk'[r], userCount')
  <2>1. SUFFICES ASSUME NEW r \in Servers, desk'[r] # NoDesk PROVE Holds(desk'[r], userCount')
    OBVIOUS
  <2>2. CASE r = s
    BY <1>11, <2>2
  <2>3. CASE r # s
    <3>1. desk'[r] = desk[r] /\ Holds(desk[r], userCount)
      BY <1>11, <2>1, <2>3 DEF DirectoryInv
    <3>2. QED
      BY <1>1, <3>1, HoldsLonger
  <2>4. QED
    BY <2>2, <2>3
<1>13. acFaults' = 0 => Agrees(LoadDirectory(adminFile))'
  <2>1. Knows(d, d)
    BY DEF Knows
  <2>2. QED
    BY <1>5, <1>6, <1>8, <1>11, <2>1 DEF Agrees
<1>14. upToDate' \subseteq Servers /\ \A r \in upToDate' : desk'[r] # NoDesk
  BY <1>6, <1>10, <1>11
<1>15. QED
  BY <1>5, <1>9, <1>11, <1>12, <1>13, <1>14 DEF DirectoryInv, FileOK, Holds

\* A change that makes no user.
LEMMA DeskSteps ==
  ASSUME DirectoryInv, NEW s \in Servers, desk[s] # NoDesk, NEW d, DeskChange(s, d), d \in Directories,
         userCount' = userCount, DOMAIN d.users \subseteq DOMAIN desk[s].users,
         DOMAIN BuiltInGrants \subseteq DOMAIN d.roles
  PROVE  DirectoryInv'
<1>1. DOMAIN desk[s].users \subseteq 1..userCount /\ userCount \in 0..MaxUsers /\ userCount <= userCount
  BY DEF DirectoryInv, Holds
<1>2. Holds(d, userCount')
  BY <1>1 DEF Holds
<1>3. QED
  BY <1>1, <1>2, DeskChanged

LEMMA CreateUserOK == ASSUME DirectoryInv, NEW s \in Servers, desk[s] # NoDesk, CreateUser(s) PROVE DirectoryInv'
<1>1. /\ userCount < MaxUsers /\ userCount' = userCount + 1
  BY DEF CreateUser
<1>2. PICK e \in Emails, status \in UserStatuses, r \in DOMAIN desk[s].roles :
        DeskChange(s, WithUser(desk[s], userCount', e, status, {r}))
  BY DEF CreateUser
<1>3. userCount \in Nat /\ userCount' \in 0..MaxUsers /\ userCount' \in 1..MaxUsers /\ MaxUsers \in Nat
      /\ userCount <= userCount' /\ userCount' \in Nat /\ userCount' \notin 1..userCount
  BY <1>1, AccountsAssumption DEF DirectoryInv
<1>4. Holds(desk[s], userCount') /\ {r} \in SUBSET RoleNames
  <2>1. Holds(desk[s], userCount)
    BY DEF DirectoryInv
  <2>2. QED
    BY <1>2, <1>3, <2>1, HoldsLonger, DirectoryParts DEF Holds
<1> DEFINE d == WithUser(desk[s], userCount', e, status, {r})
<1>5. Holds(d, userCount') /\ DOMAIN d.users = DOMAIN desk[s].users \cup {userCount'}
  BY <1>3, <1>4, UserAdded
<1> HIDE DEF d
<1>6. DeskChange(s, d)
  BY <1>2 DEF d
<1>7. \A u \in DOMAIN d.users : u \in DOMAIN desk[s].users \/ u \notin 1..userCount
  BY <1>3, <1>5
<1>8. QED
  BY <1>3, <1>5, <1>6, <1>7, DeskChanged

\* The parts of what the administration holds.
LEMMA DeskParts ==
  ASSUME DirectoryInv, NEW s \in Servers, desk[s] # NoDesk
  PROVE  /\ desk[s] = [users |-> desk[s].users, roles |-> desk[s].roles]
         /\ desk[s].users \in [DOMAIN desk[s].users -> Accounts] /\ DOMAIN desk[s].users \in SUBSET (1..MaxUsers)
         /\ desk[s].roles \in [DOMAIN desk[s].roles -> SUBSET Codes] /\ DOMAIN desk[s].roles \in SUBSET RoleNames
         /\ DOMAIN BuiltInGrants \subseteq DOMAIN desk[s].roles
<1>1. desk[s] \in Directories
  BY DEF DirectoryInv, Holds
<1>2. Holds(desk[s], userCount)
  BY DEF DirectoryInv
<1>3. QED
  BY <1>1, <1>2, DirectoryParts DEF Holds, Directories

LEMMA PartReplaced ==
  ASSUME NEW d \in Directories, NEW x
  PROVE  /\ [d EXCEPT !.users = x] = [users |-> x, roles |-> d.roles]
         /\ [d EXCEPT !.roles = x] = [users |-> d.users, roles |-> x]
         /\ \A u \in DOMAIN d.users :
              [d EXCEPT !.users[u] = x] = [users |-> [d.users EXCEPT ![u] = x], roles |-> d.roles]
BY DEF Directories

\* A user changed in place.
LEMMA UserChanged ==
  ASSUME DirectoryInv, NEW s \in Servers, desk[s] # NoDesk, NEW u \in DOMAIN desk[s].users, NEW a \in Accounts,
         DeskChange(s, [desk[s] EXCEPT !.users[u] = a]), UNCHANGED userCount
  PROVE  DirectoryInv'
<1> DEFINE users == [desk[s].users EXCEPT ![u] = a]
           d == [users |-> users, roles |-> desk[s].roles]
<1>1. users \in [DOMAIN desk[s].users -> Accounts]
  BY DeskParts
<1> HIDE DEF users
<1>2. d \in Directories /\ d.roles = desk[s].roles /\ DOMAIN d.users = DOMAIN desk[s].users
  BY <1>1, DeskParts, DirectoryMade
<1>3. desk[s] \in Directories
  BY DEF DirectoryInv
<1>4. [desk[s] EXCEPT !.users[u] = a] = d
  BY <1>3, PartReplaced DEF users
<1> HIDE DEF d
<1>5. DeskChange(s, d) /\ DOMAIN BuiltInGrants \subseteq DOMAIN d.roles
  BY <1>2, <1>4, DeskParts
<1>6. QED
  BY <1>2, <1>5, DeskSteps

\* A change of the roles.
LEMMA RolesChanged ==
  ASSUME DirectoryInv, NEW s \in Servers, desk[s] # NoDesk, NEW roles, roles \in [DOMAIN roles -> SUBSET Codes],
         DOMAIN roles \subseteq RoleNames, DOMAIN BuiltInGrants \subseteq DOMAIN roles,
         DeskChange(s, [desk[s] EXCEPT !.roles = roles]), UNCHANGED userCount
  PROVE  DirectoryInv'
<1> DEFINE d == [users |-> desk[s].users, roles |-> roles]
<1>1. d \in Directories /\ d.roles = roles /\ d.users = desk[s].users
  BY DeskParts, DirectoryMade
<1>2. desk[s] \in Directories
  BY DEF DirectoryInv
<1>3. [desk[s] EXCEPT !.roles = roles] = d
  BY <1>2, PartReplaced
<1> HIDE DEF d
<1>4. DeskChange(s, d)
  BY <1>3
<1>5. QED
  BY <1>1, <1>4, DeskSteps

WithEmail(d, u, e)   == [d EXCEPT !.users[u].email = e]
WithStatus(d, u, st) == [d EXCEPT !.users[u].status = st]
WithRoles(d, u, R)   == [d EXCEPT !.users[u].roles = R]
WithAccount(d, u, a) == [d EXCEPT !.users[u] = a]

\* The fields of an account.
LEMMA AccountFields ==
  ASSUME NEW d \in Directories, NEW u \in DOMAIN d.users, NEW e \in Emails, NEW st \in UserStatuses,
         NEW R \in SUBSET RoleNames
  PROVE  \E a \in Accounts, b \in Accounts, c \in Accounts :
           /\ WithEmail(d, u, e) = WithAccount(d, u, a)
           /\ WithStatus(d, u, st) = WithAccount(d, u, b)
           /\ WithRoles(d, u, R) = WithAccount(d, u, c)
<1> DEFINE a == [email |-> e, status |-> d.users[u].status, roles |-> d.users[u].roles]
           b == [email |-> d.users[u].email, status |-> st, roles |-> d.users[u].roles]
           c == [email |-> d.users[u].email, status |-> d.users[u].status, roles |-> R]
<1>1. d.users[u] \in Accounts /\ d.users \in [DOMAIN d.users -> Accounts]
  BY DirectoryParts
<1>2. a \in Accounts /\ b \in Accounts /\ c \in Accounts
  BY <1>1 DEF Accounts
<1>3. [d.users[u] EXCEPT !.email = e] = a /\ [d.users[u] EXCEPT !.status = st] = b
      /\ [d.users[u] EXCEPT !.roles = R] = c
  BY <1>1 DEF Accounts
<1>4. d = [users |-> d.users, roles |-> d.roles]
  BY DEF Directories
<1> HIDE DEF a, b, c
<1>5. /\ WithEmail(d, u, e) = WithAccount(d, u, a)
      /\ WithStatus(d, u, st) = WithAccount(d, u, b)
      /\ WithRoles(d, u, R) = WithAccount(d, u, c)
  BY <1>3, <1>4 DEF WithEmail, WithStatus, WithRoles, WithAccount
<1> USE <1>2
<1> WITNESS a \in Accounts, b \in Accounts, c \in Accounts
<1>6. QED
  BY <1>5

LEMMA UserSteps ==
  ASSUME DirectoryInv, NEW s \in Servers, desk[s] # NoDesk, UpdateUser(s) \/ GrantRole(s) \/ RevokeRole(s)
  PROVE  DirectoryInv'
<1> DEFINE d == desk[s]
<1>0. d \in Directories /\ userCount' = userCount
  BY DeskParts DEF DirectoryInv, UpdateUser, GrantRole, RevokeRole
<1>1. \A u \in DOMAIN d.users : d.users[u].email \in Emails /\ d.users[u].status \in UserStatuses
                                /\ d.users[u].roles \in SUBSET RoleNames
  BY <1>0, DirectoryParts DEF Accounts
<1>2. PICK u \in DOMAIN d.users, e \in Emails, st \in UserStatuses, R \in SUBSET RoleNames :
        \/ DeskChange(s, WithEmail(d, u, e))
        \/ DeskChange(s, WithStatus(d, u, st))
        \/ DeskChange(s, WithRoles(d, u, R))
  <2>1. CASE UpdateUser(s)
    BY <1>1, <2>1 DEF UpdateUser, WithEmail, WithStatus
  <2>2. CASE GrantRole(s)
    <3>1. PICK u \in DOMAIN d.users : \E r \in DOMAIN d.roles :
            DeskChange(s, [d EXCEPT !.users[u].roles = @ \cup {r}])
      BY <2>2 DEF GrantRole
    <3>2. PICK r \in DOMAIN d.roles : DeskChange(s, [d EXCEPT !.users[u].roles = @ \cup {r}])
      BY <3>1
    <3>3. [d EXCEPT !.users[u].roles = @ \cup {r}] = [d EXCEPT !.users[u].roles = d.users[u].roles \cup {r}]
      <4>1. d.users[u] \in Accounts /\ d = [users |-> d.users, roles |-> d.roles]
            /\ d.users \in [DOMAIN d.users -> Accounts]
        BY <1>0, DirectoryParts DEF Directories
      <4> HIDE DEF d
      <4>2. QED
        BY <4>1 DEF Accounts
    <3>4. d.users[u].roles \cup {r} \in SUBSET RoleNames
      BY <1>0, <1>1, DirectoryParts
    <3>5. QED
      BY <1>1, <3>2, <3>3, <3>4 DEF WithRoles
  <2>3. CASE RevokeRole(s)
    <3>1. PICK u \in DOMAIN d.users : \E r \in d.users[u].roles :
            DeskChange(s, [d EXCEPT !.users[u].roles = @ \ {r}])
      BY <2>3 DEF RevokeRole
    <3>2. PICK r : DeskChange(s, [d EXCEPT !.users[u].roles = @ \ {r}])
      BY <3>1
    <3>3. [d EXCEPT !.users[u].roles = @ \ {r}] = [d EXCEPT !.users[u].roles = d.users[u].roles \ {r}]
      <4>1. d.users[u] \in Accounts /\ d = [users |-> d.users, roles |-> d.roles]
            /\ d.users \in [DOMAIN d.users -> Accounts]
        BY <1>0, DirectoryParts DEF Directories
      <4> HIDE DEF d
      <4>2. QED
        BY <4>1 DEF Accounts
    <3>4. d.users[u].roles \ {r} \in SUBSET RoleNames
      BY <1>1
    <3>5. QED
      BY <1>1, <3>2, <3>3, <3>4 DEF WithRoles
  <2>4. QED
    BY <2>1, <2>2, <2>3
<1> HIDE DEF d
<1>3. PICK a \in Accounts : DeskChange(s, WithAccount(d, u, a))
  <2>1. PICK a \in Accounts, b \in Accounts, c \in Accounts :
           /\ WithEmail(d, u, e) = WithAccount(d, u, a)
           /\ WithStatus(d, u, st) = WithAccount(d, u, b)
           /\ WithRoles(d, u, R) = WithAccount(d, u, c)
    BY <1>0, AccountFields
  <2>2. QED
    BY <1>2, <2>1
<1>4. QED
  BY <1>0, <1>3, UserChanged DEF d, WithAccount

LEMMA DeleteUserOK == ASSUME DirectoryInv, NEW s \in Servers, desk[s] # NoDesk, DeleteUser(s) PROVE DirectoryInv'
<1>1. PICK u \in DOMAIN desk[s].users :
        DeskChange(s, [desk[s] EXCEPT !.users = [v \in DOMAIN @ \ {u} |-> @[v]]]) /\ userCount' = userCount
  BY DEF DeleteUser
<1> DEFINE users == [v \in DOMAIN desk[s].users \ {u} |-> desk[s].users[v]]
           d == [users |-> users, roles |-> desk[s].roles]
<1>2. users \in [DOMAIN desk[s].users \ {u} -> Accounts]
  BY DeskParts
<1>3. desk[s] \in Directories
  BY DEF DirectoryInv
<1>4. [desk[s] EXCEPT !.users = [v \in DOMAIN @ \ {u} |-> @[v]]] = d
  <2> HIDE DEF users
  <2>1. [desk[s] EXCEPT !.users = users] = d
    BY <1>3, PartReplaced
  <2>2. QED
    BY <2>1 DEF users
<1> HIDE DEF users
<1>5. d \in Directories /\ d.roles = desk[s].roles /\ DOMAIN d.users = DOMAIN desk[s].users \ {u}
  BY <1>2, DeskParts, DirectoryMade
<1> HIDE DEF d
<1>6. DeskChange(s, d) /\ userCount' = userCount /\ DOMAIN BuiltInGrants \subseteq DOMAIN d.roles
  BY <1>1, <1>4, <1>5, DeskParts
<1>7. QED
  BY <1>5, <1>6, DeskSteps

LEMMA RoleSteps == ASSUME DirectoryInv, NEW s \in Servers, desk[s] # NoDesk, CreateRole(s) \/ UpdatePermissions(s) \/ DeleteRole(s) PROVE DirectoryInv'
<1>0. \A g \in Grants : g \in SUBSET Codes
  BY DEF Codes
<1>1. ASSUME CreateRole(s) PROVE DirectoryInv'
  <2>1. PICK r \in CustomRoles, g \in Grants : DeskChange(s, [desk[s] EXCEPT !.roles = With(@, r, g)])
    BY <1>1 DEF CreateRole
  <2> DEFINE roles == With(desk[s].roles, r, g)
  <2>2. roles \in [DOMAIN desk[s].roles \cup {r} -> SUBSET Codes] /\ r \in RoleNames
    <3>1. desk[s].roles \in [DOMAIN desk[s].roles -> SUBSET Codes] /\ g \in SUBSET Codes
      BY <1>0, DeskParts
    <3>2. QED
      BY <3>1 DEF With, RoleNames
  <2>3. [desk[s] EXCEPT !.roles = With(@, r, g)] = [desk[s] EXCEPT !.roles = roles]
    BY DeskParts
  <2> HIDE DEF roles
  <2>4. DeskChange(s, [desk[s] EXCEPT !.roles = roles]) /\ userCount' = userCount
    BY <1>1, <2>1, <2>3 DEF CreateRole
  <2>5. /\ roles \in [DOMAIN roles -> SUBSET Codes] /\ DOMAIN roles \subseteq RoleNames
        /\ DOMAIN BuiltInGrants \subseteq DOMAIN roles
    BY <2>1, <2>2, DeskParts
  <2>6. QED
    BY <2>4, <2>5, RolesChanged
<1>2. ASSUME UpdatePermissions(s) PROVE DirectoryInv'
  <2>1. PICK r \in DOMAIN desk[s].roles, g \in Grants : DeskChange(s, [desk[s] EXCEPT !.roles[r] = g])
    BY <1>2 DEF UpdatePermissions
  <2> DEFINE roles == [desk[s].roles EXCEPT ![r] = g]
  <2>2. roles \in [DOMAIN desk[s].roles -> SUBSET Codes]
    BY <1>0, DeskParts
  <2>3. [desk[s] EXCEPT !.roles[r] = g] = [desk[s] EXCEPT !.roles = roles]
    BY DeskParts
  <2> HIDE DEF roles
  <2>4. DeskChange(s, [desk[s] EXCEPT !.roles = roles]) /\ userCount' = userCount
    BY <1>2, <2>1, <2>3 DEF UpdatePermissions
  <2>5. /\ roles \in [DOMAIN roles -> SUBSET Codes] /\ DOMAIN roles \subseteq RoleNames
        /\ DOMAIN BuiltInGrants \subseteq DOMAIN roles
    BY <2>1, <2>2, DeskParts
  <2>6. QED
    BY <2>4, <2>5, RolesChanged
<1>3. ASSUME DeleteRole(s) PROVE DirectoryInv'
  <2>1. PICK r \in DOMAIN desk[s].roles \ DOMAIN BuiltInGrants :
          DeskChange(s, [desk[s] EXCEPT !.roles = [q \in DOMAIN @ \ {r} |-> @[q]]])
    BY <1>3 DEF DeleteRole
  <2> DEFINE roles == [q \in DOMAIN desk[s].roles \ {r} |-> desk[s].roles[q]]
  <2>2. roles \in [DOMAIN desk[s].roles \ {r} -> SUBSET Codes]
    BY DeskParts
  <2>3. [desk[s] EXCEPT !.roles = [q \in DOMAIN @ \ {r} |-> @[q]]] = [desk[s] EXCEPT !.roles = roles]
    BY DeskParts
  <2> HIDE DEF roles
  <2>4. DeskChange(s, [desk[s] EXCEPT !.roles = roles]) /\ userCount' = userCount
    BY <1>3, <2>1, <2>3 DEF DeleteRole
  <2>5. /\ roles \in [DOMAIN roles -> SUBSET Codes] /\ DOMAIN roles \subseteq RoleNames
        /\ DOMAIN BuiltInGrants \subseteq DOMAIN roles
    BY <2>1, <2>2, DeskParts
  <2>6. QED
    BY <2>4, <2>5, RolesChanged
<1>4. QED
  BY <1>1, <1>2, <1>3

-----------------------------------------------------------------------------
\* A request that opens a store of its own: what it finds, and what the
\* store has after the default accounts were made.
LEMMA StoreOpened ==
  ASSUME DirectoryInv, NEW o \in Openings, Born(o.found, userCount) <= MaxUsers
  PROVE  /\ SeedingsOK(Seedings(o.found, userCount), o.found, userCount)
         /\ Born(o.found, userCount) \in Nat /\ userCount \in Nat /\ userCount <= Born(o.found, userCount)
         /\ Holds(SeededFrom(o.found, userCount), Born(o.found, userCount))
         /\ o.faults \in Nat /\ (o.faults = 0 => acFaults = 0 /\ o.found = LoadDirectory(adminFile))
         /\ o.faults = 0 => Agrees(SeededFrom(o.found, userCount))
<1>1. userCount \in Nat /\ dismissed \subseteq 1..userCount /\ FileOK(adminFile, userCount) /\ acFaults \in Nat
  BY DEF DirectoryInv
<1>2. \/ o.found = LoadDirectory(adminFile) /\ o.faults = acFaults
      \/ o.found = LoadDirectory(Unreadable) /\ o.faults = acFaults + 1
  BY DEF Openings
<1>3. Holds(o.found, userCount)
  <2>1. FileOK(Unreadable, userCount)
    BY DEF FileOK
  <2>2. QED
    BY <1>1, <1>2, <2>1, FileLoads
<1> DEFINE d == o.found
           s == Seedings(d, userCount)
<1>4. SeedingsOK(s, d, userCount)
  BY <1>1, <1>3, SeedingsHold DEF Born
<1>5. Born(d, userCount) \in Nat /\ userCount <= Born(d, userCount) /\ Holds(SeededFrom(d, userCount), Born(d, userCount))
  BY <1>1, <1>4 DEF SeedingsOK, Born, SeededFrom
<1>6. o.faults \in Nat /\ (o.faults = 0 => acFaults = 0 /\ d = LoadDirectory(adminFile))
  BY <1>1, <1>2
<1> DEFINE e == SeededFrom(d, userCount)
<1>7. /\ e.roles = d.roles
      /\ \A u \in DOMAIN d.users : u \in DOMAIN e.users /\ e.users[u] = d.users[u]
      /\ \A u \in DOMAIN e.users : u \in DOMAIN d.users \/ u > userCount
  BY <1>4 DEF SeedingsOK, SeededFrom
<1> HIDE DEF d, e, s
<1>8. ASSUME o.faults = 0 PROVE Agrees(e)
  <2>1. Agrees(d)
    BY <1>6, <1>8 DEF DirectoryInv
  <2>2. dismissed \cap DOMAIN e.users = {}
    <3>1. SUFFICES ASSUME NEW u \in dismissed, u \in DOMAIN e.users PROVE FALSE
      OBVIOUS
    <3>2. u \in 1..userCount /\ u \notin DOMAIN d.users
      BY <1>1, <2>1 DEF Agrees
    <3>3. QED
      BY <1>1, <1>7, <3>1, <3>2
  <2>3. \A r \in upToDate : Knows(desk[r], e)
    BY <1>7, <2>1 DEF Agrees, Knows
  <2>4. QED
    BY <2>2, <2>3 DEF Agrees
<1>9. QED
  BY <1>1, <1>4, <1>5, <1>6, <1>8 DEF d, e, s

\* Such a request writes directories that grew out of what it found.
LEMMA StoreWritten ==
  ASSUME DirectoryInv, NEW o \in Openings, NEW dirs, NEW count, count \in Nat, userCount <= count, count <= MaxUsers,
         o.faults \in Nat, o.faults = 0 => acFaults = 0 /\ o.found = LoadDirectory(adminFile),
         Len(dirs) \in Nat, \A i \in 1..Len(dirs) : Holds(dirs[i], count),
         dirs = <<>> <=> Len(dirs) = 0, RewriteFile(dirs, o.faults), userCount' = count,
         o.faults = 0 => Agrees(LastOf(dirs, o.found)), UNCHANGED <<desk, dismissed, upToDate>>
  PROVE  DirectoryInv'
<1>1. userCount \in Nat /\ FileOK(adminFile, userCount) /\ MaxUsers \in Nat
  BY AccountsAssumption DEF DirectoryInv
<1>2. /\ FileOK(adminFile', count) /\ acFaults' \in Nat
      /\ acFaults' = 0 => o.faults = 0 /\ LoadDirectory(adminFile') = LastOf(dirs, LoadDirectory(adminFile))
  BY <1>1, Rewritten
<1>3. dismissed \subseteq 1..count /\ \A s \in Servers : desk[s] # NoDesk => Holds(desk[s], count)
  BY <1>1, HoldsLonger DEF DirectoryInv
<1>4. acFaults' = 0 => Agrees(LoadDirectory(adminFile))'
  BY <1>2 DEF Agrees
<1>5. QED
  BY <1>1, <1>2, <1>3, <1>4 DEF DirectoryInv, FileOK, Holds

\* The last element of a sequence after an append.
LEMMA LastAppended ==
  ASSUME NEW s, NEW d, NEW x, Len(s) \in Nat, DOMAIN s = 1..Len(s)
  PROVE  /\ Len(Append(s, x)) = Len(s) + 1 /\ LastOf(Append(s, x), d) = x /\ Append(s, x) # <<>>
         /\ \A i \in 1..Len(s) : Append(s, x)[i] = s[i]
         /\ Append(s, x)[Len(s) + 1] = x
BY DEF LastOf

LEMMA SignupOK == ASSUME DirectoryInv, NEW e \in Emails, Signup(e) PROVE DirectoryInv'
<1> DEFINE SeedsOf(o) == Seedings(o.found, userCount)
           D(o) == SeededFrom(o.found, userCount)
           N(o) == Born(o.found, userCount)
<1>1. PICK o \in Openings :
        /\ N(o) + 1 <= MaxUsers
        /\ IF ByEmail(D(o), e) # {}
           THEN userCount' = (N(o) + 1) - 1 /\ RewriteFile(SeedsOf(o), o.faults)
           ELSE userCount' = N(o) + 1
                /\ RewriteFile(Append(SeedsOf(o), WithUser(D(o), N(o) + 1, e, "active", {})), o.faults)
  <2> USE DEF Signup
  <2>1. QED
    OBVIOUS
<1>2. MaxUsers \in Nat /\ UNCHANGED <<desk, dismissed, upToDate>>
  BY AccountsAssumption DEF Signup
<1> DEFINE s == SeedsOf(o)
           d == D(o)
           n == N(o)
           new == WithUser(d, n + 1, e, "active", {})
<1>3. /\ Len(s) \in Nat /\ DOMAIN s = 1..Len(s) /\ userCount \in Nat /\ n \in Nat /\ userCount <= n
      /\ (\A i \in 1..Len(s) : Holds(s[i], n)) /\ (s = <<>> <=> Len(s) = 0)
      /\ Holds(d, n) /\ (o.faults = 0 => Agrees(d)) /\ n <= MaxUsers
      /\ o.faults \in Nat /\ (o.faults = 0 => acFaults = 0 /\ o.found = LoadDirectory(adminFile))
      /\ LastOf(s, o.found) = d
  <2>1. n \in Nat
    BY SeedingsLength DEF Born, DirectoryInv
  <2>2. n <= MaxUsers
    BY <1>1, <1>2, <2>1
  <2>3. SeedingsOK(s, o.found, userCount) /\ n = userCount + Len(s) /\ d = LastOf(s, o.found)
    BY <2>2, StoreOpened DEF Born, SeededFrom
  <2>4. /\ userCount \in Nat /\ userCount <= n /\ Holds(d, n) /\ (o.faults = 0 => Agrees(d))
        /\ o.faults \in Nat /\ (o.faults = 0 => acFaults = 0 /\ o.found = LoadDirectory(adminFile))
    BY <2>2, StoreOpened
  <2> HIDE DEF s, d, n
  <2>5. QED
    BY <2>1, <2>2, <2>3, <2>4 DEF SeedingsOK
<1>4. CASE ByEmail(d, e) # {}
  <2>1. userCount' = n /\ RewriteFile(s, o.faults)
    BY <1>1, <1>3, <1>4
  <2> HIDE DEF s, d, n
  <2>2. o.faults = 0 => Agrees(LastOf(s, o.found))
    BY <1>3
  <2>3. QED
    BY <1>2, <1>3, <2>1, <2>2, StoreWritten
<1>5. CASE ByEmail(d, e) = {}
  <2>1. userCount' = n + 1 /\ RewriteFile(Append(s, new), o.faults)
    BY <1>1, <1>5
  <2>0. n + 1 <= MaxUsers
    BY <1>1
  <2> HIDE DEF s, d, n
  <2>2. n + 1 \in Nat /\ n + 1 \in 1..MaxUsers /\ n <= n + 1 /\ userCount <= n + 1
    BY <1>2, <1>3, <2>0
  <2>3. "active" \in UserStatuses /\ {} \in SUBSET RoleNames
    BY DEF UserStatuses
  <2>4. Holds(d, n + 1)
    BY <1>3, <2>2, HoldsLonger
  <2>5. /\ Holds(new, n + 1) /\ DOMAIN new.users = DOMAIN d.users \cup {n + 1}
        /\ (\A v \in DOMAIN d.users : v # n + 1 => new.users[v] = d.users[v])
        /\ new.roles = d.roles
    BY <2>2, <2>3, <2>4, UserAdded
  <2> HIDE DEF new
  <2>6. ASSUME o.faults = 0 PROVE Agrees(new)
    <3>1. n + 1 \notin dismissed /\ \A r \in upToDate : n + 1 \notin DOMAIN desk[r].users
      <4>1. dismissed \subseteq 1..userCount /\ \A r \in upToDate : DOMAIN desk[r].users \subseteq 1..userCount
        BY DEF DirectoryInv, Holds
      <4>2. n + 1 \notin 1..userCount
        BY <1>3
      <4>3. QED
        BY <4>1, <4>2
    <3>2. Agrees(d)
      BY <1>3, <2>6
    <3>3. \A r \in upToDate : Knows(desk[r], new)
      BY <2>5, <3>1, <3>2 DEF Agrees, Knows
    <3>4. dismissed \cap DOMAIN new.users = {}
      BY <2>5, <3>1, <3>2 DEF Agrees
    <3>5. QED
      BY <3>3, <3>4 DEF Agrees
  <2>7. /\ Len(Append(s, new)) = Len(s) + 1 /\ LastOf(Append(s, new), o.found) = new /\ Append(s, new) # <<>>
        /\ \A i \in 1..Len(s) + 1 : Append(s, new)[i] = new \/ (i \in 1..Len(s) /\ Append(s, new)[i] = s[i])
    <3>1. \A i \in 1..Len(s) + 1 : i = Len(s) + 1 \/ i \in 1..Len(s)
      BY <1>3
    <3>2. Len(s) \in Nat /\ DOMAIN s = 1..Len(s)
      BY <1>3
    <3>3. /\ Len(Append(s, new)) = Len(s) + 1 /\ LastOf(Append(s, new), o.found) = new /\ Append(s, new) # <<>>
          /\ \A i \in 1..Len(s) : Append(s, new)[i] = s[i]
          /\ Append(s, new)[Len(s) + 1] = new
      BY <3>2, LastAppended
    <3>4. QED
      BY <3>1, <3>3
  <2>8. \A i \in 1..Len(s) + 1 : Holds(Append(s, new)[i], n + 1)
    <3>1. \A i \in 1..Len(s) : Holds(s[i], n + 1)
      BY <1>3, <2>2, HoldsLonger
    <3>2. QED
      BY <2>5, <2>7, <3>1
  <2> DEFINE dirs == Append(s, new)
  <2>9. Len(dirs) \in Nat /\ (dirs = <<>> <=> Len(dirs) = 0) /\ (\A i \in 1..Len(dirs) : Holds(dirs[i], n + 1))
        /\ LastOf(dirs, o.found) = new /\ RewriteFile(dirs, o.faults)
    BY <1>3, <2>1, <2>7, <2>8
  <2> HIDE DEF dirs
  <2>10. n + 1 <= MaxUsers /\ (o.faults = 0 => Agrees(LastOf(dirs, o.found)))
    BY <2>0, <2>6, <2>9
  <2>11. QED
    BY <1>2, <1>3, <2>1, <2>2, <2>9, <2>10, StoreWritten
<1>6. QED
  BY <1>4, <1>5

LEMMA LoginOK == ASSUME DirectoryInv, NEW r \in Servers, NEW e \in Emails, Login(r, e) PROVE DirectoryInv'
<1> DEFINE SeedsOf(o) == Seedings(o.found, userCount)
           D(o) == SeededFrom(o.found, userCount)
           N(o) == Born(o.found, userCount)
<1>1. PICK o \in Openings :
        /\ userCount' = N(o) /\ userCount' <= MaxUsers
        /\ RewriteFile(SeedsOf(o), o.faults) \/ RewriteFile(Append(SeedsOf(o), D(o)), o.faults)
  BY DEF Login
<1>2. MaxUsers \in Nat /\ UNCHANGED <<desk, dismissed, upToDate>>
  BY AccountsAssumption DEF Login
<1> DEFINE s == SeedsOf(o)
           d == D(o)
           n == N(o)
<1>3. /\ Len(s) \in Nat /\ DOMAIN s = 1..Len(s) /\ userCount \in Nat /\ n \in Nat /\ userCount <= n
      /\ (\A i \in 1..Len(s) : Holds(s[i], n)) /\ (s = <<>> <=> Len(s) = 0)
      /\ Holds(d, n) /\ (o.faults = 0 => Agrees(d)) /\ n <= MaxUsers /\ userCount' = n
      /\ o.faults \in Nat /\ (o.faults = 0 => acFaults = 0 /\ o.found = LoadDirectory(adminFile))
      /\ LastOf(s, o.found) = d
  <2>1. n \in Nat /\ n <= MaxUsers /\ userCount' = n
    BY <1>1, SeedingsLength DEF Born, DirectoryInv
  <2>3. SeedingsOK(s, o.found, userCount) /\ n = userCount + Len(s) /\ d = LastOf(s, o.found)
    BY <2>1, StoreOpened DEF Born, SeededFrom
  <2>4. /\ userCount \in Nat /\ userCount <= n /\ Holds(d, n) /\ (o.faults = 0 => Agrees(d))
        /\ o.faults \in Nat /\ (o.faults = 0 => acFaults = 0 /\ o.found = LoadDirectory(adminFile))
    BY <2>1, StoreOpened
  <2> HIDE DEF s, d, n
  <2>5. QED
    BY <2>1, <2>3, <2>4 DEF SeedingsOK
<1>4. RewriteFile(s, o.faults) \/ RewriteFile(Append(s, d), o.faults)
  BY <1>1
<1> HIDE DEF s, d, n
<1>5. CASE RewriteFile(s, o.faults)
  BY <1>2, <1>3, <1>5, StoreWritten
<1>6. CASE RewriteFile(Append(s, d), o.faults)
  <2> DEFINE dirs == Append(s, d)
  <2>1. /\ Len(dirs) = Len(s) + 1 /\ LastOf(dirs, o.found) = d /\ dirs # <<>>
        /\ \A i \in 1..Len(s) + 1 : dirs[i] = d \/ (i \in 1..Len(s) /\ dirs[i] = s[i])
    <3>1. \A i \in 1..Len(s) + 1 : i = Len(s) + 1 \/ i \in 1..Len(s)
      BY <1>3
    <3>2. QED
      BY <1>3, <3>1, LastAppended
  <2>2. RewriteFile(dirs, o.faults)
    BY <1>6
  <2> HIDE DEF dirs
  <2>3. Len(dirs) \in Nat /\ (dirs = <<>> <=> Len(dirs) = 0) /\ \A i \in 1..Len(dirs) : Holds(dirs[i], n)
    BY <1>3, <2>1
  <2>4. o.faults = 0 => Agrees(LastOf(dirs, o.found))
    BY <1>3, <2>1
  <2>5. QED
    BY <1>2, <1>3, <2>2, <2>3, <2>4, StoreWritten
<1>7. QED
  BY <1>4, <1>5, <1>6

LEMMA OpenDeskOK == ASSUME DirectoryInv, NEW r \in Servers, OpenDesk(r) PROVE DirectoryInv'
<1>1. PICK o \in Openings :
        /\ userCount' = Born(o.found, userCount) /\ userCount' <= MaxUsers
        /\ desk' = [desk EXCEPT ![r] = SeededFrom(o.found, userCount)]
        /\ RewriteFile(Seedings(o.found, userCount), o.faults)
  BY DEF OpenDesk
<1>2. desk[r] = NoDesk /\ upToDate' = upToDate \cup {r} /\ dismissed' = dismissed
  BY DEF OpenDesk
<1> DEFINE s == Seedings(o.found, userCount)
           d == SeededFrom(o.found, userCount)
           n == Born(o.found, userCount)
<1>3. /\ SeedingsOK(s, o.found, userCount) /\ n = userCount + Len(s) /\ d = LastOf(s, o.found)
      /\ n \in Nat /\ userCount \in Nat /\ userCount <= n /\ Holds(d, n) /\ n <= MaxUsers
      /\ o.faults \in Nat /\ (o.faults = 0 => acFaults = 0 /\ o.found = LoadDirectory(adminFile))
      /\ o.faults = 0 => Agrees(d)
  BY <1>1, StoreOpened DEF Born, SeededFrom
<1>4. userCount' = n /\ desk' = [desk EXCEPT ![r] = d] /\ RewriteFile(s, o.faults)
  BY <1>1
<1> HIDE DEF s, d, n
<1>5. /\ FileOK(adminFile', n) /\ acFaults' \in Nat
      /\ acFaults' = 0 => o.faults = 0 /\ LoadDirectory(adminFile') = LastOf(s, LoadDirectory(adminFile))
  <2>1. Len(s) \in Nat /\ (\A i \in 1..Len(s) : Holds(s[i], n)) /\ (s = <<>> <=> Len(s) = 0)
    BY <1>3 DEF SeedingsOK
  <2>2. FileOK(adminFile, userCount)
    BY DEF DirectoryInv
  <2>3. QED
    BY <1>3, <1>4, <2>1, <2>2, Rewritten
<1>6. d \in Directories /\ d # NoDesk
  BY <1>3, AccountsAssumption DEF Holds
<1>7. /\ desk' \in [Servers -> Directories \cup {NoDesk}] /\ desk'[r] = d
      /\ \A x \in Servers \ {r} : desk'[x] = desk[x]
  BY <1>4, <1>6 DEF DirectoryInv
<1>8. \A x \in Servers : desk'[x] # NoDesk => Holds(desk'[x], n)
  <2>1. SUFFICES ASSUME NEW x \in Servers, desk'[x] # NoDesk, x # r PROVE Holds(desk'[x], n)
    BY <1>3, <1>7
  <2>2. desk'[x] = desk[x] /\ Holds(desk[x], userCount)
    BY <1>7, <2>1 DEF DirectoryInv
  <2>3. QED
    BY <1>3, <2>2, HoldsLonger
<1>9. r \notin upToDate /\ upToDate \subseteq Servers
  BY <1>2 DEF DirectoryInv
<1>10. upToDate' \subseteq Servers /\ \A x \in upToDate' : desk'[x] # NoDesk
  BY <1>2, <1>6, <1>7, <1>9 DEF DirectoryInv
<1>11. acFaults' = 0 => Agrees(LoadDirectory(adminFile))'
  <2>1. SUFFICES ASSUME acFaults' = 0 PROVE Agrees(LoadDirectory(adminFile))'
    OBVIOUS
  <2>2. LoadDirectory(adminFile') = d /\ Agrees(d)
    BY <1>3, <1>5, <2>1
  <2>3. Knows(d, d)
    BY DEF Knows
  <2>4. \A x \in upToDate' : Knows(desk'[x], d)
    BY <1>2, <1>7, <1>9, <2>2, <2>3 DEF Agrees
  <2>5. QED
    BY <1>2, <2>2, <2>4 DEF Agrees
<1>12. dismissed' \subseteq 1..n /\ n \in 0..MaxUsers
  BY <1>2, <1>3, AccountsAssumption DEF DirectoryInv
<1>13. QED
  BY <1>4, <1>5, <1>7, <1>8, <1>10, <1>11, <1>12 DEF DirectoryInv, FileOK, Holds

LEMMA StopServerOK == ASSUME DirectoryInv, NEW r \in Servers, StopServer(r) PROVE DirectoryInv'
<1>1. /\ desk' = [desk EXCEPT ![r] = NoDesk] /\ upToDate' = upToDate \ {r}
      /\ UNCHANGED <<adminFile, userCount, dismissed, acFaults>>
  BY DEF StopServer
<1>2. /\ desk' \in [Servers -> Directories \cup {NoDesk}] /\ desk'[r] = NoDesk
      /\ \A x \in Servers \ {r} : desk'[x] = desk[x]
  BY <1>1 DEF DirectoryInv
<1>3. \A x \in Servers : desk'[x] # NoDesk => Holds(desk'[x], userCount)
  BY <1>2 DEF DirectoryInv
<1>4. upToDate' \subseteq Servers /\ \A x \in upToDate' : desk'[x] # NoDesk /\ desk'[x] = desk[x] /\ x \in upToDate
  BY <1>1, <1>2 DEF DirectoryInv
<1>5. acFaults' = 0 => Agrees(LoadDirectory(adminFile))'
  BY <1>1, <1>4 DEF Agrees, DirectoryInv
<1>6. QED
  BY <1>1, <1>2, <1>3, <1>4, <1>5 DEF DirectoryInv, FileOK, Holds

LEMMA DirectoryInvInit == AccountsInit => DirectoryInv
<1> SUFFICES ASSUME AccountsInit PROVE DirectoryInv
  OBVIOUS
<1>1. MaxUsers \in Nat /\ userCount = 0 /\ dismissed = {} /\ upToDate = {} /\ acFaults = 0
      /\ adminFile = Unreadable /\ desk = [s \in Servers |-> NoDesk]
  BY AccountsAssumption DEF AccountsInit
<1>2. Agrees(LoadDirectory(adminFile))
  BY <1>1 DEF Agrees
<1>3. QED
  BY <1>1, <1>2 DEF DirectoryInv, FileOK

LEMMA DirectoryInvStep == DirectoryInv /\ [AccountsNext]_accountVars => DirectoryInv'
<1> SUFFICES ASSUME DirectoryInv, [AccountsNext]_accountVars PROVE DirectoryInv'
  OBVIOUS
<1>1. ASSUME NEW s \in Servers, DeskRequest(s) PROVE DirectoryInv'
  <2>1. desk[s] # NoDesk
    BY <1>1 DEF DeskRequest
  <2>2. ASSUME ChangeSetting(s) PROVE DirectoryInv'
    <3>1. DeskChange(s, desk[s]) /\ userCount' = userCount
      BY <2>2 DEF ChangeSetting
    <3>2. desk[s] \in Directories /\ DOMAIN BuiltInGrants \subseteq DOMAIN desk[s].roles
      BY <2>1 DEF DirectoryInv, Holds
    <3>3. QED
      BY <2>1, <3>1, <3>2, DeskSteps
  <2>3. QED
    BY <1>1, <2>1, <2>2, CreateUserOK, UserSteps, DeleteUserOK, RoleSteps DEF DeskRequest
<1>2. ASSUME UNCHANGED directoryVars, acFaults' = acFaults PROVE DirectoryInv'
  BY <1>2 DEF directoryVars, DirectoryInv, Holds, FileOK, Agrees, Knows
<1>3. ASSUME NEW s \in Servers, Refresh(s) PROVE DirectoryInv'
  BY <1>2, <1>3 DEF Refresh
<1>4. CASE AccountsTick \/ UNCHANGED accountVars
  BY <1>2, <1>4 DEF AccountsTick, accountVars, directoryVars
<1>5. QED
  BY <1>1, <1>3, <1>4, SignupOK, LoginOK, OpenDeskOK, StopServerOK DEF AccountsNext

\* As long as no read or write fails or meets another's, the file has every
\* user as an administration that knows the last write of an administration
\* has him, the same roles, and nobody who was deleted, although signup,
\* login and the administrations of all workers write over each other's file
\* (AdminService and the stores over it): for any users, roles, faults and
\* restarts.
THEOREM DirectoriesAgree == AccountsSpec => []DirectoryAgrees
<1>1. DirectoryInv => DirectoryAgrees
  BY DEF DirectoryInv, Agrees, Knows, DirectoryAgrees
<1>2. QED
  BY <1>1, DirectoryInvInit, DirectoryInvStep, PTL DEF AccountsSpec

LEMMA SessionInvInit == AccountsInit => SessionInv
<1> SUFFICES ASSUME AccountsInit PROVE SessionInv
  OBVIOUS
<1>1. [e \in Emails |-> 0] \in [Emails -> 0..MaxAttempts] /\ IsFiniteSet({})
  BY AccountsAssumption, FS_EmptySet
<1>2. QED
  BY <1>1 DEF AccountsInit, SessionInv

\* Issuing a token.
LEMMA Issued ==
  ASSUME SessionInv, NEW count \in Nat, userCount <= count, NEW u \in 1..count, NEW r, Issue(u, r),
         userCount \in Nat, userCount' = count
  PROVE  IsFiniteSet(tokens') /\ \A t \in tokens' : t.sub \in 1..userCount' /\ t.serial \in 1..MaxTokens
<1> DEFINE t == [serial |-> Cardinality(tokens) + 1, sub |-> u, roles |-> r, expires |-> accountClock + TokenLife]
<1>1. Cardinality(tokens) < MaxTokens /\ tokens' = tokens \cup {t} /\ Cardinality(tokens) \in Nat
  BY FS_CardinalityType DEF Issue, SessionInv
<1>2. t.sub = u /\ t.serial \in 1..MaxTokens
  BY <1>1, AccountsAssumption
<1> HIDE DEF t
<1>3. IsFiniteSet(tokens')
  BY <1>1, FS_AddElement DEF SessionInv
<1>4. \A x \in 1..userCount : x \in 1..count
  OBVIOUS
<1>5. QED
  BY <1>1, <1>2, <1>3, <1>4 DEF SessionInv

\* More users do not invalidate tokens.
LEMMA SessionsStay ==
  ASSUME SessionInv, UNCHANGED sessionVars, userCount \in Nat, userCount' \in Nat, userCount <= userCount'
  PROVE  SessionInv'
<1>1. \A x \in 1..userCount : x \in 1..userCount'
  OBVIOUS
<1>2. QED
  BY <1>1 DEF SessionInv, sessionVars

LEMMA SessionInvStep == AccountsInv /\ [AccountsNext]_accountVars => SessionInv'
<1> SUFFICES ASSUME DirectoryInv, SessionInv, [AccountsNext]_accountVars PROVE SessionInv'
  BY DEF AccountsInv
<1>0. userCount \in Nat /\ MaxAttempts \in Nat /\ MaxAttempts # 0 /\ DirectoryInv' /\ userCount' \in Nat
  BY DirectoryInvStep, AccountsAssumption DEF DirectoryInv
<1>1. ASSUME NEW s \in Servers, DeskRequest(s) PROVE SessionInv'
  <2>1. ASSUME NEW d, DeskChange(s, d), userCount' \in {userCount, userCount + 1} PROVE SessionInv'
    BY <1>0, <2>1, SessionsStay DEF DeskChange
  <2>2. QED
    BY <1>1, <2>1 DEF DeskRequest, CreateUser, UpdateUser, DeleteUser, CreateRole, UpdatePermissions,
                      DeleteRole, GrantRole, RevokeRole, ChangeSetting
<1>2. ASSUME NEW d PROVE Born(d, userCount) \in Nat /\ userCount <= Born(d, userCount)
  BY <1>0, SeedingsLength DEF Born
<1>3. ASSUME NEW s \in Servers, OpenDesk(s) PROVE SessionInv'
  <2>1. \E d : userCount' = Born(d, userCount)
    BY <1>3 DEF OpenDesk
  <2>2. QED
    BY <1>0, <1>2, <1>3, <2>1, SessionsStay DEF OpenDesk
<1>4. ASSUME NEW e \in Emails, Signup(e) PROVE SessionInv'
  <2>1. PICK o \in Openings :
          LET u == Born(o.found, userCount) + 1
          IN  \/ userCount' = u - 1 /\ UNCHANGED tokens
              \/ userCount' = u /\ Issue(u, {"viewer"})
    BY <1>4 DEF Signup
  <2> DEFINE n == Born(o.found, userCount)
  <2>2. n \in Nat /\ userCount <= n
    BY <1>2
  <2>3. \/ userCount' = n /\ UNCHANGED tokens
        \/ userCount' = n + 1 /\ Issue(n + 1, {"viewer"})
    BY <2>1, <2>2
  <2> HIDE DEF n
  <2>4. UNCHANGED <<attempts, lockedUntil, revoked>>
    BY <1>4 DEF Signup
  <2>5. userCount <= userCount'
    BY <1>0, <2>2, <2>3
  <2>6. CASE userCount' = n /\ UNCHANGED tokens
    BY <1>0, <2>4, <2>5, <2>6, SessionsStay DEF sessionVars
  <2>7. CASE userCount' = n + 1 /\ Issue(n + 1, {"viewer"})
    <3>1. n + 1 \in 1..(n + 1)
      BY <2>2
    <3>2. IsFiniteSet(tokens') /\ \A t \in tokens' : t.sub \in 1..userCount' /\ t.serial \in 1..MaxTokens
      BY <1>0, <2>2, <2>5, <2>7, <3>1, Issued
    <3>3. QED
      BY <2>4, <3>2 DEF SessionInv
  <2>8. QED
    BY <2>3, <2>6, <2>7
<1>5. ASSUME NEW s \in Servers, NEW e \in Emails, Login(s, e) PROVE SessionInv'
  <2>1. PICK o \in Openings :
          /\ userCount' = Born(o.found, userCount) /\ userCount' <= MaxUsers
          /\ \/ RecordFailure(s, e) /\ UNCHANGED tokens
             \/ \E u \in ByEmail(SeededFrom(o.found, userCount), e) :
                  attempts' = [attempts EXCEPT ![s][e] = 0] /\ \E r : Issue(u, r)
    BY <1>5 DEF Login
  <2>2. revoked' = revoked /\ userCount <= userCount'
    BY <1>2, <1>5, <2>1 DEF Login
  <2>3. CASE RecordFailure(s, e) /\ UNCHANGED tokens
    <3>1. attempts' \in [Servers -> [Emails -> 0..MaxAttempts]]
      BY <1>0, <2>3 DEF RecordFailure, SessionInv
    <3>2. \A x \in 1..userCount : x \in 1..userCount'
      BY <1>0, <2>2
    <3>3. QED
      BY <2>2, <2>3, <3>1, <3>2 DEF SessionInv
  <2>4. ASSUME NEW u \in ByEmail(SeededFrom(o.found, userCount), e),
               attempts' = [attempts EXCEPT ![s][e] = 0], NEW r, Issue(u, r)
        PROVE SessionInv'
    <3>1. u \in 1..userCount'
      <4>1. Holds(SeededFrom(o.found, userCount), userCount')
        BY <2>1, StoreOpened
      <4>2. QED
        BY <4>1 DEF ByEmail, Holds
    <3>2. IsFiniteSet(tokens') /\ \A t \in tokens' : t.sub \in 1..userCount' /\ t.serial \in 1..MaxTokens
      BY <1>0, <2>2, <2>4, <3>1, Issued
    <3>3. attempts' \in [Servers -> [Emails -> 0..MaxAttempts]]
      BY <1>0, <2>4 DEF SessionInv
    <3>4. QED
      BY <2>2, <3>2, <3>3 DEF SessionInv
  <2>5. QED
    BY <2>1, <2>3, <2>4
<1>6. ASSUME NEW s \in Servers, Refresh(s) PROVE SessionInv'
  <2>1. PICK t \in tokens : revoked' = [revoked EXCEPT ![s] = @ \cup {t.serial}] /\ Issue(t.sub, t.roles)
    BY <1>6 DEF Refresh
  <2>2. userCount' = userCount /\ attempts' = attempts /\ t.sub \in 1..userCount /\ t.serial \in 1..MaxTokens
    BY <1>6 DEF Refresh, directoryVars, SessionInv
  <2>3. IsFiniteSet(tokens') /\ \A x \in tokens' : x.sub \in 1..userCount' /\ x.serial \in 1..MaxTokens
    BY <1>0, <2>1, <2>2, Issued
  <2>4. revoked' \in [Servers -> SUBSET (1..MaxTokens)]
    BY <2>1, <2>2 DEF SessionInv
  <2>5. QED
    BY <2>2, <2>3, <2>4 DEF SessionInv
<1>7. ASSUME NEW s \in Servers, StopServer(s) PROVE SessionInv'
  <2>1. UNCHANGED <<tokens, userCount>> /\ revoked' = [revoked EXCEPT ![s] = {}]
        /\ attempts' = [attempts EXCEPT ![s] = [e \in Emails |-> 0]]
    BY <1>7 DEF StopServer
  <2>2. [e \in Emails |-> 0] \in [Emails -> 0..MaxAttempts]
    BY <1>0
  <2>3. attempts' \in [Servers -> [Emails -> 0..MaxAttempts]] /\ revoked' \in [Servers -> SUBSET (1..MaxTokens)]
    BY <2>1, <2>2 DEF SessionInv
  <2>4. QED
    BY <2>1, <2>3 DEF SessionInv
<1>8. CASE AccountsTick \/ UNCHANGED accountVars
  BY <1>0, <1>8, SessionsStay DEF AccountsTick, accountVars, directoryVars, sessionVars
<1>9. QED
  BY <1>1, <1>3, <1>4, <1>5, <1>6, <1>7, <1>8 DEF AccountsNext

\* Type correctness of directories, tokens, failures and lockouts.
THEOREM AccountsTypeCorrect == AccountsSpec => []AccountsTypeOK
<1>1. AccountsInit => AccountsInv
  BY DirectoryInvInit, SessionInvInit DEF AccountsInv
<1>2. AccountsInv /\ [AccountsNext]_accountVars => AccountsInv'
  BY DirectoryInvStep, SessionInvStep DEF AccountsInv
<1>3. AccountsInv => AccountsTypeOK
  <2>1. ASSUME NEW d, Holds(d, userCount) PROVE IsDirectory(d)
    BY <2>1, DirectoryParts DEF Holds, IsDirectory
  <2>2. QED
    BY <2>1 DEF AccountsInv, DirectoryInv, SessionInv, FileOK, AccountsTypeOK
<1>4. QED
  BY <1>1, <1>2, <1>3, PTL DEF AccountsSpec

-----------------------------------------------------------------------------
(* The parts side by side.                                                   *)

\* A step of one part leaves the variables of the others as they are.
LEMMA PartsStep ==
  ASSUME [CaseworkNext]_caseworkVars
  PROVE  /\ [WorkflowNext]_workflowVars /\ [ChainNext]_chainVars
         /\ [SurveillanceNext]_surveillanceVars /\ [AlertingNext]_alertingVars
         /\ [GovernanceNext]_governanceVars /\ [AccountsNext]_accountVars
<1>1. CASE Moves("workflow") /\ WorkflowNext
  BY <1>1 DEF Moves
<1>2. CASE Moves("chain") /\ ChainNext
  BY <1>2 DEF Moves
<1>3. CASE Moves("surveillance") /\ SurveillanceNext
  BY <1>3 DEF Moves
<1>4. CASE Moves("alerting") /\ AlertingNext
  BY <1>4 DEF Moves
<1>5. CASE Moves("governance") /\ GovernanceNext
  BY <1>5 DEF Moves
<1>6. CASE Moves("accounts") /\ AccountsNext
  BY <1>6 DEF Moves
<1>7. CASE UNCHANGED caseworkVars
  BY <1>7 DEF caseworkVars
<1> QED
  BY <1>1, <1>2, <1>3, <1>4, <1>5, <1>6, <1>7 DEF CaseworkNext

\* Side by side, each part behaves as it does alone, so that what is proved
\* of a part alone holds where all of them are started: main.py wires the
\* monitoring, the compliance chain, the workflows, the alerts, the register
\* and the accounts into one application, and none writes another's store.
THEOREM PartsAsAlone ==
  CaseworkSpec => /\ WorkflowSpec /\ ChainSpec /\ SurveillanceSpec
                  /\ AlertingSpec /\ GovernanceSpec /\ AccountsSpec
<1>1. CaseworkInit => /\ WorkflowInit /\ ChainInit /\ SurveillanceInit
                      /\ AlertingInit /\ GovernanceInit /\ AccountsInit
  BY DEF CaseworkInit
<1>2. [CaseworkNext]_caseworkVars =>
        /\ [WorkflowNext]_workflowVars /\ [ChainNext]_chainVars
        /\ [SurveillanceNext]_surveillanceVars /\ [AlertingNext]_alertingVars
        /\ [GovernanceNext]_governanceVars /\ [AccountsNext]_accountVars
  BY PartsStep
<1> QED
  BY <1>1, <1>2, PTL DEF CaseworkSpec, WorkflowSpec, ChainSpec, SurveillanceSpec,
                         AlertingSpec, GovernanceSpec, AccountsSpec

\* Whichever parts move, all of them keep their types: CaseworkTypesOK asks
\* it of the part that "focus" names.
THEOREM CaseworkTypesCorrect == CaseworkSpec => []CaseworkTypesOK
<1>1. /\ WorkflowTypeOK /\ ChainTypeOK /\ SurveillanceTypeOK
      /\ AlertingTypeOK /\ GovernanceTypeOK /\ AccountsTypeOK
      => CaseworkTypesOK
  BY DEF CaseworkTypesOK
<1> QED
  BY <1>1, PartsAsAlone, WorkflowTypeCorrect, ChainTypeCorrect, SurveillanceTypeCorrect,
     AlertingTypeCorrect, GovernanceTypeCorrect, AccountsTypeCorrect, PTL

\* What is proved of each part holds of all side by side, whatever moves.
THEOREM CaseworkStaysSound ==
  CaseworkSpec => [](/\ CompletedCoversItsTasks /\ ProvenanceStays /\ SchedulersAsReported
                     /\ AnnouncedOnce /\ AlertsAccountable /\ NoUnguardedStart /\ DirectoryAgrees)
BY PartsAsAlone, CompletionSound, ProvenanceStaysTrue, SchedulersStayAsReported,
   NothingAnnouncedTwice, AlertsTrue, StartsGuarded, DirectoriesAgree, PTL

=============================================================================
