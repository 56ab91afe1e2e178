------------------------- MODULE TeamRuntimeProofs -------------------------
(* Safety of the team control plane for every team, task graph and bound.   *)
EXTENDS TeamRuntime, TLAPS, FiniteSetTheorems

\* The bounds are natural numbers, and there is a first job.
LEMMA BoundsAreNat == MaxRuns \in Nat /\ MaxRequests \in Nat /\ MaxJobs \in Nat /\ 1 \in Jobs
BY TeamAssumption DEF MaxJobs, Jobs

\* The initial control plane, as create_team leaves it, is well typed.
LEMMA InitTypeOK == Init => TypeOK
<1> SUFFICES ASSUME Init PROVE TypeOK
  OBVIOUS
<1> USE TeamAssumption, BoundsAreNat
<1>1. taskOwner \in [Tasks -> Agents \cup {NoAgent}]
  BY DEF Init
<1> QED
  BY <1>1 DEF Init, TypeOK, TeamStates, AgentStates, TaskStates, JobStates, Triggers, ArtStates,
             PcStates, LivePcs, Jobs, Runs

\* The rows of supervisor_jobs are well typed.
JobsTypeOK ==
  /\ jobStatus \in [Jobs -> JobStates] /\ jobTrigger \in [Jobs -> Triggers]
  /\ jobTask \in [Jobs -> Tasks \cup {NoTask}] /\ jobAttempt \in [Jobs -> Nat]
  /\ jobLease \in [Jobs -> BOOLEAN] /\ jobRun \in [Jobs -> 0..MaxRuns] /\ nJobs \in 0..MaxJobs

\* A new job keeps them so.
LEMMA EnqueueTypeOK ==
  ASSUME TypeOK, NEW trigger \in Triggers, NEW t \in Tasks \cup {NoTask}, Enqueue(trigger, t)
  PROVE  JobsTypeOK'
BY BoundsAreNat DEF TypeOK, Enqueue, JobsTypeOK, Jobs, JobStates

\* Every request of a user keeps the types.
LEMMA UserRequestTypeOK == TypeOK /\ UserRequest => TypeOK'
<1> SUFFICES ASSUME TypeOK, UserRequest PROVE TypeOK'
  OBVIOUS
<1> USE TeamAssumption, BoundsAreNat DEF TypeOK, TeamStates, AgentStates, TaskStates, JobStates,
        Triggers, storeVars, runVars, procVars, taskVars, jobVars, artVars
<1>1. CASE Pause BY <1>1 DEF Pause
<1>2. CASE Resume BY <1>2 DEF Resume
<1>3. CASE Cancel BY <1>3 DEF Cancel
<1>4. CASE UserMessage BY <1>4 DEF UserMessage, Enqueue, Jobs
<1>5. ASSUME NEW t \in Tasks, NEW o \in Agents \cup {NoAgent}, CreateTask(t, o) PROVE TypeOK'
  BY SMTT(30), <1>5 DEF CreateTask, Enqueue, Jobs
<1> QED BY <1>1, <1>2, <1>3, <1>4, <1>5 DEF UserRequest

\* The records of the coroutines are well typed.
RunsTypeOK ==
  /\ pc \in [Runs -> PcStates] /\ kind \in [Runs -> {"none", "worker", "supervisor"}]
  /\ runTask \in [Runs -> Tasks \cup {NoTask}] /\ runJob \in [Runs -> 0..MaxJobs]
  /\ runAgent \in [Runs -> Agents \cup {NoAgent}] /\ bundle \in [Runs -> SUBSET Runs]
  /\ nRuns \in 0..MaxRuns

\* A new run keeps them so.
LEMMA BeginTypeOK ==
  ASSUME TypeOK, NEW r \in Runs, NEW k \in {"worker", "supervisor"},
         NEW a \in Agents \cup {NoAgent}, NEW t \in Tasks \cup {NoTask}, NEW j \in 0..MaxJobs,
         Begin(r, k, a, t, j)
  PROVE  RunsTypeOK'
BY TeamAssumption DEF TypeOK, Begin, RunsTypeOK, Runs, PcStates

\* So does the scheduler.
LEMMA SchedulerTypeOK == TypeOK /\ Scheduler => TypeOK'
<1> SUFFICES ASSUME TypeOK, Scheduler PROVE TypeOK'
  OBVIOUS
<1> USE TeamAssumption, BoundsAreNat DEF TypeOK, storeVars, runVars, procVars, taskVars, jobVars, artVars
<1>1. CASE ClaimSupervisorJob
  <2>1. PICK j \in Jobs :
          /\ jobStatus' = [jobStatus EXCEPT ![j] = "running"]
          /\ jobAttempt' = [jobAttempt EXCEPT ![j] = @ + 1]
          /\ jobLease' = [jobLease EXCEPT ![j] = TRUE]
          /\ jobRun' = [jobRun EXCEPT ![j] = nRuns + 1]
          /\ agent' = [agent EXCEPT ![Sup] = "busy"]
          /\ Begin(nRuns + 1, "supervisor", Sup, NoTask, j)
    BY <1>1 DEF ClaimSupervisorJob
  <2>2. nRuns + 1 \in Runs BY <1>1 DEF ClaimSupervisorJob, Runs
  <2>3. RunsTypeOK'
    <3>1. j \in 0..MaxJobs BY DEF Jobs
    <3>2. TypeOK OBVIOUS
    <3>3. Begin(nRuns + 1, "supervisor", Sup, NoTask, j) BY <2>1
    <3>4. Sup \in Agents \cup {NoAgent} /\ NoTask \in Tasks \cup {NoTask} OBVIOUS
    <3> HIDE DEF TypeOK
    <3> QED BY ONLY <2>2, <3>1, <3>2, <3>3, <3>4, BeginTypeOK
  <2>4. JobsTypeOK'
    BY <1>1, <2>1, <2>2 DEF ClaimSupervisorJob, JobsTypeOK, Runs, JobStates
  <2> QED BY <1>1, <2>1, <2>3, <2>4 DEF ClaimSupervisorJob, RunsTypeOK, JobsTypeOK, AgentStates
<1>2. ASSUME NEW t \in Tasks, ClaimNextTask(t) PROVE TypeOK'
  <2>1. nRuns + 1 \in Runs BY <1>2 DEF ClaimNextTask, Runs
  <2>2. /\ taskStatus' \in [Tasks -> TaskStates] /\ taskAttempt' \in [Tasks -> Nat]
        /\ taskLease' \in [Tasks -> BOOLEAN]
    BY <1>2 DEF ClaimNextTask, TaskStates
  <2>3. taskRun' = [taskRun EXCEPT ![t] = nRuns + 1] /\ nRuns + 1 \in 0..MaxRuns
    BY <1>2 DEF ClaimNextTask
  <2>4. agent' \in [Agents -> AgentStates]
    BY <1>2 DEF ClaimNextTask, AgentStates
  <2>5. Begin(nRuns + 1, "worker", taskOwner[t], t, 0) /\ taskOwner[t] \in Agents \cup {NoAgent}
    BY <1>2 DEF ClaimNextTask
  <2> QED BY <1>2, <2>1, <2>2, <2>3, <2>4, <2>5, BeginTypeOK DEF ClaimNextTask, RunsTypeOK
<1>3. ASSUME NEW r \in Runs, Spawn(r) PROVE TypeOK'
  BY <1>3 DEF Spawn, Goto, PcStates, LivePcs
<1> QED BY <1>1, <1>2, <1>3 DEF Scheduler

\* So does every step of a worker coroutine.
LEMMA WorkerStepTypeOK ==
  ASSUME NEW r \in Runs, TypeOK, WorkerStep(r)
  PROVE  TypeOK'
<1> USE TeamAssumption, BoundsAreNat DEF TypeOK, storeVars, runVars, procVars, taskVars, jobVars, artVars,
        Goto, PcStates, LivePcs, TaskStates, AgentStates
<1>1. CASE Submit(r)
  <2>1. /\ artifact' \in [Runs -> ArtStates] /\ taskStatus' \in [Tasks -> TaskStates]
        /\ taskLease' \in [Tasks -> BOOLEAN] /\ agent' \in [Agents -> AgentStates]
        /\ pc' \in [Runs -> PcStates]
    BY <1>1 DEF Submit, ArtStates
  <2>2. Enqueue("task.submitted", runTask[r]) /\ runTask[r] \in Tasks \cup {NoTask}
    BY <1>1 DEF Submit
  <2>3. JobsTypeOK' BY <2>2, EnqueueTypeOK DEF Triggers
  <2> QED BY <1>1, <2>1, <2>3 DEF Submit, JobsTypeOK
<1>2. CASE Settle(r) BY <1>2 DEF Settle
<1>3. CASE FailTask(r)
  <2>1. /\ taskStatus' \in [Tasks -> TaskStates] /\ taskLease' \in [Tasks -> BOOLEAN]
        /\ agent' \in [Agents -> AgentStates] /\ pc' \in [Runs -> PcStates]
    BY <1>3 DEF FailTask
  <2>2. UNCHANGED jobVars \/ Enqueue("notice", NoTask)
    BY <1>3 DEF FailTask
  <2>3. JobsTypeOK' BY <2>2, EnqueueTypeOK DEF JobsTypeOK, Triggers
  <2> QED BY <1>3, <2>1, <2>3 DEF FailTask, JobsTypeOK
<1>4. CASE InterruptTask(r)
  <2>1. taskAttempt' \in [Tasks -> Nat] /\ taskRun' \in [Tasks -> 0..MaxRuns]
    BY SMTT(30), <1>4 DEF InterruptTask
  <2>2. taskStatus' \in [Tasks -> TaskStates] /\ taskLease' \in [Tasks -> BOOLEAN]
    BY <1>4 DEF InterruptTask
  <2>3. agent' \in [Agents -> AgentStates] /\ pc' \in [Runs -> PcStates]
    BY <1>4 DEF InterruptTask
  <2> QED BY <1>4, <2>1, <2>2, <2>3 DEF InterruptTask
<1>5. CASE CleanupFails(r) BY <1>5 DEF CleanupFails
<1>6. CASE HoldTask(r) BY <1>6 DEF HoldTask, Interrupted, AgentWaits, LeaseReleased
<1> QED BY <1>1, <1>2, <1>3, <1>4, <1>5, <1>6 DEF WorkerStep

\* So does every step of a supervisor coroutine.
LEMMA SupervisorStepTypeOK ==
  ASSUME NEW r \in Runs, TypeOK, SupervisorStep(r)
  PROVE  TypeOK'
<1> USE TeamAssumption, BoundsAreNat DEF TypeOK, storeVars, runVars, procVars, taskVars, jobVars, artVars,
        Goto, PcStates, LivePcs, JobStates, AgentStates, TeamStates
<1>1. CASE Decide(r)
  <2>0. PICK acc \in SUBSET {t \in Tasks : taskStatus[t] = "submitted"},
             rev \in SUBSET {t \in Tasks : taskStatus[t] = "submitted"},
             new \in SUBSET {t \in Tasks : taskStatus[t] = "absent"},
             asg \in SUBSET Tasks, fin \in BOOLEAN :
          \E art \in [acc -> Runs], own \in [new \cup asg -> Agents] :
            Apply(r, acc, art, rev, new, asg, own, fin)
    BY <1>1, Zenon DEF Decide
  <2>1. PICK art \in [acc -> Runs], own \in [new \cup asg -> Agents] :
          Apply(r, acc, art, rev, new, asg, own, fin)
    BY <2>0
  <2>2. taskStatus' \in [Tasks -> TaskStates] BY <2>1 DEF Apply, TaskStates
  <2>3. taskOwner' \in [Tasks -> Agents \cup {NoAgent}] BY <2>1 DEF Apply
  <2>4. artifact' \in [Runs -> ArtStates] BY <2>1 DEF Apply, ArtStates
  <2>5. bundle' \in [Runs -> SUBSET Runs]
    <3>1. Staged(r, acc, art) \subseteq Runs BY DEF Staged
    <3> QED BY <2>1, <3>1 DEF Apply
  <2>6. taskRun' \in [Tasks -> 0..MaxRuns] BY <2>1 DEF Apply
  <2>7. /\ jobStatus' \in [Jobs -> JobStates] /\ jobLease' \in [Jobs -> BOOLEAN]
        /\ agent' \in [Agents -> AgentStates] /\ pc' \in [Runs -> PcStates] /\ team' \in TeamStates
    BY <2>1 DEF Apply
  <2>8. UNCHANGED <<taskAttempt, taskLease, jobTrigger, jobTask, jobAttempt, jobRun, nJobs,
                    published, undone, kind, runTask, runJob, runAgent, nRuns, up, stops, requests>>
    BY <2>1 DEF Apply
  <2>9. taskAttempt' \in [Tasks -> Nat] /\ taskLease' \in [Tasks -> BOOLEAN]
        /\ runJob' \in [Runs -> 0..MaxJobs]
    BY <2>8
  <2> QED BY <2>2, <2>3, <2>4, <2>5, <2>6, <2>7, <2>8, <2>9
<1>2. CASE Publish(r) BY <1>2 DEF Publish
<1>3. CASE FailSupervisorJob(r)
  <2> DEFINE j == runJob[r]
  <2>1. jobStatus' \in [Jobs -> JobStates]
    <3>1. CASE jobStatus[j] = "running" BY <1>3, <3>1 DEF FailSupervisorJob
    <3>2. CASE jobStatus[j] # "running" BY <1>3, <3>2 DEF FailSupervisorJob
    <3> QED BY <3>1, <3>2
  <2>2. jobLease' \in [Jobs -> BOOLEAN] /\ agent' \in [Agents -> AgentStates]
    BY <1>3 DEF FailSupervisorJob
  <2> QED BY <1>3, <2>1, <2>2 DEF FailSupervisorJob, TeamAfterFailure
<1>4. CASE InterruptSupervisorJob(r)
  <2>1. jobAttempt' \in [Jobs -> Nat] /\ jobRun' \in [Jobs -> 0..MaxRuns]
    <3> DEFINE j == runJob[r]
    <3>1. CASE jobStatus[j] = "running" BY <1>4, <3>1 DEF InterruptSupervisorJob
    <3>2. CASE jobStatus[j] # "running" BY <1>4, <3>2 DEF InterruptSupervisorJob
    <3> QED BY <3>1, <3>2
  <2>2. jobStatus' \in [Jobs -> JobStates] /\ jobLease' \in [Jobs -> BOOLEAN]
    <3> DEFINE j == runJob[r]
    <3>1. CASE jobStatus[j] = "running"
      <4>1. /\ jobStatus' = [jobStatus EXCEPT ![j] = "pending"]
            /\ jobLease' = [jobLease EXCEPT ![j] = FALSE]
        BY <1>4, <3>1 DEF InterruptSupervisorJob
      <4> QED BY <4>1
    <3>2. CASE jobStatus[j] # "running" BY <1>4, <3>2 DEF InterruptSupervisorJob
    <3> QED BY <3>1, <3>2
  <2>3. agent' \in [Agents -> AgentStates] /\ pc' \in [Runs -> PcStates]
    BY <1>4 DEF InterruptSupervisorJob
  <2> QED BY <1>4, <2>1, <2>2, <2>3 DEF InterruptSupervisorJob
<1>5. CASE HoldSupervisor(r) BY <1>5 DEF HoldSupervisor, Interrupted, AgentWaits, LeaseReleased
<1> QED BY <1>1, <1>2, <1>3, <1>4, <1>5 DEF SupervisorStep

\* So do the steps workers and supervisors share.
LEMMA RunStepTypeOK ==
  ASSUME NEW r \in Runs, TypeOK, RunStep(r)
  PROVE  TypeOK'
<1> USE TeamAssumption, BoundsAreNat DEF TypeOK, storeVars, runVars, procVars, taskVars, jobVars, artVars,
        Goto, PcStates, LivePcs
<1>1. CASE Start(r) BY <1>1 DEF Start
<1>2. CASE RunFails(r) BY <1>2 DEF RunFails
<1> QED BY <1>1, <1>2, WorkerStepTypeOK, SupervisorStepTypeOK DEF RunStep

\* So do shutdown, crash and start.
LEMMA ProcessTypeOK == TypeOK /\ Process => TypeOK'
<1> SUFFICES ASSUME TypeOK, Process PROVE TypeOK'
  OBVIOUS
<1> USE TeamAssumption, BoundsAreNat DEF TypeOK, storeVars, runVars, procVars, taskVars, jobVars, artVars,
        PcStates, LivePcs
<1>1. CASE Stop BY <1>1 DEF Stop
<1>2. CASE Stopped BY <1>2 DEF Stopped
<1>3. CASE Crash BY <1>3 DEF Crash
<1>4. ASSUME NEW T \in SUBSET Tasks, NEW J \in SUBSET Jobs, Restart(T, J) PROVE TypeOK'
  <2>1. taskStatus' \in [Tasks -> TaskStates] /\ jobStatus' \in [Jobs -> JobStates]
    BY <1>4 DEF Restart, Requeued, TaskStates, JobStates
  <2>2. taskRun' \in [Tasks -> 0..MaxRuns] /\ jobRun' \in [Jobs -> 0..MaxRuns]
    BY <1>4 DEF Restart
  <2>3. taskLease' \in [Tasks -> BOOLEAN]
    BY <1>4 DEF Restart
  <2>4. jobLease' \in [Jobs -> BOOLEAN]
    BY <1>4 DEF Restart
  <2>5. agent' \in [Agents -> AgentStates]
    BY <1>4 DEF Restart, AgentStates
  <2>6. published' \subseteq Runs
    BY <1>4 DEF Restart
  <2> QED BY <1>4, <2>1, <2>2, <2>3, <2>4, <2>5, <2>6 DEF Restart
<1> QED BY <1>1, <1>2, <1>3, <1>4 DEF Process, ActiveTasks

\* Every step keeps the types.
LEMMA TypeStep == TypeOK /\ [Next]_vars => TypeOK'
<1> SUFFICES ASSUME TypeOK, [Next]_vars PROVE TypeOK'
  OBVIOUS
<1>1. CASE UNCHANGED vars
  BY <1>1 DEF TypeOK, vars, storeVars, runVars, procVars, taskVars, jobVars, artVars
<1> QED BY <1>1, UserRequestTypeOK, SchedulerTypeOK, RunStepTypeOK, ProcessTypeOK DEF Next

\* Every reachable control plane is well typed.
THEOREM TypeCorrect == Spec => []TypeOK
BY InitTypeOK, TypeStep, PTL DEF Spec

-----------------------------------------------------------------------------
(* What a step may do to the jobs.                                         *)

\* Rows the table does not hold yet are absent.
JobsInOrder == \A j \in Jobs : j > nJobs => jobStatus[j] = "absent"

\* The actions that touch no job.
LEMMA JobsUnchanged ==
  ASSUME \/ Pause \/ Stop \/ Stopped \/ Crash \/ UNCHANGED vars
         \/ \E t \in Tasks : ClaimNextTask(t)
         \/ \E r \in Runs : Spawn(r) \/ Start(r) \/ RunFails(r) \/ Settle(r) \/ InterruptTask(r)
                            \/ CleanupFails(r) \/ Publish(r) \/ HoldTask(r)
  PROVE  UNCHANGED jobVars
BY DEF Pause, Stop, Stopped, Crash, vars, ClaimNextTask, Spawn, Start, RunFails, Settle, InterruptTask,
       CleanupFails, Publish, HoldTask, Interrupted, AgentWaits, storeVars

\* What a decision of run r that accepts acc, sends rev back, creates new and
\* assigns asg does to the tasks.
Outcome(r, acc, rev, new, asg) ==
  /\ \A t \in acc \cup rev : taskStatus[t] = "submitted"
  /\ \A t \in new : taskStatus[t] = "absent"
  /\ \A t \in asg : taskStatus[t] \in {"pending", "failed"} \/ t \in rev
  /\ jobTrigger[runJob[r]] = "task.submitted" => jobTask[runJob[r]] \in acc \cup rev
  /\ taskStatus' = [t \in Tasks |-> CASE t \in acc -> "completed"
                                   [] t \in rev \cup new \cup asg -> "pending"
                                   [] OTHER -> taskStatus[t]]

\* A decision moves every task it names out of review, its own job's first.
LEMMA DecideFacts ==
  ASSUME NEW r, Decide(r)
  PROVE  /\ jobStatus[runJob[r]] = "running" /\ jobStatus' = [jobStatus EXCEPT ![runJob[r]] = "completed"]
         /\ jobLease' = [jobLease EXCEPT ![runJob[r]] = FALSE] /\ UNCHANGED <<jobTrigger, jobTask, nJobs>>
         /\ UNCHANGED <<taskLease, kind, runTask, runJob, nRuns>> /\ pc[r] = "streaming" /\ pc' = [pc EXCEPT ![r] = "publishing"]
         /\ team' \in {team, "completed"}
         /\ \E acc, rev, new, asg \in SUBSET Tasks : Outcome(r, acc, rev, new, asg)
<1>0. PICK acc \in SUBSET {t \in Tasks : taskStatus[t] = "submitted"},
           rev \in SUBSET {t \in Tasks : taskStatus[t] = "submitted"},
           new \in SUBSET {t \in Tasks : taskStatus[t] = "absent"},
           asg \in SUBSET Tasks, fin \in BOOLEAN :
        \E art \in [acc -> Runs], own \in [new \cup asg -> Agents] :
          Apply(r, acc, art, rev, new, asg, own, fin)
  BY Zenon DEF Decide
<1>1. PICK art \in [acc -> Runs], own \in [new \cup asg -> Agents] :
        Apply(r, acc, art, rev, new, asg, own, fin)
  BY <1>0
<1>2. acc \in SUBSET Tasks /\ rev \in SUBSET Tasks /\ new \in SUBSET Tasks /\ asg \in SUBSET Tasks
  OBVIOUS
<1>3. pc[r] = "streaming"
  BY DEF Decide
<1>4. /\ \A t \in acc \cup rev : taskStatus[t] = "submitted"
      /\ \A t \in new : taskStatus[t] = "absent"
  OBVIOUS
<1>5. /\ \A t \in asg : taskStatus[t] \in {"pending", "failed"} \/ t \in rev
      /\ jobTrigger[runJob[r]] = "task.submitted" => jobTask[runJob[r]] \in acc \cup rev
  BY <1>1 DEF Apply, Assignable, Reviewed
<1>6. taskStatus' = [t \in Tasks |-> CASE t \in acc -> "completed"
                                    [] t \in rev \cup new \cup asg -> "pending"
                                    [] OTHER -> taskStatus[t]]
  BY <1>1 DEF Apply
<1>7. Outcome(r, acc, rev, new, asg)
  BY <1>4, <1>5, <1>6 DEF Outcome
<1>8. \E a, v, n, g \in SUBSET Tasks : Outcome(r, a, v, n, g)
  BY ONLY <1>2, <1>7, Zenon
<1> QED BY <1>1, <1>3, <1>8 DEF Apply

\* Jobs are numbered in the order they are queued.
LEMMA JobsInOrderStep == TypeOK /\ JobsInOrder /\ [Next]_vars => JobsInOrder'
<1> SUFFICES ASSUME TypeOK, JobsInOrder, [Next]_vars PROVE JobsInOrder'
  OBVIOUS
<1> USE BoundsAreNat DEF TypeOK, JobsInOrder, jobVars
<1>0. CASE UNCHANGED jobVars BY <1>0
<1>1. CASE Resume BY <1>1 DEF Resume
<1>2. CASE Cancel BY <1>2 DEF Cancel
<1>3. ASSUME NEW trigger, NEW t, Enqueue(trigger, t) PROVE JobsInOrder'
  BY <1>3 DEF Enqueue, Jobs
<1>4. CASE ClaimSupervisorJob BY <1>4 DEF ClaimSupervisorJob
<1>5. ASSUME NEW r \in Runs, FailTask(r) PROVE JobsInOrder'
  BY <1>0, <1>3, <1>5 DEF FailTask
<1>6. ASSUME NEW r \in Runs, Decide(r) PROVE JobsInOrder'
  BY <1>6, DecideFacts
<1>7. ASSUME NEW r \in Runs, FailSupervisorJob(r) PROVE JobsInOrder'
  BY <1>7 DEF FailSupervisorJob, TeamAfterFailure
<1>8. ASSUME NEW r \in Runs, InterruptSupervisorJob(r) PROVE JobsInOrder'
  BY <1>8 DEF InterruptSupervisorJob
<1>9. ASSUME NEW T, NEW J, Restart(T, J) PROVE JobsInOrder'
  BY <1>9 DEF Restart
<1>10. ASSUME NEW r \in Runs, HoldSupervisor(r) PROVE JobsInOrder'
  BY <1>10 DEF HoldSupervisor, Interrupted, AgentWaits
<1> QED
  BY <1>0, <1>1, <1>2, <1>3, <1>4, <1>5, <1>6, <1>7, <1>8, <1>9, <1>10, JobsUnchanged
  DEF Next, UserRequest, Scheduler, RunStep, WorkerStep, SupervisorStep, Process, CreateTask, UserMessage, Submit

-----------------------------------------------------------------------------
\* A submission is never lost from review, whatever users, failures, stops and
\* restarts do: some task.submitted job for it is open or failed.
THEOREM ReviewNeverLost == Spec => []ReviewPending
<1> DEFINE Inv == TypeOK /\ JobsInOrder /\ ReviewPending
<1>1. Init => Inv
  <2> SUFFICES ASSUME Init PROVE JobsInOrder /\ ReviewPending
    BY InitTypeOK
  <2>1. JobsInOrder BY BoundsAreNat DEF Init, JobsInOrder, Jobs
  <2>2. ReviewPending BY DEF Init, ReviewPending
  <2> QED BY <2>1, <2>2
<1>2. Inv /\ [Next]_vars => ReviewPending'
  <2> SUFFICES ASSUME TypeOK, JobsInOrder, ReviewPending, [Next]_vars PROVE ReviewPending'
    OBVIOUS
  <2> USE BoundsAreNat DEF TypeOK, ReviewPending, jobVars, taskVars
  <2>0. ASSUME UNCHANGED jobVars, \A t \in Tasks : taskStatus'[t] = "submitted" => taskStatus[t] = "submitted"
        PROVE ReviewPending'
    BY <2>0
  <2>1. CASE Pause \/ Stop \/ Stopped \/ Crash \/ UNCHANGED vars
    BY <2>0, <2>1, JobsUnchanged DEF Pause, Stop, Stopped, Crash, vars, storeVars
  <2>2. CASE Resume BY <2>2 DEF Resume
  <2>3. CASE Cancel BY <2>3 DEF Cancel, Cancellable
  <2>4. ASSUME NEW trigger, NEW u, Enqueue(trigger, u),
               \A t \in Tasks : taskStatus'[t] = "submitted" =>
                 taskStatus[t] = "submitted" \/ (trigger = "task.submitted" /\ t = u)
        PROVE ReviewPending'
    <3> SUFFICES ASSUME NEW t \in Tasks, taskStatus'[t] = "submitted"
                 PROVE \E j \in Jobs : /\ jobTrigger'[j] = "task.submitted" /\ jobTask'[j] = t
                                       /\ jobStatus'[j] \in {"pending", "running", "failed"}
      OBVIOUS
    <3>1. nJobs + 1 \in Jobs /\ jobStatus[nJobs + 1] = "absent"
      BY <2>4 DEF Enqueue, JobsInOrder, Jobs
    <3>2. CASE taskStatus[t] = "submitted"
      <4>1. PICK j \in Jobs : /\ jobTrigger[j] = "task.submitted" /\ jobTask[j] = t
                             /\ jobStatus[j] \in {"pending", "running", "failed"}
        BY <3>2
      <4> QED BY <2>4, <3>1, <4>1 DEF Enqueue
    <3>3. CASE trigger = "task.submitted" /\ t = u
      BY <2>4, <3>1, <3>3 DEF Enqueue
    <3> QED BY <2>4, <3>2, <3>3
  <2>5. CASE UserMessage BY <2>4, <2>5 DEF UserMessage
  <2>6. ASSUME NEW t \in Tasks, NEW o \in Agents \cup {NoAgent}, CreateTask(t, o) PROVE ReviewPending'
    BY <2>4, <2>6 DEF CreateTask
  <2>7. CASE ClaimSupervisorJob BY <2>7 DEF ClaimSupervisorJob
  <2>8. ASSUME NEW t \in Tasks, ClaimNextTask(t) PROVE ReviewPending'
    BY <2>0, <2>8 DEF ClaimNextTask
  <2>9. ASSUME NEW r \in Runs, \/ Spawn(r) \/ Start(r) \/ RunFails(r) \/ Settle(r)
                               \/ CleanupFails(r) \/ Publish(r) \/ HoldTask(r)
        PROVE ReviewPending'
    BY <2>0, <2>9 DEF Spawn, Start, RunFails, Settle, CleanupFails, Publish, HoldTask, Interrupted, AgentWaits, storeVars
  <2>10. ASSUME NEW r \in Runs, Submit(r) PROVE ReviewPending'
    BY <2>4, <2>10 DEF Submit
  <2>11. ASSUME NEW r \in Runs, FailTask(r) PROVE ReviewPending'
    BY <2>0, <2>4, <2>11 DEF FailTask
  <2>12. ASSUME NEW r \in Runs, InterruptTask(r) PROVE ReviewPending'
    BY <2>0, <2>12 DEF InterruptTask
  <2>13. ASSUME NEW r \in Runs, Decide(r) PROVE ReviewPending'
    <3> SUFFICES ASSUME NEW t \in Tasks, taskStatus'[t] = "submitted"
                 PROVE \E j \in Jobs : /\ jobTrigger'[j] = "task.submitted" /\ jobTask'[j] = t
                                       /\ jobStatus'[j] \in {"pending", "running", "failed"}
      OBVIOUS
    <3>1. taskStatus[t] = "submitted" /\ (jobTrigger[runJob[r]] = "task.submitted" => jobTask[runJob[r]] # t)
      <4>1. PICK acc, rev, add, asg \in SUBSET Tasks : Outcome(r, acc, rev, add, asg)
        BY <2>13, DecideFacts, Zenon
      <4> QED BY <4>1 DEF Outcome
    <3>2. PICK j \in Jobs : /\ jobTrigger[j] = "task.submitted" /\ jobTask[j] = t
                            /\ jobStatus[j] \in {"pending", "running", "failed"}
      BY <3>1
    <3> QED BY <2>13, <3>1, <3>2, DecideFacts
  <2>14. ASSUME NEW r \in Runs, FailSupervisorJob(r) PROVE ReviewPending'
    BY <2>14 DEF FailSupervisorJob, TeamAfterFailure
  <2>15. ASSUME NEW r \in Runs, InterruptSupervisorJob(r) PROVE ReviewPending'
    BY <2>15 DEF InterruptSupervisorJob
  <2>16. ASSUME NEW T, NEW J, Restart(T, J) PROVE ReviewPending'
    BY <2>16 DEF Restart, Requeued
  <2>17. ASSUME NEW r \in Runs, HoldSupervisor(r) PROVE ReviewPending'
    BY <2>17 DEF HoldSupervisor, Interrupted, AgentWaits
  <2> QED
    BY <2>1, <2>2, <2>3, <2>5, <2>6, <2>7, <2>8, <2>9, <2>10, <2>11, <2>12, <2>13, <2>14, <2>15, <2>16, <2>17
    DEF Next, UserRequest, Scheduler, RunStep, WorkerStep, SupervisorStep, Process
<1>3. Inv /\ [Next]_vars => Inv'
  BY <1>2, JobsInOrderStep, TypeStep
<1> QED BY <1>1, <1>3, PTL DEF Spec
-----------------------------------------------------------------------------
(* Leases and held attempts.                                               *)

\* Coroutines are numbered in the order they are created.
RunsInOrder == \A r \in Runs : r > nRuns => pc[r] = "unused"

\* A run that waits for an approval stays what it is.
HeldStays ==
  \A r \in Runs : pc[r] = "held" =>
    pc'[r] = "held" /\ kind'[r] = kind[r] /\ runTask'[r] = runTask[r] /\ runJob'[r] = runJob[r]

\* No step takes up a run that is over or reuses its number.
LEMMA RunsStep == TypeOK /\ RunsInOrder /\ [Next]_vars => RunsInOrder' /\ HeldStays
<1> SUFFICES ASSUME TypeOK, RunsInOrder, [Next]_vars PROVE RunsInOrder' /\ HeldStays
  OBVIOUS
<1> USE BoundsAreNat DEF TypeOK, RunsInOrder, HeldStays
<1>1. ASSUME UNCHANGED runVars PROVE RunsInOrder' /\ HeldStays
  BY <1>1 DEF runVars
<1>2. ASSUME NEW r \in Runs, NEW place, Goto(r, place), pc[r] \notin {"unused", "held"}
      PROVE  RunsInOrder' /\ HeldStays
  BY <1>2 DEF Goto
<1>3. CASE UserRequest \/ Stopped \/ UNCHANGED vars
  BY <1>1, <1>3 DEF UserRequest, Pause, Resume, Cancel, UserMessage, CreateTask, Stopped, vars
<1>4. CASE Stop BY <1>4 DEF Stop
<1>5. CASE Crash BY <1>5 DEF Crash
<1>6. ASSUME NEW T, NEW J, Restart(T, J) PROVE RunsInOrder' /\ HeldStays
  BY <1>1, <1>6 DEF Restart
<1>7. ASSUME NEW k, NEW a, NEW t, NEW j, Begin(nRuns + 1, k, a, t, j), nRuns < MaxRuns
      PROVE  RunsInOrder' /\ HeldStays
  BY <1>7 DEF Begin, Runs
<1>8. CASE ClaimSupervisorJob BY <1>7, <1>8 DEF ClaimSupervisorJob
<1>9. ASSUME NEW t \in Tasks, ClaimNextTask(t) PROVE RunsInOrder' /\ HeldStays
  BY <1>7, <1>9 DEF ClaimNextTask
<1>10. ASSUME NEW r \in Runs, Start(r) PROVE RunsInOrder' /\ HeldStays
  BY <1>10 DEF Start
<1>11. ASSUME NEW r \in Runs, Decide(r) PROVE RunsInOrder' /\ HeldStays
  BY <1>11, DecideFacts
<1>12. ASSUME NEW r \in Runs, Publish(r) PROVE RunsInOrder' /\ HeldStays
  BY <1>1, <1>2, <1>12 DEF Publish
<1>13. ASSUME NEW r \in Runs, Spawn(r) \/ RunFails(r) \/ WorkerStep(r) PROVE RunsInOrder' /\ HeldStays
  BY <1>2, <1>13 DEF Spawn, RunFails, WorkerStep, Submit, Settle, FailTask, InterruptTask, CleanupFails, HoldTask, Interrupted, AgentWaits
<1>14. ASSUME NEW r \in Runs, FailSupervisorJob(r) \/ InterruptSupervisorJob(r) \/ HoldSupervisor(r)
       PROVE  RunsInOrder' /\ HeldStays
  BY <1>2, <1>14 DEF FailSupervisorJob, InterruptSupervisorJob, HoldSupervisor, Interrupted, AgentWaits
<1> QED
  BY <1>3, <1>4, <1>5, <1>6, <1>8, <1>9, <1>10, <1>11, <1>12, <1>13, <1>14
  DEF Next, Scheduler, RunStep, SupervisorStep, Process

\* Recovery, which looks for running rows with a lease, finds all but those whose run
\* waits for an approval, and no row that is not running is leased.
THEOREM LeasesMarkRunning == Spec => []LeasedUnlessHeld
<1> DEFINE Inv == TypeOK /\ JobsInOrder /\ RunsInOrder /\ LeasedUnlessHeld
<1>1. Init => Inv
  <2> SUFFICES ASSUME Init PROVE JobsInOrder /\ RunsInOrder /\ LeasedUnlessHeld
    BY InitTypeOK
  <2>1. JobsInOrder /\ RunsInOrder BY BoundsAreNat DEF Init, JobsInOrder, RunsInOrder, Jobs
  <2>2. LeasedUnlessHeld BY DEF Init, LeasedUnlessHeld
  <2> QED BY <2>1, <2>2
<1>2. Inv /\ [Next]_vars => LeasedUnlessHeld'
  <2> SUFFICES ASSUME TypeOK, JobsInOrder, RunsInOrder, LeasedUnlessHeld, [Next]_vars PROVE LeasedUnlessHeld'
    OBVIOUS
  <2>0. /\ \A t \in Tasks : HeldTask(t) => HeldTask(t)'
        /\ \A j \in Jobs : HeldJob(j) => HeldJob(j)'
    BY RunsStep DEF HeldStays, HeldTask, HeldJob, Worker
  <2> DEFINE TasksLeased == \A t \in Tasks : /\ taskLease[t] => taskStatus[t] = "running"
                                             /\ taskStatus[t] = "running" => taskLease[t] \/ HeldTask(t)
             JobsLeased == \A j \in Jobs : /\ jobLease[j] => jobStatus[j] = "running"
                                           /\ jobStatus[j] = "running" => jobLease[j] \/ HeldJob(j)
  <2> USE BoundsAreNat, <2>0 DEF TypeOK, LeasedUnlessHeld
  <2>1. ASSUME UNCHANGED <<taskStatus, taskLease, jobStatus, jobLease>> PROVE LeasedUnlessHeld'
    BY <2>1
  <2>2. CASE Pause \/ Stop \/ Stopped \/ Crash \/ UNCHANGED vars
    BY <2>1, <2>2 DEF Pause, Stop, Stopped, Crash, vars, storeVars, taskVars, jobVars
  <2>3. CASE Resume BY <2>3 DEF Resume, jobVars, taskVars
  <2>4. CASE Cancel BY <2>4 DEF Cancel, Cancellable
  <2>5. ASSUME NEW trigger, NEW u, Enqueue(trigger, u) PROVE JobsLeased'
    BY <2>5 DEF Enqueue, JobsInOrder, Jobs
  <2>6. CASE UserMessage BY <2>5, <2>6 DEF UserMessage, taskVars
  <2>7. ASSUME NEW t \in Tasks, NEW o \in Agents \cup {NoAgent}, CreateTask(t, o) PROVE LeasedUnlessHeld'
    BY <2>5, <2>7 DEF CreateTask
  <2>8. CASE ClaimSupervisorJob BY <2>8 DEF ClaimSupervisorJob, taskVars
  <2>9. ASSUME NEW t \in Tasks, ClaimNextTask(t) PROVE LeasedUnlessHeld'
    BY <2>9 DEF ClaimNextTask, jobVars
  <2>10. ASSUME NEW r \in Runs, Spawn(r) \/ Start(r) \/ RunFails(r) \/ Settle(r) \/ CleanupFails(r) \/ Publish(r)
         PROVE LeasedUnlessHeld'
    BY <2>1, <2>10 DEF Spawn, Start, RunFails, Settle, CleanupFails, Publish, storeVars, taskVars, jobVars
  <2>11. ASSUME NEW r \in Runs, Submit(r) PROVE LeasedUnlessHeld'
    BY <2>5, <2>11 DEF Submit
  <2>12. ASSUME NEW r \in Runs, FailTask(r) PROVE LeasedUnlessHeld'
    <3>1. TasksLeased' BY <2>12 DEF FailTask
    <3>2. JobsLeased' BY <2>5, <2>12 DEF FailTask, jobVars
    <3> QED BY <3>1, <3>2
  <2>13. ASSUME NEW r \in Runs, InterruptTask(r) PROVE LeasedUnlessHeld'
    BY <2>13 DEF InterruptTask, jobVars
  <2>14. ASSUME NEW r \in Runs, Decide(r) PROVE LeasedUnlessHeld'
    <3>1. PICK acc, rev, add, asg \in SUBSET Tasks : Outcome(r, acc, rev, add, asg)
      BY <2>14, DecideFacts, Zenon
    <3>2. TasksLeased' BY <2>14, <3>1, DecideFacts DEF Outcome
    <3>3. JobsLeased' BY <2>14, DecideFacts
    <3> QED BY <3>2, <3>3
  <2>15. ASSUME NEW r \in Runs, FailSupervisorJob(r) PROVE LeasedUnlessHeld'
    BY <2>15 DEF FailSupervisorJob, TeamAfterFailure, taskVars
  <2>16. ASSUME NEW r \in Runs, InterruptSupervisorJob(r) PROVE LeasedUnlessHeld'
    BY <2>16 DEF InterruptSupervisorJob, taskVars
  <2>17. ASSUME NEW T, NEW J, Restart(T, J) PROVE LeasedUnlessHeld'
    BY <2>17 DEF Restart, Requeued
  <2>18. ASSUME NEW r \in Runs, HoldTask(r) PROVE LeasedUnlessHeld'
    <3>1. \A t \in Tasks : t = runTask[r] => HeldTask(t)' BY <2>18 DEF HoldTask, Interrupted, AgentWaits, HeldTask, Worker, Goto
    <3>2. UNCHANGED <<taskStatus, jobStatus, jobLease>> BY <2>18 DEF HoldTask, Interrupted, AgentWaits, jobVars
    <3>3. /\ \A t \in Tasks : taskLease'[t] => taskLease[t]
          /\ \A t \in Tasks : t # runTask[r] => (taskLease'[t] <=> taskLease[t])
      BY <2>18 DEF HoldTask, Interrupted, AgentWaits, LeaseReleased
    <3>4. TasksLeased'
      <4> SUFFICES ASSUME NEW t \in Tasks
                   PROVE  /\ taskLease'[t] => taskStatus'[t] = "running"
                          /\ taskStatus'[t] = "running" => taskLease'[t] \/ HeldTask(t)'
        OBVIOUS
      <4>1. taskStatus'[t] = taskStatus[t] BY <3>2
      <4>2. /\ taskLease[t] => taskStatus[t] = "running"
            /\ taskStatus[t] = "running" => taskLease[t] \/ HeldTask(t)
        OBVIOUS
      <4>3. HeldTask(t) => HeldTask(t)' OBVIOUS
      <4> QED BY ONLY <3>1, <3>3, <4>1, <4>2, <4>3, t \in Tasks, Zenon
    <3>5. JobsLeased' BY <3>2
    <3> QED BY <3>4, <3>5
  <2>19. ASSUME NEW r \in Runs, HoldSupervisor(r) PROVE LeasedUnlessHeld'
    <3>1. \A j \in Jobs : j = runJob[r] => HeldJob(j)' BY <2>19 DEF HoldSupervisor, Interrupted, AgentWaits, HeldJob, Goto
    <3>2. UNCHANGED <<taskStatus, taskLease, jobStatus>> BY <2>19 DEF HoldSupervisor, Interrupted, AgentWaits, taskVars
    <3>3. /\ \A j \in Jobs : jobLease'[j] => jobLease[j]
          /\ \A j \in Jobs : j # runJob[r] => (jobLease'[j] <=> jobLease[j])
      BY <2>19 DEF HoldSupervisor, Interrupted, AgentWaits, LeaseReleased
    <3>4. JobsLeased'
      <4> SUFFICES ASSUME NEW j \in Jobs
                   PROVE  /\ jobLease'[j] => jobStatus'[j] = "running"
                          /\ jobStatus'[j] = "running" => jobLease'[j] \/ HeldJob(j)'
        OBVIOUS
      <4>1. jobStatus'[j] = jobStatus[j] BY <3>2
      <4>2. /\ jobLease[j] => jobStatus[j] = "running"
            /\ jobStatus[j] = "running" => jobLease[j] \/ HeldJob(j)
        OBVIOUS
      <4>3. HeldJob(j) => HeldJob(j)' OBVIOUS
      <4> QED BY ONLY <3>1, <3>3, <4>1, <4>2, <4>3, j \in Jobs, Zenon
    <3>5. TasksLeased' BY <3>2
    <3> QED BY <3>4, <3>5
  <2> QED
    BY <2>2, <2>3, <2>4, <2>6, <2>7, <2>8, <2>9, <2>10, <2>11, <2>12, <2>13, <2>14, <2>15, <2>16, <2>17, <2>18, <2>19
    DEF Next, UserRequest, Scheduler, RunStep, WorkerStep, SupervisorStep, Process
<1>3. Inv /\ [Next]_vars => Inv'
  BY <1>2, JobsInOrderStep, RunsStep, TypeStep
<1> QED BY <1>1, <1>3, PTL DEF Spec

-----------------------------------------------------------------------------
(* The control plane is single-threaded.                                   *)

\* A new team has no supervisor at work and no failed job.
LEMMA InitSingleControl == Init => SingleControl
BY DEF Init, SingleControl, Engaged, Failed, Live, LivePcs

\* A step that starts no supervisor, fails no job and does not set the team
\* running disturbs nothing.
LEMMA QuietStep ==
  ASSUME SingleControl, \A r \in Runs : Engaged(r)' => Engaged(r), Failed' \subseteq Failed,
         team' = "running" => team = "running"
  PROVE  SingleControl'
BY DEF SingleControl

\* Every step keeps the control plane single-threaded.
LEMMA SingleControlStep == TypeOK /\ SingleControl /\ [Next]_vars => SingleControl'
<1> SUFFICES ASSUME TypeOK, SingleControl, [Next]_vars PROVE SingleControl'
  OBVIOUS
<1> DEFINE NoneEngages == \A r \in Runs : Engaged(r)' => Engaged(r)
<1> USE BoundsAreNat DEF TypeOK
<1>1. ASSUME UNCHANGED runVars PROVE NoneEngages
  BY <1>1 DEF Engaged, Live, runVars
<1>2. ASSUME NEW trigger, NEW u, Enqueue(trigger, u) PROVE Failed' \subseteq Failed
  BY <1>2 DEF Enqueue, Failed, Jobs
<1>3. ASSUME UNCHANGED jobVars PROVE Failed' = Failed
  BY <1>3 DEF Failed, jobVars
<1>4. ASSUME NEW r \in Runs, NEW place, Goto(r, place), Live(r) \/ pc[r] = "claimed" PROVE NoneEngages
  BY <1>4 DEF Goto, Engaged, Live
<1>5. CASE Pause \/ Stopped \/ UNCHANGED vars
  <2>1. NoneEngages BY <1>1, <1>5 DEF Pause, Stopped, vars
  <2>2. Failed' = Failed BY <1>3, <1>5, JobsUnchanged
  <2>3. team' = "running" => team = "running" BY <1>5 DEF Pause, Stopped, vars, storeVars
  <2> QED BY <2>1, <2>2, <2>3, QuietStep
<1>6. CASE Stop \/ Crash
  <2>1. NoneEngages BY <1>6 DEF Stop, Crash, Engaged, Live, LivePcs
  <2>2. Failed' = Failed BY <1>3, <1>6, JobsUnchanged
  <2>3. team' = team BY <1>6 DEF Stop, Crash, storeVars
  <2> QED BY <2>1, <2>2, <2>3, QuietStep
<1>7. CASE Resume
  <2>1. NoneEngages BY <1>1, <1>7 DEF Resume
  <2>2. Failed' = {}
    <3>1. CASE Failed = {} BY <1>3, <1>7, <3>1 DEF Resume, Failed
    <3>2. CASE Failed # {} BY <1>7, <3>2 DEF Resume, Failed, SingleControl
    <3> QED BY <3>1, <3>2
  <2> QED BY <2>1, <2>2 DEF SingleControl
<1>8. CASE Cancel
  <2>1. NoneEngages BY <1>1, <1>8 DEF Cancel
  <2>2. Failed' \subseteq Failed /\ team' # "running" BY <1>8 DEF Cancel, Failed
  <2> QED BY <2>1, <2>2, QuietStep
<1>9. CASE UserMessage
  BY <1>1, <1>2, <1>9, QuietStep DEF UserMessage
<1>10. ASSUME NEW t \in Tasks, NEW o \in Agents \cup {NoAgent}, CreateTask(t, o) PROVE SingleControl'
  BY <1>1, <1>2, <1>10, QuietStep DEF CreateTask
<1>11. CASE ClaimSupervisorJob
  <2>1. /\ \A r \in Runs : ~Engaged(r)
        /\ Failed = {}
    BY <1>11 DEF ClaimSupervisorJob, SchedulerIdle, SupervisorKeyTaken, SupervisorFree, Engaged, SingleControl
  <2>2. \A r \in Runs : Engaged(r)' => r = nRuns + 1
    BY <1>11, <2>1 DEF ClaimSupervisorJob, Begin, Engaged, Live, Runs
  <2>3. Failed' = {}
    BY <1>11, <2>1 DEF ClaimSupervisorJob, Failed
  <2> QED BY <2>2, <2>3 DEF SingleControl
<1>12. ASSUME NEW t \in Tasks, ClaimNextTask(t) PROVE SingleControl'
  <2>1. NoneEngages
    BY <1>12 DEF ClaimNextTask, Begin, Engaged, Live, Runs
  <2>2. Failed' = Failed /\ team' = team BY <1>3, <1>12 DEF ClaimNextTask
  <2> QED BY <2>1, <2>2, QuietStep
<1>13. ASSUME NEW r \in Runs, Spawn(r) \/ RunFails(r) \/ Settle(r) \/ CleanupFails(r) PROVE SingleControl'
  <2>1. NoneEngages
    BY <1>4, <1>13 DEF Spawn, RunFails, Settle, CleanupFails, Live, LivePcs
  <2>2. Failed' = Failed BY <1>3, <1>13, JobsUnchanged
  <2>3. team' = team BY <1>13 DEF Spawn, RunFails, Settle, CleanupFails, storeVars
  <2> QED BY <2>1, <2>2, <2>3, QuietStep
<1>14. ASSUME NEW r \in Runs, Start(r) \/ Publish(r) PROVE SingleControl'
  <2>1. NoneEngages
    <3>1. CASE Start(r) BY <3>1 DEF Start, Engaged, Live, LivePcs
    <3>2. CASE Publish(r) /\ bundle[r] \subseteq published
      BY <1>4, <3>2 DEF Publish, Live, LivePcs
    <3>3. CASE Publish(r) /\ ~(bundle[r] \subseteq published)
      BY <1>1, <3>3 DEF Publish
    <3> QED BY <1>14, <3>1, <3>2, <3>3
  <2>2. Failed' = Failed BY <1>3, <1>14, JobsUnchanged
  <2>3. team' = team BY <1>14 DEF Start, Publish, storeVars
  <2> QED BY <2>1, <2>2, <2>3, QuietStep
<1>15. ASSUME NEW r \in Runs, Submit(r) \/ FailTask(r) \/ InterruptTask(r) PROVE SingleControl'
  <2>1. NoneEngages
    BY <1>4, <1>15 DEF Submit, FailTask, InterruptTask, Live, LivePcs
  <2>2. Failed' \subseteq Failed BY <1>2, <1>3, <1>15 DEF Submit, FailTask, InterruptTask
  <2>3. team' = team BY <1>15 DEF Submit, FailTask, InterruptTask
  <2> QED BY <2>1, <2>2, <2>3, QuietStep
<1>16. ASSUME NEW r \in Runs, Decide(r) PROVE SingleControl'
  <2>1. NoneEngages BY <1>16, DecideFacts DEF Engaged, Live, LivePcs
  <2>2. Failed' \subseteq Failed BY <1>16, DecideFacts DEF Failed
  <2>3. team' = "running" => team = "running" BY <1>16, DecideFacts
  <2> QED BY <2>1, <2>2, <2>3, QuietStep
<1>17. ASSUME NEW r \in Runs, FailSupervisorJob(r) PROVE SingleControl'
  <2>1. Engaged(r) /\ NoneEngages /\ ~Engaged(r)'
    BY <1>4, <1>17 DEF FailSupervisorJob, TeamAfterFailure, Goto, Engaged, Live, LivePcs
  <2>2. Failed = {} /\ \A s \in Runs : ~Engaged(s)'
    BY <2>1 DEF SingleControl
  <2>3. \A i, j \in Failed' : i = j
    BY <1>17, <2>2 DEF FailSupervisorJob, TeamAfterFailure, Failed
  <2>4. team' = "running" => Failed' = {}
    BY <1>17, <2>2 DEF FailSupervisorJob, TeamAfterFailure, Failed
  <2> QED BY <2>2, <2>3, <2>4 DEF SingleControl
<1>18. ASSUME NEW r \in Runs, InterruptSupervisorJob(r) PROVE SingleControl'
  <2>1. NoneEngages
    BY <1>4, <1>18 DEF InterruptSupervisorJob, Live, LivePcs
  <2>2. Failed' \subseteq Failed /\ team' = team
    BY <1>18 DEF InterruptSupervisorJob, Failed
  <2> QED BY <2>1, <2>2, QuietStep
<1>19. ASSUME NEW T, NEW J, Restart(T, J) PROVE SingleControl'
  <2>1. NoneEngages BY <1>1, <1>19 DEF Restart
  <2>2. Failed' \subseteq Failed /\ team' = team
    BY <1>19 DEF Restart, Failed
  <2> QED BY <2>1, <2>2, QuietStep
<1>20. ASSUME NEW r \in Runs, HoldTask(r) \/ HoldSupervisor(r) PROVE SingleControl'
  <2>1. NoneEngages
    BY <1>4, <1>20 DEF HoldTask, Interrupted, AgentWaits, HoldSupervisor, Live, LivePcs
  <2>2. Failed' = Failed /\ team' = team
    BY <1>3, <1>20 DEF HoldTask, Interrupted, AgentWaits, HoldSupervisor, Failed
  <2> QED BY <2>1, <2>2, QuietStep
<1> QED
  BY <1>5, <1>6, <1>7, <1>8, <1>9, <1>10, <1>11, <1>12, <1>13, <1>14, <1>15, <1>16, <1>17, <1>18, <1>19, <1>20
  DEF Next, UserRequest, Scheduler, RunStep, WorkerStep, SupervisorStep, Process

\* At most one supervisor coroutine is at work, and a job that has used up its
\* attempts keeps the team stopped until the user resumes it.
THEOREM ControlIsSingle == Spec => []SingleControl
<1> DEFINE Inv == TypeOK /\ SingleControl
<1>1. Init => Inv
  BY InitTypeOK, InitSingleControl
<1>2. Inv /\ [Next]_vars => Inv'
  BY SingleControlStep, TypeStep
<1> QED BY <1>1, <1>2, PTL DEF Spec

-----------------------------------------------------------------------------
\* Only the scheduler sets a task running, and then none is in review: a
\* submission has a job, which is neither open, since the gate is clear, nor
\* failed, since the team runs.
THEOREM GateHolds == Spec => HardGate
<1> DEFINE Gate == \A t \in Tasks : taskStatus[t] # "running" /\ taskStatus'[t] = "running" =>
                     \A u \in Tasks : taskStatus[u] # "submitted"
<1>1. TypeOK /\ ReviewPending /\ SingleControl /\ [Next]_vars => [Gate]_vars
  <2> SUFFICES ASSUME TypeOK, ReviewPending, SingleControl, [Next]_vars PROVE Gate
    OBVIOUS
  <2> USE DEF TypeOK
  <2>1. ASSUME \A t \in Tasks : taskStatus'[t] = "running" => taskStatus[t] = "running" PROVE Gate
    BY <2>1
  <2>2. ASSUME NEW t \in Tasks, ClaimNextTask(t) PROVE Gate
    <3>1. Failed = {} /\ \A j \in Jobs : jobStatus[j] \notin {"pending", "running"}
      BY <2>2 DEF ClaimNextTask, SupervisorWork, SingleControl
    <3>2. \A u \in Tasks : taskStatus[u] # "submitted"
      BY <3>1 DEF Failed, ReviewPending
    <3> QED BY <3>2
  <2>3. CASE UserRequest
    BY <2>1, <2>3 DEF UserRequest, Pause, Resume, Cancel, UserMessage, CreateTask, taskVars
  <2>4. ASSUME NEW r \in Runs, Decide(r) PROVE Gate
    <3>1. PICK acc, rev, add, asg \in SUBSET Tasks : Outcome(r, acc, rev, add, asg)
      BY <2>4, DecideFacts, Zenon
    <3> QED BY <2>1, <3>1 DEF Outcome
  <2>5. ASSUME NEW r \in Runs, RunStep(r) \/ Spawn(r) PROVE Gate
    BY <2>1, <2>4, <2>5 DEF RunStep, WorkerStep, SupervisorStep, Spawn, Start, RunFails, Submit, Settle,
       FailTask, InterruptTask, CleanupFails, Publish, FailSupervisorJob, TeamAfterFailure, InterruptSupervisorJob,
       HoldTask, Interrupted, AgentWaits, HoldSupervisor, storeVars, taskVars
  <2>6. CASE ClaimSupervisorJob BY <2>1, <2>6 DEF ClaimSupervisorJob, taskVars
  <2>7. CASE Process \/ UNCHANGED vars
    BY <2>1, <2>7 DEF Process, Stop, Stopped, Crash, Restart, Requeued, vars, storeVars, taskVars
  <2> QED BY <2>2, <2>3, <2>5, <2>6, <2>7 DEF Next, Scheduler
<1> QED BY <1>1, TypeCorrect, ReviewNeverLost, ControlIsSingle, PTL DEF Spec, HardGate

-----------------------------------------------------------------------------
(* Whose task it is.                                                       *)

\* A worker that may still submit, or fail without having submitted.
Fenced(r) ==
  Worker(r) /\ (pc[r] \in {"claimed", "queued", "streaming"} \/ (pc[r] = "failing" /\ artifact[r] = "none"))

\* What is at work while the process is up, stops or is down.
ProcessSound ==
  /\ up = "up" => \A r \in Runs : pc[r] # "cancelling"
  /\ up = "stopping" => \A r \in Runs : pc[r] \in {"unused", "cancelling", "held", "done"}
  /\ up = "down" => \A r \in Runs : pc[r] \in {"unused", "held", "done"}

\* What a decision changes of the runs and their Artifacts: the place of its own run,
\* and only Artifacts that wait for review.
LEMMA DecideRuns ==
  ASSUME NEW r \in Runs, Decide(r), TypeOK
  PROVE  /\ kind[r] = "supervisor" /\ UNCHANGED <<runAgent, up, stops, requests>>
         /\ \A s \in Runs : artifact[s] # "pending_review" => artifact'[s] = artifact[s]
         /\ \A s \in Runs : artifact[s] = "pending_review" => artifact'[s] # "none"
         /\ \A s \in bundle[r] : ~Settling(s)
         /\ \A s \in Runs : s # r => bundle'[s] = bundle[s]
<1>0. PICK acc \in SUBSET {t \in Tasks : taskStatus[t] = "submitted"},
           rev \in SUBSET {t \in Tasks : taskStatus[t] = "submitted"},
           new \in SUBSET {t \in Tasks : taskStatus[t] = "absent"},
           asg \in SUBSET Tasks, fin \in BOOLEAN :
        \E art \in [acc -> Runs], own \in [new \cup asg -> Agents] :
          Apply(r, acc, art, rev, new, asg, own, fin)
  BY Zenon DEF Decide
<1>1. PICK art \in [acc -> Runs], own \in [new \cup asg -> Agents] :
        Apply(r, acc, art, rev, new, asg, own, fin)
  BY <1>0
<1>2. \A t \in acc : artifact[art[t]] = "pending_review"
  BY <1>1 DEF Apply, PendingReview
<1>3. \A s \in Runs : artifact'[s] # artifact[s] => artifact[s] = "pending_review" /\ artifact'[s] # "none"
  BY <1>1, <1>2 DEF Apply
<1>4. /\ kind[r] = "supervisor" /\ UNCHANGED <<runAgent, up, stops, requests>>
      /\ \A s \in bundle[r] : ~Settling(s)
      /\ \A s \in Runs : s # r => bundle'[s] = bundle[s]
  BY <1>1 DEF Apply, Decide, procVars, TypeOK
<1> QED BY <1>3, <1>4

\* The actions that touch no Artifact.
LEMMA ArtifactsUnchanged ==
  ASSUME [Next]_vars, \A r \in Runs : ~Submit(r) /\ ~Decide(r)
  PROVE  UNCHANGED artifact
BY DEF Next, vars, storeVars, artVars, UserRequest, Pause, Resume, Cancel, CreateTask, UserMessage,
       Scheduler, ClaimSupervisorJob, ClaimNextTask, Spawn, RunStep, Start, RunFails,
       WorkerStep, Settle, FailTask, InterruptTask, CleanupFails, HoldTask, 
       SupervisorStep, Publish, FailSupervisorJob, InterruptSupervisorJob, HoldSupervisor,
       Process, Stop, Stopped, Crash, Restart

\* Jobs are only ever added.
LEMMA JobsGrow == TypeOK /\ [Next]_vars => nJobs' >= nJobs
<1> SUFFICES ASSUME nJobs \in Nat, [Next]_vars PROVE nJobs' >= nJobs
  BY BoundsAreNat DEF TypeOK
<1>1. ASSUME UNCHANGED nJobs PROVE nJobs' >= nJobs
  BY <1>1
<1>2. ASSUME NEW trigger, NEW t, Enqueue(trigger, t) PROVE nJobs' >= nJobs
  BY <1>2 DEF Enqueue
<1>3. ASSUME NEW r \in Runs, Decide(r) PROVE nJobs' >= nJobs
  BY <1>1, <1>3, DecideFacts
<1> QED
  BY <1>1, <1>2, <1>3
  DEF Next, vars, storeVars, jobVars, UserRequest, Pause, Resume, Cancel, CreateTask, UserMessage,
      Scheduler, ClaimSupervisorJob, ClaimNextTask, Spawn, RunStep, Start, RunFails,
      WorkerStep, Submit, Settle, FailTask, InterruptTask, CleanupFails, HoldTask,
      SupervisorStep, Publish, FailSupervisorJob, InterruptSupervisorJob, HoldSupervisor,
      Process, Stop, Stopped, Crash, Restart

\* The places a single coroutine goes to.
LEMMA ProcessSoundStep == TypeOK /\ ProcessSound /\ [Next]_vars => ProcessSound'
<1> SUFFICES ASSUME pc \in [Runs -> PcStates], TypeOK, ProcessSound, [Next]_vars PROVE ProcessSound'
  BY DEF TypeOK
<1> USE DEF ProcessSound
<1>1. ASSUME UNCHANGED <<pc, up>> PROVE ProcessSound'
  BY <1>1
<1>2. ASSUME NEW r \in Runs, NEW place, pc' = [pc EXCEPT ![r] = place], UNCHANGED up,
             place = "done" \/ (place # "cancelling" /\ pc[r] \notin {"unused", "cancelling", "held", "done"})
      PROVE  ProcessSound'
  BY <1>2
<1>3. CASE UserRequest \/ UNCHANGED vars
  BY <1>1, <1>3 DEF UserRequest, Pause, Resume, Cancel, CreateTask, UserMessage, vars, runVars, procVars
<1>4. CASE Stop BY <1>4 DEF Stop, PcStates, LivePcs
<1>5. CASE Stopped BY <1>5 DEF Stopped, runVars, Live, LivePcs, PcStates
<1>6. CASE Crash BY <1>6 DEF Crash
<1>7. ASSUME NEW T, NEW J, Restart(T, J) PROVE ProcessSound'
  BY <1>7 DEF Restart, runVars
<1>8. CASE ClaimSupervisorJob
  BY <1>8 DEF ClaimSupervisorJob, SchedulerIdle, Begin, procVars
<1>9. ASSUME NEW t \in Tasks, ClaimNextTask(t) PROVE ProcessSound'
  BY <1>9 DEF ClaimNextTask, SchedulerIdle, Begin, procVars
<1>10. ASSUME NEW r \in Runs, Spawn(r) \/ Start(r) \/ RunFails(r) PROVE ProcessSound'
  BY <1>2, <1>10 DEF Spawn, Start, RunFails, Goto, procVars
<1>11. ASSUME NEW r \in Runs, WorkerStep(r) PROVE ProcessSound'
  BY <1>2, <1>11 DEF WorkerStep, Submit, Settle, FailTask, InterruptTask, CleanupFails, HoldTask,
                     Interrupted, Goto, procVars
<1>12. ASSUME NEW r \in Runs, Decide(r) PROVE ProcessSound'
  BY <1>2, <1>12, DecideFacts, DecideRuns
<1>13. ASSUME NEW r \in Runs, Publish(r) PROVE ProcessSound'
  BY <1>1, <1>2, <1>13 DEF Publish, Goto, procVars, runVars
<1>14. ASSUME NEW r \in Runs, FailSupervisorJob(r) \/ InterruptSupervisorJob(r) \/ HoldSupervisor(r)
       PROVE ProcessSound'
  BY <1>2, <1>14 DEF FailSupervisorJob, InterruptSupervisorJob, HoldSupervisor, Interrupted, Goto, procVars
<1> QED
  BY <1>3, <1>4, <1>5, <1>6, <1>7, <1>8, <1>9, <1>10, <1>11, <1>12, <1>13, <1>14
  DEF Next, Scheduler, RunStep, SupervisorStep, Process

\* What a run is about: a worker has a task and an agent and submits at most once, a
\* supervisor has a row of the table of jobs.
SoundRun(r) ==
  /\ Worker(r) => runTask[r] \in Tasks /\ runAgent[r] \in Agents
  /\ pc[r] \in {"unused", "claimed", "queued", "streaming"} => artifact[r] = "none"
  /\ pc[r] = "settling" => Worker(r) /\ artifact[r] # "none"
  /\ kind[r] = "supervisor" => runJob[r] \in Jobs /\ runJob[r] <= nJobs
  /\ kind[r] = "none" => pc[r] = "unused"
  /\ pc[r] = "publishing" => ~Worker(r)
RunsSound == \A r \in Runs : SoundRun(r)

\* Every step keeps the runs sound.
LEMMA RunsSoundStep == TypeOK /\ JobsInOrder /\ RunsInOrder /\ RunsSound /\ [Next]_vars => RunsSound'
<1> SUFFICES ASSUME TypeOK, JobsInOrder, RunsInOrder, RunsSound, [Next]_vars,
                    pc \in [Runs -> PcStates], kind \in [Runs -> {"none", "worker", "supervisor"}],
                    runTask \in [Runs -> Tasks \cup {NoTask}], runJob \in [Runs -> 0..MaxJobs],
                    runAgent \in [Runs -> Agents \cup {NoAgent}], artifact \in [Runs -> ArtStates],
                    nJobs \in Nat, nJobs' \in Nat, nJobs' >= nJobs, NEW s \in Runs
             PROVE  SoundRun(s)'
  BY BoundsAreNat, JobsGrow, TypeStep DEF TypeOK, RunsSound
<1>0. SoundRun(s) BY DEF RunsSound
<1> USE BoundsAreNat DEF SoundRun, Worker
<1>1. ASSUME UNCHANGED <<kind[s], runTask[s], runAgent[s], runJob[s], pc[s], artifact[s]>> PROVE SoundRun(s)'
  BY <1>0, <1>1 DEF Jobs
<1>2. ASSUME UNCHANGED <<kind, runTask, runAgent, runJob, artifact>>, NEW r \in Runs, NEW place,
             pc' = [pc EXCEPT ![r] = place], pc[r] # "unused", place \notin {"unused", "settling", "publishing"},
             place \in {"claimed", "queued", "streaming"} => pc[r] \in {"claimed", "queued", "streaming"}
      PROVE  SoundRun(s)'
  BY <1>0, <1>2 DEF Jobs
<1>3. CASE UserRequest \/ UNCHANGED vars \/ Stopped
  BY <1>1, <1>3 DEF UserRequest, Pause, Resume, Cancel, CreateTask, UserMessage, Stopped, vars, storeVars, artVars, runVars
<1>4. CASE Stop BY <1>0, <1>4 DEF Stop, PcStates, LivePcs, storeVars, artVars, Jobs
<1>6. CASE Crash BY <1>0, <1>6 DEF Crash, storeVars, artVars, Jobs
<1>7. ASSUME NEW T, NEW J, Restart(T, J) PROVE SoundRun(s)'
  BY <1>1, <1>7 DEF Restart, runVars
<1>8. CASE ClaimSupervisorJob
  <2>1. PICK j \in Jobs : jobStatus[j] = "pending" /\ Begin(nRuns + 1, "supervisor", Sup, NoTask, j)
    BY <1>8 DEF ClaimSupervisorJob
  <2>2. j <= nJobs BY <2>1 DEF JobsInOrder, Jobs
  <2>3. UNCHANGED artifact BY <1>8 DEF ClaimSupervisorJob, artVars
  <2>4. nRuns \in Nat BY DEF TypeOK
  <2>5. CASE s = nRuns + 1
    <3>1. pc[s] = "unused" BY <2>4, <2>5 DEF RunsInOrder
    <3> QED BY <1>0, <2>1, <2>2, <2>3, <2>5, <3>1 DEF Begin, Jobs
  <2>6. CASE s # nRuns + 1
    BY <1>1, <2>1, <2>3, <2>6 DEF Begin
  <2> QED BY <2>5, <2>6
<1>9. ASSUME NEW t \in Tasks, ClaimNextTask(t) PROVE SoundRun(s)'
  <2>1. Begin(nRuns + 1, "worker", taskOwner[t], t, 0) BY <1>9 DEF ClaimNextTask
  <2>2. taskOwner[t] \in Agents BY <1>9 DEF ClaimNextTask, OwnerFree, TypeOK
  <2>3. UNCHANGED artifact BY <1>9 DEF ClaimNextTask, artVars
  <2>4. nRuns \in Nat BY DEF TypeOK
  <2>5. CASE s = nRuns + 1
    <3>1. pc[s] = "unused" BY <2>4, <2>5 DEF RunsInOrder
    <3> QED BY <1>0, <2>1, <2>2, <2>3, <2>5, <3>1 DEF Begin
  <2>6. CASE s # nRuns + 1
    BY <1>1, <2>1, <2>3, <2>6 DEF Begin
  <2> QED BY <2>5, <2>6
<1>10. ASSUME NEW r \in Runs, Spawn(r) \/ Start(r) \/ RunFails(r) PROVE SoundRun(s)'
  BY <1>2, <1>10 DEF Spawn, Start, RunFails, Goto, storeVars, artVars
<1>11. ASSUME NEW r \in Runs, Submit(r) PROVE SoundRun(s)'
  BY <1>0, <1>11 DEF Submit, Goto, Jobs
<1>12. ASSUME NEW r \in Runs, Settle(r) \/ FailTask(r) \/ InterruptTask(r) \/ CleanupFails(r) \/ HoldTask(r)
       PROVE  SoundRun(s)'
  BY <1>2, <1>12 DEF Settle, FailTask, InterruptTask, CleanupFails, HoldTask, Interrupted, Goto, storeVars, artVars
<1>13. ASSUME NEW r \in Runs, Decide(r) PROVE SoundRun(s)'
  BY <1>0, <1>13, DecideFacts, DecideRuns
<1>14. ASSUME NEW r \in Runs, Publish(r) PROVE SoundRun(s)'
  BY <1>1, <1>2, <1>14 DEF Publish, Goto, runVars
<1>15. ASSUME NEW r \in Runs, FailSupervisorJob(r) \/ InterruptSupervisorJob(r) \/ HoldSupervisor(r)
       PROVE SoundRun(s)'
  BY <1>2, <1>15 DEF FailSupervisorJob, InterruptSupervisorJob, HoldSupervisor, Interrupted, Goto, artVars
<1> QED
  BY <1>3, <1>4, <1>6, <1>7, <1>8, <1>9, <1>10, <1>11, <1>12, <1>13, <1>14, <1>15
  DEF Next, Scheduler, RunStep, WorkerStep, SupervisorStep, Process

\* The worker that may still submit owns its task.
Owns(r) == Fenced(r) =>
  /\ taskStatus[runTask[r]] = "running" /\ taskRun[runTask[r]] = r
  /\ taskOwner[runTask[r]] = runAgent[r]
OwnTask == \A r \in Runs : Owns(r)
\* No worker takes up the task of a submission that is not settled.
SettlingApart == \A r, s \in Runs : Fenced(r) /\ Settling(s) => runTask[r] # runTask[s]

\* What a decision leaves of the tasks that are running or completed.
LEMMA DecideTasks ==
  ASSUME NEW r \in Runs, Decide(r), TypeOK, NEW t \in Tasks, taskStatus[t] \in {"running", "completed", "cancelled"}
  PROVE  taskStatus'[t] = taskStatus[t] /\ taskOwner'[t] = taskOwner[t] /\ taskRun'[t] = taskRun[t]
<1>0. PICK acc \in SUBSET {u \in Tasks : taskStatus[u] = "submitted"},
           rev \in SUBSET {u \in Tasks : taskStatus[u] = "submitted"},
           new \in SUBSET {u \in Tasks : taskStatus[u] = "absent"},
           asg \in SUBSET Tasks, fin \in BOOLEAN :
        \E art \in [acc -> Runs], own \in [new \cup asg -> Agents] :
          Apply(r, acc, art, rev, new, asg, own, fin)
  BY Zenon DEF Decide
<1>1. PICK art \in [acc -> Runs], own \in [new \cup asg -> Agents] :
        Apply(r, acc, art, rev, new, asg, own, fin)
  BY <1>0
<1>2. t \notin acc \cup rev \cup new
  OBVIOUS
<1>3. t \notin asg
  BY <1>1, <1>2 DEF Apply, Assignable
<1> QED BY <1>1, <1>2, <1>3 DEF Apply

\* Where a worker that may still submit comes from.
LEMMA FencedFrom ==
  ASSUME TypeOK, RunsSound, [Next]_vars, NEW s \in Runs, Fenced(s)'
  PROVE  \/ Fenced(s) /\ UNCHANGED <<runTask[s], runAgent[s]>>
         \/ \E t \in Tasks : ClaimNextTask(t) /\ s = nRuns + 1
<1> DEFINE From == Fenced(s) /\ UNCHANGED <<runTask[s], runAgent[s]>>
<1> USE DEF Fenced, Worker
<1>0. pc \in [Runs -> PcStates] /\ kind \in [Runs -> {"none", "worker", "supervisor"}] /\ SoundRun(s)
  BY DEF TypeOK, RunsSound
<1>1. ASSUME UNCHANGED <<kind[s], runTask[s], runAgent[s], pc[s], artifact[s]>> PROVE From BY <1>1
<1>2. ASSUME UNCHANGED <<kind, runTask, runAgent, artifact>>, NEW r \in Runs, NEW place, pc' = [pc EXCEPT ![r] = place],
             place # "claimed", place = "queued" => pc[r] = "claimed", place = "streaming" => pc[r] = "queued",
             place = "failing" => pc[r] \in {"streaming", "settling", "publishing"}
      PROVE  From
  BY <1>0, <1>2 DEF SoundRun
<1>3. CASE UserRequest \/ UNCHANGED vars \/ Stopped
  BY <1>1, <1>3 DEF UserRequest, Pause, Resume, Cancel, CreateTask, UserMessage, Stopped, vars, storeVars, artVars, runVars
<1>4. CASE Stop \/ Crash BY <1>0, <1>4 DEF Stop, Crash, PcStates, LivePcs
<1>5. ASSUME NEW T, NEW J, Restart(T, J) PROVE From
  BY <1>1, <1>5 DEF Restart, runVars
<1>6. CASE ClaimSupervisorJob
  <2>1. PICK j \in Jobs : Begin(nRuns + 1, "supervisor", Sup, NoTask, j)
    BY <1>6 DEF ClaimSupervisorJob
  <2>2. UNCHANGED artifact BY <1>6 DEF ClaimSupervisorJob, artVars
  <2> QED BY <1>0, <1>1, <2>1, <2>2 DEF Begin
<1>7. ASSUME NEW t \in Tasks, ClaimNextTask(t), s # nRuns + 1 PROVE From
  BY <1>1, <1>7 DEF ClaimNextTask, Begin, artVars
<1>8. ASSUME NEW r \in Runs, Spawn(r) \/ Start(r) \/ RunFails(r) PROVE From
  BY <1>2, <1>8 DEF Spawn, Start, RunFails, Goto, storeVars, artVars
<1>9. ASSUME NEW r \in Runs, Submit(r) PROVE From
  BY <1>0, <1>1, <1>9 DEF Submit, Goto
<1>10. ASSUME NEW r \in Runs, Settle(r) \/ FailTask(r) \/ InterruptTask(r) \/ CleanupFails(r) \/ HoldTask(r)
       PROVE  From
  BY <1>2, <1>10 DEF Settle, FailTask, InterruptTask, CleanupFails, HoldTask, Goto, storeVars, artVars
<1>11. ASSUME NEW r \in Runs, Decide(r) PROVE From
  <2>1. kind[r] = "supervisor" /\ UNCHANGED <<kind, runTask, runAgent>> /\ pc' = [pc EXCEPT ![r] = "publishing"]
    BY <1>11, DecideFacts, DecideRuns
  <2>2. artifact'[s] = "none" => artifact[s] = "none"
    BY <1>11, DecideRuns
  <2> QED BY <1>0, <2>1, <2>2
<1>12. ASSUME NEW r \in Runs, Publish(r) PROVE From
  BY <1>1, <1>2, <1>12 DEF Publish, Goto, runVars
<1>13. ASSUME NEW r \in Runs, FailSupervisorJob(r) \/ InterruptSupervisorJob(r) \/ HoldSupervisor(r)
       PROVE  From
  BY <1>2, <1>13 DEF FailSupervisorJob, InterruptSupervisorJob, HoldSupervisor, Goto, artVars
<1> QED
  BY <1>3, <1>4, <1>5, <1>6, <1>7, <1>8, <1>9, <1>10, <1>11, <1>12, <1>13
  DEF Next, Scheduler, RunStep, WorkerStep, SupervisorStep, Process

\* Where a submission that is not settled comes from.
LEMMA SettlingFrom ==
  ASSUME TypeOK, RunsSound, [Next]_vars, NEW s \in Runs, Settling(s)'
  PROVE  \/ Settling(s) /\ UNCHANGED <<runTask[s], kind[s]>>
         \/ Submit(s)
<1> DEFINE From == Settling(s) /\ UNCHANGED <<runTask[s], kind[s]>>
<1> USE DEF Settling, Worker
<1>0. pc \in [Runs -> PcStates] /\ kind \in [Runs -> {"none", "worker", "supervisor"}] /\ SoundRun(s)
  BY DEF TypeOK, RunsSound
<1>1. ASSUME UNCHANGED <<kind[s], runTask[s], pc[s], artifact[s]>> PROVE From BY <1>1
<1>2. ASSUME UNCHANGED <<kind, runTask, artifact>>, NEW r \in Runs, NEW place, pc' = [pc EXCEPT ![r] = place],
             place # "settling", place = "failing" => pc[r] \in {"streaming", "settling", "publishing"}
      PROVE  From
  BY <1>0, <1>2 DEF SoundRun
<1>3. CASE UserRequest \/ UNCHANGED vars \/ Stopped
  BY <1>1, <1>3 DEF UserRequest, Pause, Resume, Cancel, CreateTask, UserMessage, Stopped, vars, storeVars, artVars, runVars
<1>4. CASE Stop \/ Crash BY <1>0, <1>4 DEF Stop, Crash, PcStates, LivePcs
<1>5. ASSUME NEW T, NEW J, Restart(T, J) PROVE From
  BY <1>1, <1>5 DEF Restart, runVars
<1>6. CASE ClaimSupervisorJob
  <2>1. PICK j \in Jobs : Begin(nRuns + 1, "supervisor", Sup, NoTask, j)
    BY <1>6 DEF ClaimSupervisorJob
  <2>2. UNCHANGED artifact BY <1>6 DEF ClaimSupervisorJob, artVars
  <2> QED BY <1>0, <1>1, <2>1, <2>2 DEF Begin
<1>7. ASSUME NEW t \in Tasks, ClaimNextTask(t) PROVE From
  BY <1>0, <1>1, <1>7 DEF ClaimNextTask, Begin, artVars
<1>8. ASSUME NEW r \in Runs, Spawn(r) \/ Start(r) \/ RunFails(r) PROVE From
  BY <1>2, <1>8 DEF Spawn, Start, RunFails, Goto, storeVars, artVars
<1>9. ASSUME NEW r \in Runs, Submit(r), s # r PROVE From
  BY <1>0, <1>1, <1>9 DEF Submit, Goto
<1>10. ASSUME NEW r \in Runs, Settle(r) \/ FailTask(r) \/ InterruptTask(r) \/ CleanupFails(r) \/ HoldTask(r)
       PROVE  From
  BY <1>2, <1>10 DEF Settle, FailTask, InterruptTask, CleanupFails, HoldTask, Goto, storeVars, artVars
<1>11. ASSUME NEW r \in Runs, Decide(r) PROVE From
  <2>1. kind[r] = "supervisor" /\ UNCHANGED <<kind, runTask>> /\ pc' = [pc EXCEPT ![r] = "publishing"]
    BY <1>11, DecideFacts, DecideRuns
  <2>2. artifact'[s] # "none" => artifact[s] # "none"
    BY <1>11, DecideRuns
  <2> QED BY <1>0, <2>1, <2>2
<1>12. ASSUME NEW r \in Runs, Publish(r) PROVE From
  BY <1>1, <1>2, <1>12 DEF Publish, Goto, runVars
<1>13. ASSUME NEW r \in Runs, FailSupervisorJob(r) \/ InterruptSupervisorJob(r) \/ HoldSupervisor(r)
       PROVE  From
  BY <1>2, <1>13 DEF FailSupervisorJob, InterruptSupervisorJob, HoldSupervisor, Goto, artVars
<1> QED
  BY <1>3, <1>4, <1>5, <1>6, <1>7, <1>8, <1>9, <1>10, <1>11, <1>12, <1>13
  DEF Next, Scheduler, RunStep, WorkerStep, SupervisorStep, Process

\* While a worker may still submit, nothing but its own step changes its task's row.
LEMMA OwnedRowStays ==
  ASSUME TypeOK, ProcessSound, RunsSound, OwnTask, SettlingApart, [Next]_vars,
         NEW s \in Runs, Fenced(s), Fenced(s)'
  PROVE  /\ taskStatus'[runTask[s]] = taskStatus[runTask[s]] /\ taskRun'[runTask[s]] = taskRun[runTask[s]]
         /\ taskOwner'[runTask[s]] = taskOwner[runTask[s]]
<1> DEFINE t == runTask[s]
           Stays == taskStatus'[t] = taskStatus[t] /\ taskRun'[t] = taskRun[t] /\ taskOwner'[t] = taskOwner[t]
<1>0. up = "up" /\ taskStatus[t] = "running" /\ taskRun[t] = s
  BY DEF ProcessSound, Fenced, OwnTask, Owns, TypeOK
<1>a. t \in Tasks BY DEF RunsSound, SoundRun, Fenced
<1>1. pc \in [Runs -> PcStates] BY DEF TypeOK
<1> HIDE DEF t
<1>2. ASSUME UserRequest PROVE Stays
  <2>1. CASE Pause \/ Resume \/ UserMessage BY <2>1 DEF Pause, Resume, UserMessage, taskVars
  <2>2. CASE Cancel BY <1>0, <1>a, <2>2 DEF Cancel, Cancellable
  <2>3. ASSUME NEW u \in Tasks, NEW o \in Agents \cup {NoAgent}, CreateTask(u, o) PROVE Stays
    BY <1>0, <2>3 DEF CreateTask, TypeOK
  <2> QED BY <1>2, <2>1, <2>2, <2>3 DEF UserRequest
<1>3. ASSUME UNCHANGED taskVars PROVE Stays BY <1>3 DEF taskVars
<1>4. ASSUME NEW T, NEW J, Restart(T, J) PROVE Stays
  BY <1>0, <1>4 DEF Restart
<1>5. ASSUME NEW u \in Tasks, ClaimNextTask(u) PROVE Stays
  BY <1>0, <1>5 DEF ClaimNextTask, TypeOK
<1>6. ASSUME NEW r \in Runs, Submit(r) PROVE Stays
  <2>1. r # s BY <1>1, <1>6 DEF Submit, Goto, Fenced
  <2>2. taskRun[runTask[r]] = r BY <1>6 DEF Submit, OwnTask, Owns, Fenced
  <2>3. runTask[r] # t BY <1>0, <2>1, <2>2
  <2> QED BY <1>6, <2>3 DEF Submit, TypeOK
<1>7. ASSUME NEW r \in Runs, FailTask(r) PROVE Stays
  <2>1. r # s BY <1>1, <1>7 DEF FailTask, Goto, Fenced
  <2>2. runTask[r] # t
    <3>1. CASE artifact[r] = "none"
      BY <1>0, <1>7, <2>1, <3>1 DEF FailTask, OwnTask, Owns, Fenced
    <3>2. CASE artifact[r] # "none"
      BY <1>7, <3>2 DEF FailTask, SettlingApart, Settling, t
    <3> QED BY <3>1, <3>2
  <2> QED BY <1>7, <2>2 DEF FailTask, TypeOK
<1>8. ASSUME NEW r \in Runs, InterruptTask(r) PROVE Stays
  BY <1>0, <1>8 DEF InterruptTask, ProcessSound
<1>9. ASSUME NEW r \in Runs, Decide(r) PROVE Stays
  BY <1>0, <1>a, <1>9, DecideTasks
<1>10. ASSUME NEW r \in Runs, HoldTask(r) PROVE Stays
  BY <1>10 DEF HoldTask
<1>11. Stays
  BY <1>2, <1>3, <1>4, <1>5, <1>6, <1>7, <1>8, <1>9, <1>10
  DEF Next, vars, storeVars, Scheduler, RunStep, WorkerStep, SupervisorStep, Process, ClaimSupervisorJob, Spawn,
      Start, RunFails, Settle, CleanupFails, Publish, FailSupervisorJob, InterruptSupervisorJob, HoldSupervisor,
      Stop, Stopped, Crash
<1> QED BY <1>11 DEF t

\* Ownership and the distance between submissions and claims are kept.
LEMMA OwnTaskStep ==
  TypeOK /\ RunsInOrder /\ ProcessSound /\ RunsSound /\ OwnTask /\ SettlingApart /\ [Next]_vars
    => OwnTask' /\ SettlingApart'
<1> SUFFICES ASSUME TypeOK, RunsInOrder, ProcessSound, RunsSound, OwnTask, SettlingApart, [Next]_vars
             PROVE  OwnTask' /\ SettlingApart'
  OBVIOUS
<1>1. ASSUME NEW t \in Tasks, ClaimNextTask(t)
      PROVE  LET r == nRuns + 1 IN
             /\ r \in Runs /\ runTask'[r] = t /\ runAgent'[r] = taskOwner[t] /\ taskStatus'[t] = "running"
             /\ taskRun'[t] = r /\ taskOwner'[t] = taskOwner[t]
             /\ \A s \in Runs : Settling(s) => runTask[s] # t
  BY <1>1, BoundsAreNat DEF ClaimNextTask, Begin, TypeOK, Runs
<1>2. ASSUME NEW s \in Runs, Fenced(s)'
      PROVE  /\ taskStatus'[runTask'[s]] = "running" /\ taskRun'[runTask'[s]] = s
             /\ taskOwner'[runTask'[s]] = runAgent'[s]
  <2>1. CASE Fenced(s) /\ UNCHANGED <<runTask[s], runAgent[s]>>
    BY <1>2, <2>1, OwnedRowStays DEF OwnTask, Owns
  <2>2. ASSUME NEW t \in Tasks, ClaimNextTask(t), s = nRuns + 1
        PROVE  /\ taskStatus'[runTask'[s]] = "running" /\ taskRun'[runTask'[s]] = s
               /\ taskOwner'[runTask'[s]] = runAgent'[s]
    BY <1>1, <2>2
  <2> QED BY <1>2, <2>1, <2>2, FencedFrom
<1>3. ASSUME NEW r \in Runs, NEW s \in Runs, Fenced(r)', Settling(s)' PROVE runTask'[r] # runTask'[s]
  <2>1. CASE Fenced(r) /\ UNCHANGED <<runTask[r], runAgent[r]>>
    <3>1. CASE Settling(s) /\ UNCHANGED <<runTask[s], kind[s]>>
      BY <2>1, <3>1 DEF SettlingApart
    <3>2. CASE Submit(s)
      <4>1. Fenced(s) /\ runTask' = runTask BY <3>2 DEF Submit, Goto, Fenced
      <4>2. r # s BY <1>3 DEF Fenced, Settling
      <4>3. taskRun[runTask[r]] = r /\ taskRun[runTask[s]] = s BY <2>1, <4>1 DEF OwnTask, Owns
      <4> QED BY <4>1, <4>2, <4>3
    <3> QED BY <1>3, <3>1, <3>2, SettlingFrom
  <2>2. ASSUME NEW t \in Tasks, ClaimNextTask(t), r = nRuns + 1 PROVE runTask'[r] # runTask'[s]
    <3>1. ~Submit(s) BY <2>2 DEF Submit, ClaimNextTask, SchedulerIdle, Begin, Goto, TypeOK
    <3>2. Settling(s) /\ UNCHANGED runTask[s] BY <1>3, <3>1, SettlingFrom
    <3> QED BY <1>1, <2>2, <3>2
  <2> QED BY <1>3, <2>1, <2>2, FencedFrom
<1> QED BY <1>2, <1>3 DEF OwnTask, Owns, SettlingApart

\* The invariant of the runs, and what it starts from.
RunInv == TypeOK /\ JobsInOrder /\ RunsInOrder /\ ProcessSound /\ RunsSound /\ OwnTask /\ SettlingApart

\* The control plane as create_team leaves it has the invariant of the runs.
LEMMA InitRunInv == Init => RunInv
<1> SUFFICES ASSUME Init PROVE RunInv
  OBVIOUS
<1>1. JobsInOrder /\ RunsInOrder BY BoundsAreNat DEF Init, JobsInOrder, RunsInOrder, Jobs
<1>2. ProcessSound /\ RunsSound BY DEF Init, ProcessSound, RunsSound, SoundRun, Worker
<1>3. OwnTask /\ SettlingApart BY DEF Init, OwnTask, Owns, SettlingApart, Fenced, Worker
<1> QED BY <1>1, <1>2, <1>3, InitTypeOK DEF RunInv

\* Every step keeps the invariant of the runs.
LEMMA RunInvStep == RunInv /\ [Next]_vars => RunInv'
BY TypeStep, JobsInOrderStep, RunsStep, ProcessSoundStep, RunsSoundStep, OwnTaskStep DEF RunInv

\* submit_task compares status and owner only: it is the scheduling that keeps a stale
\* coroutine from submitting for a newer attempt, with any number of failures,
\* holds, stops and restarts.
THEOREM StaleRunsFenced == Spec => []RunFenced
<1>1. RunInv => RunFenced
  BY DEF RunInv, RunFenced, OwnTask, Owns, Fenced
<1> QED BY <1>1, InitRunInv, RunInvStep, PTL DEF Spec

-----------------------------------------------------------------------------
(* What downstream work builds on.                                         *)

Moved == {"running", "submitted", "completed"}
\* A supervisor that may still decide, from what it read before run s submitted
Unread(s, r) == kind[r] = "supervisor" /\ pc[r] = "streaming" /\ s \notin bundle[r]
\* A job is in the way that such a decision does not end.
Kept(s) ==
  \E j \in Jobs : jobStatus[j] \in {"pending", "running", "failed"} /\ \A r \in Runs : Unread(s, r) => runJob[r] # j

\* While a submission is not settled, and may still be taken back, nothing builds on
\* its task, and what could be started is kept from the scheduler by a job.
NothingBuilds ==
  \A s \in Runs, t \in Tasks : Settling(s) /\ runTask[s] \in DependsOn[t] =>
    /\ taskStatus[t] \notin Moved
    /\ \A u \in Runs : Settling(u) => runTask[u] # t
    /\ taskStatus[t] = "pending" => Kept(s)
\* What a submission that is not settled builds on stays completed.
UpstreamDone ==
  \A s \in Runs : Settling(s) => \A d \in DependsOn[runTask[s]] : taskStatus[d] = "completed"
\* A decision that did not see a submission leaves a job behind.
UnreadKept ==
  \A s, r \in Runs : Settling(s) /\ Unread(s, r) /\ jobStatus[runJob[r]] = "running" => Kept(s)

\* A supervisor that starts reads every submission made by then.
LEMMA UnreadFrom ==
  ASSUME TypeOK, RunsSound, [Next]_vars, NEW s \in Runs, Settling(s) \/ Submit(s), NEW r \in Runs, Unread(s, r)'
  PROVE  Unread(s, r) /\ runJob'[r] = runJob[r]
<1> DEFINE From == Unread(s, r) /\ runJob'[r] = runJob[r]
<1> USE DEF Unread
<1>0. pc \in [Runs -> PcStates] /\ kind \in [Runs -> {"none", "worker", "supervisor"}] /\ bundle \in [Runs -> SUBSET Runs]
  BY DEF TypeOK
<1>1. ASSUME UNCHANGED <<kind[r], runJob[r], pc[r], bundle[r]>> PROVE From BY <1>1
<1>2. ASSUME UNCHANGED <<kind, runJob, bundle>>, NEW u \in Runs, NEW place, pc' = [pc EXCEPT ![u] = place],
             place # "streaming"
      PROVE  From
  BY <1>0, <1>2
<1>3. CASE UserRequest \/ UNCHANGED vars \/ Stopped
  BY <1>1, <1>3 DEF UserRequest, Pause, Resume, Cancel, CreateTask, UserMessage, Stopped, vars, runVars
<1>4. CASE Stop \/ Crash BY <1>0, <1>4 DEF Stop, Crash, PcStates, LivePcs
<1>5. ASSUME NEW T, NEW J, Restart(T, J) PROVE From
  BY <1>1, <1>5 DEF Restart, runVars
<1>6. CASE ClaimSupervisorJob
  <2>1. PICK j \in Jobs : Begin(nRuns + 1, "supervisor", Sup, NoTask, j)
    BY <1>6 DEF ClaimSupervisorJob
  <2> QED BY <1>0, <1>1, <2>1 DEF Begin
<1>7. ASSUME NEW t \in Tasks, ClaimNextTask(t) PROVE From
  BY <1>0, <1>1, <1>7 DEF ClaimNextTask, Begin
<1>8. ASSUME NEW u \in Runs, Start(u) PROVE From
  <2>1. artifact[s] # "none" \/ Submit(s)
    BY DEF Settling, RunsSound, SoundRun
  <2>3. ~Submit(s)
    BY <1>0, <1>8 DEF Start, Submit, Goto
  <2>4. CASE u = r BY <1>0, <1>8, <2>1, <2>3, <2>4 DEF Start, Worker
  <2>5. CASE u # r BY <1>0, <1>1, <1>8, <2>5 DEF Start
  <2> QED BY <2>4, <2>5
<1>9. ASSUME NEW u \in Runs, Spawn(u) \/ RunFails(u) \/ WorkerStep(u) PROVE From
  BY <1>2, <1>9 DEF Spawn, RunFails, WorkerStep, Submit, Settle, FailTask, InterruptTask, CleanupFails, HoldTask, Goto
<1>10. ASSUME NEW u \in Runs, Decide(u) PROVE From
  <2>1. UNCHANGED <<kind, runJob>> /\ pc' = [pc EXCEPT ![u] = "publishing"]
    BY <1>10, DecideFacts
  <2>2. \A q \in Runs : q # u => bundle'[q] = bundle[q]
    BY <1>0, <1>10, DecideRuns
  <2> QED BY <1>0, <1>1, <2>1, <2>2
<1>11. ASSUME NEW u \in Runs, Publish(u) PROVE From
  BY <1>1, <1>2, <1>11 DEF Publish, Goto, runVars
<1>12. ASSUME NEW u \in Runs, FailSupervisorJob(u) \/ InterruptSupervisorJob(u) \/ HoldSupervisor(u)
       PROVE  From
  BY <1>2, <1>12 DEF FailSupervisorJob, InterruptSupervisorJob, HoldSupervisor, Goto
<1> QED
  BY <1>3, <1>4, <1>5, <1>6, <1>7, <1>8, <1>9, <1>10, <1>11, <1>12
  DEF Next, Scheduler, RunStep, SupervisorStep, Process

\* A new job is in the way.
LEMMA EnqueueKeeps ==
  ASSUME TypeOK, RunsSound, NEW s, NEW trigger, NEW t, Enqueue(trigger, t), UNCHANGED <<kind, runJob>>
  PROVE  Kept(s)'
<1>1. nJobs + 1 \in Jobs /\ jobStatus'[nJobs + 1] = "pending"
  BY BoundsAreNat DEF TypeOK, Enqueue, Jobs
<1>2. \A r \in Runs : Unread(s, r)' => runJob'[r] # nJobs + 1
  BY DEF Unread, RunsSound, SoundRun, TypeOK
<1> QED BY <1>1, <1>2 DEF Kept

\* What was done to the jobs.
LEMMA JobMoves ==
  ASSUME TypeOK, [Next]_vars, NEW j \in Jobs
  PROVE  /\ jobStatus'[j] = "running" => jobStatus[j] = "running" \/ ClaimSupervisorJob
         /\ jobStatus[j] \in {"pending", "running", "failed"} =>
              \/ jobStatus'[j] \in {"pending", "running", "failed"}
              \/ Cancel
              \/ \E r \in Runs : Decide(r) /\ j = runJob[r]
<1> DEFINE Open == {"pending", "running", "failed"}
           Good == /\ jobStatus'[j] = "running" => jobStatus[j] = "running"
                   /\ jobStatus[j] \in Open => jobStatus'[j] \in Open
<1>0. jobStatus \in [Jobs -> JobStates] /\ nJobs \in Nat BY BoundsAreNat DEF TypeOK
<1>1. ASSUME UNCHANGED jobVars PROVE Good BY <1>1 DEF jobVars
<1>2. CASE Resume BY <1>0, <1>2 DEF Resume, jobVars
<1>3. CASE Cancel BY <1>0, <1>3 DEF Cancel
<1>4. ASSUME NEW trigger, NEW t, Enqueue(trigger, t) PROVE Good
  BY <1>0, <1>4 DEF Enqueue
<1>5. CASE ClaimSupervisorJob BY <1>0, <1>5 DEF ClaimSupervisorJob
<1>6. ASSUME NEW r \in Runs, FailTask(r) PROVE Good
  BY <1>1, <1>4, <1>6 DEF FailTask
<1>7. ASSUME NEW r \in Runs, Decide(r) PROVE Good \/ (j = runJob[r] /\ jobStatus'[j] = "completed")
  BY <1>0, <1>7, DecideFacts
<1>8. ASSUME NEW r \in Runs, FailSupervisorJob(r) PROVE Good
  BY <1>0, <1>8 DEF FailSupervisorJob
<1>9. ASSUME NEW r \in Runs, InterruptSupervisorJob(r) PROVE Good
  BY <1>0, <1>9 DEF InterruptSupervisorJob
<1>10. ASSUME NEW T, NEW J, Restart(T, J) PROVE Good
  BY <1>0, <1>10 DEF Restart
<1>11. ASSUME NEW r \in Runs, HoldSupervisor(r) PROVE Good
  BY <1>11 DEF HoldSupervisor
<1>12. ASSUME UserMessage \/ \E t \in Tasks, o \in Agents \cup {NoAgent} : CreateTask(t, o) PROVE Good
  BY <1>4, <1>12 DEF UserMessage, CreateTask
<1>13. ASSUME NEW r \in Runs, Submit(r) PROVE Good
  BY <1>4, <1>13 DEF Submit
<1>14. ASSUME \/ Pause \/ Stop \/ Stopped \/ Crash \/ UNCHANGED vars
              \/ \E t \in Tasks : ClaimNextTask(t)
              \/ \E r \in Runs : Spawn(r) \/ Start(r) \/ RunFails(r) \/ Settle(r) \/ InterruptTask(r)
                                 \/ CleanupFails(r) \/ Publish(r) \/ HoldTask(r)
       PROVE Good
  BY <1>1, <1>14, JobsUnchanged
<1> QED
  BY <1>2, <1>3, <1>5, <1>6, <1>7, <1>8, <1>9, <1>10, <1>11, <1>12, <1>13, <1>14
  DEF Next, UserRequest, Scheduler, RunStep, WorkerStep, SupervisorStep, Process

\* Only cancelling the team takes away the job that is in the way of a submission.
LEMMA KeptStays ==
  ASSUME TypeOK, RunsSound, [Next]_vars, NEW s \in Runs, Settling(s), Kept(s), ~Cancel
  PROVE  Kept(s)'
<1>1. PICK j \in Jobs : /\ jobStatus[j] \in {"pending", "running", "failed"}
                        /\ \A r \in Runs : Unread(s, r) => runJob[r] # j
  BY DEF Kept
<1>2. \A r \in Runs : Unread(s, r)' => runJob'[r] # j
  BY <1>1, UnreadFrom
<1>3. ASSUME NEW r \in Runs, Decide(r), j = runJob[r] PROVE FALSE
  <2>1. kind[r] = "supervisor" /\ pc[r] = "streaming" /\ s \notin bundle[r]
    BY <1>3, DecideFacts, DecideRuns
  <2> QED BY <1>1, <1>3, <2>1 DEF Unread
<1>4. jobStatus'[j] \in {"pending", "running", "failed"}
  BY <1>1, <1>3, JobMoves
<1> QED BY <1>2, <1>4 DEF Kept

\* What was done to a task.
LEMMA TaskMoves ==
  ASSUME RunInv, [Next]_vars, NEW t \in Tasks
  PROVE  /\ taskStatus'[t] \in Moved => taskStatus[t] \in Moved \/ ClaimNextTask(t)
         /\ taskStatus[t] = "completed" =>
              \/ taskStatus'[t] = "completed"
              \/ \E r \in Runs : FailTask(r) /\ Settling(r) /\ runTask[r] = t
         /\ taskStatus'[t] = "pending" =>
              \/ taskStatus[t] = "pending" /\ ~Cancel
              \/ \E o \in Agents \cup {NoAgent} : CreateTask(t, o)
              \/ \E r \in Runs : Decide(r)
              \/ taskStatus[t] = "running" /\ ~ClaimNextTask(t)
              \/ \E r \in Runs : FailTask(r) /\ Settling(r) /\ runTask[r] = t
<1> DEFINE Same == taskStatus'[t] = taskStatus[t]
           Undone == \E r \in Runs : FailTask(r) /\ Settling(r) /\ runTask[r] = t
           Made == \E o \in Agents \cup {NoAgent} : CreateTask(t, o)
           Good == /\ taskStatus'[t] \in Moved => taskStatus[t] \in Moved \/ ClaimNextTask(t)
                   /\ taskStatus[t] = "completed" => taskStatus'[t] = "completed" \/ Undone
                   /\ taskStatus'[t] = "pending" =>
                        \/ taskStatus[t] = "pending" /\ ~Cancel
                        \/ Made
                        \/ \E r \in Runs : Decide(r)
                        \/ taskStatus[t] = "running" /\ ~ClaimNextTask(t)
                        \/ Undone
<1> USE DEF Moved
<1>0. taskStatus \in [Tasks -> TaskStates] /\ TypeOK /\ pc \in [Runs -> PcStates] BY DEF RunInv, TypeOK
<1>1. ASSUME UNCHANGED taskVars PROVE Same BY <1>1 DEF taskVars
<1>2. ASSUME Pause \/ Resume \/ UserMessage \/ UNCHANGED vars \/ Stop \/ Stopped \/ Crash \/ ClaimSupervisorJob PROVE Same
  BY <1>1, <1>2 DEF Pause, Resume, UserMessage, vars, storeVars, Stop, Stopped, Crash, ClaimSupervisorJob
<1>3. ASSUME Cancel PROVE Same \/ taskStatus'[t] = "cancelled"
  BY <1>0, <1>3 DEF Cancel, Cancellable
<1>4. ASSUME NEW u \in Tasks, NEW o \in Agents \cup {NoAgent}, CreateTask(u, o), u # t PROVE Same
  BY <1>0, <1>4 DEF CreateTask
<1>5. ASSUME NEW o \in Agents \cup {NoAgent}, CreateTask(t, o) PROVE taskStatus'[t] = "pending" /\ taskStatus[t] = "absent"
  BY <1>0, <1>5 DEF CreateTask
<1>6. ASSUME NEW u \in Tasks, ClaimNextTask(u), u # t PROVE Same
  BY <1>0, <1>6 DEF ClaimNextTask
<1>7. ASSUME ClaimNextTask(t) PROVE taskStatus'[t] = "running" /\ taskStatus[t] = "pending"
  BY <1>0, <1>7 DEF ClaimNextTask
<1>8. ASSUME NEW r \in Runs, Submit(r) PROVE Same \/ (taskStatus[t] = "running" /\ taskStatus'[t] = "submitted")
  BY <1>0, <1>8 DEF Submit
<1>9. ASSUME NEW r \in Runs, FailTask(r), ~(Settling(r) /\ runTask[r] = t)
      PROVE  Same \/ (taskStatus[t] = "running" /\ taskStatus'[t] \in {"pending", "failed"})
  <2>1. CASE runTask[r] # t BY <1>0, <1>9, <2>1 DEF FailTask
  <2>2. CASE runTask[r] = t
    <3>1. Fenced(r) BY <1>9, <2>2 DEF FailTask, Settling, Fenced
    <3>2. taskStatus[t] = "running" BY <2>2, <3>1 DEF RunInv, OwnTask, Owns
    <3> QED BY <1>0, <1>9, <2>2, <3>2 DEF FailTask
  <2> QED BY <2>1, <2>2
<1>10. ASSUME NEW r \in Runs, InterruptTask(r)
       PROVE Same \/ (taskStatus[t] = "running" /\ taskStatus'[t] = "pending")
  BY <1>0, <1>10 DEF InterruptTask
<1>11. ASSUME NEW r \in Runs, Decide(r)
       PROVE  /\ taskStatus'[t] \in Moved => taskStatus[t] \in Moved
              /\ taskStatus[t] = "completed" => taskStatus'[t] = "completed"
  <2>1. PICK acc, rev, add, asg \in SUBSET Tasks : Outcome(r, acc, rev, add, asg)
    BY <1>11, DecideFacts, Zenon
  <2> QED BY <1>0, <2>1 DEF Outcome
<1>12. ASSUME NEW T, NEW J, Restart(T, J)
       PROVE Same \/ (taskStatus[t] = "running" /\ taskStatus'[t] = "pending")
  BY <1>0, <1>12 DEF Restart, Requeued
<1>13. ASSUME NEW r \in Runs, Spawn(r) \/ Start(r) \/ RunFails(r) \/ Settle(r) \/ CleanupFails(r) \/ Publish(r)
                              \/ HoldTask(r) \/ FailSupervisorJob(r) \/ InterruptSupervisorJob(r) \/ HoldSupervisor(r)
       PROVE Same
  BY <1>1, <1>13 DEF Spawn, Start, RunFails, Settle, CleanupFails, Publish, HoldTask, FailSupervisorJob,
                     InterruptSupervisorJob, HoldSupervisor, storeVars
<1>14. ~Cancel \/ taskStatus'[t] # "pending"
  BY <1>0 DEF Cancel, Cancellable
<1>15. Same => Good
  BY <1>7, <1>14
<1>16. Made => Good
  BY <1>5
<1>17. ClaimNextTask(t) => Good
  BY <1>7
<1>18. taskStatus[t] = "running" /\ taskStatus'[t] \in {"submitted", "pending", "failed"} => Good
  BY <1>7
<1>19. Undone => Good
  BY <1>0 DEF FailTask
<1>20. (\E r \in Runs : Decide(r)) => Good
  BY <1>11
<1>21. taskStatus'[t] = "cancelled" /\ Cancel => Good
  BY <1>0 DEF Cancel, Cancellable
<1> HIDE DEF Good, Same
<1>22. ASSUME UserRequest PROVE Good
  <2>1. ASSUME NEW u \in Tasks, NEW o \in Agents \cup {NoAgent}, CreateTask(u, o) PROVE Good
    BY <1>4, <1>15, <1>16, <2>1
  <2> QED BY <1>2, <1>3, <1>15, <1>21, <1>22, <2>1 DEF UserRequest
<1>23. ASSUME NEW u \in Tasks, ClaimNextTask(u) PROVE Good
  BY <1>6, <1>15, <1>17, <1>23
<1>24. ASSUME NEW r \in Runs, FailTask(r) PROVE Good
  BY <1>9, <1>15, <1>18, <1>19, <1>24
<1>25. ASSUME NEW r \in Runs, RunStep(r) \/ Spawn(r) PROVE Good
  BY <1>8, <1>10, <1>13, <1>15, <1>18, <1>20, <1>24, <1>25 DEF RunStep, WorkerStep, SupervisorStep
<1>26. ASSUME Process \/ UNCHANGED vars PROVE Good
  BY <1>2, <1>12, <1>15, <1>18, <1>26 DEF Process
<1>27. Good
  BY <1>2, <1>15, <1>22, <1>23, <1>25, <1>26 DEF Next, Scheduler
<1> QED BY <1>27 DEF Good

DownInv == RunInv /\ SingleControl /\ DownstreamSound /\ NothingBuilds /\ UpstreamDone /\ UnreadKept

\* A submission is made by a worker that owns its task.
LEMMA SubmitFacts ==
  ASSUME RunInv, NEW s \in Runs, Submit(s)
  PROVE  /\ Fenced(s) /\ runTask[s] \in Tasks /\ taskStatus[runTask[s]] = "running"
         /\ UNCHANGED <<kind, runTask, runJob>> /\ ~Cancel
         /\ \A u \in Runs : u # s /\ Settling(u)' => Settling(u)
         /\ \A t \in Tasks : t # runTask[s] => taskStatus'[t] = taskStatus[t]
         /\ \E trigger, t : Enqueue(trigger, t)
<1>1. TypeOK /\ SoundRun(s) BY DEF RunInv, RunsSound
<1>2. /\ Fenced(s) /\ runTask[s] \in Tasks /\ taskStatus[runTask[s]] = "running"
      /\ UNCHANGED <<kind, runTask, runJob>>
      /\ \A t \in Tasks : t # runTask[s] => taskStatus'[t] = taskStatus[t]
  BY <1>1 DEF Submit, Goto, Fenced, SoundRun, TypeOK
<1>3. ~Cancel BY <1>1 DEF Submit, Cancel, runVars, Goto, TypeOK
<1>4. \A u \in Runs : u # s /\ Settling(u)' => Settling(u)
  BY <1>1 DEF Submit, Goto, Settling, Worker, TypeOK
<1>5. Enqueue("task.submitted", runTask[s]) BY DEF Submit
<1> QED BY <1>2, <1>3, <1>4, <1>5, Zenon

\* Completed work is taken back only while nothing builds on it.
LEMMA DownstreamStep == DownInv /\ [Next]_vars => DownstreamSound'
<1> SUFFICES ASSUME DownInv, [Next]_vars, NEW t \in Tasks, taskStatus'[t] \in Moved, NEW d \in DependsOn[t]
             PROVE  taskStatus'[d] = "completed"
  BY DEF DownstreamSound, Moved
<1> USE DEF DownInv
<1>1. d \in Tasks BY TeamAssumption
<1>2. CASE taskStatus[t] \in Moved
  <2>1. taskStatus[d] = "completed" BY <1>2 DEF DownstreamSound, Moved
  <2>2. ASSUME NEW r \in Runs, Settling(r), runTask[r] = d PROVE FALSE
    BY <1>2, <2>2 DEF NothingBuilds
  <2> QED BY <1>1, <2>1, <2>2, TaskMoves
<1>3. CASE ClaimNextTask(t)
  BY <1>1, <1>3 DEF ClaimNextTask, DependenciesMet, RunInv, TypeOK
<1> QED BY <1>2, <1>3, TaskMoves

\* A job in the way keeps the scheduler from starting tasks.
LEMMA KeptBlocks ==
  ASSUME RunInv, SingleControl, NEW s, Kept(s), NEW t \in Tasks
  PROVE  ~ClaimNextTask(t)
BY DEF Kept, ClaimNextTask, SupervisorWork, SingleControl, Failed

\* What could be started has a job in its way.
LEMMA NothingBuildsStep == DownInv /\ [Next]_vars => NothingBuilds'
<1> SUFFICES ASSUME DownInv, [Next]_vars, NEW s \in Runs, NEW t \in Tasks, Settling(s)', runTask'[s] \in DependsOn[t]
             PROVE  /\ taskStatus'[t] \notin Moved
                    /\ \A u \in Runs : Settling(u)' => runTask'[u] # t
                    /\ taskStatus'[t] = "pending" => Kept(s)'
  BY DEF NothingBuilds
<1> USE DEF DownInv
<1>0. TypeOK /\ RunsSound BY DEF RunInv
<1>1. CASE Settling(s) /\ UNCHANGED <<runTask[s], kind[s]>>
  <2>0. up = "up" BY <1>0, <1>1 DEF Settling, RunInv, ProcessSound, TypeOK
  <2>1. /\ taskStatus[t] \notin Moved
        /\ \A u \in Runs : Settling(u) => runTask[u] # t
        /\ taskStatus[t] = "pending" => Kept(s)
    BY <1>1 DEF NothingBuilds
  <2>2. ~ClaimNextTask(t)
    BY <2>1, KeptBlocks DEF ClaimNextTask
  <2>3. taskStatus'[t] \notin Moved BY <2>1, <2>2, TaskMoves
  <2>4. ASSUME NEW u \in Runs, Settling(u)' PROVE runTask'[u] # t
    <3>1. Submit(u) => runTask[u] # t BY <2>1, SubmitFacts DEF Moved
    <3>2. Submit(u) => runTask'[u] = runTask[u] BY SubmitFacts
    <3> QED BY <1>0, <2>1, <2>4, <3>1, <3>2, SettlingFrom
  <2>5. ASSUME taskStatus'[t] = "pending" PROVE Kept(s)'
    <3>1. CASE taskStatus[t] = "pending" /\ ~Cancel
      BY <1>0, <1>1, <2>1, <3>1, KeptStays
    <3>2. ASSUME NEW o \in Agents \cup {NoAgent}, CreateTask(t, o) PROVE Kept(s)'
      <4>1. Enqueue("notice", NoTask) /\ UNCHANGED <<kind, runJob>> BY <3>2 DEF CreateTask, runVars
      <4> QED BY <1>0, <4>1, EnqueueKeeps
    <3>3. ASSUME NEW r \in Runs, Decide(r) PROVE Kept(s)'
      <4>1. Unread(s, r) /\ jobStatus[runJob[r]] = "running"
        BY <1>0, <1>1, <3>3, DecideFacts, DecideRuns DEF Unread
      <4>2. Kept(s) BY <1>1, <4>1 DEF UnreadKept
      <4>3. ~Cancel
        <5>1. pc \in [Runs -> PcStates] BY <1>0 DEF TypeOK
        <5>2. pc[r] = "streaming" /\ pc' = [pc EXCEPT ![r] = "publishing"] BY <3>3, DecideFacts
        <5> QED BY <5>1, <5>2 DEF Cancel, runVars
      <4> QED BY <1>0, <1>1, <4>2, <4>3, KeptStays
    <3>4. ~(\E r \in Runs : FailTask(r) /\ Settling(r) /\ runTask[r] = t)
      BY <2>1
    <3>5. taskStatus[t] # "running" BY <2>1 DEF Moved
    <3> QED BY <2>5, <3>1, <3>2, <3>3, <3>4, <3>5, TaskMoves
  <2> QED BY <2>3, <2>4, <2>5
<1>2. CASE Submit(s)
  <2>1. runTask[s] \in DependsOn[t] /\ taskStatus[runTask[s]] = "running" /\ runTask[s] \in Tasks
    BY <1>2, SubmitFacts
  <2>2. taskStatus[t] \notin Moved
    BY <2>1 DEF DownstreamSound, Moved
  <2>3. t # runTask[s] BY <2>1, <2>2 DEF Moved
  <2>4. taskStatus'[t] = taskStatus[t] BY <1>2, <2>3, SubmitFacts
  <2>5. ASSUME NEW u \in Runs, Settling(u)' PROVE runTask'[u] # t
    <3>1. CASE u = s BY <1>2, <2>3, <3>1, SubmitFacts
    <3>2. CASE u # s
      <4>1. Settling(u) /\ runTask'[u] = runTask[u] BY <1>2, <2>5, <3>2, SubmitFacts
      <4> QED BY <2>1, <4>1 DEF UpstreamDone
    <3> QED BY <3>1, <3>2
  <2>6. Kept(s)' BY <1>0, <1>2, SubmitFacts, EnqueueKeeps
  <2> QED BY <2>2, <2>4, <2>5, <2>6
<1> QED BY <1>0, <1>1, <1>2, SettlingFrom

\* What a submission builds on is not taken back before it is settled.
LEMMA UpstreamDoneStep == DownInv /\ [Next]_vars => UpstreamDone'
<1> SUFFICES ASSUME DownInv, [Next]_vars, NEW s \in Runs, Settling(s)', NEW d \in DependsOn[runTask'[s]]
             PROVE  taskStatus'[d] = "completed"
  BY DEF UpstreamDone
<1> USE DEF DownInv
<1>0. TypeOK /\ RunsSound BY DEF RunInv
<1>1. CASE Settling(s) /\ UNCHANGED <<runTask[s], kind[s]>>
  <2>1. runTask[s] \in Tasks /\ d \in Tasks
    BY <1>0, <1>1, TeamAssumption DEF RunsSound, SoundRun, Settling
  <2>2. taskStatus[d] = "completed" BY <1>1 DEF UpstreamDone
  <2>3. ASSUME NEW r \in Runs, Settling(r), runTask[r] = d PROVE FALSE
    BY <1>1, <2>1, <2>3 DEF NothingBuilds
  <2> QED BY <2>1, <2>2, <2>3, TaskMoves
<1>2. CASE Submit(s)
  <2>1. runTask'[s] = runTask[s] /\ runTask[s] \in Tasks /\ taskStatus[runTask[s]] = "running"
    BY <1>2, SubmitFacts
  <2>2. d \in Tasks /\ taskStatus[d] = "completed"
    BY <2>1, TeamAssumption DEF DownstreamSound
  <2> QED BY <1>2, <2>1, <2>2, SubmitFacts
<1> QED BY <1>0, <1>1, <1>2, SettlingFrom

\* A supervisor that has not read a submission cannot end the job it left.
LEMMA UnreadKeptStep == DownInv /\ [Next]_vars => UnreadKept'
<1> SUFFICES ASSUME DownInv, [Next]_vars, NEW s \in Runs, NEW r \in Runs, Settling(s)', Unread(s, r)',
                    jobStatus'[runJob'[r]] = "running"
             PROVE  Kept(s)'
  BY DEF UnreadKept
<1> USE DEF DownInv
<1>0. TypeOK /\ RunsSound BY DEF RunInv
<1>1. CASE Submit(s)
  BY <1>0, <1>1, SubmitFacts, EnqueueKeeps
<1>2. CASE Settling(s)
  <2>1. Unread(s, r) /\ runJob'[r] = runJob[r] BY <1>0, <1>2, UnreadFrom
  <2>2. runJob[r] \in Jobs BY <1>0, <2>1 DEF RunsSound, SoundRun, Unread
  <2>3. ~ClaimSupervisorJob
    BY <2>1 DEF ClaimSupervisorJob, SupervisorKeyTaken, Unread, Live, LivePcs
  <2>4. jobStatus[runJob[r]] = "running" BY <1>0, <2>1, <2>2, <2>3, JobMoves
  <2>5. Kept(s) BY <1>2, <2>1, <2>4 DEF UnreadKept
  <2>6. ~Cancel BY <2>1, <2>2, <2>4 DEF Cancel
  <2> QED BY <1>0, <1>2, <2>5, <2>6, KeptStays
<1> QED BY <1>0, <1>1, <1>2, SettlingFrom

\* Work that has left the queue builds on accepted results, although fail_task takes back a
\* task that was accepted meanwhile: before the submission is settled nothing
\* that needs its task is started, because the job of the submission, or one queued
\* later, closes the gate, and no decision that could end this job is blind to it.
THEOREM DownstreamHolds == Spec => []DownstreamSound
<1>1. Init => DownInv
  <2> SUFFICES ASSUME Init PROVE SingleControl /\ DownstreamSound /\ NothingBuilds /\ UpstreamDone /\ UnreadKept
    BY InitRunInv DEF DownInv
  <2>1. \A r \in Runs : ~Settling(r) BY DEF Init, Settling
  <2>2. NothingBuilds /\ UpstreamDone /\ UnreadKept BY <2>1 DEF NothingBuilds, UpstreamDone, UnreadKept
  <2>3. DownstreamSound BY DEF Init, DownstreamSound
  <2> QED BY <2>2, <2>3, InitSingleControl
<1>2. DownInv /\ [Next]_vars => DownInv'
  <2>1. DownInv => RunInv /\ SingleControl BY DEF DownInv
  <2> QED BY <2>1, RunInvStep, SingleControlStep, DownstreamStep, NothingBuildsStep, UpstreamDoneStep,
             UnreadKeptStep DEF DownInv, RunInv
<1>3. DownInv => DownstreamSound BY DEF DownInv
<1> QED BY <1>1, <1>2, <1>3, PTL DEF Spec

-----------------------------------------------------------------------------
(* What was accepted.                                                      *)

\* What a decision accepts: for every task it completes one Artifact that waited.
LEMMA DecideAccepts ==
  ASSUME NEW r \in Runs, Decide(r), TypeOK
  PROVE  \E acc \in SUBSET Tasks : \E art \in [acc -> Runs] :
           /\ \A t \in acc : /\ taskStatus[t] = "submitted" /\ runTask[art[t]] = t
                             /\ artifact[art[t]] = "pending_review"
           /\ \A t \in Tasks : taskStatus'[t] = "completed" <=> t \in acc \/ taskStatus[t] = "completed"
           /\ \A s \in Runs : artifact'[s] = "accepted" <=> artifact[s] = "accepted" \/ \E t \in acc : s = art[t]
<1>0. PICK acc \in SUBSET {t \in Tasks : taskStatus[t] = "submitted"},
           rev \in SUBSET {t \in Tasks : taskStatus[t] = "submitted"},
           new \in SUBSET {t \in Tasks : taskStatus[t] = "absent"},
           asg \in SUBSET Tasks, fin \in BOOLEAN :
        \E art \in [acc -> Runs], own \in [new \cup asg -> Agents] :
          Apply(r, acc, art, rev, new, asg, own, fin)
  BY Zenon DEF Decide
<1>1. PICK art \in [acc -> Runs], own \in [new \cup asg -> Agents] :
        Apply(r, acc, art, rev, new, asg, own, fin)
  BY <1>0
<1>2. \A t \in acc : /\ taskStatus[t] = "submitted" /\ runTask[art[t]] = t
                     /\ artifact[art[t]] = "pending_review"
  BY <1>1 DEF Apply, PendingReview
<1>3. \A t \in Tasks : taskStatus'[t] = "completed" <=> t \in acc \/ taskStatus[t] = "completed"
  <2> SUFFICES ASSUME NEW t \in Tasks PROVE taskStatus'[t] = "completed" <=> t \in acc \/ taskStatus[t] = "completed"
    OBVIOUS
  <2>1. taskStatus[t] = "completed" => taskStatus'[t] = "completed" BY DecideTasks
  <2>2. t \notin acc /\ taskStatus'[t] = "completed" => taskStatus[t] = "completed" BY <1>1 DEF Apply
  <2>3. ASSUME t \in acc PROVE taskStatus'[t] = "completed"
    <3>1. t \notin rev BY <1>1, <2>3 DEF Apply
    <3>2. t \notin new BY <2>3
    <3>3. t \notin asg BY <1>1, <2>3, <3>1 DEF Apply, Assignable
    <3> QED BY <1>1, <2>3, <3>1, <3>2, <3>3 DEF Apply
  <2> QED BY <2>1, <2>2, <2>3
<1>4. \A s \in Runs : artifact'[s] = "accepted" <=> artifact[s] = "accepted" \/ \E t \in acc : s = art[t]
  BY <1>1 DEF Apply
<1> HIDE DEF Decide
<1> QED
  <2> WITNESS acc \in SUBSET Tasks
  <2> WITNESS art \in [acc -> Runs]
  <2> QED BY <1>2, <1>3, <1>4

\* No task is completed but by a decision.
LEMMA CompletedBy ==
  ASSUME RunInv, [Next]_vars, NEW t \in Tasks, taskStatus'[t] = "completed", \A r \in Runs : ~Decide(r)
  PROVE  taskStatus[t] = "completed"
<1>1. taskStatus \in [Tasks -> TaskStates] BY DEF RunInv, TypeOK
<1> DEFINE Done == taskStatus[t] = "completed"
<1>2. ASSUME UNCHANGED taskVars PROVE Done BY <1>2 DEF taskVars
<1>3. ASSUME UserRequest PROVE Done
  BY <1>1, <1>2, <1>3 DEF UserRequest, Pause, Resume, UserMessage, CreateTask, Cancel
<1>4. ASSUME Scheduler PROVE Done
  BY <1>1, <1>2, <1>4 DEF Scheduler, ClaimSupervisorJob, ClaimNextTask, Spawn, storeVars
<1>5. ASSUME NEW r \in Runs, Submit(r) PROVE Done BY <1>1, <1>5 DEF Submit
<1>6. ASSUME NEW r \in Runs, FailTask(r) PROVE Done BY <1>1, <1>6 DEF FailTask
<1>7. ASSUME NEW r \in Runs, InterruptTask(r) PROVE Done BY <1>1, <1>7 DEF InterruptTask
<1>8. ASSUME NEW r \in Runs, HoldTask(r) PROVE Done BY <1>8 DEF HoldTask
<1>9. ASSUME NEW r \in Runs, Start(r) \/ RunFails(r) \/ Settle(r) \/ CleanupFails(r) \/ Publish(r)
                             \/ FailSupervisorJob(r) \/ InterruptSupervisorJob(r) \/ HoldSupervisor(r)
      PROVE  Done
  BY <1>2, <1>9 DEF Start, RunFails, Settle, CleanupFails, Publish, FailSupervisorJob, InterruptSupervisorJob,
                    HoldSupervisor, storeVars
<1>10. ASSUME NEW T, NEW J, Restart(T, J) PROVE Done BY <1>1, <1>10 DEF Restart, Requeued
<1>11. ASSUME Stop \/ Stopped \/ Crash \/ UNCHANGED vars PROVE Done
  BY <1>2, <1>11 DEF Stop, Stopped, Crash, vars, storeVars
<1> QED
  BY <1>3, <1>4, <1>5, <1>6, <1>7, <1>8, <1>9, <1>10, <1>11
  DEF Next, RunStep, WorkerStep, SupervisorStep, Process

\* A run keeps its task, once its Artifact is there.
LEMMA RunTaskStays ==
  ASSUME RunInv, [Next]_vars, NEW r \in Runs, artifact[r] # "none" \/ artifact'[r] # "none"
  PROVE  runTask'[r] = runTask[r]
<1>1. TypeOK /\ RunsInOrder /\ SoundRun(r) BY DEF RunInv, RunsSound
<1>2. ASSUME NEW k, NEW a, NEW t, NEW j, Begin(nRuns + 1, k, a, t, j), UNCHANGED artifact
      PROVE  runTask'[r] = runTask[r]
  <2>1. CASE r = nRuns + 1
    <3>1. pc[r] = "unused" BY <1>1, <2>1 DEF RunsInOrder, TypeOK
    <3> QED BY <1>1, <1>2, <3>1 DEF SoundRun
  <2>2. CASE r # nRuns + 1 BY <1>1, <1>2, <2>2 DEF Begin, TypeOK
  <2> QED BY <2>1, <2>2
<1>3. ASSUME UNCHANGED runTask PROVE runTask'[r] = runTask[r] BY <1>3
<1>4. CASE ClaimSupervisorJob BY <1>2, <1>4 DEF ClaimSupervisorJob, artVars
<1>5. ASSUME NEW t \in Tasks, ClaimNextTask(t) PROVE runTask'[r] = runTask[r]
  BY <1>2, <1>5 DEF ClaimNextTask, artVars
<1>6. ASSUME NEW u \in Runs, Decide(u) PROVE runTask'[r] = runTask[r]
  BY <1>6, DecideFacts
<1> QED
  BY <1>3, <1>4, <1>5, <1>6
  DEF Next, vars, runVars, UserRequest, Pause, Resume, Cancel, CreateTask, UserMessage,
      Scheduler, Spawn, RunStep, Start, RunFails, Goto,
      WorkerStep, Submit, Settle, FailTask, InterruptTask, CleanupFails, HoldTask,
      SupervisorStep, Publish, FailSupervisorJob, InterruptSupervisorJob, HoldSupervisor,
      Process, Stop, Stopped, Crash, Restart

\* Only fail_task counts.
LEMMA UndoneUnchanged ==
  ASSUME [Next]_vars, \A r \in Runs : ~FailTask(r)
  PROVE  UNCHANGED undone
<1>1. ASSUME NEW r \in Runs, Decide(r) PROVE UNCHANGED undone
  BY <1>1 DEF Decide, Apply
<1> QED
  BY <1>1 DEF Next, vars, storeVars, artVars, UserRequest, Pause, Resume, Cancel, CreateTask, UserMessage,
       Scheduler, ClaimSupervisorJob, ClaimNextTask, Spawn, RunStep, Start, RunFails,
       WorkerStep, Submit, Settle, InterruptTask, CleanupFails, HoldTask,
       SupervisorStep, Publish, FailSupervisorJob, InterruptSupervisorJob, HoldSupervisor,
       Process, Stop, Stopped, Crash, Restart

\* What takes a completed task back is counted, and nothing else: a coroutine that has not
\* submitted owns its task, which is running then.
LEMMA UndoneCounts ==
  ASSUME RunInv, [Next]_vars, NEW t \in Tasks
  PROVE  undone'[t] = undone[t] + (IF taskStatus[t] = "completed" /\ taskStatus'[t] # "completed" THEN 1 ELSE 0)
<1>0. TypeOK BY DEF RunInv
<1>1. undone \in [Tasks -> Nat] /\ taskStatus \in [Tasks -> TaskStates] BY <1>0 DEF TypeOK
<1>2. CASE \A r \in Runs : ~FailTask(r)
  <2>1. undone' = undone BY <1>2, UndoneUnchanged
  <2>2. taskStatus[t] = "completed" => taskStatus'[t] = "completed" BY <1>2, TaskMoves
  <2> QED BY <1>1, <2>1, <2>2
<1>3. ASSUME NEW r \in Runs, FailTask(r), Settling(r), runTask[r] = t, taskStatus[t] = "completed"
      PROVE  undone'[t] = undone[t] + 1 /\ taskStatus'[t] # "completed"
  BY <1>1, <1>3 DEF FailTask
<1>4. ASSUME NEW r \in Runs, FailTask(r), ~(Settling(r) /\ runTask[r] = t /\ taskStatus[t] = "completed")
      PROVE  undone'[t] = undone[t]
  BY <1>1, <1>4 DEF FailTask
<1>5. taskStatus[t] = "completed" /\ taskStatus'[t] # "completed" =>
        \E r \in Runs : FailTask(r) /\ Settling(r) /\ runTask[r] = t
  BY TaskMoves
<1> HIDE DEF FailTask
<1> QED BY <1>1, <1>2, <1>3, <1>4, <1>5

\* A decision completes each task it accepts with one Artifact; nothing else accepts or completes.
LEMMA OneAcceptedStep ==
  RunInv /\ OneAcceptedArtifact /\ [Next]_vars => OneAcceptedArtifact'
<1> DEFINE One(n) == IF n THEN 1 ELSE 0
<1> SUFFICES ASSUME RunInv, OneAcceptedArtifact, [Next]_vars, NEW t \in Tasks
             PROVE  Cardinality(Accepted(t)') = undone'[t] + One(taskStatus'[t] = "completed")
  BY DEF OneAcceptedArtifact, Accepted
<1>0. TypeOK BY DEF RunInv
<1>1. Cardinality(Accepted(t)) = undone[t] + One(taskStatus[t] = "completed") BY DEF OneAcceptedArtifact
<1>2. undone[t] \in Nat BY <1>0 DEF TypeOK
<1>3. undone'[t] = undone[t] + One(taskStatus[t] = "completed" /\ taskStatus'[t] # "completed")
  BY UndoneCounts
<1>4. CASE \A r \in Runs : ~Decide(r)
  <2>1. taskStatus'[t] = "completed" => taskStatus[t] = "completed" BY <1>4, CompletedBy
  <2>2. \A s \in Runs : artifact'[s] = "accepted" <=> artifact[s] = "accepted"
    <3>1. CASE \A r \in Runs : ~Submit(r) BY <1>4, <3>1, ArtifactsUnchanged
    <3>2. ASSUME NEW r \in Runs, Submit(r)
          PROVE  \A s \in Runs : artifact'[s] = "accepted" <=> artifact[s] = "accepted"
      <4>1. artifact[r] = "none" BY <3>2 DEF RunInv, RunsSound, SoundRun, Submit
      <4> QED BY <1>0, <3>2, <4>1 DEF Submit, TypeOK
    <3> QED BY <3>1, <3>2
  <2>3. Accepted(t)' = Accepted(t) BY <2>2, RunTaskStays DEF Accepted
  <2> QED BY <1>1, <1>2, <1>3, <2>1, <2>3
<1>5. ASSUME NEW r \in Runs, Decide(r)
      PROVE  Cardinality(Accepted(t)') = undone'[t] + One(taskStatus'[t] = "completed")
  <2> DEFINE Accepts(acc, art) ==
        /\ \A u \in acc : /\ taskStatus[u] = "submitted" /\ runTask[art[u]] = u
                          /\ artifact[art[u]] = "pending_review"
        /\ \A u \in Tasks : taskStatus'[u] = "completed" <=> u \in acc \/ taskStatus[u] = "completed"
        /\ \A s \in Runs : artifact'[s] = "accepted" <=> artifact[s] = "accepted" \/ \E u \in acc : s = art[u]
  <2>1. PICK acc \in SUBSET Tasks : \E art \in [acc -> Runs] : Accepts(acc, art)
    BY <1>0, <1>5, DecideAccepts
  <2>2. PICK art \in [acc -> Runs] : Accepts(acc, art)
    BY <2>1
  <2>3. runTask' = runTask BY <1>5, DecideFacts
  <2>4. CASE t \in acc
    <3>1. taskStatus[t] # "completed" /\ taskStatus'[t] = "completed" BY <2>2, <2>4
    <3>2. Accepted(t)' = Accepted(t) \cup {art[t]} BY <2>2, <2>3, <2>4 DEF Accepted
    <3>3. art[t] \notin Accepted(t) BY <2>2, <2>4 DEF Accepted
    <3>4. IsFiniteSet(Accepted(t))
      <4>1. IsFiniteSet(Runs) BY BoundsAreNat, FS_Interval DEF Runs
      <4>2. Accepted(t) \subseteq Runs BY DEF Accepted
      <4> QED BY <4>1, <4>2, FS_Subset
    <3>5. Cardinality(Accepted(t)') = Cardinality(Accepted(t)) + 1
      BY <3>2, <3>3, <3>4, FS_AddElement
    <3> QED BY <1>1, <1>2, <1>3, <3>1, <3>5
  <2>5. CASE t \notin acc
    <3>1. Accepted(t)' = Accepted(t) BY <2>2, <2>3, <2>5 DEF Accepted
    <3>2. taskStatus'[t] = "completed" <=> taskStatus[t] = "completed" BY <2>2, <2>5
    <3> QED BY <1>1, <1>2, <1>3, <3>1, <3>2
  <2> QED BY <2>4, <2>5
<1> QED BY <1>4, <1>5

\* Every acceptance is accounted for: a completed task has one accepted Artifact, and one
\* more for each time a worker that failed after its submission took the task back.
THEOREM AcceptedOnce == Spec => []OneAcceptedArtifact
<1>1. Init => RunInv /\ OneAcceptedArtifact
  <2> SUFFICES ASSUME Init PROVE OneAcceptedArtifact
    BY InitRunInv
  <2>1. \A t \in Tasks : Accepted(t) = {} /\ undone[t] = 0 /\ taskStatus[t] # "completed"
    BY DEF Init, Accepted
  <2> QED BY <2>1, FS_EmptySet DEF OneAcceptedArtifact
<1>2. RunInv /\ OneAcceptedArtifact /\ [Next]_vars => (RunInv /\ OneAcceptedArtifact)'
  BY RunInvStep, OneAcceptedStep
<1> QED BY <1>1, <1>2, PTL DEF Spec

-----------------------------------------------------------------------------
(* Who works on what, until the process first stops, if writing the result *)
(* and the mail of a submission never fails.                               *)

\* No submission fails after it was made.
NoLateFailure == \A r \in Runs : ~(pc[r] = "failing" /\ Settling(r))

TidyNext == [Next /\ ~LateFailure']_vars

\* A tidy step fails no run that has submitted.
LEMMA NoLateFailureStep == NoLateFailure /\ TidyNext => NoLateFailure'
BY DEF TidyNext, NoLateFailure, LateFailure, Settling, Worker, vars, runVars, storeVars, artVars

OwnersApart ==
  \A t \in ActiveTasks :
    /\ taskOwner[t] # NoAgent /\ agent[taskOwner[t]] # "idle"
    /\ \A u \in ActiveTasks : taskOwner[u] = taskOwner[t] => u = t
\* A supervisor coroutine whose job still runs: the supervisor does nothing else.
Governs(r) == Engaged(r) /\ jobStatus[runJob[r]] = "running"
SupAlone ==
  \A r \in Runs : Governs(r) => agent[Sup] # "idle" /\ \A t \in ActiveTasks : taskOwner[t] # Sup
NeverStopped == stops = 0 => up = "up" /\ OwnersApart /\ SupAlone

\* Only the scheduler sets a task running, and no one takes it from its owner then.
LEMMA RunningFrom ==
  ASSUME TypeOK, [Next]_vars, NEW t \in Tasks, taskStatus'[t] = "running"
  PROVE  (taskStatus[t] = "running" /\ taskOwner'[t] = taskOwner[t]) \/ ClaimNextTask(t)
<1>1. taskStatus \in [Tasks -> TaskStates] /\ taskOwner \in [Tasks -> Agents \cup {NoAgent}] BY DEF TypeOK
<1> DEFINE Old == taskStatus[t] = "running" /\ taskOwner'[t] = taskOwner[t]
<1>2. ASSUME UNCHANGED taskVars PROVE Old BY <1>2 DEF taskVars
<1>3. ASSUME UserRequest PROVE Old
  BY <1>1, <1>2, <1>3 DEF UserRequest, Pause, Resume, UserMessage, CreateTask, Cancel
<1>4. ASSUME NEW u \in Tasks, u # t, ClaimNextTask(u) PROVE Old
  BY <1>1, <1>4 DEF ClaimNextTask
<1>5. ASSUME NEW r \in Runs, Submit(r) PROVE Old BY <1>1, <1>5 DEF Submit
<1>6. ASSUME NEW r \in Runs, FailTask(r) PROVE Old BY <1>1, <1>6 DEF FailTask
<1>7. ASSUME NEW r \in Runs, InterruptTask(r) PROVE Old BY <1>1, <1>7 DEF InterruptTask
<1>8. ASSUME NEW r \in Runs, HoldTask(r) PROVE Old BY <1>8 DEF HoldTask
<1>9. ASSUME NEW r \in Runs, Spawn(r) \/ Start(r) \/ RunFails(r) \/ Settle(r) \/ CleanupFails(r) \/ Publish(r)
                             \/ FailSupervisorJob(r) \/ InterruptSupervisorJob(r) \/ HoldSupervisor(r)
      PROVE  Old
  BY <1>2, <1>9 DEF Spawn, Start, RunFails, Settle, CleanupFails, Publish, FailSupervisorJob,
                    InterruptSupervisorJob, HoldSupervisor, storeVars
<1>10. ASSUME NEW T, NEW J, Restart(T, J) PROVE Old BY <1>1, <1>10 DEF Restart, Requeued
<1>11. ASSUME Stop \/ Stopped \/ Crash \/ UNCHANGED vars \/ ClaimSupervisorJob PROVE Old
  BY <1>2, <1>11 DEF Stop, Stopped, Crash, vars, storeVars, ClaimSupervisorJob
<1>12. ASSUME NEW r \in Runs, Decide(r) PROVE Old
  <2>1. PICK acc, rev, new, asg \in SUBSET Tasks : Outcome(r, acc, rev, new, asg)
    BY <1>12, DecideFacts, Zenon
  <2>2. taskStatus[t] = "running" BY <1>1, <2>1 DEF Outcome
  <2> QED BY <1>12, <2>2, DecideTasks
<1> QED
  BY <1>3, <1>4, <1>5, <1>6, <1>7, <1>8, <1>9, <1>10, <1>11, <1>12
  DEF Next, Scheduler, RunStep, WorkerStep, SupervisorStep, Process

\* A supervisor coroutine is what it was when it was claimed.
LEMMA EngagedFrom ==
  ASSUME TypeOK, RunsSound, [Next]_vars, NEW s \in Runs, Engaged(s)'
  PROVE  \/ Engaged(s) /\ runJob'[s] = runJob[s]
         \/ ClaimSupervisorJob /\ s = nRuns + 1
<1> DEFINE From == Engaged(s) /\ runJob'[s] = runJob[s]
<1> USE DEF Engaged, Live, LivePcs
<1>0. pc \in [Runs -> PcStates] /\ kind \in [Runs -> {"none", "worker", "supervisor"}] /\ SoundRun(s)
  BY DEF TypeOK, RunsSound
<1>1. ASSUME UNCHANGED <<kind[s], runJob[s], pc[s]>> PROVE From BY <1>1
<1>2. ASSUME UNCHANGED <<kind, runJob>>, NEW r \in Runs, NEW place, pc' = [pc EXCEPT ![r] = place],
             place \in {"done", "held"} \/ pc[r] = "claimed" \/ pc[r] \in LivePcs
      PROVE  From
  BY <1>0, <1>2
<1>3. CASE UserRequest \/ UNCHANGED vars \/ Stopped
  BY <1>1, <1>3 DEF UserRequest, Pause, Resume, Cancel, CreateTask, UserMessage, Stopped, vars, runVars
<1>4. CASE Stop \/ Crash BY <1>0, <1>4 DEF Stop, Crash, PcStates
<1>5. ASSUME NEW T, NEW J, Restart(T, J) PROVE From
  BY <1>1, <1>5 DEF Restart, runVars
<1>6. ASSUME ClaimSupervisorJob, s # nRuns + 1 PROVE From
  <2>1. PICK j \in Jobs : Begin(nRuns + 1, "supervisor", Sup, NoTask, j)
    BY <1>6 DEF ClaimSupervisorJob
  <2> QED BY <1>1, <1>6, <2>1 DEF Begin
<1>7. ASSUME NEW t \in Tasks, ClaimNextTask(t) PROVE From
  BY <1>0, <1>1, <1>7 DEF ClaimNextTask, Begin
<1>8. ASSUME NEW r \in Runs, Spawn(r) \/ Start(r) \/ RunFails(r) PROVE From
  BY <1>2, <1>8 DEF Spawn, Start, RunFails, Goto
<1>9. ASSUME NEW r \in Runs, WorkerStep(r) PROVE From
  BY <1>2, <1>9 DEF WorkerStep, Submit, Settle, FailTask, InterruptTask, CleanupFails, HoldTask, Goto
<1>10. ASSUME NEW r \in Runs, Decide(r) PROVE From
  <2>1. UNCHANGED <<kind, runJob>> /\ pc[r] = "streaming" /\ pc' = [pc EXCEPT ![r] = "publishing"]
    BY <1>10, DecideFacts
  <2> QED BY <1>2, <2>1
<1>11. ASSUME NEW r \in Runs, Publish(r) PROVE From
  BY <1>1, <1>2, <1>11 DEF Publish, Goto, runVars
<1>12. ASSUME NEW r \in Runs, FailSupervisorJob(r) \/ InterruptSupervisorJob(r) \/ HoldSupervisor(r)
       PROVE  From
  BY <1>2, <1>12 DEF FailSupervisorJob, InterruptSupervisorJob, HoldSupervisor, Goto
<1> QED
  BY <1>3, <1>4, <1>5, <1>6, <1>7, <1>8, <1>9, <1>10, <1>11, <1>12
  DEF Next, Scheduler, RunStep, SupervisorStep, Process

\* What frees an agent: the end of its task, or of the job of the supervisor.
LEMMA FreedBy ==
  ASSUME RunInv, NoLateFailure, up = "up", [Next]_vars, NEW a \in Agents, agent'[a] = "idle"
  PROVE  \/ agent[a] = "idle"
         \/ \E t \in ActiveTasks : taskOwner[t] = a /\ taskStatus'[t] # "running"
         \/ a = Sup /\ \E r \in Runs : Governs(r) /\ jobStatus'[runJob[r]] # "running"
<1> DEFINE Freed == \/ agent[a] = "idle"
                    \/ \E t \in ActiveTasks : taskOwner[t] = a /\ taskStatus'[t] # "running"
                    \/ a = Sup /\ \E r \in Runs : Governs(r) /\ jobStatus'[runJob[r]] # "running"
<1>0. TypeOK /\ RunsSound BY DEF RunInv
<1>a. /\ agent \in [Agents -> AgentStates] /\ taskStatus \in [Tasks -> TaskStates]
      /\ jobStatus \in [Jobs -> JobStates] /\ Sup \in Agents
  BY <1>0, TeamAssumption DEF TypeOK
<1>1. ASSUME UNCHANGED agent PROVE Freed BY <1>1
<1>2. ASSUME NEW r \in Runs, Submit(r) \/ FailTask(r) PROVE Freed
  <2>1. Fenced(r) BY <1>0, <1>2 DEF NoLateFailure, Submit, FailTask, Fenced, Settling
  <2>2. /\ runTask[r] \in Tasks /\ taskStatus[runTask[r]] = "running"
        /\ taskOwner[runTask[r]] = runAgent[r]
    BY <1>0, <2>1 DEF RunInv, OwnTask, Owns, RunsSound, SoundRun, Fenced
  <2>3. taskStatus'[runTask[r]] # "running" BY <1>a, <1>2, <2>2 DEF Submit, FailTask
  <2>4. a = runAgent[r] \/ agent[a] = "idle" BY <1>a, <1>2 DEF Submit, FailTask
  <2> QED BY <2>2, <2>3, <2>4 DEF ActiveTasks
<1>3. ASSUME NEW r \in Runs, Decide(r) PROVE Freed
  <2>1. Governs(r) BY <1>0, <1>3, DecideFacts, DecideRuns DEF Governs, Engaged, Live, LivePcs
  <2>2. runJob[r] \in Jobs BY <1>0, <2>1 DEF Governs, Engaged, RunsSound, SoundRun
  <2>3. jobStatus'[runJob[r]] # "running" BY <1>a, <1>3, <2>2, DecideFacts
  <2>4. a = Sup \/ agent[a] = "idle"
    BY <1>a, <1>3 DEF Decide, Apply
  <2> QED BY <2>1, <2>3, <2>4
<1>4. ASSUME NEW r \in Runs, FailSupervisorJob(r) PROVE Freed
  <2>1. CASE jobStatus[runJob[r]] # "running" BY <1>4, <2>1 DEF FailSupervisorJob
  <2>2. CASE jobStatus[runJob[r]] = "running"
    <3>1. Governs(r) BY <1>4, <2>2 DEF FailSupervisorJob, Governs, Engaged, Live, LivePcs
    <3>2. runJob[r] \in Jobs BY <1>0, <1>4 DEF FailSupervisorJob, RunsSound, SoundRun
    <3>3. jobStatus'[runJob[r]] # "running" BY <1>a, <1>4, <2>2, <3>2 DEF FailSupervisorJob
    <3>4. a = Sup \/ agent[a] = "idle" BY <1>a, <1>4, <2>2 DEF FailSupervisorJob
    <3> QED BY <3>1, <3>3, <3>4
  <2> QED BY <2>1, <2>2
<1>5. ASSUME NEW r \in Runs, InterruptTask(r) \/ InterruptSupervisorJob(r) PROVE Freed
  BY <1>5 DEF RunInv, ProcessSound, InterruptTask, InterruptSupervisorJob
<1>6. ASSUME NEW b, AgentWaits(b) PROVE Freed BY <1>a, <1>6 DEF AgentWaits
<1>7. ASSUME NEW t \in Tasks, ClaimNextTask(t) PROVE Freed BY <1>a, <1>7 DEF ClaimNextTask
<1>8. CASE ClaimSupervisorJob BY <1>a, <1>8 DEF ClaimSupervisorJob
<1>9. CASE UserRequest \/ UNCHANGED vars \/ Stop \/ Stopped \/ Crash
  BY <1>1, <1>9 DEF UserRequest, Pause, Resume, Cancel, CreateTask, UserMessage, vars, storeVars, Stop, Stopped, Crash
<1>10. ASSUME NEW T, NEW J, Restart(T, J) PROVE Freed BY <1>10 DEF Restart
<1>11. ASSUME NEW r \in Runs, Spawn(r) \/ Start(r) \/ RunFails(r) \/ Settle(r) \/ CleanupFails(r) \/ Publish(r)
       PROVE  Freed
  BY <1>1, <1>11 DEF Spawn, Start, RunFails, Settle, CleanupFails, Publish, storeVars
<1>12. ASSUME NEW r \in Runs, HoldTask(r) \/ HoldSupervisor(r) PROVE Freed
  BY <1>6, <1>12 DEF HoldTask, HoldSupervisor
<1> QED
  BY <1>2, <1>3, <1>4, <1>5, <1>7, <1>8, <1>9, <1>10, <1>11, <1>12
  DEF Next, Scheduler, RunStep, WorkerStep, SupervisorStep, Process

\* Until the process first stops, every step keeps agents and their work apart.
LEMMA NeverStoppedStep == RunInv /\ NoLateFailure /\ SingleControl /\ NeverStopped /\ [Next]_vars => NeverStopped'
<1> SUFFICES ASSUME RunInv, NoLateFailure, SingleControl, NeverStopped, [Next]_vars, stops' = 0
             PROVE  up' = "up" /\ OwnersApart' /\ SupAlone'
  BY DEF NeverStopped
<1>0. TypeOK /\ RunsSound BY DEF RunInv
<1>a. stops = 0 /\ (up = "up" => up' = "up")
  <2>1. ASSUME NEW r \in Runs, Decide(r) PROVE UNCHANGED <<stops, up>> BY <1>0, <2>1, DecideRuns
  <2>2. stops \in Nat BY <1>0, BoundsAreNat, TeamAssumption DEF TypeOK
  <2>3. ASSUME UserRequest \/ Scheduler \/ UNCHANGED vars PROVE UNCHANGED <<stops, up>>
    BY <2>3 DEF UserRequest, Pause, Resume, Cancel, CreateTask, UserMessage, procVars, Scheduler,
                ClaimSupervisorJob, ClaimNextTask, Spawn, vars
  <2>4. ASSUME NEW r \in Runs, RunStep(r) PROVE UNCHANGED <<stops, up>>
    BY <2>1, <2>4 DEF RunStep, Start, RunFails, WorkerStep, Submit, Settle, FailTask, InterruptTask, CleanupFails,
       HoldTask, SupervisorStep, Publish, FailSupervisorJob, InterruptSupervisorJob, HoldSupervisor, procVars
  <2>5. ASSUME NEW T, NEW J, Restart(T, J) PROVE stops = 0 /\ up' = "up"
    BY <2>5 DEF Restart
  <2>6. CASE Stop \/ Crash BY <2>2, <2>6 DEF Stop, Crash
  <2>7. CASE Stopped BY <2>7 DEF Stopped
  <2> QED BY <2>3, <2>4, <2>5, <2>6, <2>7 DEF Next, Process
<1>1. up = "up" /\ up' = "up" /\ OwnersApart /\ SupAlone
  BY <1>a DEF NeverStopped
<1>2. ASSUME NEW t \in Tasks, taskStatus'[t] = "running"
      PROVE (taskStatus[t] = "running" /\ taskOwner'[t] = taskOwner[t]) \/ ClaimNextTask(t)
  BY <1>0, <1>2, RunningFrom
<1>3. ASSUME NEW t \in Tasks, ClaimNextTask(t)
      PROVE  /\ taskOwner' = taskOwner /\ taskOwner[t] # NoAgent /\ agent[taskOwner[t]] = "idle"
             /\ agent'[taskOwner[t]] # "idle" /\ \A r \in Runs : ~Engaged(r)
             /\ \A u \in Tasks : ClaimNextTask(u) => u = t
  <2>1. \A u \in Tasks : ClaimNextTask(u) => taskStatus[u] = "pending" /\ taskStatus' = [taskStatus EXCEPT ![u] = "running"]
    BY DEF ClaimNextTask
  <2>2. taskOwner' = taskOwner /\ taskOwner[t] # NoAgent /\ agent[taskOwner[t]] = "idle"
    BY <1>3 DEF ClaimNextTask, OwnerFree
  <2>3. taskOwner[t] \in Agents BY <1>0, <2>2 DEF TypeOK
  <2>4. agent'[taskOwner[t]] # "idle" BY <1>0, <1>3, <2>3 DEF ClaimNextTask, TypeOK
  <2>5. \A r \in Runs : ~Engaged(r) BY <1>3 DEF ClaimNextTask, SchedulerIdle, SupervisorKeyTaken, Engaged
  <2>6. \A u \in Tasks : ClaimNextTask(u) => u = t
    BY <1>0, <1>3, <2>1 DEF TypeOK
  <2> QED BY <2>2, <2>4, <2>5, <2>6
<1>4. ASSUME NEW t \in Tasks, taskStatus'[t] = "running"
      PROVE  taskOwner'[t] # NoAgent /\ agent'[taskOwner'[t]] # "idle"
  <2>1. CASE ClaimNextTask(t) BY <1>3, <2>1
  <2>2. CASE taskStatus[t] = "running" /\ taskOwner'[t] = taskOwner[t]
    <3> DEFINE a == taskOwner[t]
    <3>1. t \in ActiveTasks BY <2>2 DEF ActiveTasks
    <3>2. a # NoAgent /\ agent[a] # "idle" /\ \A u \in ActiveTasks : taskOwner[u] = a => u = t
      BY <1>1, <3>1 DEF OwnersApart
    <3>3. a \in Agents BY <1>0, <3>2 DEF TypeOK
    <3>4. ~(a = Sup /\ \E r \in Runs : Governs(r))
      BY <1>1, <3>1 DEF SupAlone
    <3> HIDE DEF a
    <3>5. agent'[a] # "idle" BY <1>1, <1>4, <3>2, <3>3, <3>4, FreedBy
    <3> QED BY <2>2, <3>2, <3>5 DEF a
  <2> QED BY <1>2, <1>4, <2>1, <2>2
<1>5. ASSUME NEW t \in Tasks, NEW u \in Tasks, taskStatus'[t] = "running", taskStatus'[u] = "running",
             taskOwner'[u] = taskOwner'[t]
      PROVE  u = t
  <2>1. ASSUME NEW v \in Tasks, NEW w \in Tasks, ClaimNextTask(v), taskStatus[w] = "running", taskOwner'[w] = taskOwner'[v]
        PROVE FALSE
    <3>1. agent[taskOwner[w]] = "idle" BY <1>3, <2>1
    <3> QED BY <1>1, <2>1, <3>1 DEF OwnersApart, ActiveTasks
  <2>2. CASE taskStatus[t] = "running" /\ taskOwner'[t] = taskOwner[t] /\ taskStatus[u] = "running" /\ taskOwner'[u] = taskOwner[u]
    BY <1>1, <1>5, <2>2 DEF OwnersApart, ActiveTasks
  <2>3. CASE ClaimNextTask(t) BY <1>2, <1>3, <1>5, <2>1, <2>3
  <2>4. CASE ClaimNextTask(u) BY <1>2, <1>3, <1>5, <2>1, <2>4
  <2> QED BY <1>2, <1>5, <2>2, <2>3, <2>4
<1>6. ASSUME NEW r \in Runs, Governs(r)'
      PROVE  agent'[Sup] # "idle" /\ \A t \in Tasks : taskStatus'[t] = "running" => taskOwner'[t] # Sup
  <2>0. Sup \in Agents BY TeamAssumption
  <2>1. CASE Engaged(r) /\ runJob'[r] = runJob[r]
    <3>1. runJob[r] \in Jobs BY <1>0, <2>1 DEF RunsSound, SoundRun, Engaged
    <3>2. ~ClaimSupervisorJob BY <2>1 DEF ClaimSupervisorJob, SchedulerIdle, SupervisorKeyTaken, Engaged
    <3>3. Governs(r) BY <1>0, <1>6, <2>1, <3>1, <3>2, JobMoves DEF Governs
    <3>4. agent[Sup] # "idle" /\ \A t \in ActiveTasks : taskOwner[t] # Sup BY <1>1, <3>3 DEF SupAlone
    <3>5. ASSUME NEW q \in Runs, Governs(q), jobStatus'[runJob[q]] # "running" PROVE FALSE
      <4>1. q = r BY <2>1, <3>5 DEF SingleControl, Governs
      <4> QED BY <1>6, <2>1, <3>5, <4>1 DEF Governs
    <3>6. agent'[Sup] # "idle" BY <1>1, <2>0, <3>4, <3>5, FreedBy
    <3>7. ASSUME NEW t \in Tasks, taskStatus'[t] = "running" PROVE taskOwner'[t] # Sup
      BY <1>2, <1>3, <2>1, <3>4, <3>7 DEF ActiveTasks
    <3> QED BY <3>6, <3>7
  <2>2. CASE ClaimSupervisorJob
    <3>1. agent[Sup] = "idle" /\ agent'[Sup] # "idle" /\ UNCHANGED <<taskStatus, taskOwner>>
      BY <1>0, <2>0, <2>2 DEF ClaimSupervisorJob, SupervisorFree, taskVars, TypeOK
    <3> QED BY <1>1, <3>1 DEF OwnersApart, ActiveTasks
  <2> QED BY <1>0, <1>6, <2>1, <2>2, EngagedFrom DEF Governs
<1> QED BY <1>1, <1>4, <1>5, <1>6 DEF OwnersApart, SupAlone, ActiveTasks

\* No agent works on two tasks, and none with a running task looks free to the scheduler,
\* although fail_task sets the agent idle without looking: a coroutine that may fail its
\* task owns it, and a supervisor whose job runs has no task of its own.
THEOREM AgentsApart == TidySpec => []OneTaskPerAgent
<1> DEFINE Inv == RunInv /\ NoLateFailure /\ SingleControl /\ NeverStopped
<1>1. Init => Inv
  <2>1. Init => NoLateFailure BY DEF Init, NoLateFailure
  <2>2. Init => NeverStopped
    BY DEF Init, NeverStopped, OwnersApart, SupAlone, Governs, Engaged, ActiveTasks
  <2> QED BY <2>1, <2>2, InitRunInv, InitSingleControl
<1>2. Inv /\ TidyNext => Inv'
  <2>1. TidyNext => [Next]_vars BY DEF TidyNext
  <2>2. RunInv => TypeOK BY DEF RunInv
  <2> QED BY <2>1, <2>2, RunInvStep, NoLateFailureStep, SingleControlStep, NeverStoppedStep
<1>3. Inv => OneTaskPerAgent BY DEF NeverStopped, OneTaskPerAgent, OwnersApart
<1> QED BY <1>1, <1>2, <1>3, PTL DEF TidySpec, TidyNext
=============================================================================
