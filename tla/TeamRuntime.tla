---------------------------- MODULE TeamRuntime ----------------------------
(***************************************************************************)
(* One agent Team of the Access Layer: the control plane that              *)
(* access_layer/teams/store.py keeps in SQLite and the coroutines of       *)
(* access_layer/teams/runtime.py that drive it.                            *)
(*                                                                         *)
(* Every store method runs under one asyncio lock and one BEGIN IMMEDIATE  *)
(* transaction, so each is a single step.  Between two store calls of a    *)
(* coroutine anything else may happen: other coroutines, user requests,    *)
(* a shutdown, a crash.                                                    *)
(*                                                                         *)
(* A run is one coroutine, _run_claimed or _run_supervisor; pc[r] is the   *)
(* place between two store calls where it is:                              *)
(*   claimed     the claim committed, the scheduler has not spawned it yet *)
(*   queued      created, waiting for the global semaphore                 *)
(*   streaming   inside _stream_agent                                      *)
(*   settling    worker: submitted, writing result file and mail           *)
(*   publishing  supervisor: decision applied, promoting staged bundles    *)
(*   failing     an exception was caught, fail_* is the next store call    *)
(*   cancelling  CancelledError was caught, interrupt_* is the next call   *)
(*   held        over: an approval was asked for, the attempt waits for it *)
(***************************************************************************)
EXTENDS Naturals, FiniteSets

CONSTANTS
  Agents,        \* members of the team
  Sup,           \* the registered supervisor, one of Agents
  Tasks,         \* every task the team may ever have
  Drafts,        \* tasks created together with the team
  DependsOn,     \* [Tasks -> SUBSET Tasks]
  NoAgent, NoTask,
  MaxParallel,   \* teams.max_parallel
  MaxActive,     \* max_active_runs: the semaphore of the whole process
  MaxAttempts,   \* max_attempts of tasks and jobs (3 in the schema)
  MaxRuns,       \* bound: coroutines ever created
  MaxRequests,   \* bound: new tasks and messages of the user
  MaxStops       \* bound: shutdowns and crashes

ASSUME TeamAssumption ==
  /\ Sup \in Agents /\ NoAgent \notin Agents
  /\ NoTask \notin Tasks /\ Drafts \subseteq Tasks
  /\ DependsOn \in [Tasks -> SUBSET Tasks]
  /\ MaxParallel \in Nat \ {0} /\ MaxActive \in Nat \ {0} /\ MaxAttempts \in Nat \ {0}
  /\ MaxRuns \in Nat /\ MaxRequests \in Nat /\ MaxStops \in Nat

Runs == 1..MaxRuns
\* A worker queues at most two jobs: task.submitted, and task.failed after it.
MaxJobs == 1 + MaxRequests + 2 * MaxRuns
Jobs == 1..MaxJobs

VARIABLES
  team,                                              \* teams.status
  agent,                                             \* team_agents.status
  taskStatus, taskOwner, taskAttempt, taskLease, taskRun,
  jobStatus, jobTrigger, jobTask, jobAttempt, jobLease, jobRun,
  nJobs,                                             \* supervisor_jobs rows so far
  artifact,      \* status of the Artifact run r submitted
  published,     \* Artifacts whose workspace_path is recorded
  undone,        \* history: how often a worker that failed after it had submitted took
                 \* the completed task back
  pc, kind, runTask, runJob, runAgent,               \* coroutines
  bundle,        \* Artifacts a supervisor read, then the ones it staged
  nRuns, up, stops,
  requests       \* new tasks and messages so far

taskVars  == <<taskStatus, taskOwner, taskAttempt, taskLease, taskRun>>
jobVars   == <<jobStatus, jobTrigger, jobTask, jobAttempt, jobLease, jobRun, nJobs>>
artVars   == <<artifact, published, undone>>
storeVars == <<team, agent, taskVars, jobVars, artVars>>
runVars   == <<pc, kind, runTask, runJob, runAgent, bundle, nRuns>>
procVars  == <<up, stops, requests>>
vars      == <<storeVars, runVars, procVars>>

TeamStates  == {"running", "paused", "cancelled", "completed"}
AgentStates == {"idle", "busy", "waiting"}
TaskStates  == {"absent", "pending", "running", "submitted", "completed", "failed", "cancelled"}
JobStates   == {"absent", "pending", "running", "completed", "failed", "cancelled"}
\* "notice" stands for task.created, task.failed and user.instruction_added:
\* the store treats the three alike.
Triggers    == {"none", "team.started", "task.submitted", "notice"}
ArtStates   == {"none", "pending_review", "accepted", "revision_required"}
LivePcs     == {"queued", "streaming", "settling", "publishing", "failing", "cancelling"}
PcStates    == LivePcs \cup {"unused", "claimed", "held", "done"}

TypeOK ==
  /\ team \in TeamStates
  /\ agent \in [Agents -> AgentStates]
  /\ taskStatus \in [Tasks -> TaskStates]
  /\ taskOwner \in [Tasks -> Agents \cup {NoAgent}]
  /\ taskAttempt \in [Tasks -> Nat]
  /\ taskLease \in [Tasks -> BOOLEAN]
  /\ taskRun \in [Tasks -> 0..MaxRuns]
  /\ jobStatus \in [Jobs -> JobStates]
  /\ jobTrigger \in [Jobs -> Triggers]
  /\ jobTask \in [Jobs -> Tasks \cup {NoTask}]
  /\ jobAttempt \in [Jobs -> Nat]
  /\ jobLease \in [Jobs -> BOOLEAN]
  /\ jobRun \in [Jobs -> 0..MaxRuns]
  /\ nJobs \in 0..MaxJobs
  /\ artifact \in [Runs -> ArtStates]
  /\ published \subseteq Runs
  /\ pc \in [Runs -> PcStates]
  /\ kind \in [Runs -> {"none", "worker", "supervisor"}]
  /\ runTask \in [Runs -> Tasks \cup {NoTask}]
  /\ runJob \in [Runs -> 0..MaxJobs]
  /\ runAgent \in [Runs -> Agents \cup {NoAgent}]
  /\ bundle \in [Runs -> SUBSET Runs]
  /\ undone \in [Tasks -> Nat]
  /\ nRuns \in 0..MaxRuns
  /\ up \in {"up", "stopping", "down"}
  /\ stops \in 0..MaxStops
  /\ requests \in 0..MaxRequests

-----------------------------------------------------------------------------
(* Coroutines and the control boundary.                                    *)

Live(r)   == pc[r] \in LivePcs
Worker(r) == kind[r] = "worker"

\* A worker that has submitted and has yet to send its mail, or to fail.  The
\* store lock is FIFO (asyncio.Lock) and nothing is awaited before that call:
\* only calls that waited for the lock already can come in between.  A decision
\* made after reading the submission is none of them, nor is a new claim of
\* the task, which takes a decision before.
Settling(r) == pc[r] = "settling" \/ (pc[r] = "failing" /\ Worker(r) /\ artifact[r] # "none")

\* _active holds the key supervisor:{team_id}
SupervisorKeyTaken == \E r \in Runs : kind[r] = "supervisor" /\ Live(r)
SchedulerIdle == up = "up" /\ \A r \in Runs : pc[r] # "claimed"

\* A slip: the scheduler does not look at the gate.
NoSupervisorWork == FALSE

\* has_supervisor_work
SupervisorWork == \E j \in Jobs : jobStatus[j] \in {"pending", "running"}
ActiveTasks == {t \in Tasks : taskStatus[t] = "running"}
PendingReview(t) == {r \in Runs : runTask[r] = t /\ artifact[r] = "pending_review"}

Begin(r, k, a, t, j) ==
  /\ pc' = [pc EXCEPT ![r] = "claimed"]
  /\ kind' = [kind EXCEPT ![r] = k]
  /\ runAgent' = [runAgent EXCEPT ![r] = a]
  /\ runTask' = [runTask EXCEPT ![r] = t]
  /\ runJob' = [runJob EXCEPT ![r] = j]
  /\ nRuns' = r
  /\ UNCHANGED bundle

Goto(r, place) ==
  /\ pc' = [pc EXCEPT ![r] = place]
  /\ UNCHANGED <<kind, runTask, runJob, runAgent, bundle, nRuns>>

\* _enqueue_supervisor_job_sync, inside the caller's transaction
Enqueue(trigger, t) ==
  /\ nJobs < MaxJobs
  /\ nJobs' = nJobs + 1
  /\ jobStatus' = [jobStatus EXCEPT ![nJobs + 1] = "pending"]
  /\ jobTrigger' = [jobTrigger EXCEPT ![nJobs + 1] = trigger]
  /\ jobTask' = [jobTask EXCEPT ![nJobs + 1] = t]
  /\ UNCHANGED <<jobAttempt, jobLease, jobRun>>

-----------------------------------------------------------------------------
(* User requests.                                                          *)

Pause ==
  /\ up = "up"
  /\ team' = "paused"
  /\ UNCHANGED <<agent, taskVars, jobVars, artVars, runVars, procVars>>

\* A slip: resume only sets the team running.
ResumeTeamOnly ==
  /\ up = "up" /\ team' = "running"
  /\ UNCHANGED <<agent, taskVars, jobVars, artVars, runVars, procVars>>

\* The newest failed job gets a fresh set of attempts.  updated_at orders
\* failed jobs by when they failed; any of them may be the newest.
Resume ==
  /\ up = "up"
  /\ team' = "running"
  /\ LET failed == {j \in Jobs : jobStatus[j] = "failed"} IN
     IF failed = {} THEN UNCHANGED jobVars
     ELSE \E j \in failed :
            /\ jobStatus' = [jobStatus EXCEPT ![j] = "pending"]
            /\ jobAttempt' = [jobAttempt EXCEPT ![j] = 0]
            /\ UNCHANGED <<jobTrigger, jobTask, jobLease, jobRun, nJobs>>
  /\ UNCHANGED <<agent, taskVars, artVars, runVars, procVars>>

\* A slip: running tasks are cancelled as well.
CancellableOrRunning == {"pending", "submitted", "running"}
Cancellable == {"pending", "submitted"}

Cancel ==
  /\ up = "up"
  /\ team' = "cancelled"
  /\ taskStatus' = [t \in Tasks |-> IF taskStatus[t] \in Cancellable
                                    THEN "cancelled" ELSE taskStatus[t]]
  /\ jobStatus' = [j \in Jobs |-> IF jobStatus[j] \in {"pending", "running"}
                                  THEN "cancelled" ELSE jobStatus[j]]
  /\ jobLease' = [j \in Jobs |-> IF jobStatus[j] \in {"pending", "running"}
                                 THEN FALSE ELSE jobLease[j]]
  /\ UNCHANGED <<agent, taskOwner, taskAttempt, taskLease, taskRun, jobTrigger, jobTask,
                 jobAttempt, jobRun, nJobs, artVars, runVars, procVars>>

CreateTask(t, owner) ==
  /\ up = "up" /\ taskStatus[t] = "absent" /\ requests < MaxRequests
  /\ taskStatus' = [taskStatus EXCEPT ![t] = "pending"]
  /\ taskOwner' = [taskOwner EXCEPT ![t] = owner]
  /\ Enqueue("notice", NoTask)
  /\ requests' = requests + 1
  /\ UNCHANGED <<team, agent, taskAttempt, taskLease, taskRun, artVars, runVars, up, stops>>

UserMessage ==
  /\ up = "up" /\ requests < MaxRequests
  /\ Enqueue("notice", NoTask)
  /\ requests' = requests + 1
  /\ UNCHANGED <<team, agent, taskVars, artVars, runVars, up, stops>>

-----------------------------------------------------------------------------
(* The scheduler: _dispatch_team.                                          *)

SupervisorFree == team = "running" /\ agent[Sup] = "idle"

ClaimSupervisorJob ==
  /\ SchedulerIdle /\ ~SupervisorKeyTaken /\ SupervisorFree /\ nRuns < MaxRuns
  /\ \E j \in Jobs : LET r == nRuns + 1 IN
     /\ jobStatus[j] = "pending" /\ \A i \in Jobs : jobStatus[i] = "pending" => j <= i
     /\ jobStatus' = [jobStatus EXCEPT ![j] = "running"]
     /\ jobAttempt' = [jobAttempt EXCEPT ![j] = @ + 1]
     /\ jobLease' = [jobLease EXCEPT ![j] = TRUE]
     /\ jobRun' = [jobRun EXCEPT ![j] = r]
     /\ agent' = [agent EXCEPT ![Sup] = "busy"]
     /\ Begin(r, "supervisor", Sup, NoTask, j)
  /\ UNCHANGED <<team, taskVars, jobTrigger, jobTask, nJobs, artVars, procVars>>

\* A slip: a dependency that has come to any end is good enough.
DependenciesEnded(t) == \A d \in DependsOn[t] : taskStatus[d] \in {"completed", "failed", "cancelled"}
DependenciesMet(t) == \A d \in DependsOn[t] : taskStatus[d] = "completed"

\* A slip: the owner's status is not looked at.
OwnerKnown(t) == taskOwner[t] # NoAgent
OwnerFree(t) == taskOwner[t] # NoAgent /\ agent[taskOwner[t]] = "idle"

\* Priorities are arbitrary, so any eligible task may be the first one.
ClaimNextTask(t) ==
  /\ SchedulerIdle /\ ~SupervisorKeyTaken /\ nRuns < MaxRuns
  /\ team = "running" /\ ~SupervisorWork
  /\ Cardinality(ActiveTasks) < MaxParallel
  /\ taskStatus[t] = "pending" /\ DependenciesMet(t) /\ OwnerFree(t)
  /\ \A s \in Runs : Settling(s) => runTask[s] # t
  /\ LET r == nRuns + 1 IN
     /\ taskStatus' = [taskStatus EXCEPT ![t] = "running"]
     /\ taskAttempt' = [taskAttempt EXCEPT ![t] = @ + 1]
     /\ taskLease' = [taskLease EXCEPT ![t] = TRUE]
     /\ taskRun' = [taskRun EXCEPT ![t] = r]
     /\ agent' = [agent EXCEPT ![taskOwner[t]] = "busy"]
     /\ Begin(r, "worker", taskOwner[t], t, 0)
  /\ UNCHANGED <<team, taskOwner, jobVars, artVars, procVars>>

Spawn(r) ==
  /\ up = "up" /\ pc[r] = "claimed"
  /\ Goto(r, "queued")
  /\ UNCHANGED <<storeVars, procVars>>

SlotFree == Cardinality({s \in Runs : Live(s) /\ pc[s] # "queued"}) < MaxActive

\* The semaphore admits the run; a supervisor then reads its context.
Start(r) ==
  /\ up = "up" /\ pc[r] = "queued" /\ SlotFree
  /\ pc' = [pc EXCEPT ![r] = "streaming"]
  /\ bundle' = [bundle EXCEPT ![r] = IF Worker(r) THEN {}
                                     ELSE {s \in Runs : artifact[s] # "none"}]
  /\ UNCHANGED <<storeVars, kind, runTask, runJob, runAgent, nRuns, procVars>>

-----------------------------------------------------------------------------
(* A worker run: _run_claimed.                                             *)

\* submit_task: owner and status are checked, the run id is not.
Submit(r) ==
  LET t == runTask[r] IN
  /\ Worker(r) /\ pc[r] = "streaming"
  /\ taskStatus[t] = "running" /\ taskOwner[t] = runAgent[r]
  /\ artifact' = [artifact EXCEPT ![r] = "pending_review"]
  /\ taskStatus' = [taskStatus EXCEPT ![t] = "submitted"]
  /\ taskLease' = [taskLease EXCEPT ![t] = FALSE]
  /\ agent' = [agent EXCEPT ![runAgent[r]] = "idle"]
  /\ Enqueue("task.submitted", t)
  /\ Goto(r, "settling")
  /\ UNCHANGED <<team, taskOwner, taskAttempt, taskRun, published, undone, procVars>>

\* _write_task_result and the artifact_ready mail succeed
Settle(r) ==
  /\ pc[r] = "settling"
  /\ Goto(r, "done")
  /\ UNCHANGED <<storeVars, procVars>>

\* Any step inside the try block may raise: stream, directory, decision, mail.
RunFails(r) ==
  /\ up = "up" /\ pc[r] \in {"streaming", "settling", "publishing"}
  /\ Goto(r, "failing")
  /\ UNCHANGED <<storeVars, procVars>>

\* fail_task: no guard on the status the task has by now
FailTask(r) ==
  LET t == runTask[r]
      retry == taskAttempt[t] < MaxAttempts IN
  /\ Worker(r) /\ pc[r] = "failing"
  /\ taskStatus' = [taskStatus EXCEPT ![t] = IF retry THEN "pending" ELSE "failed"]
  /\ taskLease' = [taskLease EXCEPT ![t] = FALSE]
  /\ agent' = [agent EXCEPT ![runAgent[r]] = "idle"]
  /\ IF retry THEN UNCHANGED jobVars ELSE Enqueue("notice", NoTask)
  /\ undone' = IF Settling(r) /\ taskStatus[t] = "completed"
               THEN [undone EXCEPT ![t] = @ + 1] ELSE undone
  /\ Goto(r, "done")
  /\ UNCHANGED <<team, taskOwner, taskAttempt, taskRun, artifact, published, procVars>>

\* interrupt_task: guarded update of the task, unguarded update of the agent
InterruptTask(r) ==
  LET t == runTask[r]
      mine == taskStatus[t] = "running" /\ taskOwner[t] = runAgent[r] IN
  /\ Worker(r) /\ pc[r] = "cancelling"
  /\ IF mine
     THEN /\ taskStatus' = [taskStatus EXCEPT ![t] = "pending"]
          /\ taskAttempt' = [taskAttempt EXCEPT ![t] = IF @ > 0 THEN @ - 1 ELSE 0]
          /\ taskLease' = [taskLease EXCEPT ![t] = FALSE]
          /\ taskRun' = [taskRun EXCEPT ![t] = 0]
     ELSE UNCHANGED <<taskStatus, taskAttempt, taskLease, taskRun>>
  /\ agent' = [agent EXCEPT ![runAgent[r]] = "idle"]
  /\ Goto(r, "done")
  /\ UNCHANGED <<team, taskOwner, jobVars, artVars, procVars>>

\* hold_*_for_approval: the row stays running, but out of reach of lease recovery.
LeaseReleased(leased, row, mine) == IF mine THEN [leased EXCEPT ![row] = FALSE] ELSE leased

\* _stream_agent has met a card and then the interrupt that ends the stream.
Interrupted(r) == pc[r] = "streaming"

\* record_approval marks the agent as waiting when the card comes, the hold does so again
\* and asks nothing.  No guard tells waiting from busy, so the two calls are one step.
AgentWaits(a) == agent' = [agent EXCEPT ![a] = "waiting"]

HoldTask(r) ==
  LET t == runTask[r]
      mine == taskStatus[t] = "running" /\ taskOwner[t] = runAgent[r] /\ taskRun[t] = r IN
  /\ Worker(r) /\ Interrupted(r)
  /\ taskLease' = LeaseReleased(taskLease, t, mine)
  /\ AgentWaits(runAgent[r])
  /\ Goto(r, "held")
  /\ UNCHANGED <<team, taskStatus, taskOwner, taskAttempt, taskRun, jobVars, artVars, procVars>>

\* The except blocks rewrite manifest.json before the store call; when that
\* file is unreadable or unwritable the store call is never made.
CleanupFails(r) ==
  /\ Worker(r) /\ pc[r] \in {"failing", "cancelling"}
  /\ Goto(r, "done")
  /\ UNCHANGED <<storeVars, procVars>>

-----------------------------------------------------------------------------
(* A supervisor run: _run_supervisor.                                      *)

Cyclic(S) == \E C \in SUBSET S : C # {} /\ \A t \in C : DependsOn[t] \cap C # {}

\* The tasks a decision leaves to be finished
Unfinished(st) == {t \in Tasks : st[t] \notin {"absent", "completed", "cancelled"}}

\* A slip: any task can be assigned again.
AssignableAny(t, rev) == taskStatus[t] # "absent"
Assignable(t, rev) == taskStatus[t] \in {"pending", "failed"} \/ t \in rev

\* A slip: a decision need not mention the submission it was asked for.
ReviewedAny(j, reviewed) == TRUE
Reviewed(j, reviewed) == jobTrigger[j] = "task.submitted" => jobTask[j] \in reviewed

\* The Artifacts of t the supervisor read that still wait for review
Read(r, t) == PendingReview(t) \cap bundle[r]

\* _stage_decision_artifacts: the Artifacts whose files are staged.  The one
\* accepted, when the decision names none, is the newest by now; the one staged
\* is the newest that was read.
Staged(r, acc, art) ==
  {s \in bundle[r] : \E t \in acc :
     IF art[t] \in bundle[r] THEN s = art[t]
     ELSE s \in Read(r, t) /\ \A u \in Read(r, t) : u <= s}

\* apply_supervisor_decision for the decision that accepts acc with the
\* Artifacts art, sends rev back, creates new, (re)assigns asg with the owners
\* own, and finishes the team when fin.  The job is looked up by status, not by
\* run id.  A decision that breaks a condition raises and rolls back: RunFails.
Apply(r, acc, art, rev, new, asg, own, fin) ==
  LET j == runJob[r]
      chosen == {art[t] : t \in acc}
      status == [t \in Tasks |-> CASE t \in acc -> "completed"
                                   [] t \in rev \cup new \cup asg -> "pending"
                                   [] OTHER -> taskStatus[t]]
      owner == [t \in Tasks |-> IF t \in new \cup asg THEN own[t] ELSE taskOwner[t]] IN
  /\ \A s \in bundle[r] : ~Settling(s)
  /\ jobStatus[j] = "running"
  /\ \A t \in acc : /\ Read(r, t) # {} /\ art[t] \in PendingReview(t)
                    /\ art[t] \in bundle[r] \/ \A s \in PendingReview(t) : s <= art[t]
  /\ acc \cap rev = {}
  /\ \A t \in new : DependsOn[t] \subseteq {s \in Tasks : status[s] # "absent"}
  /\ ~Cyclic(new)
  /\ \A t \in asg : Assignable(t, rev)
  /\ Reviewed(j, acc \cup rev)
  /\ jobTrigger[j] = "team.started" =>
       /\ \E t \in Tasks : status[t] # "absent"
       /\ \A t \in Tasks : status[t] = "pending" => owner[t] # NoAgent
  /\ fin => Unfinished(status) = {}
  /\ taskStatus' = status
  /\ taskOwner' = owner
  /\ taskRun' = [t \in Tasks |-> IF t \in rev THEN 0 ELSE taskRun[t]]
  /\ artifact' = [s \in Runs |->
       IF s \in chosen THEN "accepted"
       ELSE IF runTask[s] \in rev /\ artifact[s] = "pending_review" THEN "revision_required"
       ELSE artifact[s]]
  /\ team' = IF fin THEN "completed" ELSE team
  /\ jobStatus' = [jobStatus EXCEPT ![j] = "completed"]
  /\ jobLease' = [jobLease EXCEPT ![j] = FALSE]
  /\ agent' = [agent EXCEPT ![Sup] = "idle"]
  /\ pc' = [pc EXCEPT ![r] = "publishing"]
  /\ bundle' = [bundle EXCEPT ![r] = Staged(r, acc, art)]
  /\ UNCHANGED <<taskAttempt, taskLease, jobTrigger, jobTask, jobAttempt, jobRun, nJobs,
                 published, undone, kind, runTask, runJob, runAgent, nRuns, procVars>>

Decide(r) ==
  /\ kind[r] = "supervisor" /\ pc[r] = "streaming"
  /\ \E acc \in SUBSET {t \in Tasks : taskStatus[t] = "submitted"},
        rev \in SUBSET {t \in Tasks : taskStatus[t] = "submitted"},
        new \in SUBSET {t \in Tasks : taskStatus[t] = "absent"},
        asg \in SUBSET Tasks, fin \in BOOLEAN :
       \E art \in [acc -> Runs], own \in [new \cup asg -> Agents] :
         Apply(r, acc, art, rev, new, asg, own, fin)

\* _finalize_artifact_publications, one record_artifact_publication a step;
\* recording an Artifact that was staged but not accepted raises: RunFails
Publish(r) ==
  /\ pc[r] = "publishing"
  /\ IF bundle[r] \subseteq published
     THEN Goto(r, "done") /\ UNCHANGED published
     ELSE \E a \in {s \in bundle[r] \ published : artifact[s] = "accepted"} :
            published' = published \cup {a} /\ UNCHANGED runVars
  /\ UNCHANGED <<team, agent, taskVars, jobVars, artifact, undone, procVars>>

\* A slip: a job that has used up its attempts does not pause the team.
TeamGoesOn(retry) == team
TeamAfterFailure(retry) == IF retry THEN team ELSE "paused"

\* fail_supervisor_job: retry, then pause the team
FailSupervisorJob(r) ==
  LET j == runJob[r]
      retry == jobAttempt[j] < MaxAttempts IN
  /\ kind[r] = "supervisor" /\ pc[r] = "failing"
  /\ IF jobStatus[j] = "running"
     THEN /\ jobStatus' = [jobStatus EXCEPT ![j] = IF retry THEN "pending" ELSE "failed"]
          /\ jobLease' = [jobLease EXCEPT ![j] = FALSE]
          /\ agent' = [agent EXCEPT ![Sup] = "idle"]
          /\ team' = TeamAfterFailure(retry)
     ELSE UNCHANGED <<jobStatus, jobLease, agent, team>>
  /\ Goto(r, "done")
  /\ UNCHANGED <<taskVars, jobTrigger, jobTask, jobAttempt, jobRun, nJobs, artVars, procVars>>

\* The same for a supervisor: record_approval, hold_supervisor_for_approval.
HoldSupervisor(r) ==
  LET j == runJob[r]
      mine == jobStatus[j] = "running" /\ jobRun[j] = r IN
  /\ kind[r] = "supervisor" /\ Interrupted(r)
  /\ jobLease' = LeaseReleased(jobLease, j, mine)
  /\ AgentWaits(Sup)
  /\ Goto(r, "held")
  /\ UNCHANGED <<team, taskVars, jobStatus, jobTrigger, jobTask, jobAttempt, jobRun, nJobs,
                 artVars, procVars>>

InterruptSupervisorJob(r) ==
  LET j == runJob[r] IN
  /\ kind[r] = "supervisor" /\ pc[r] = "cancelling"
  /\ IF jobStatus[j] = "running"
     THEN /\ jobStatus' = [jobStatus EXCEPT ![j] = "pending"]
          /\ jobAttempt' = [jobAttempt EXCEPT ![j] = IF @ > 0 THEN @ - 1 ELSE 0]
          /\ jobLease' = [jobLease EXCEPT ![j] = FALSE]
          /\ jobRun' = [jobRun EXCEPT ![j] = 0]
     ELSE UNCHANGED <<jobStatus, jobAttempt, jobLease, jobRun>>
  /\ agent' = [agent EXCEPT ![Sup] = "idle"]
  /\ Goto(r, "done")
  /\ UNCHANGED <<team, taskVars, jobTrigger, jobTask, nJobs, artVars, procVars>>

-----------------------------------------------------------------------------
(* Shutdown, crash, start.                                                 *)

\* stop: the scheduler is cancelled, then every task in _active.  A run that
\* still waits for the semaphore, or is already in an except block, ends
\* without its interrupt_* call.
Stop ==
  /\ up = "up" /\ stops < MaxStops
  /\ up' = "stopping" /\ stops' = stops + 1
  /\ pc' = [r \in Runs |->
       IF pc[r] \in {"streaming", "settling", "publishing"} THEN "cancelling"
       ELSE IF pc[r] \in {"claimed", "queued", "failing"} THEN "done" ELSE pc[r]]
  /\ UNCHANGED <<storeVars, kind, runTask, runJob, runAgent, bundle, nRuns, requests>>

Stopped ==
  /\ up = "stopping" /\ \A r \in Runs : ~Live(r)
  /\ up' = "down"
  /\ UNCHANGED <<storeVars, runVars, stops, requests>>

Crash ==
  /\ up \in {"up", "stopping"} /\ stops < MaxStops
  /\ up' = "down" /\ stops' = stops + 1
  /\ pc' = [r \in Runs |-> IF pc[r] \in {"unused", "held"} THEN pc[r] ELSE "done"]
  /\ UNCHANGED <<storeVars, kind, runTask, runJob, runAgent, bundle, nRuns, requests>>

Requeued(S) == [t \in Tasks |-> IF t \in S THEN "pending" ELSE taskStatus[t]]

\* start: recover_expired_leases for the leases that have run out by now,
\* _reconcile_artifact_publications, which may fail for some, then a new scheduler
Restart(expiredTasks, expiredJobs) ==
  LET back == {t \in expiredTasks : taskStatus[t] = "running" /\ taskLease[t]}
      again == {j \in expiredJobs : jobStatus[j] = "running" /\ jobLease[j]} IN
  /\ up = "down"
  /\ up' = "up"
  /\ taskStatus' = Requeued(back)
  /\ taskLease' = [t \in Tasks |-> t \notin back /\ taskLease[t]]
  /\ taskRun' = [t \in Tasks |-> IF t \in back THEN 0 ELSE taskRun[t]]
  /\ jobStatus' = [j \in Jobs |-> IF j \in again THEN "pending" ELSE jobStatus[j]]
  /\ jobLease' = [j \in Jobs |-> j \notin again /\ jobLease[j]]
  /\ jobRun' = [j \in Jobs |-> IF j \in again THEN 0 ELSE jobRun[j]]
  /\ agent' = [a \in Agents |-> IF \/ \E t \in back : taskOwner[t] = a
                                   \/ again # {} /\ a = Sup
                                THEN "idle" ELSE agent[a]]
  /\ \E reconciled \in SUBSET {r \in Runs : artifact[r] = "accepted"} :
       published' = published \cup reconciled
  /\ UNCHANGED <<team, taskOwner, taskAttempt, jobTrigger, jobTask, jobAttempt, nJobs,
                 artifact, undone, runVars, stops, requests>>

-----------------------------------------------------------------------------
\* create_team: the drafts with their proposed owners, and team.started
Init ==
  /\ team = "running"
  /\ agent = [a \in Agents |-> "idle"]
  /\ taskStatus = [t \in Tasks |-> IF t \in Drafts THEN "pending" ELSE "absent"]
  /\ \E own \in [Drafts -> Agents \cup {NoAgent}] :
       taskOwner = [t \in Tasks |-> IF t \in Drafts THEN own[t] ELSE NoAgent]
  /\ taskAttempt = [t \in Tasks |-> 0]
  /\ taskLease = [t \in Tasks |-> FALSE]
  /\ taskRun = [t \in Tasks |-> 0]
  /\ nJobs = 1
  /\ jobStatus = [j \in Jobs |-> IF j = 1 THEN "pending" ELSE "absent"]
  /\ jobTrigger = [j \in Jobs |-> IF j = 1 THEN "team.started" ELSE "none"]
  /\ jobTask = [j \in Jobs |-> NoTask]
  /\ jobAttempt = [j \in Jobs |-> 0]
  /\ jobLease = [j \in Jobs |-> FALSE]
  /\ jobRun = [j \in Jobs |-> 0]
  /\ artifact = [r \in Runs |-> "none"]
  /\ published = {}
  /\ undone = [t \in Tasks |-> 0]
  /\ pc = [r \in Runs |-> "unused"]
  /\ kind = [r \in Runs |-> "none"]
  /\ runTask = [r \in Runs |-> NoTask]
  /\ runJob = [r \in Runs |-> 0]
  /\ runAgent = [r \in Runs |-> NoAgent]
  /\ bundle = [r \in Runs |-> {}]
  /\ nRuns = 0 /\ up = "up" /\ stops = 0 /\ requests = 0

UserRequest ==
  \/ Pause \/ Resume \/ Cancel \/ UserMessage
  \/ \E t \in Tasks, owner \in Agents \cup {NoAgent} : CreateTask(t, owner)

Scheduler ==
  \/ ClaimSupervisorJob
  \/ \E t \in Tasks : ClaimNextTask(t)
  \/ \E r \in Runs : Spawn(r)

WorkerStep(r) ==
  Submit(r) \/ Settle(r) \/ FailTask(r) \/ InterruptTask(r) \/ CleanupFails(r) \/ HoldTask(r)
SupervisorStep(r) ==
  Decide(r) \/ Publish(r) \/ FailSupervisorJob(r) \/ InterruptSupervisorJob(r) \/ HoldSupervisor(r)
RunStep(r) == Start(r) \/ RunFails(r) \/ WorkerStep(r) \/ SupervisorStep(r)

Process ==
  \/ Stop \/ Stopped \/ Crash
  \/ \E T \in SUBSET ActiveTasks, J \in SUBSET {j \in Jobs : jobStatus[j] = "running"} : Restart(T, J)

Next == UserRequest \/ Scheduler \/ (\E r \in Runs : RunStep(r)) \/ Process

Spec == Init /\ [][Next]_vars

\* The same, if writing the result file and the mail of a submission never fail.
LateFailure == \E r \in Runs : pc[r] = "failing" /\ Settling(r)
TidySpec == Init /\ [][Next /\ ~LateFailure']_vars

(* The scheduler polls every half second, a stream ends or breaks within    *)
(* its HTTP timeouts, and asyncio.Semaphore wakes its waiters in order.     *)
(* Nothing obliges a user to act, nor the process to stop or start.         *)
Fairness ==
  /\ WF_vars(ClaimSupervisorJob)
  /\ \A t \in Tasks : WF_vars(ClaimNextTask(t))
  /\ \A r \in Runs : /\ WF_vars(Spawn(r))
                     /\ SF_vars(Start(r))
                     /\ WF_vars(RunFails(r) \/ WorkerStep(r) \/ SupervisorStep(r))

LiveSpec == Spec /\ Fairness

-----------------------------------------------------------------------------
(* Properties.                                                             *)

\* A worker coroutine that may still submit owns its task: the task is
\* running, under this run id and for this agent.  submit_task compares only
\* status and owner (store.py:1043), so nothing but the scheduling discipline
\* keeps a stale coroutine from submitting for a newer attempt.
RunFenced ==
  \A r \in Runs : Worker(r) /\ pc[r] \in {"claimed", "queued", "streaming"} =>
    LET t == runTask[r] IN
    taskStatus[t] = "running" /\ taskRun[t] = r /\ taskOwner[t] = runAgent[r]

\* Of TidySpec: until the process first stops, no agent works on two tasks, and none with a
\* running task looks free to the scheduler, although fail_task and interrupt_task set the
\* agent idle without looking (store.py:1602, 1675).  (A restart frees the supervisor
\* of a lease that ran out, whatever else it was at work on.)
OneTaskPerAgent ==
  stops = 0 =>
    \A t \in ActiveTasks :
      /\ taskOwner[t] # NoAgent /\ agent[taskOwner[t]] # "idle"
      /\ \A u \in ActiveTasks : taskOwner[u] = taskOwner[t] => u = t

\* Work that has left the queue builds on accepted results only, whatever
\* happened to its dependencies since it was claimed.
DownstreamSound ==
  \A t \in Tasks : taskStatus[t] \in {"running", "submitted", "completed"} =>
    \A d \in DependsOn[t] : taskStatus[d] = "completed"

\* No acceptance is lost or doubled: a completed task has one accepted Artifact, and
\* one more for each time a worker that failed after it had submitted took the task back
\* from under a decision (store.py:1589).  Nothing else takes a completed task back.
Accepted(t) == {r \in Runs : runTask[r] = t /\ artifact[r] = "accepted"}
OneAcceptedArtifact ==
  \A t \in Tasks :
    Cardinality(Accepted(t)) = undone[t] + (IF taskStatus[t] = "completed" THEN 1 ELSE 0)

\* A submission is never lost from review: some task.submitted job for it is
\* still to be decided, or failed and waits for the user's resume.
ReviewPending ==
  \A t \in Tasks : taskStatus[t] = "submitted" =>
    \E j \in Jobs : /\ jobTrigger[j] = "task.submitted" /\ jobTask[j] = t
                    /\ jobStatus[j] \in {"pending", "running", "failed"}

\* The control plane is single-threaded: one supervisor coroutine at most is
\* between its claim and its end, a failed job exists only while none is, there
\* is one such job at most, and only while the team does not run.  (What
\* resume, which revives a single failed job, store.py:768, relies on.)
Engaged(r) == kind[r] = "supervisor" /\ (pc[r] = "claimed" \/ Live(r))
Failed == {j \in Jobs : jobStatus[j] = "failed"}
SingleControl ==
  /\ \A r, s \in Runs : Engaged(r) /\ Engaged(s) => r = s
  /\ (\E r \in Runs : Engaged(r)) => Failed = {}
  /\ \A i, j \in Failed : i = j
  /\ team = "running" => Failed = {}

\* A row is leased only while it is running, and a running row is without a lease, out
\* of reach of recover_expired_leases, only if a run of it waits for an approval.
HeldTask(t) == \E r \in Runs : pc[r] = "held" /\ Worker(r) /\ runTask[r] = t
HeldJob(j) == \E r \in Runs : pc[r] = "held" /\ kind[r] = "supervisor" /\ runJob[r] = j
LeasedUnlessHeld ==
  /\ \A t \in Tasks : /\ taskLease[t] => taskStatus[t] = "running"
                      /\ taskStatus[t] = "running" => taskLease[t] \/ HeldTask(t)
  /\ \A j \in Jobs : /\ jobLease[j] => jobStatus[j] = "running"
                     /\ jobStatus[j] = "running" => jobLease[j] \/ HeldJob(j)

\* The hard gate (store.py:947): no task starts while a submission of any
\* other task waits to be reviewed.
HardGate ==
  [][\A t \in Tasks : taskStatus[t] # "running" /\ taskStatus'[t] = "running" =>
       \A u \in Tasks : taskStatus[u] # "submitted"]_vars

\* Every submission is decided, unless the team or the process stops or the
\* supervisor is busy with a task of its own, or waits for an approval.  (A cancelled team may be
\* resumed with its supervisor marked busy for ever.)
SubmissionsReviewed ==
  \A t \in Tasks :
    \/ <>(team = "cancelled")
    \/ taskStatus[t] = "submitted" ~>
         \/ taskStatus[t] # "submitted" \/ team # "running" \/ up # "up" \/ nRuns = MaxRuns
         \/ \E u \in ActiveTasks : taskOwner[u] = Sup
         \/ \E j \in Jobs : jobStatus[j] = "running" /\ HeldJob(j)

=============================================================================
