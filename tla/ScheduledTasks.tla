--------------------------- MODULE ScheduledTasks ---------------------------
(***************************************************************************)
(* The scheduled tasks of the Access Layer: the two SQLite tables of       *)
(* access_layer/scheduled_tasks/store.py, the sleeping scheduler loop and  *)
(* the run coroutines of runtime.py, and the clock they read.              *)
(*                                                                         *)
(* The store's writes run under one FIFO lock and take the clock right     *)
(* before they queue for it, so a write is one step at the time it reads.  *)
(* SQLite itself is assumed not to fail.                                   *)
(***************************************************************************)
EXTENDS Naturals, FiniteSets

CONSTANTS
  Tasks, NoTask,   \* every task that may ever be created; none
  Rules,        \* records [once, at]: the times at which a rule is due
  Horizon,      \* bound: the last time the clock shows
  Grace,        \* misfire_grace_seconds
  Recheck,      \* clock_recheck_seconds: the longest sleep
  MaxActive,    \* slots of the semaphore
  MaxRuns,      \* bound: runs ever claimed
  MaxEdits,     \* bound: requests that change a task
  MaxStops,     \* bound: stops and crashes
  MaxSteps      \* bound: jumps of the clock

ASSUME ScheduleAssumption ==
  /\ Horizon \in Nat /\ Grace \in Nat /\ Recheck \in Nat \ {0} /\ MaxActive \in Nat \ {0}
  /\ MaxRuns \in Nat /\ MaxEdits \in Nat /\ MaxStops \in Nat /\ MaxSteps \in Nat
  /\ Rules \subseteq [once : BOOLEAN, at : SUBSET (1..Horizon)] /\ NoTask \notin Tasks /\ IsFiniteSet(Tasks)

Runs == 1..MaxRuns
Never == 0                 \* next_run_at IS NULL
ByHand == 0                \* instead of a due time: trigger_type manual
Beyond == Horizon + 1      \* a date after the last one modelled
NoRule == [once |-> TRUE, at |-> {}]

VARIABLES
  now, steps,
  status, rule, next,                \* scheduled_tasks
  row, runTask, runFor,              \* scheduled_runs: status, task_id, scheduled_for; ByHand if manual
  nRuns,
  pc, resuming,                      \* coroutines: _execute and resume_approval of a run
  loop, sleep,                       \* _scheduler_loop, what is left of its wait
  wake, waking,                      \* _wake_event; handlers that have yet to set it
  up, stops, edits

taskVars == <<status, rule, next>>
runVars  == <<row, runTask, runFor, nRuns>>
loopVars == <<loop, sleep>>
wakeVars == <<wake, waking>>
procVars == <<up, stops, edits>>
clockVars == <<now, steps>>
vars == <<clockVars, taskVars, runVars, pc, resuming, loopVars, wakeVars, procVars>>

\* "ended" is succeeded or failed, "interrupted" failed with an approval that
\* can still be given.
RowStates == {"absent", "running", "ended", "interrupted", "missed", "deleted"}

TypeOK ==
  /\ now \in 0..Horizon /\ steps \in 0..MaxSteps
  /\ status \in [Tasks -> {"none", "active", "paused", "deleted"}]
  /\ rule \in [Tasks -> Rules \cup {NoRule}] /\ next \in [Tasks -> 0..Beyond]
  /\ row \in [Runs -> RowStates] /\ runTask \in [Runs -> Tasks \cup {NoTask}] /\ runFor \in [Runs -> 0..Horizon]
  /\ nRuns \in 0..MaxRuns
  /\ pc \in [Runs -> {"none", "queued", "executing", "cancelling", "done"}]
  /\ resuming \subseteq Runs
  /\ loop \in {"top", "claiming", "planning", "planned", "sleeping", "backoff", "ended"} /\ sleep \in 0..Recheck
  /\ wake \in BOOLEAN /\ waking \in 0..edits
  /\ up \in {"up", "stopping", "down"} /\ stops \in 0..MaxStops /\ edits \in 0..MaxEdits

-----------------------------------------------------------------------------
(* When a rule is due.  Time zones and calendar are abstracted to the set   *)
(* of due times; a local time the clock skips is simply not in it.          *)

\* compute_next_run: the first occurrence strictly after the given time, as a
\* set; the empty set stands for ScheduleValidationError.
NextRuns(r, after) ==
  LET later == {o \in r.at : o > after} IN
  IF later # {} THEN {o \in later : \A p \in later : o <= p}
  ELSE IF r.once THEN {} ELSE {Beyond}

\* compute_following_run
FollowingRuns(r, scheduledFor) == IF r.once THEN {Never} ELSE NextRuns(r, scheduledFor)

-----------------------------------------------------------------------------
(* Requests: each ends with runtime.wake(), after the write has committed.  *)

Edit == up = "up" /\ edits < MaxEdits /\ edits' = edits + 1 /\ waking' = waking + 1

Create(t) ==
  /\ Edit /\ status[t] = "none"
  /\ \E r \in Rules : \E n \in NextRuns(r, now) :
       rule' = [rule EXCEPT ![t] = r] /\ next' = [next EXCEPT ![t] = n]
  /\ status' = [status EXCEPT ![t] = "active"]
  /\ UNCHANGED <<clockVars, runVars, pc, resuming, loopVars, wake, up, stops>>

Update(t) ==
  /\ Edit /\ status[t] \in {"active", "paused"}
  /\ \E r \in Rules : \E n \in NextRuns(r, now) :
       rule' = [rule EXCEPT ![t] = r] /\ next' = [next EXCEPT ![t] = n]
  /\ UNCHANGED <<clockVars, status, runVars, pc, resuming, loopVars, wake, up, stops>>

PauseTask(t) ==
  /\ Edit /\ status[t] \in {"active", "paused"}
  /\ status' = [status EXCEPT ![t] = "paused"]
  /\ UNCHANGED <<clockVars, rule, next, runVars, pc, resuming, loopVars, wake, up, stops>>

ResumeTask(t) ==
  /\ Edit /\ status[t] \in {"active", "paused"}
  /\ status' = [status EXCEPT ![t] = "active"]
  /\ \E n \in NextRuns(rule[t], now) : next' = [next EXCEPT ![t] = n]
  /\ UNCHANGED <<clockVars, rule, runVars, pc, resuming, loopVars, wake, up, stops>>

\* A slip: running runs do not protect their task.
AnyDeletable(t) == TRUE
Deletable(t) == \A r \in Runs : ~(runTask[r] = t /\ row[r] = "running")

\* the runs go with their task (ON DELETE CASCADE)
Delete(t) ==
  /\ Edit /\ status[t] \in {"active", "paused"} /\ Deletable(t)
  /\ status' = [status EXCEPT ![t] = "deleted"]
  /\ row' = [r \in Runs |-> IF runTask[r] = t /\ row[r] # "absent" THEN "deleted" ELSE row[r]]
  /\ UNCHANGED <<clockVars, rule, next, runTask, runFor, nRuns, pc, resuming, loopVars, wake, up, stops>>

Wake ==
  /\ waking > 0
  /\ waking' = waking - 1 /\ wake' = TRUE
  /\ UNCHANGED <<clockVars, taskVars, runVars, pc, resuming, loopVars, procVars>>

\* claim_manual and _spawn; the schedule is left alone
RunNow(t) ==
  LET r == nRuns + 1 IN
  /\ up = "up" /\ nRuns < MaxRuns /\ status[t] \in {"active", "paused"} /\ Deletable(t)
  /\ row' = [row EXCEPT ![r] = "running"]
  /\ runTask' = [runTask EXCEPT ![r] = t]
  /\ runFor' = [runFor EXCEPT ![r] = ByHand]
  /\ nRuns' = r
  /\ pc' = [pc EXCEPT ![r] = "queued"]
  /\ UNCHANGED <<clockVars, taskVars, resuming, loopVars, wakeVars, procVars>>

-----------------------------------------------------------------------------
(* The scheduler loop.                                                     *)

Due == {t \in Tasks : status[t] = "active" /\ next[t] # Never /\ next[t] <= now}

\* A slip: claim_due forgets to advance next_run_at.
SameRuns(t) == {next[t]}
Advanced(t) == FollowingRuns(rule[t], next[t])

\* Is the occurrence of t that is due in the table already?
Recorded(t) == \E s \in Runs : /\ row[s] \notin {"absent", "deleted"}
                               /\ runTask[s] = t /\ runFor[s] = next[t]

\* Top of the loop: the event is cleared before the tables are read.
Clear ==
  /\ up = "up" /\ loop = "top"
  /\ wake' = FALSE /\ loop' = "claiming"
  /\ UNCHANGED <<clockVars, taskVars, runVars, pc, resuming, sleep, waking, procVars>>

\* claim_due takes every due task, and the loop spawns what is not missed.
\* INSERT OR IGNORE skips an occurrence the table has, but the occurrence is
\* claimed and spawned all the same.  (LIMIT 32: there are fewer tasks here.)
ClaimDue ==
  LET new == (nRuns + 1)..(nRuns + Cardinality(Due))
      late(t) == now > next[t] + Grace IN
  /\ up # "down" /\ loop = "claiming" /\ nRuns + Cardinality(Due) <= MaxRuns
  /\ loop' = "planning"
  /\ \E take \in [new -> Due], following \in [Due -> 0..Beyond] :
       /\ \A r, s \in new : take[r] = take[s] => r = s
       /\ \A t \in Due : following[t] \in Advanced(t)
       /\ next' = [t \in Tasks |-> IF t \in Due THEN following[t] ELSE next[t]]
       /\ row' = [r \in Runs |-> IF r \in new /\ ~Recorded(take[r])
                                 THEN IF late(take[r]) THEN "missed" ELSE "running"
                                 ELSE row[r]]
       /\ runTask' = [r \in Runs |-> IF r \in new THEN take[r] ELSE runTask[r]]
       /\ runFor' = [r \in Runs |-> IF r \in new THEN next[take[r]] ELSE runFor[r]]
       /\ pc' = [r \in Runs |-> IF r \in new /\ ~late(take[r]) THEN "queued" ELSE pc[r]]
  /\ nRuns' = nRuns + Cardinality(Due)
  /\ UNCHANGED <<clockVars, status, rule, resuming, sleep, wakeVars, procVars>>

Waits(due) == {Recheck} \cup {IF n <= now THEN 0 ELSE n - now : n \in due}

\* next_due_at, and the wait until then or until the recheck
Plan ==
  /\ up # "down" /\ loop = "planning"
  /\ loop' = "planned"
  /\ LET waits == Waits({next[t] : t \in {u \in Tasks : status[u] = "active"}} \ {Never}) IN
     \E w \in waits : (\A v \in waits : w <= v) /\ sleep' = w
  /\ UNCHANGED <<clockVars, taskVars, runVars, pc, resuming, wakeVars, procVars>>

\* A slip: the event is cleared just before the wait.
WaitFresh == up # "down" /\ loop = "planned" /\ loop' = "sleeping" /\ wake' = FALSE
WaitStarts == up # "down" /\ loop = "planned" /\ loop' = "sleeping" /\ UNCHANGED wake

Wait ==
  /\ WaitStarts
  /\ UNCHANGED <<clockVars, taskVars, runVars, pc, resuming, sleep, waking, procVars>>

\* an exception in the loop (a row that does not validate): nothing is claimed
LoopFails ==
  /\ up # "down" /\ loop \in {"claiming", "planning"}
  /\ loop' = "backoff" /\ sleep' = Recheck
  /\ UNCHANGED <<clockVars, taskVars, runVars, pc, resuming, wakeVars, procVars>>

\* A slip: after a wait only the next wait is computed.
ReplanOnly == "planning"
AfterWait == "top"

WakeUp ==
  /\ up # "down" /\ loop \in {"sleeping", "backoff"} /\ (wake \/ sleep = 0)
  /\ loop' = AfterWait /\ sleep' = 0
  /\ UNCHANGED <<clockVars, taskVars, runVars, pc, resuming, wakeVars, procVars>>

-----------------------------------------------------------------------------
(* A run: _execute.                                                        *)

Executing == {r \in Runs : pc[r] \in {"executing", "cancelling"}}

Execute(r) ==
  /\ pc[r] = "queued" /\ Cardinality(Executing) < MaxActive
  /\ pc' = [pc EXCEPT ![r] = "executing"]
  /\ UNCHANGED <<clockVars, taskVars, runVars, resuming, loopVars, wakeVars, procVars>>

\* finish_run updates the row by id, whatever it holds, if it is there
Recordable(r) == row[r] \notin {"absent", "deleted"}
FinishRun(r, result) == row' = [row EXCEPT ![r] = IF Recordable(r) THEN result ELSE @]

\* the stream ends, breaks or stops for an approval; the loop is woken
Finish(r) ==
  /\ pc[r] = "executing"
  /\ \E result \in {"ended", "interrupted"} : FinishRun(r, result)
  /\ pc' = [pc EXCEPT ![r] = "done"] /\ wake' = TRUE
  /\ UNCHANGED <<clockVars, taskVars, runTask, runFor, nRuns, resuming, loopVars, waking, procVars>>

FinishCancelled(r) ==
  /\ pc[r] = "cancelling"
  /\ FinishRun(r, "ended")
  /\ pc' = [pc EXCEPT ![r] = "done"] /\ wake' = TRUE
  /\ UNCHANGED <<clockVars, taskVars, runTask, runFor, nRuns, resuming, loopVars, waking, procVars>>

\* resume_approval: a run of its own inside the request, of which neither the
\* table nor _active knows
ResumeRun(r) ==
  /\ up = "up" /\ row[r] = "interrupted" /\ r \notin resuming
  /\ resuming' = resuming \cup {r}
  /\ UNCHANGED <<clockVars, taskVars, runVars, pc, loopVars, wakeVars, procVars>>

\* it succeeds, fails or is interrupted again, or the gateway refused it
ResumeEnds(r) ==
  /\ r \in resuming
  /\ resuming' = resuming \ {r}
  /\ \E result \in {"ended", "interrupted"} : FinishRun(r, result)
  /\ UNCHANGED <<clockVars, taskVars, runTask, runFor, nRuns, pc, loopVars, wakeVars, procVars>>

-----------------------------------------------------------------------------
(* The clock and the process.                                              *)

\* one unit of time, for the clock and for the wait, which is monotonic
Tick ==
  /\ now < Horizon \/ sleep > 0
  /\ now' = IF now < Horizon THEN now + 1 ELSE now
  /\ sleep' = IF sleep > 0 THEN sleep - 1 ELSE 0
  /\ UNCHANGED <<steps, taskVars, runVars, pc, resuming, loop, wakeVars, procVars>>

\* the operator or NTP sets the clock, or the machine has slept
ClockJump ==
  /\ steps < MaxSteps /\ steps' = steps + 1
  /\ now' \in {now - 1, now + 1} \cap (0..Horizon)
  /\ UNCHANGED <<taskVars, runVars, pc, resuming, loopVars, wakeVars, procVars>>

Stop ==
  /\ up = "up" /\ stops < MaxStops
  /\ up' = "stopping" /\ stops' = stops + 1 /\ wake' = TRUE
  /\ UNCHANGED <<clockVars, taskVars, runVars, pc, resuming, loopVars, waking, edits>>

\* the loop sees _stopping and ends; then every coroutine in _active is
\* cancelled, those that wait for the semaphore without a record of it
CancelRuns ==
  /\ up = "stopping" /\ loop = "top"
  /\ loop' = "ended"
  /\ pc' = [r \in Runs |-> IF pc[r] = "executing" THEN "cancelling"
                           ELSE IF pc[r] = "queued" THEN "done" ELSE pc[r]]
  /\ UNCHANGED <<clockVars, taskVars, runVars, resuming, sleep, wakeVars, procVars>>

Exit ==
  /\ pc' = [r \in Runs |-> IF pc[r] = "none" THEN "none" ELSE "done"]
  /\ resuming' = {} /\ loop' = "ended" /\ waking' = 0 /\ wake' = FALSE
  /\ UNCHANGED <<clockVars, taskVars, runVars, sleep, edits>>

Stopped == up = "stopping" /\ loop = "ended" /\ Executing = {} /\ up' = "down" /\ Exit /\ UNCHANGED stops
Crash   == up # "down" /\ stops < MaxStops /\ up' = "down" /\ stops' = stops + 1 /\ Exit

Recovered == [r \in Runs |-> IF row[r] = "running" THEN "ended" ELSE row[r]]

\* start: recover_running, then a new loop
Restart ==
  /\ up = "down" /\ up' = "up" /\ loop' = "top"
  /\ row' = Recovered
  /\ UNCHANGED <<clockVars, taskVars, runTask, runFor, nRuns, pc, resuming, sleep, wakeVars, stops, edits>>

-----------------------------------------------------------------------------
Init ==
  /\ now = 0 /\ steps = 0
  /\ status = [t \in Tasks |-> "none"] /\ rule = [t \in Tasks |-> NoRule] /\ next = [t \in Tasks |-> Never]
  /\ row = [r \in Runs |-> "absent"] /\ runTask = [r \in Runs |-> NoTask] /\ runFor = [r \in Runs |-> 0]
  /\ nRuns = 0
  /\ pc = [r \in Runs |-> "none"] /\ resuming = {}
  /\ loop = "top" /\ sleep = 0 /\ wake = FALSE /\ waking = 0
  /\ up = "up" /\ stops = 0 /\ edits = 0

Request == \E t \in Tasks : Create(t) \/ Update(t) \/ PauseTask(t) \/ ResumeTask(t) \/ Delete(t) \/ RunNow(t)
Scheduler == Clear \/ ClaimDue \/ LoopFails \/ Plan \/ Wait \/ WakeUp
RunStep(r) == Execute(r) \/ Finish(r) \/ FinishCancelled(r)
Process == Stop \/ CancelRuns \/ Stopped \/ Crash \/ Restart

Next ==
  \/ Request \/ Wake \/ Scheduler \/ Tick \/ ClockJump \/ Process
  \/ \E r \in Runs : RunStep(r) \/ ResumeRun(r) \/ ResumeEnds(r)

Spec == Init /\ [][Next]_vars

\* The same, if the clock is never set back.
JumpAhead == ClockJump /\ now <= now'

SteadyNext ==
  \/ Request \/ Wake \/ Scheduler \/ Tick \/ JumpAhead \/ Process
  \/ \E r \in Runs : RunStep(r) \/ ResumeRun(r) \/ ResumeEnds(r)

SteadySpec == Init /\ [][SteadyNext]_vars

(* Time passes, handlers and runs come to their ends, the semaphore wakes   *)
(* its waiters in order, and an iteration of the loop does not fail for     *)
(* ever.  Nothing obliges a user to act, nor the process to stop or start.  *)
Fairness ==
  /\ WF_vars(Tick) /\ WF_vars(Wake)
  /\ WF_vars(Clear) /\ WF_vars(Wait) /\ SF_vars(ClaimDue) /\ SF_vars(Plan) /\ WF_vars(WakeUp)
  /\ WF_vars(CancelRuns)
  /\ \A r \in Runs : SF_vars(Execute(r)) /\ WF_vars(Finish(r) \/ FinishCancelled(r))

LiveSpec == Spec /\ Fairness

-----------------------------------------------------------------------------
(* Properties.                                                             *)

\* Of SteadySpec: an occurrence is claimed once at most, whatever edits, pauses
\* and restarts do to next_run_at.  claim_due relies on it: it spawns what it
\* took also when INSERT OR IGNORE found the occurrence in the table
\* (store.py:321-347).  docs/features/scheduled-task-technical-solution.md:222
\* promises it of any clock ("不重复认领").
AtMostOnce ==
  \A r, s \in Runs :
    /\ runTask[r] # NoTask /\ runTask[s] = runTask[r]
    /\ runFor[r] # ByHand /\ runFor[s] = runFor[r]
    => r = s

\* Of SteadySpec: the rows marked running are the coroutines at work, so that
\* the two guards that look for them (store.py:236, 360) protect a task from
\* being deleted or run by hand under its run, and none is blocked for ever.
RunningIffActive ==
  up = "up" => \A r \in Runs : row[r] = "running" <=> pc[r] \in {"queued", "executing"}

\* No edit is slept through: as long as the clock runs with time, a wait that
\* nobody is about to end is over when the next active task is due.
NoOversleep ==
  up = "up" /\ loop = "sleeping" /\ ~wake /\ waking = 0 /\ steps = 0 =>
    \A t \in Tasks : status[t] = "active" /\ next[t] # Never /\ sleep > 0 => now + sleep <= next[t]

\* Every due occurrence is taken, whatever jumps the clock makes, unless the
\* task or the process stops or a bound is reached.
DueIsTaken ==
  \A t \in Tasks : t \in Due ~>
    t \notin Due \/ up # "up" \/ nRuns + Cardinality(Due) > MaxRuns
=============================================================================
