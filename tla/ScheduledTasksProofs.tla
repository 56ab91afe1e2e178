------------------------ MODULE ScheduledTasksProofs ------------------------
(* Claims of the scheduler, for any tasks, rules, clock range and bounds.   *)
EXTENDS ScheduledTasks, FiniteSetTheorems, TLAPS

-----------------------------------------------------------------------------
(* Times.                                                                  *)

\* compute_next_run never returns a time that has passed.
LEMMA NextRunsLater ==
  ASSUME NEW r \in Rules \cup {NoRule}, NEW after \in 0..Horizon, NEW n \in NextRuns(r, after)
  PROVE  n \in 1..Beyond /\ n > after
<1>1. r.at \subseteq 1..Horizon
  BY ScheduleAssumption DEF NoRule
<1>2. CASE {o \in r.at : o > after} # {}
  BY <1>1, <1>2, ScheduleAssumption DEF NextRuns, Beyond
<1>3. CASE {o \in r.at : o > after} = {}
  BY <1>3, ScheduleAssumption DEF NextRuns, Beyond
<1> QED BY <1>2, <1>3

\* Neither does compute_following_run, which may also say that none is left.
LEMMA AdvancedLater ==
  ASSUME TypeOK, NEW t \in Due, NEW n \in Advanced(t)
  PROVE  n \in 0..Beyond /\ (n = Never \/ n > next[t])
<1>1. t \in Tasks /\ next[t] \in 0..Horizon /\ rule[t] \in Rules \cup {NoRule}
  BY ScheduleAssumption DEF Due, TypeOK, Beyond
<1>2. CASE rule[t].once
  BY <1>2, ScheduleAssumption DEF Advanced, FollowingRuns, Never, Beyond
<1>3. CASE ~rule[t].once
  BY <1>1, <1>3, NextRunsLater, ScheduleAssumption DEF Advanced, FollowingRuns, Beyond
<1> QED BY <1>2, <1>3

\* The rows a claim inserts.
Claimed == (nRuns + 1)..(nRuns + Cardinality(Due))

\* There are finitely many of them, all of them new.
LEMMA ClaimedRuns ==
  ASSUME TypeOK, nRuns + Cardinality(Due) <= MaxRuns
  PROVE  /\ Cardinality(Due) \in Nat /\ nRuns + Cardinality(Due) \in 0..MaxRuns
         /\ Claimed \subseteq Runs /\ \A r \in Claimed : r > nRuns
<1>1. IsFiniteSet(Due)
  BY ScheduleAssumption, FS_Subset DEF Due
<1>2. Cardinality(Due) \in Nat
  BY <1>1, FS_CardinalityType
<1> QED BY <1>2, ScheduleAssumption DEF TypeOK, Claimed, Runs

-----------------------------------------------------------------------------
(* Type correctness.                                                       *)

\* The bounds are numbers.
LEMMA BoundsAreNat ==
  /\ Horizon \in Nat /\ Recheck \in Nat /\ MaxRuns \in Nat /\ MaxEdits \in Nat
  /\ MaxStops \in Nat /\ MaxSteps \in Nat /\ Grace \in Nat
BY ScheduleAssumption

\* The empty tables are well typed.
LEMMA InitTypeOK == Init => TypeOK
<1> SUFFICES ASSUME Init PROVE TypeOK
  OBVIOUS
<1>1. wake \in BOOLEAN
  BY DEF Init
<1>2. /\ now \in 0..Horizon /\ steps \in 0..MaxSteps /\ nRuns \in 0..MaxRuns /\ sleep \in 0..Recheck
      /\ waking \in 0..edits /\ stops \in 0..MaxStops /\ edits \in 0..MaxEdits
      /\ next \in [Tasks -> 0..Beyond] /\ runFor \in [Runs -> 0..Horizon]
  BY BoundsAreNat DEF Init, Beyond, Never
<1> QED BY <1>1, <1>2 DEF Init, TypeOK, RowStates

\* Every request keeps the types.
LEMMA RequestTypeOK == TypeOK /\ Request => TypeOK'
<1> SUFFICES ASSUME TypeOK, NEW t \in Tasks,
                    Create(t) \/ Update(t) \/ PauseTask(t) \/ ResumeTask(t) \/ Delete(t) \/ RunNow(t)
             PROVE  TypeOK'
  BY DEF Request
<1> USE BoundsAreNat DEF TypeOK, clockVars, runVars, taskVars, loopVars, wakeVars, procVars
<1>0. ASSUME NEW r \in Rules \cup {NoRule}, NEW n \in NextRuns(r, now) PROVE n \in 0..Beyond
  BY NextRunsLater, <1>0
<1>1. CASE Create(t) BY <1>0, <1>1 DEF Create, Edit
<1>2. CASE Update(t) BY <1>0, <1>2 DEF Update, Edit
<1>3. CASE PauseTask(t) BY <1>3 DEF PauseTask, Edit
<1>4. CASE ResumeTask(t) BY <1>0, <1>4 DEF ResumeTask, Edit
<1>5. CASE Delete(t) BY <1>5 DEF Delete, Edit, RowStates
<1>6. CASE RunNow(t) BY <1>6 DEF RunNow, Runs, RowStates, ByHand
<1> QED BY <1>1, <1>2, <1>3, <1>4, <1>5, <1>6

\* So does a claim.
LEMMA ClaimTypeOK == TypeOK /\ ClaimDue => TypeOK'
<1> SUFFICES ASSUME TypeOK, ClaimDue PROVE TypeOK'
  OBVIOUS
<1> USE BoundsAreNat DEF clockVars, procVars, wakeVars
<1>1. PICK take \in [Claimed -> Due], following \in [Due -> 0..Beyond] :
        /\ next' = [t \in Tasks |-> IF t \in Due THEN following[t] ELSE next[t]]
        /\ row' = [r \in Runs |-> IF r \in Claimed /\ ~Recorded(take[r])
                                  THEN IF now > next[take[r]] + Grace THEN "missed" ELSE "running"
                                  ELSE row[r]]
        /\ runTask' = [r \in Runs |-> IF r \in Claimed THEN take[r] ELSE runTask[r]]
        /\ runFor' = [r \in Runs |-> IF r \in Claimed THEN next[take[r]] ELSE runFor[r]]
        /\ pc' = [r \in Runs |-> IF r \in Claimed /\ ~(now > next[take[r]] + Grace)
                                 THEN "queued" ELSE pc[r]]
  BY ZenonT(60) DEF ClaimDue, Claimed
<1>2. nRuns' \in 0..MaxRuns
  BY ClaimedRuns DEF ClaimDue
<1>3. \A r \in Claimed : take[r] \in Tasks /\ next[take[r]] \in 0..Horizon
  BY <1>1 DEF Due, TypeOK
<1>4. next' \in [Tasks -> 0..Beyond] /\ row' \in [Runs -> RowStates]
  BY <1>1 DEF TypeOK, RowStates
<1>5. /\ runTask' \in [Runs -> Tasks \cup {NoTask}] /\ runFor' \in [Runs -> 0..Horizon]
      /\ pc' \in [Runs -> {"none", "queued", "executing", "cancelling", "done"}]
  BY <1>1, <1>3 DEF TypeOK
<1> QED BY <1>2, <1>4, <1>5 DEF TypeOK, ClaimDue

\* So do the other steps of the loop, the handlers' wake and the runs.
LEMMA RunsTypeOK ==
  TypeOK /\ (Clear \/ Plan \/ Wait \/ LoopFails \/ WakeUp \/ Wake
             \/ \E r \in Runs : RunStep(r) \/ ResumeRun(r) \/ ResumeEnds(r)) => TypeOK'
<1> USE BoundsAreNat DEF TypeOK, clockVars, runVars, taskVars, loopVars, wakeVars, procVars
<1>1. TypeOK /\ (Clear \/ Wait \/ LoopFails \/ WakeUp \/ Wake) => TypeOK'
  <2>1. TypeOK /\ Clear => TypeOK' BY DEF Clear
  <2>2. TypeOK /\ Wait => TypeOK' BY DEF Wait, WaitStarts
  <2>3. TypeOK /\ LoopFails => TypeOK' BY DEF LoopFails
  <2>4. TypeOK /\ WakeUp => TypeOK' BY DEF WakeUp, AfterWait
  <2>5. TypeOK /\ Wake => TypeOK' BY DEF Wake
  <2> QED BY <2>1, <2>2, <2>3, <2>4, <2>5
<1>2. TypeOK /\ Plan => TypeOK'
  <2> SUFFICES ASSUME TypeOK, Plan PROVE TypeOK'
    OBVIOUS
  <2> DEFINE due == {next[t] : t \in {u \in Tasks : status[u] = "active"}} \ {Never}
  <2>1. PICK w \in Waits(due) : (\A v \in Waits(due) : w <= v) /\ sleep' = w
    BY DEF Plan
  <2>2. due \subseteq 0..Beyond
    OBVIOUS
  <2>3. w \in Nat /\ w <= Recheck
    BY <2>1, <2>2 DEF Waits, Beyond
  <2> QED BY <2>1, <2>3 DEF Plan
<1>3. ASSUME TypeOK, NEW r \in Runs, RunStep(r) \/ ResumeRun(r) \/ ResumeEnds(r) PROVE TypeOK'
  BY <1>3 DEF RunStep, Execute, Finish, FinishCancelled, ResumeRun, ResumeEnds, FinishRun, RowStates
<1> QED BY <1>1, <1>2, <1>3

\* So do the clock and the process.
LEMMA ProcessTypeOK == TypeOK /\ (Tick \/ ClockJump \/ Process) => TypeOK'
<1> USE BoundsAreNat DEF TypeOK, clockVars, runVars, taskVars, loopVars, wakeVars, procVars
<1>1. TypeOK /\ (Tick \/ ClockJump) => TypeOK'
  BY DEF Tick, ClockJump
<1>2. TypeOK /\ Stop => TypeOK'
  BY DEF Stop
<1>3. TypeOK /\ CancelRuns => TypeOK'
  BY DEF CancelRuns
<1>4. TypeOK /\ Restart => TypeOK'
  BY DEF Restart, Recovered, RowStates
<1>5. ASSUME TypeOK, Stopped \/ Crash PROVE TypeOK'
  <2>1. wake' \in BOOLEAN
    BY <1>5 DEF Stopped, Crash, Exit
  <2>2. up' \in {"up", "stopping", "down"} /\ stops' \in 0..MaxStops /\ edits' \in 0..MaxEdits
        /\ waking' \in 0..edits' /\ sleep' \in 0..Recheck
    BY <1>5 DEF Stopped, Crash, Exit
  <2>3. /\ pc' \in [Runs -> {"none", "queued", "executing", "cancelling", "done"}]
        /\ resuming' \subseteq Runs
    BY <1>5 DEF Stopped, Crash, Exit
  <2> QED BY <1>5, <2>1, <2>2, <2>3 DEF Stopped, Crash, Exit
<1> QED BY <1>1, <1>2, <1>3, <1>4, <1>5 DEF Process

\* Every step keeps the types.
LEMMA NextTypeOK == TypeOK /\ [Next]_vars => TypeOK'
<1>1. TypeOK /\ Next => TypeOK'
  BY RequestTypeOK, ClaimTypeOK, RunsTypeOK, ProcessTypeOK DEF Next, Scheduler
<1>2. TypeOK /\ UNCHANGED vars => TypeOK'
  BY DEF vars, clockVars, taskVars, runVars, loopVars, wakeVars, procVars, TypeOK
<1> QED BY <1>1, <1>2

\* The tables, coroutines and clock of the scheduler are always well typed.
THEOREM TypeCorrect == Spec => []TypeOK
<1> QED BY InitTypeOK, NextTypeOK, PTL DEF Spec

-----------------------------------------------------------------------------
(* Claims.                                                                 *)

\* Rows that are not used yet are blank.
Blank ==
  \A r \in Runs : r > nRuns =>
    runTask[r] = NoTask /\ runFor[r] = ByHand /\ pc[r] = "none" /\ row[r] = "absent"

\* A claimed occurrence has passed, and its task will be due later or never:
\* only a clock that is set back could make it due again.
ClaimedPast ==
  \A r \in Runs : runFor[r] # ByHand =>
    /\ runTask[r] \in Tasks /\ runFor[r] <= now
    /\ next[runTask[r]] = Never \/ runFor[r] < next[runTask[r]]

\* What is at work has a row that says so, until the process ends.
WorkIsRunning ==
  /\ \A r \in Runs : pc[r] \in {"queued", "executing", "cancelling"} => row[r] = "running"
  /\ \A r \in Runs : pc[r] = "cancelling" => up = "stopping"
  /\ \A r \in resuming : row[r] \in {"interrupted", "deleted"}
  /\ up = "down" => \A r \in Runs : pc[r] \in {"none", "done"}

ClaimInv == TypeOK /\ Blank /\ ClaimedPast /\ AtMostOnce /\ WorkIsRunning /\ RunningIffActive

\* It holds initially.
LEMMA InitClaimInv == Init => ClaimInv
<1> SUFFICES ASSUME Init PROVE ClaimInv
  OBVIOUS
<1>1. TypeOK
  BY InitTypeOK
<1>2. Blank /\ ClaimedPast /\ AtMostOnce /\ WorkIsRunning /\ RunningIffActive
  BY DEF Init, Blank, ClaimedPast, AtMostOnce, WorkIsRunning, RunningIffActive, ByHand
<1> QED BY <1>1, <1>2 DEF ClaimInv

\* Steps that neither claim nor touch a run keep it, as long as the clock and
\* the schedule of every task only move on.
LEMMA EditClaimInv ==
  ASSUME ClaimInv, TypeOK', now <= now', UNCHANGED <<runVars, pc, resuming, up>>,
         \A t \in Tasks : next'[t] = next[t] \/ next'[t] = Never \/ next'[t] > now
  PROVE  ClaimInv'
<1>1. now \in Int /\ now' \in Int /\ \A r \in Runs : runFor[r] \in Int
  BY DEF ClaimInv, TypeOK
<1>2. \A t \in Tasks : next[t] \in Int /\ next'[t] \in Int
  BY BoundsAreNat DEF ClaimInv, TypeOK, Beyond
<1>3. ClaimedPast'
  <2> SUFFICES ASSUME NEW r \in Runs, runFor[r] # ByHand
               PROVE  /\ runTask[r] \in Tasks /\ runFor[r] <= now'
                      /\ next'[runTask[r]] = Never \/ runFor[r] < next'[runTask[r]]
    BY DEF ClaimedPast, runVars
  <2>1. /\ runTask[r] \in Tasks /\ runFor[r] <= now
        /\ next[runTask[r]] = Never \/ runFor[r] < next[runTask[r]]
    BY DEF ClaimInv, ClaimedPast
  <2> QED BY <1>1, <1>2, <2>1
<1>4. Blank' /\ AtMostOnce' /\ WorkIsRunning' /\ RunningIffActive'
  BY DEF ClaimInv, Blank, AtMostOnce, WorkIsRunning, RunningIffActive, runVars
<1> QED BY <1>3, <1>4 DEF ClaimInv

\* Requests about the schedule are such steps.
LEMMA ScheduleClaimInv ==
  ASSUME ClaimInv, TypeOK', NEW t \in Tasks,
         Create(t) \/ Update(t) \/ PauseTask(t) \/ ResumeTask(t)
  PROVE  ClaimInv'
<1>1. now \in 0..Horizon /\ next \in [Tasks -> 0..Beyond] /\ rule \in [Tasks -> Rules \cup {NoRule}]
  BY DEF ClaimInv, TypeOK
<1>2. \A r \in Rules \cup {NoRule} : \A n \in NextRuns(r, now) : n > now
  BY <1>1, NextRunsLater
<1>3. /\ now' = now /\ UNCHANGED <<runVars, pc, resuming, up>>
  BY DEF Create, Update, PauseTask, ResumeTask, clockVars
<1>4. \A u \in Tasks : next'[u] = next[u] \/ next'[u] > now
  BY <1>1, <1>2 DEF Create, Update, PauseTask, ResumeTask
<1> QED BY <1>1, <1>3, <1>4, EditClaimInv

\* So are time, a clock that jumps ahead, and the loop up to its next claim.
LEMMA LoopClaimInv ==
  ASSUME ClaimInv, TypeOK', now <= now',
         Tick \/ ClockJump \/ Clear \/ Plan \/ Wait \/ LoopFails \/ WakeUp \/ Wake
  PROVE  ClaimInv'
<1>1. UNCHANGED <<runVars, pc, resuming, up, next>>
  BY DEF Tick, ClockJump, Clear, Plan, Wait, WaitStarts, LoopFails, WakeUp, Wake, taskVars, procVars
<1> QED BY <1>1, EditClaimInv

\* Deleting a task takes no running row away.
LEMMA DeleteClaimInv ==
  ASSUME ClaimInv, TypeOK', NEW t \in Tasks, Delete(t)
  PROVE  ClaimInv'
<1>1. UNCHANGED <<now, next, runTask, runFor, nRuns, pc, resuming, up>>
  BY DEF Delete, Edit, clockVars
<1>2. row' = [r \in Runs |-> IF runTask[r] = t /\ row[r] # "absent" THEN "deleted" ELSE row[r]]
  BY DEF Delete
<1>3. \A r \in Runs : (row'[r] = "running" <=> row[r] = "running") /\ (row[r] = "absent" => row'[r] = "absent")
  BY <1>2 DEF Delete, Deletable
<1>4. Blank' /\ ClaimedPast' /\ AtMostOnce'
  BY <1>1, <1>3 DEF ClaimInv, Blank, ClaimedPast, AtMostOnce
<1>5. WorkIsRunning' /\ RunningIffActive'
  BY <1>1, <1>2, <1>3 DEF ClaimInv, TypeOK, WorkIsRunning, RunningIffActive
<1> QED BY <1>4, <1>5 DEF ClaimInv

\* A run by hand has a fresh row.
LEMMA RunNowClaimInv ==
  ASSUME ClaimInv, TypeOK', NEW t \in Tasks, RunNow(t)
  PROVE  ClaimInv'
<1> DEFINE new == nRuns + 1
<1>1. new \in Runs /\ new > nRuns /\ nRuns \in Nat
  BY BoundsAreNat DEF RunNow, Runs, ClaimInv, TypeOK
<1>2. runTask[new] = NoTask /\ runFor[new] = ByHand /\ pc[new] = "none" /\ row[new] = "absent"
  BY <1>1 DEF ClaimInv, Blank
<1>3. /\ UNCHANGED <<now, next, resuming, up>> /\ nRuns' = new /\ up = "up"
      /\ row' = [row EXCEPT ![new] = "running"] /\ runTask' = [runTask EXCEPT ![new] = t]
      /\ runFor' = [runFor EXCEPT ![new] = ByHand] /\ pc' = [pc EXCEPT ![new] = "queued"]
  BY DEF RunNow, clockVars, taskVars, procVars
<1>4. runFor' = runFor
  BY <1>1, <1>2, <1>3 DEF ClaimInv, TypeOK
<1>5. Blank' /\ ClaimedPast' /\ AtMostOnce'
  BY SMTT(30), <1>1, <1>2, <1>3, <1>4 DEF ClaimInv, TypeOK, Blank, ClaimedPast, AtMostOnce, Runs
<1>6. WorkIsRunning' /\ RunningIffActive'
  BY <1>1, <1>2, <1>3 DEF ClaimInv, TypeOK, WorkIsRunning, RunningIffActive
<1> QED BY <1>5, <1>6 DEF ClaimInv

\* A claim takes occurrences later than all that were claimed before, each
\* once, and so finds none of them in the table.
LEMMA ClaimClaimInv == ClaimInv /\ TypeOK' /\ ClaimDue => ClaimInv'
<1> SUFFICES ASSUME ClaimInv, TypeOK', ClaimDue PROVE ClaimInv'
  OBVIOUS
<1>0. TypeOK /\ up # "down" /\ UNCHANGED <<now, resuming, up>>
  BY DEF ClaimInv, ClaimDue, clockVars, procVars
<1>1. PICK take \in [Claimed -> Due], following \in [Due -> 0..Beyond] :
        /\ \A r, s \in Claimed : take[r] = take[s] => r = s
        /\ \A t \in Due : following[t] \in Advanced(t)
        /\ next' = [t \in Tasks |-> IF t \in Due THEN following[t] ELSE next[t]]
        /\ row' = [r \in Runs |-> IF r \in Claimed /\ ~Recorded(take[r])
                                  THEN IF now > next[take[r]] + Grace THEN "missed" ELSE "running"
                                  ELSE row[r]]
        /\ runTask' = [r \in Runs |-> IF r \in Claimed THEN take[r] ELSE runTask[r]]
        /\ runFor' = [r \in Runs |-> IF r \in Claimed THEN next[take[r]] ELSE runFor[r]]
        /\ pc' = [r \in Runs |-> IF r \in Claimed /\ ~(now > next[take[r]] + Grace)
                                 THEN "queued" ELSE pc[r]]
  BY DEF ClaimDue, Claimed
<1>2. \A t \in Due : t \in Tasks /\ next[t] # Never /\ next[t] <= now
  BY DEF Due
<1>3. \A t \in Due : following[t] = Never \/ following[t] > next[t]
  BY <1>0, <1>1, AdvancedLater
<1>4. \A r \in Claimed : r \in Runs /\ r > nRuns /\ take[r] \in Due
  BY <1>0, <1>1, ClaimedRuns DEF ClaimDue
<1>5. nRuns' = nRuns + Cardinality(Due) /\ Cardinality(Due) \in Nat /\ nRuns \in Nat
  BY <1>0, ClaimedRuns DEF ClaimDue, TypeOK
<1>6. now \in Int /\ \A r \in Runs : runFor[r] \in Int
  BY <1>0 DEF TypeOK
<1>7. \A t \in Tasks : next[t] \in Int
  BY <1>0, BoundsAreNat DEF TypeOK, Beyond
<1>8. \A t \in Due : following[t] \in Int
  BY <1>1, BoundsAreNat DEF Beyond
<1>9. \A r \in Claimed : ~Recorded(take[r])
  BY <1>2, <1>4, <1>6, <1>7 DEF ClaimInv, ClaimedPast, Recorded, Never, ByHand
<1>10. Blank'
  BY <1>1, <1>5 DEF ClaimInv, Blank, Claimed, Runs
<1>11. ClaimedPast'
  <2> SUFFICES ASSUME NEW r \in Runs, runFor'[r] # ByHand
               PROVE  /\ runTask'[r] \in Tasks /\ runFor'[r] <= now
                      /\ next'[runTask'[r]] = Never \/ runFor'[r] < next'[runTask'[r]]
    BY <1>0 DEF ClaimedPast
  <2>1. CASE r \in Claimed
    BY <1>1, <1>2, <1>3, <1>4, <2>1
  <2>2. CASE r \notin Claimed
    <3>1. /\ runTask'[r] = runTask[r] /\ runFor'[r] = runFor[r] /\ runTask[r] \in Tasks
          /\ runFor[r] <= now /\ (next[runTask[r]] = Never \/ runFor[r] < next[runTask[r]])
      BY <1>1, <2>2 DEF ClaimInv, ClaimedPast
    <3>2. CASE runTask[r] \in Due
      BY <1>1, <1>2, <1>3, <1>6, <1>7, <1>8, <3>1, <3>2
    <3>3. CASE runTask[r] \notin Due
      BY <1>1, <3>1, <3>3
    <3> QED BY <3>2, <3>3
  <2> QED BY <2>1, <2>2
<1>12. AtMostOnce'
  <2> SUFFICES ASSUME NEW r \in Runs, NEW s \in Runs, runTask'[r] # NoTask, runTask'[s] = runTask'[r],
                      runFor'[r] # ByHand, runFor'[s] = runFor'[r]
               PROVE  r = s
    BY DEF AtMostOnce
  <2>1. CASE r \in Claimed /\ s \in Claimed
    BY <1>1, <2>1
  <2>2. CASE r \notin Claimed /\ s \notin Claimed
    BY <1>1, <2>2 DEF ClaimInv, AtMostOnce
  <2>3. ASSUME NEW old \in Runs \ Claimed, NEW new \in Claimed, runFor[old] # ByHand,
               runTask[old] = take[new], runFor[old] = next[take[new]]
        PROVE  FALSE
    BY <1>2, <1>4, <1>6, <1>7, <2>3 DEF ClaimInv, ClaimedPast
  <2>4. CASE r \in Claimed /\ s \notin Claimed
    BY <1>1, <2>3, <2>4
  <2>5. CASE r \notin Claimed /\ s \in Claimed
    BY <1>1, <2>3, <2>5
  <2> QED BY <2>1, <2>2, <2>4, <2>5
<1>13. WorkIsRunning' /\ RunningIffActive'
  <2>1. \A r \in Claimed : row[r] = "absent" /\ pc[r] = "none"
    BY <1>4 DEF ClaimInv, Blank
  <2>2. \A r \in Claimed : \/ row'[r] = "missed" /\ pc'[r] = "none"
                           \/ row'[r] = "running" /\ pc'[r] = "queued"
    BY <1>1, <1>4, <1>9, <2>1
  <2>3. \A r \in Runs \ Claimed : row'[r] = row[r] /\ pc'[r] = pc[r]
    BY <1>1
  <2> QED BY <1>0, <2>1, <2>2, <2>3 DEF ClaimInv, WorkIsRunning, RunningIffActive, TypeOK
<1> QED BY <1>10, <1>11, <1>12, <1>13 DEF ClaimInv

\* A run that starts, ends or is resumed claims nothing.
LEMMA RunClaimInv ==
  ASSUME ClaimInv, TypeOK', NEW r \in Runs, RunStep(r) \/ ResumeRun(r) \/ ResumeEnds(r)
  PROVE  ClaimInv'
<1> USE DEF ClaimInv, TypeOK
<1>1. UNCHANGED <<now, next, runTask, runFor, nRuns, up>>
  BY DEF RunStep, Execute, Finish, FinishCancelled, ResumeRun, ResumeEnds, clockVars, taskVars, runVars, procVars
<1>2. ClaimedPast' /\ AtMostOnce'
  BY <1>1 DEF ClaimedPast, AtMostOnce
<1>3. CASE Execute(r)
  BY <1>1, <1>2, <1>3 DEF Execute, Blank, WorkIsRunning, RunningIffActive, runVars
<1>4. CASE Finish(r) \/ FinishCancelled(r)
  <2>1. row[r] = "running" /\ r \notin resuming /\ UNCHANGED resuming
    BY <1>4 DEF Finish, FinishCancelled, WorkIsRunning
  <2>2. /\ pc' = [pc EXCEPT ![r] = "done"]
        /\ row' = [row EXCEPT ![r] = "ended"] \/ row' = [row EXCEPT ![r] = "interrupted"]
    BY <1>4, <2>1 DEF Finish, FinishCancelled, FinishRun, Recordable
  <2> QED BY <1>1, <1>2, <2>1, <2>2 DEF Blank, WorkIsRunning, RunningIffActive
<1>5. CASE ResumeRun(r)
  BY <1>1, <1>2, <1>5 DEF ResumeRun, Blank, WorkIsRunning, RunningIffActive, runVars
<1>6. CASE ResumeEnds(r)
  <2>1. row[r] \in {"interrupted", "deleted"} /\ UNCHANGED pc /\ resuming' = resuming \ {r}
    BY <1>6 DEF ResumeEnds, WorkIsRunning
  <2>2. /\ row'[r] \in {"ended", "interrupted", "deleted"}
        /\ \A s \in Runs : s # r => row'[s] = row[s]
    BY <1>6, <2>1 DEF ResumeEnds, FinishRun, Recordable
  <2> QED BY <1>1, <1>2, <2>1, <2>2 DEF Blank, WorkIsRunning, RunningIffActive
<1> QED BY <1>3, <1>4, <1>5, <1>6 DEF RunStep

\* Nothing runs once the process is down, and the next one fails what it left.
LEMMA ProcessClaimInv == ClaimInv /\ TypeOK' /\ Process => ClaimInv'
<1> SUFFICES ASSUME ClaimInv, TypeOK', Process PROVE ClaimInv'
  OBVIOUS
<1> USE DEF ClaimInv, TypeOK
<1>1. UNCHANGED <<now, next, runTask, runFor, nRuns>>
  BY DEF Process, Stop, CancelRuns, Stopped, Crash, Exit, Restart, clockVars, taskVars, runVars
<1>2. ClaimedPast' /\ AtMostOnce'
  BY <1>1 DEF ClaimedPast, AtMostOnce
<1>3. CASE Stop
  BY <1>1, <1>2, <1>3 DEF Stop, Blank, WorkIsRunning, RunningIffActive, runVars
<1>4. CASE CancelRuns
  BY <1>1, <1>2, <1>4 DEF CancelRuns, Blank, WorkIsRunning, RunningIffActive, runVars, procVars
<1>5. CASE Stopped \/ Crash
  BY <1>1, <1>2, <1>5 DEF Stopped, Crash, Exit, Blank, WorkIsRunning, RunningIffActive, runVars
<1>6. CASE Restart
  <2>1. up = "down" /\ up' = "up" /\ UNCHANGED <<pc, resuming>> /\ row' = Recovered
    BY <1>6 DEF Restart
  <2>2. \A r \in Runs : /\ row'[r] # "running" /\ pc[r] \in {"none", "done"}
                        /\ row[r] # "running" => row'[r] = row[r]
    BY <2>1 DEF Recovered, WorkIsRunning
  <2> QED BY <1>1, <1>2, <2>1, <2>2 DEF Blank, WorkIsRunning, RunningIffActive
<1> QED BY <1>3, <1>4, <1>5, <1>6 DEF Process

\* Every step of a steady clock keeps it.
LEMMA NextClaimInv == ClaimInv /\ [SteadyNext]_vars => ClaimInv'
<1>1. ASSUME ClaimInv, SteadyNext PROVE ClaimInv'
  <2>1. TypeOK'
    BY <1>1, NextTypeOK DEF ClaimInv, SteadyNext, JumpAhead, Next
  <2>2. ASSUME Request PROVE ClaimInv'
    BY <1>1, <2>1, <2>2, ScheduleClaimInv, DeleteClaimInv, RunNowClaimInv DEF Request
  <2>3. ASSUME Tick \/ JumpAhead \/ Clear \/ Plan \/ Wait \/ LoopFails \/ WakeUp \/ Wake
        PROVE  ClaimInv'
    <3>1. now <= now'
      BY <1>1, <2>3 DEF ClaimInv, TypeOK, Tick, JumpAhead, Clear, Plan, Wait, WaitStarts,
                        LoopFails, WakeUp, Wake, clockVars
    <3> QED BY <1>1, <2>1, <2>3, <3>1, LoopClaimInv DEF JumpAhead
  <2> QED BY <1>1, <2>1, <2>2, <2>3, ClaimClaimInv, RunClaimInv, ProcessClaimInv
          DEF SteadyNext, Scheduler
<1>2. ClaimInv /\ UNCHANGED vars => ClaimInv'
  BY DEF vars, clockVars, taskVars, runVars, loopVars, wakeVars, procVars, ClaimInv, TypeOK,
         Blank, ClaimedPast, AtMostOnce, WorkIsRunning, RunningIffActive, Beyond, Runs
<1> QED BY <1>1, <1>2

\* With a clock that is never set back no occurrence is claimed twice, for all
\* edits, pauses, deletions, manual runs, failures, stops, crashes and restarts.
THEOREM ClaimedOnce == SteadySpec => []AtMostOnce
<1>1. ClaimInv => AtMostOnce
  BY DEF ClaimInv
<1> QED BY <1>1, InitClaimInv, NextClaimInv, PTL DEF SteadySpec

\* With such a clock the running rows are the runs at work, whenever the
\* process serves requests.
THEOREM RunningRowsAreActive == SteadySpec => []RunningIffActive
<1>1. ClaimInv => RunningIffActive
  BY DEF ClaimInv
<1> QED BY <1>1, InitClaimInv, NextClaimInv, PTL DEF SteadySpec
-----------------------------------------------------------------------------
(* Edits are not slept through.                                            *)

\* The loop holds a plan, and nobody is about to make it look again.
Undisturbed == up = "up" /\ loop \in {"planned", "sleeping"} /\ ~wake /\ waking = 0 /\ steps = 0

\* A plan that stands never lets the wait pass the next run of an active task,
\* from the moment it is made.  NoOversleep speaks of the wait alone; the step
\* that makes the plan is not the one that starts to wait.
PlanHolds ==
  Undisturbed =>
    \A t \in Tasks : status[t] = "active" /\ next[t] # Never /\ sleep > 0 => now + sleep <= next[t]

\* There is no plan at first.
LEMMA InitPlanHolds == Init => PlanHolds
BY DEF Init, PlanHolds, Undisturbed

\* A step after which no plan stands keeps it, and so does one that leaves the
\* plan and the tasks as they were.
LEMMA SamePlan ==
  ASSUME PlanHolds, Undisturbed' => Undisturbed,
         Undisturbed => UNCHANGED <<now, sleep, status, next>>
  PROVE  PlanHolds'
BY DEF PlanHolds

\* A plan takes the shortest of the waits for the active tasks.
LEMMA PlanMakesPlan ==
  ASSUME TypeOK, Plan PROVE PlanHolds'
<1> DEFINE due == {next[t] : t \in {u \in Tasks : status[u] = "active"}} \ {Never}
<1>1. PICK w \in Waits(due) : (\A v \in Waits(due) : w <= v) /\ sleep' = w
  BY DEF Plan
<1>2. UNCHANGED <<now, status, next>>
  BY DEF Plan, clockVars, taskVars
<1>3. now \in Nat /\ next \in [Tasks -> 0..Beyond] /\ Horizon \in Nat /\ Recheck \in Nat
  BY BoundsAreNat DEF TypeOK
<1> SUFFICES ASSUME NEW t \in Tasks, status[t] = "active", next[t] # Never, w > 0
             PROVE  now + w <= next[t]
  BY <1>1, <1>2 DEF PlanHolds
<1>4. next[t] \in due /\ next[t] \in Nat
  BY <1>3 DEF Beyond
<1>5. (IF next[t] <= now THEN 0 ELSE next[t] - now) \in Waits(due)
  BY <1>4 DEF Waits
<1>6. w <= IF next[t] <= now THEN 0 ELSE next[t] - now
  BY <1>1, <1>5
<1>7. w \in Nat
  BY <1>1, <1>3 DEF Waits, Beyond
<1> QED BY <1>3, <1>4, <1>6, <1>7

\* Time brings the end of the wait no nearer to the next run than it was.
LEMMA TickPlanHolds ==
  ASSUME TypeOK, PlanHolds, Tick PROVE PlanHolds'
<1>1. /\ now \in Nat /\ sleep \in Nat /\ next \in [Tasks -> 0..Beyond]
      /\ Horizon \in Nat
  BY BoundsAreNat DEF TypeOK
<1>2. UNCHANGED <<steps, status, next, loop, wake, waking, up>>
  BY DEF Tick, taskVars, wakeVars, procVars
<1>3. now' + sleep' <= now + sleep \/ sleep' = 0
  BY <1>1 DEF Tick
<1>4. sleep' > 0 => sleep > 0 /\ now' + sleep' <= now + sleep /\ now' \in Nat /\ sleep' \in Nat
  BY <1>1, <1>3 DEF Tick
<1> SUFFICES ASSUME Undisturbed, NEW t \in Tasks, status[t] = "active", next[t] # Never, sleep' > 0
             PROVE  now' + sleep' <= next[t]
  BY <1>2 DEF PlanHolds, Undisturbed
<1>5. now + sleep <= next[t] /\ next[t] \in Nat
  BY <1>1, <1>4 DEF PlanHolds, Beyond
<1> QED BY <1>1, <1>4, <1>5

\* A request that changes the schedule owes the loop a wake-up; one that runs a
\* task by hand leaves the schedule alone.
LEMMA RequestPlanHolds ==
  ASSUME TypeOK, PlanHolds, Request PROVE PlanHolds'
<1>1. PICK t \in Tasks :
        Create(t) \/ Update(t) \/ PauseTask(t) \/ ResumeTask(t) \/ Delete(t) \/ RunNow(t)
  BY DEF Request
<1>2. CASE Create(t) \/ Update(t) \/ PauseTask(t) \/ ResumeTask(t) \/ Delete(t)
  <2>1. waking' = waking + 1 /\ waking \in Nat
    BY <1>2, BoundsAreNat DEF Create, Update, PauseTask, ResumeTask, Delete, Edit, TypeOK
  <2> QED BY <2>1 DEF PlanHolds, Undisturbed
<1>3. CASE RunNow(t)
  BY <1>3, SamePlan DEF RunNow, Undisturbed, clockVars, taskVars, loopVars, wakeVars, procVars
<1> QED BY <1>1, <1>2, <1>3

\* Every step keeps it, whether the loop is woken, waits, fails or claims, and
\* whatever happens to the runs and the process; a jump of the clock ends its
\* scope.
LEMMA NextPlanHolds == TypeOK /\ PlanHolds /\ [Next]_vars => PlanHolds'
<1> USE DEF clockVars, taskVars, runVars, loopVars, wakeVars, procVars
<1> SUFFICES ASSUME TypeOK, PlanHolds, [Next]_vars PROVE PlanHolds'
  OBVIOUS
<1>1. CASE Request
  BY <1>1, RequestPlanHolds
<1>2. CASE Wake
  BY <1>2 DEF Wake, PlanHolds, Undisturbed
<1>3. CASE Clear \/ ClaimDue \/ LoopFails \/ WakeUp
  BY <1>3 DEF Clear, ClaimDue, LoopFails, WakeUp, AfterWait, PlanHolds, Undisturbed
<1>4. CASE Plan
  BY <1>4, PlanMakesPlan
<1>5. CASE Wait
  BY <1>5, SamePlan DEF Wait, WaitStarts, Undisturbed
<1>6. CASE Tick
  BY <1>6, TickPlanHolds
<1>7. CASE ClockJump
  <2>1. steps' = steps + 1 /\ steps \in Nat
    BY <1>7, BoundsAreNat DEF ClockJump, TypeOK
  <2> QED BY <2>1 DEF PlanHolds, Undisturbed
<1>8. CASE Process
  BY <1>8 DEF Process, Stop, CancelRuns, Stopped, Crash, Exit, Restart, PlanHolds, Undisturbed
<1>9. ASSUME NEW r \in Runs, RunStep(r) \/ ResumeRun(r) \/ ResumeEnds(r) PROVE PlanHolds'
  <2>1. CASE Finish(r) \/ FinishCancelled(r)
    BY <2>1 DEF Finish, FinishCancelled, PlanHolds, Undisturbed
  <2>2. CASE Execute(r) \/ ResumeRun(r) \/ ResumeEnds(r)
    BY <2>2, SamePlan DEF Execute, ResumeRun, ResumeEnds, Undisturbed
  <2> QED BY <1>9, <2>1, <2>2 DEF RunStep
<1>10. CASE UNCHANGED vars
  BY <1>10, SamePlan DEF vars, Undisturbed
<1> QED BY <1>1, <1>2, <1>3, <1>4, <1>5, <1>6, <1>7, <1>8, <1>9, <1>10 DEF Next, Scheduler

\* No edit is slept through: while the clock runs with time, a wait that nobody
\* is about to end is over when the next active task is due, whatever requests,
\* failures of the loop, stops and crashes come between.
THEOREM EditsAreSeen == Spec => []NoOversleep
<1>1. PlanHolds => NoOversleep
  BY DEF PlanHolds, Undisturbed, NoOversleep
<1> QED BY <1>1, InitTypeOK, InitPlanHolds, NextTypeOK, NextPlanHolds, PTL DEF Spec
=============================================================================
