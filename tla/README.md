# K-Agent: a TLA+ development

K-Agent is a self-hosted agent workbench.  A React UI and a TypeScript CLI talk to
the **Access Layer** (`access_layer/`, FastAPI), which owns all durable state:
sessions, approval cards, teams, scheduled tasks, the catalogue of connectors and
skills.  It streams every run from the **Agent Backend** (`backend/`, FastAPI), which
keeps no session state and runs the built-in ReAct agent or an external CLI (Codex,
Claude Code).

This directory holds TLA+ models of the parts where order matters, TLC
configurations that check them on small instances, and TLAPS proofs of some of their
properties for every instance.  `PROJECT.json` says which lines of the code each
definition stands for, lists the runs, the hazards they are about, and for each
property a plausible bug in the code that breaks it.

## 1. Inventory

| component | state | operations | interacts with | hard behaviour |
|---|---|---|---|---|
| **Team control plane** `access_layer/teams` | SQLite: `teams`, `team_agents`, `team_tasks`, `supervisor_jobs`, `artifacts`; in memory: `_active`, a semaphore | user commands, claims, submit, decide, fail, interrupt, hold, recover, publish | Backend streams, task directories | coroutines of many runs between two store calls; stop, crash, restart; retries; late failures |
| **Scheduled tasks** `access_layer/scheduled_tasks` | SQLite: tasks with `next_run_at`, runs; a wake event, a semaphore | CRUD, claim_due, claim_manual, finish, recover, resume | gateway, session store | clock against edits, overlapping runs, lost wake, no replay after a crash |
| **Request limiter** `access_layer/concurrency.py` | a semaphore, one lock per session | protect, protect_idle_session | gateway, compaction, deletion | timeouts while waiting, cancellation between two acquisitions |
| **Run gateway** `access_layer/gateway.py` | per request: worker, event queue | admit, resume, stream, compaction barrier, card, finish, recover | limiter, session store, Backend | client disconnects, partial commits, restart in the middle of a continuation |
| **Session store** `access_layer/sessions` | files: history, session, approvals, resume intents, context; their copy in memory | save_run_start, append_event, persist/prepare/finish interrupts, stop, cancel, fork, commit_compaction | gateway, teams, scheduler | crash between two files, late events after stop, compare-and-swap of contexts |
| **Marketplace, catalogue** `access_layer/marketplace`, `catalog.py`, `mcp_config.py` | two files for connectors, packages and a file for skills; a cache of the market | install, remove, import, forms, choice of a run | the market, the gateway | a name taken while the market answers; stale forms; a crash between two files |
| **MCP pool and manager** `backend/mcp_tool` | entries by fingerprint: connection, leases, tombstone; per run: tools, calls | acquire, release, close_all, eviction, list, call with retries | MCP servers, runs | a lease outliving its entry, connects under an entry's lock, retries over dead connections |
| **Approval broker** `backend/approvals.py` | per run: two queues, an event | stream, request | runners, AG-UI encoder | the card racing the events before it |
| **Agent loop** `backend/agent` | per call: messages, round, allowlist, authorization, compactions | iterate, act, card, resume, compact | models, dispatcher, Access Layer | resume in the middle of a round, compaction in the middle of a run |
| **Tool dispatch, permissions** `backend/tools`, `backend/permissions` | rules, one-time approval | decide, execute | loop, MCP | approvals that outlive their call |
| **Context** `backend/context` | none | repair, group, choose, split | loop | cuts between a call and its result |
| **Runners, AG-UI** `backend/runners`, `backend/agui.py` | subprocess, mapping state, open blocks | start, map, ask, stop, translate | external CLIs, broker | text said twice, decisions used twice, events of three shapes in one protocol |
| **Terminals** `access_layer/sessions/terminal.py` | shells by tab, sockets | attach, close, broadcast | browser | the last socket to leave |

What makes each correct:

* *Teams*: a coroutine submits only for the attempt it was started for; an agent
  works on one task; the supervisor decides alone; downstream work builds on
  accepted results; no acceptance is lost or doubled; submissions are never lost
  from review and close the gate; what is running can be recovered.
* *Scheduled tasks*: an occurrence is executed once at most; a due task is claimed; no
  edit is slept through; a task is neither deleted nor started under its run.
* *Limiter*: one run per session, a bounded number in all, nothing leaked by a
  timeout or a cancellation, who waits is served.
* *Sessions*: what a run is given is the whole conversation; a card is answered once and
  survives a crash; a cancelled run leaves nothing and a stopped one ends once; a run that
  ends in peace is in the history; who has the lock gives it back, but for one case (section 6).
* *Agent loop*: the provider takes every conversation it is sent, nothing is forgotten,
  calls run once and only with leave, a skill's allowlist lasts.
* *Runners*: the wire carries a well-formed run, no text is shown twice, a decision is spent once.
* *MCP*: users share a connection, none is cut off by the doings of others, nobody waits for ever where a timeout is meant to bound it.
* *Approvals*: a card that is asked for is shown, who waits for one comes back.
* *Marketplace*: files that belong together agree, secrets survive forms, a run gets
  what was ticked, the market is asked once at a time.

## 2. Plan

| step | modules | state |
|---|---|---|
| 1 | `TeamRuntime`, `TeamRuntimeProofs` | modelled with held runs; every safety property proved |
| 2 | `ScheduledTasks`, `ScheduledTasksProofs` | modelled; every safety property proved |
| 3 | `RunExclusion` (abstract), `RequestLimiter`, `RequestLimiterProofs` | modelled; safety and refinement proved |
| 4 | `SessionStore`, `RunGateway`, `SessionInvariants`, `SessionProofs` | modelled; every safety property proved, four of them without approval answers |
| 5 | `Picking`, `ToolGate`, `ContextWindow`, `AgentLoop`, `AgentLoopProofs` | modelled; every property proved |
| 6 | `AguiStream`, `CliEvents`, `RunnerStream`, `RunnerStreamProofs` | modelled; every property proved |
| 7 | `McpPool`, `McpManager`, `McpProofs`, `ApprovalBroker` | modelled; the safety properties of the pool proved |
| 8 | `Picking`, `McpCatalog`, `Marketplace`, `MarketplaceProofs` | modelled; every property proved |
| 9 | session terminals; deletion of sessions; the two applications' start and reload | open |

What is left to prove is what histories hold where cards are answered, and in the stories section 5
leaves out of `OrderlySpec`.

## 3. Modules

Some definitions are introduced as *a slip*: a plausible bug, standing before the
definition it would replace.  No specification uses one; each property was seen to
fail when one of them takes the place of its original.  Variables marked *not in the
code* are history the properties need.

### TeamRuntime

One team: the rows `store.py` keeps and the coroutines of `runtime.py`.

| TLA+ | code |
|---|---|
| `team`, `agent`, `taskStatus` … `taskRun`, `jobStatus` … `jobRun`, `artifact`, `published` | columns of the tables `store.py` creates |
| `pc`, `kind`, `runTask`, `runJob`, `runAgent`, `bundle` | one coroutine `_run_claimed` or `_run_supervisor` each, with its local variables; `pc` says between which two store calls it is |
| `up`, `stops` | the process: up, in `stop()`, down |
| `Pause`, `Resume`, `Cancel`, `CreateTask`, `UserMessage` | `_command_sync`, `_create_task_sync`, `_send_message_sync` |
| `ClaimSupervisorJob`, `ClaimNextTask`, `Spawn` | `_dispatch_team` with `_claim_supervisor_job_sync`, `_claim_next_task_sync` |
| `Start`, `Submit`, `Settle`, `RunFails`, `FailTask`, `InterruptTask`, `CleanupFails`, `HoldTask` | `_run_claimed` and the store calls it makes |
| `Start`, `Decide`, `Publish`, `FailSupervisorJob`, `InterruptSupervisorJob`, `HoldSupervisor` | `_run_supervisor` likewise |
| `Stop`, `Stopped`, `Crash`, `Restart` | `stop`, the end of the process, `start` with `recover_expired_leases` and the publication check |

Every store method runs under one lock and one transaction, hence is one step.
`asyncio.Lock` is first come, first served; this is used in one place: a decision
that read a submission comes after the next store call of the worker that made it
(first conjunct of `Apply`).  A lease has expired or not at a restart as the
environment chooses.  Priorities are arbitrary, so any eligible task may be
claimed.  A supervisor's decision is any decision the store accepts; one it would
refuse is `RunFails`.  `task.created`, `task.failed` and
`user.instruction_added` jobs are treated alike by the store and are one trigger,
`notice`.  `undone` is not in the code: it counts, for each task, how often a worker that failed after it
had submitted took the accepted task back.  A run that stops for a human approval is *held*: its row stays running
without a lease.  What would resume it cannot be reached (section 6).

### ScheduledTasks

The two tables of `scheduled_tasks/store.py`, the loop and the run coroutines of
`runtime.py`, and the clock.

| TLA+ | code |
|---|---|
| `status`, `rule`, `next` | `scheduled_tasks`: status, schedule, `next_run_at` |
| `row`, `runTask`, `runFor` | `scheduled_runs`: status, `task_id`, `scheduled_for` |
| `Create`, `Update`, `PauseTask`, `ResumeTask`, `Delete`, `RunNow`, `Wake` | the routes, their store calls, and the event they set after the commit (`waking` counts handlers that have yet to set it) |
| `Clear`, `ClaimDue`, `Plan`, `Wait`, `WakeUp`, `LoopFails` | one iteration of `_scheduler_loop` |
| `Execute`, `Finish`, `FinishCancelled` | `_execute` from the semaphore to `finish_run` |
| `ResumeRun`, `ResumeEnds` | `resume_approval`, inside a request |
| `Stop`, `CancelRuns`, `Stopped`, `Crash`, `Restart` | `stop`, a crash, `start` with `recover_running` |
| `Tick`, `ClockJump` | the clock, which may be set in either direction |

A rule is the set of times it is due at: `schedule.py` computes the least of them
after a given time, and time zones only decide the set.  A result of a run is
`ended` (succeeded or failed) or `interrupted` (failed with a decision pending).
`claim_due` takes at most 32 tasks at a time, more than any instance has.  SQLite
does not fail.

### RunExclusion and RequestLimiter

`RunExclusion` is the promise: at most one user inside a session, at most
`MaxSlots` runs in all.  `RequestLimiter` is `concurrency.py` over asyncio's
`Semaphore` and `Lock` (Python 3.11), modelled as they hand over: a release marks
a waiter as woken, the waiter runs later, and a waiter that gives up after it was
woken must pass the hand-over on (`WakeSlot`, `WakeFirst`, external).  `AskSlot`,
`TakeSlot`, `LeaveSlotQueue`, `AskLock`, `TakeLock`, `LeaveLockQueue`, `Exit` follow
`protect`; `AskIdle`, `RefuseBusy`, `ExitControl` follow `protect_idle_session`.
Every wait may be given up at any time, by its timeout or a cancellation;
`asyncio.wait_for` returns a result it already has.  `Runs` and `Controls` are
places of requests, reused after `Answered`.

### SessionStore and RunGateway

`SessionStore` has no actions.  It gives one session as a pair of records, `disk` (the
files) and `mem` (the `SessionRecord` and the store's tables), and each operation as
the memory it leaves and the sequence of files it writes: an operation holds the
store's lock from its first to its last line, but the process may stop between two
writes.  `Perform` applies the writes, `BreakOff` any prefix of them, and `Outcome` what one
write leaves behind a crash.  `Record`, `Visible`, `Starts`, `Completes`, `MessageOf`, `MessagesIn` are
`history.py`: how events become messages, a message that is said again taking the place of the first, and
one that is started anew losing it.  `Validated`, `View`, `CanCompact`, `Compacted` are `context_store.py`:
whether a summary still stands for a prefix of the history, and what is given to the
model.

`RunGateway` EXTENDS it with what calls it: the browser (`Post`, which may send an answer again under its own
run id, `PostAgain`; `Stop`, `Cancel`, `Leave`),
the run that holds the session's lock (`Acquire` to `Close`, in the order of
`AgentAccessLayer.run`, with `StoreFails` for a store call that fails before there is a stream),
its persist worker with the bounded queue (`Persist`,
`PersistFails`), the Backend's stream (`Relay`, `ShowCard`, `CanPropose`, `StreamEnds`: any
sequence of events the protocol allows), manual compaction and reset, the
crash, and the recovery of a continuation at start (`Recover`).  A run brings one user
message, may say one text and call one tool; a card is named by the run that raised it.
`Stories` limits which of the behaviours of client, backend and machine occur in one
execution; inside a story they come in every order.

`SessionInvariants` EXTENDS it with what is known of a session: the parts of the inductive invariants that
`SessionProofs` proves.

Not in these modules: titles, attachments, listing and deletion of sessions, the
migration of old histories, a store call that fails after it has written one of several files, and a cancellation of the persist worker in the middle of a
write.

### ToolGate, ContextWindow and AgentLoop

`ToolGate` is what becomes of a call before it is executed: the rules in order
(`CheckPermission`), the skill's allowlist, read-only tools, MCP tools, questions, the
one-time approval (`Gate`), and what an answer to a card means (`ResumeOutcome`).  A
tool stands for a tool with its arguments; a pattern is the set of what it matches.

`Picking` has one operator, the list at chosen places.

`ContextWindow` is `backend/context`: `PairToolMessages` repairs a history that was broken
off (which messages stay, `Stays`, and with which calls, `Kept`), `RoundStarts` and `Cuts` say where a conversation may be cut, `Split` what the summary
covers and what stays when the request for it had to be shortened.

`AgentLoop` is one turn of a conversation: a chain of Backend calls, opened by new input
(`Begin`), by an answer to a card (`Resume`) or by the continuation after a compaction
(`Continue`).  `Connect`, `Limit`, `Observe`, `Summarised`, `ReasonCalls`, `ReasonEnds` and the `Act`
actions are the stages of `react_agent.py` between its awaits; `Cancel` may come at each.
`held` is the checkpoint the Access Layer keeps.  Token counts are a free choice.

### AguiStream, CliEvents and RunnerStream

`AguiStream` is `agui.py`: from the events of a runner to those on the wire (`WireOf`,
`StateAfter`), with `Boundary` closing the reasoning that is open.  `CliEvents` maps the
output of Codex and Claude Code to events; a stream is a record every operator takes and returns.
`RunnerStream` runs them: the start of a runner and its failures, blocks of text and
reasoning in pieces and as a whole, tool items, requests with and without a decision of
the user's (`Authorised`, `Waved`, `Asks`), the broker's choice between events and card
(`Deliver`, `ShowCard`, `Drained`, `Report`), the end of the process on every way out.
Pieces of text are numbers, so that a repeated or lost one shows.  `client` is what a client that follows the
protocol has been shown (`Seen`), and what of it is open.  Assumed of the
providers: an item of Codex does not end inside a message; what Claude repeats as a whole is
what it streamed.

### McpPool and McpManager

`pool.py`, with the life of a connection of `client.py`.  An entry is an object: the
dictionary may hold a new one for a key while runs still hold the old one.  The
count and the tombstone matter only while the dictionary holds the entry, and
are kept by key (`leases`, `retire`); the connection is kept by entry (`session`).
Entries and connections are numbered, and a number is used again when nothing
refers to it.  `Acquire`, `Evicted`, `EnterLock`, `Connected`, `GiveUp` are the stages of
`acquire` between its awaits; `Finish`, `Release` are `close_all` of a run's client
manager and `release`; `Reload`, `Shutdown` are `close_all` of the pool without and
with `force`; `OpenTransport`, `Initialized`, `Ends` are `McpSession._run`.  A closed
connection is gone at once, where the code awaits its task for up to three
seconds.

`McpManager` EXTENDS it with what a run does with its lease: it lists the tools (`StartList`, `Listed`,
`ListFails`), which no timeout bounds, and a call goes out up to 1 + `MaxRetries` times, each attempt bounded by a timeout, again
only after an error taken for transient, and never over a new connection.  A list that failed may be asked
for again, where a run asks once.

### ApprovalBroker

`approvals.py`.  The events of a runner and a card race for the response: `pump()`
feeds one queue (`produced`, `queued`, `ended`), `request()` the other (`card`), and a
round of `stream()` starts a `get()` on each (`StartRound`, `LateTake`, `Resume`).
`RunnerThrows` is the runner that raises `ApprovalInterrupt`.  `Askers` are tasks
beside the runner's coroutine (bridges of external CLIs) that call `request()`.
`Disconnect` ends the stream where it waits or yields; `Abandon` is a second
cancellation while the `finally` block awaits the pump.  The client and the
response (FastAPI 0.116 with uvicorn 0.35, whose cancel scope repeats a
cancellation until the task ends) are the environment.

### McpCatalog and Marketplace

`McpCatalog` has the pure parts: what an entry of the market can be installed as
(`MapInstall`), the summaries that keep the origin of rows, the policy, the merge of the
configuration files with one name for one connection (`DedupeServers`), and what a run is
given for the names that were ticked (`SelectedRuntime`).  What the code filters is written as the
list at chosen places (`Picked` of `Picking`), and what it collects in a loop as a function of how far the loop has
come (`DedupeServers`): of both, statements can be proved for lists of any length.

`Marketplace` has the files and the tabs.  A request is the turn after its last await: it
computes its writes, which `Perform` makes one by one, and `Crash` may come before any of them.
`AskConnector`, `FetchEnds`, `TakeAnswer`, `Expire` are `TtlCache.get_or_fetch` with the
installation behind it; `OpenConnectors`/`SaveConnectors` and `OpenSkills`/`SaveSkills` are
forms that stay open while others work.  `torn` are the names a crash caught between two
writes: `FilesAgree` is about the others.

### MC modules

`MCTeamRuntime`, `MCScheduledTasks`, `MCRequestLimiter`, `MCRunGateway`, `MCAgentLoop`,
`MCRunnerStream`, `MCMcpManager`, `MCApprovalBroker`, `MCMarketplace` give the constants their
values.

## 4. Runs

| run | instance | what it shows |
|---|---|---|
| `team_chain` | one worker, t2 after t1, 5 runs, one request, one stop or crash | a worker may submit only for its own attempt (`RunFenced`); running work builds on accepted results (`DownstreamSound`); submissions keep their review (`ReviewPending`); each acceptance leaves one accepted Artifact (`OneAcceptedArtifact`); the control plane is single (`SingleControl`); what runs has a lease or is held (`LeasedUnlessHeld`) |
| `team_parallel` | two workers, independent tasks, two slots, `TidySpec` | an agent works on one task (`OneTaskPerAgent`), the gate (`HardGate`) |
| `team_live` | one task, one slot, `LiveSpec` | submissions are decided (`SubmissionsReviewed`) |
| `sched_safe` | two tasks, 2 runs, 3 edits, a stop, a jump of the clock, `SteadySpec` | no occurrence is claimed twice (`AtMostOnce`), running rows are the runs at work (`RunningIffActive`), no edit is slept through (`NoOversleep`) |
| `sched_live` | one task, one slot, a jump of the clock, `LiveSpec` | due occurrences are taken (`DueIsTaken`) |
| `limiter` | five runs and a control operation, two sessions, three slots | no slot leaked (`SlotsKept`), refinement of `RunExclusion` (`Promise`), who waits is served (`Served`) |
| `sessions` | three runs of one session, a queue of two events, one compaction, seventeen stories | section 1, *Sessions*: `ViewComplete`, `BranchFaithful`, `ShownIsDurable`, `ConfirmedOnce`, `RolledBack`, `EndsOnce`, `NothingLost`, `RunEnds` |
| `backend` | five tools, two rules, one history broken off, three rounds of two calls, two compactions | conversations are well paired (`PairedHistory`), nothing is forgotten (`NothingForgotten`), calls run once and with leave (`OnceAndGranted`), the allowlist lasts (`ScopeKept`) |
| `runners` | three kinds, three requests of two tools, two pieces, two items | each piece of text is shown once (`EachPieceOnce`), a decision is spent once (`GrantedOnce`), the wire is well formed (`Protocol`) |
| `mcp_shared` | two users of one server, a reload, a shutdown, one retry | one connection for the users of an entry (`OneConnection`), nothing cut off unless its entry was replaced (`NotCutUnlessReplaced`), who waits for a lock, a connection or a call comes out of it, also while another waits for `tools/list` (`WaitsEnd`) |
| `approvals` | two streams of one run, a task that asks beside the runner, two events | a card always shown (`CardShown`), callers released when their stream ends, unless a second cancellation left it behind (`AskerReleased`) |
| `market` | two tabs, two names, two entries and one skill of the hub, four requests, one crash | `OneFetch`, `FilesAgree`, `GivenAsTicked`, `SecretKept` |

Bounds.  Two tasks, one of which needs the other, are the least on which work can
build on a result that is taken back; five runs allow two attempts of a
task with the reviews between them, and a supervisor's run that reads one state
and decides in another.  One stop and one request suffice for each to fall into
any window; the proofs do not depend on either.  Rules that are
due once at 2, or at 1 and at 3, on a clock that ends at 3 with a grace of 1 cover
a late, a missed and a future occurrence, and two tasks that are due together.  Three
slots for five runs of two sessions let runs wait for both resources, in either
order of arrival.  Three runs of a session are one that is interrupted or compacted, one that
answers or queues behind it, and one that sees what they left; a run says and does one
thing of each kind, and no property counts further.  Three rounds of two calls put a card
and a compaction before, between and behind executed calls; the two compactions are the
code's own limit.  Two pieces are the least of which one can be streamed and
the other come with the whole.  Keys of the MCP pool share only its lock, so one key
is enough; two users for an entry to be replaced under one while the other holds
the new one; one retry is one attempt over a connection that may be dead.  Two streams of one
run are the most that a retry makes; the runner and one task beside it are two askers.
Two tabs are the one that waits or keeps a form open and the one that changes what is under it; four
requests allow an installation, its removal and a form around both.

`CHECK_DEADLOCK FALSE` is said where every request may be over: bounded streams, runs
and requests, and a pool that was shut down.

Fairness is that of the event loop: a coroutine that can go on does, and the queues of
`asyncio.Semaphore` and `asyncio.Lock` are first come, first served, so a waiter that is
passed by infinitely often is served (strong fairness of `Start`, `Execute`, `EnterLock`,
`Release`).  The access layer reads a stream of the Backend
without a timeout (`agent_backend_client.py:32`), so in `RunGateway` nothing makes a stream end: `RunEnds` lets a run wait for it,
and says that the lock is given back once it is over.  `team_live`, `sched_live` and `limiter` do assume that runs end, which is the
Backend's doing (timeouts of models and calls) and not the scheduler's: behind a run that never ends no
submission is decided, and a waiter of the limiter is served by its own timeout only.  The team
scheduler polls; an iteration of the schedule loop does not fail for ever; a call of a server's
tool is cut off by `mcp_call_timeout` (180 s unless configured) and its delays end, while nothing ends a wait
for `tools/list`; the client of
a stream reads on or goes away.  In `RunGateway` the condition is written as *infinitely often not busy, or
infinitely many steps of the run that holds the lock*, which is weak fairness of `Next` on
`cur` in the phases in which the run waits for nobody: in each there is such a step.  Nothing obliges a user to act, a
server to answer or the process to stop or start, and the properties that need it exclude what
the environment may do instead (`up`, `team`, `left`, and `lost` in `RunEnds`).

`TidySpec` leaves out one event: that writing the result file or the
`artifact_ready` mail fails after `submit_task`.  `OneTaskPerAgent` is stated for it, and `team_parallel` runs under it; the
other properties of teams do not need it.  `SteadySpec` leaves out a clock set
back.  Section 6 says what happens otherwise.

## 5. Proofs

All theorems hold for every value of the constants that the assumptions admit: any tasks,
agents, rules, keys, tools, numbers of runs, stops and crashes.  The assumptions, one
to a module that declares constants, say of what kind the constants are; those with more
content are `ToolsAssumption` (no question is a skill, the skill's list has the skills on it, a
tool of an MCP server asks for nothing of its own) and `HistoryAssumption` (a history is one that runs leave
which were broken off anywhere, `BrokenOffAnywhere`: calls may lack their results and results their calls, but
a result that answers a call stands behind it with only results between, and no call was answered twice; TLC
evaluates it for the run's history).  Each invariant below was checked by TLC on the run's instance before it was proved.

`TeamRuntimeProofs`.  `TypeCorrect`, `ReviewNeverLost`, `LeasesMarkRunning`, `ControlIsSingle`,
`GateHolds`, `StaleRunsFenced`, `DownstreamHolds`, `AcceptedOnce`; `AgentsApart` for `TidySpec`.

* `ReviewPending` needs that job numbers are used in order (`JobsInOrder`), so that the job
  of a new submission takes a free row; `SingleControl` is inductive with the types;
  `LeasedUnlessHeld` needs that a run that is held stays held (`HeldStays`), which needs that
  numbers of runs are used in order too (`RunsInOrder`); the gate follows from
  `ReviewPending`, as `ClaimNextTask` looks for open jobs and a submitted task has one.
* `RunFenced` follows from `RunInv`.  `submit_task` compares status and owner and not the
  attempt, so what keeps a stale coroutine out is that a worker that may still submit is the
  run its task names (`OwnTask`), and that nobody takes up the task of a submission whose
  worker has yet to make its next store call (`SettlingApart`).
* `DownstreamSound` needs most.  `fail_task` takes back a task that was accepted meanwhile, so
  nothing that needs the task may have left the queue before the submission is
  settled.  `NothingBuilds` says that, and that what could be started is kept back by a job
  (`Kept`); `UnreadKept` that a decision made without having seen the submission leaves such a job
  behind; `UpstreamDone` the converse for what the submission itself builds on.
* `OneAcceptedArtifact` is an equation that holds whatever fails: the accepted Artifacts of a task are as many as
  the times a decision on it was taken back, and one if it is completed.  It is inductive with `RunInv`, by which
  `submit_task`, `interrupt_task`, a restart and the failure of a worker that has not submitted find the task not
  completed; `fail_task` of one that has is the only step that takes a completed task back, and `undone` counts it.
* `OneTaskPerAgent`: owners of active tasks are apart and busy (`OwnersApart`), and a
  supervisor whose job runs has no task of its own (`SupAlone`).  It is stated up to the first
  stop, because a restart frees the supervisor of a lease that ran out, whatever else it was at work on.

`ScheduledTasksProofs`.  `TypeCorrect`; `EditsAreSeen`; `ClaimedOnce` and `RunningRowsAreActive` for
`SteadySpec`.

* The last two come from `ClaimInv`: what was claimed lies before the task's `next` and not after
  `now` (`ClaimedPast`), rows of runs never claimed are blank, work at hand has a row marked
  running.  An edit may move `next`, but only to times after `now`: this is where a clock set back
  would break it.
* `NoOversleep` speaks of the wait; the plan is made one step before it, and an edit may fall
  between.  `PlanHolds` says it of both, as long as nobody is about to wake the loop: an edit raises
  `waking` in the step that commits it, and the event, once set, is cleared at the top of the loop only.

`RequestLimiterProofs`.  `TypeCorrect`, `OneUserPerSession`, `NoSlotLost`, `KeepsPromise`.  The
invariant `Inv` is `LockInv` (who is inside has the lock, alone in its session; a free lock
with waiters has woken the first of them; waiters and queues agree, each waiter queued once)
and `SlotInv` (free slots and holders add up; waiters and queue agree).  A woken waiter has
the slot already, but not the lock: this is why only the first of a lock's queue may be
woken.  `KeepsPromise` maps every step to an `Enter`, an `Exit` or a stutter of
`RunExclusion` with `inside <- Inside`.

`McpProofs`.  `ConnectionIsShared`, `UsersAreNotCut`, both of `McpManager`'s specification.

* `OneConnection` follows from `ConnInv`: an entry is under one key and a connection in one entry
  (`EntriesApart`), and what a user connects or uses is its entry's connection as long as it lives, with
  one user at a time inside the entry's lock (`Shared`).
* `NotCutUnlessReplaced` is an action property.  It needs `Counted`: while the pool serves, the
  lease count of a key whose entry was never replaced is the number of its users, and all of
  them hold the entry of the dictionary.  The count is per key and a lease is of an
  entry, so this fails from the first replacement on, which is what section 6 reports.

`SessionProofs`.  `CardsOutliveRestarts`, `AnswersAreExecutedOnce`; for `OrderlySpec`: `RolledBackAlways`,
`NothingLostAlways`, `ViewCompleteAlways`, `BranchFaithfulAlways`; for `UncontinuedSpec`: `EndsOnceUncontinued`.

* The invariant is `CardsInv`.  `ShownIsDurable` needs `FilesInv`: an open card has its file, and one
  that was shown and is no longer open is settled.  `ConfirmedOnce` needs `BegunInv`: the status
  of what was executed is never `none` or `pending` again; `AgainInv`: between its claim and its
  stream an answer's cards have left those states, and were not executed before unless the answer
  says so; `OpenInv`: they stay open until it is over; and `ClaimInv`: a decision that is on file
  was claimed by a run that is past its lock.  What a run executes that posts its answer a second time is
  marked `repeated`: the code lets it through on purpose, so `ConfirmedOnce` says that nothing else repeats a call,
  and that such a repetition changes nothing for the other answers to the card.
* A crash may cut an operation between two files.  `Onward` relates two disks: no card becomes
  fresh again, one that is open has a status, one that is no longer open is settled.  It is shown
  for every prefix of the writes of every operation, also behind the restart that
  follows (`SettleWrites`, `ClaimWrites`, `InterruptWrites`, `CheckingWrites`, `RestartedFacts`).  Twenty
  actions do not touch the cards (`Calm`).
* The five others are about what a history holds, and are proved for any runs, any queue, any number of
  compactions and any story that is `Orderly`: no card is answered; nothing is cancelled while it
  waits for the lock or after it has finished; and where a run may compact and the process may crash,
  nothing is stopped or cancelled.  Twelve of the seventeen stories of the run are orderly, the
  other five answer cards.  In each part that is left out one of the statements fails when there are runs and
  events enough; section 6 names the cases.
* The history is read backwards from its records: what a message is depends on where its events stand.
  `HistoryInv` says what makes that reading safe: what completes a message is recorded once (`Plain`); no message is
  completed between a call and its result, so that no boundary of a summary falls there (`CallsNear`); nothing
  but bare events comes behind the tombstone of a run (`RemovedBare`), and a record without a run id is not
  in a history that has tombstones, which could not hide it (`Labelled`); nothing follows the end of
  a run that is not removed (`EndsLast`).  From these follow `GrownMessages` and `GrownFacts`, that a record that is
  appended leaves the messages there were as they are, and `TombstoneKeeps`, that a tombstone takes none
  but its run's.  What the recursive functions of `history.py` give for lists of any length is shown at a
  least place that would refute it.
* `StoryInv` follows a run from its acceptance to its end.  `QueueInv`: the queue and what was sent are a stream
  the protocol allows; `FlowInv`: what of it has left the queue is in the files or waits in memory (`Told`, `Heard`),
  each event once, unless the run was turned off (`Off`); `UnknownInv`: of a run that is not accepted yet nothing is
  known anywhere; `OrderInv`: the history is in order and has a tombstone for each run the memory
  knows as cancelled; `PendingInv`: a continuation that a restart would take up has not ended, which is why a run
  taken up again (`CleanInv`) cannot end twice.
  It is kept by every event that is appended (`PersistKeeps`), by a stop in any state of the buffers (`StopKeeps`), by a
  cancel (`CancelKeeps`), by an acceptance (`AcceptKeeps`), and by a crash between any two writes (`CrashKeeps`).
* `RolledBack` and `EndsOnce` are read off `StoryInv`.  `EndsOnce` is stated for fewer stories (`UncontinuedSpec`, ten of
  the run's): those in which no run is continued by a restarted process, because a run that is stopped and
  continued later the code does close twice (section 6).  `NothingLost` is an action property: a run that ends in peace has
  an empty queue, so `FlowInv` puts all it sent into the history.
* `ViewComplete` and `BranchFaithful` need `SummaryInv`: the summary on file says the messages its digest stands for,
  and its boundary is a record that ends a message (`Sound`); what a view would have summarised is the
  first messages of the history, whatever was appended since, and none of the run that goes on
  (`ViewOk`).  The last part is why a run that compacts may be cancelled: its tombstone takes away none of the
  messages the summary covers (`ViewCancelled`), and a summary that covers others' cancelled messages is no longer valid.

`AgentLoopProofs`.  `EveryMessageOnce`, `CallsStayPaired`, `ExecutedOnceAndGranted`,
`ScopeOutlivesTheCall`.

* `WindowInv` says of an open call, of a checkpoint and of a continuation that the summary and the
  messages behind it are the whole turn.
* What a provider is given begins with a history that was repaired.  `RepairPairs` shows of `pair_tool_messages` that
  whatever was broken off comes out well paired: the messages that stay are numbered by their places
  (`RepairedFacts`); between a call that stays and its results nothing is left out but what is answered by
  nothing (`WithoutGap`); and there are as many results as calls left (`AsMany`, `KeptFacts`).  `AskedAnew` puts the new
  message behind it.
* `PairInv`: between rounds the conversation is well paired; within one, all before the message that calls
  is, and the results of the earlier calls follow it in order (`MidRound`), which is what a card
  saves and an answer takes up.
* `RanInv`: numbers of executed calls grow and lie below the pending one; a call's number tells where its
  round began (`RoundInv`), so this survives cards and compactions, which move the messages but
  not their number.  `GrantInv`: the one-time approval is the user's, and what ran had one, or was
  permitted, or the run has full access.
* `ScopeInv`: once a skill was loaded its list is in force, in the call or in what is kept for the next.

`RunnerStreamProofs`.  `AnswersAreSpent`, `SaidOnce`, `TheWireIsWellFormed`.

* `GrantedOnce` is inductive with `Spent`: before the answer is
  consumed nothing was let through and no tool is allowed, and the tools allowed for the run are
  none but the tool of the request it names.
* `EachPieceOnce` and `Protocol` are proved together from `StreamInv`.  What is on the wire is decided twice, when the runner emits
  and when the broker passes on, and between the two lies a queue of any length.  `Runs` says that a list of
  events can be delivered one after the other, each accepted, from what the translator and the client are now
  to some view of both; `Reach`, that the queue leads to a view that stands as the mapping state says
  (`Stands`: the text that is open, the calls that wait for results, ids not yet used) and shows what was said.
  Delivering takes the first event of such a list; a message of the provider adds to its end.
* So the proof has three layers: each event of a runner, from a view in step to another
  (`TextStarts` … `ThinkingShown`, `SentinelEnds`); each function of the mapping, by what it emits (`OpenTextReaches` …
  `CliEndOver`), where `CodexMessage` and `ClaudeText` need what the mapping remembers of what was streamed
  (`Mirrors`); each action.  A run that is over for the runner needs no more than that its queue can be
  delivered (`Stopped`, `Ended`).

`MarketplaceProofs`.  `FetchedOnce`, `TheFilesAgree`, `SecretsAreKept`, `GivenIsTicked`.

* `FetchInv` says that the table has, for the entry of a fetch that is under way, that very fetch;
  so a second one is not started, and who clears the entry of a fetch that is over does not
  clear another's.
* `FilesAgree` speaks of the time between requests, and files agree only then: the invariant has to
  say something of a turn that is half performed.  `Ahead` is what a file will be after the
  writes that remain, and `WillAgree` says that whatever the files will be agrees, for every name not
  `torn`.  Performing a write leaves nothing new ahead (`AheadOfRest`); a crash gives up the writes, and a
  name it does not add to `torn` reads the same with or without each of them (`SameEntries`);
  an operation, which starts when nothing is ahead, has to make lists that agree
  (`InstallKeeps`, `SaveConnectorsKeeps`, `SaveSkillsKeeps` and so on).
* `WritesInv` says that connections are written first in a turn, by a list that has no name twice and
  no mask where a secret is (`SecretSafe`), and that a missing catalogue is being made.  `SecretKept` follows,
  since only `Perform` changes the file.  `FormsInv` says what an open form may
  hold: a form of connectors has no name twice however old it is, one of skills no untorn name twice.
* `GivenAsTicked` needs no more than what the lists are; its content is `DedupeFacts`, that what is kept of
  any list has no two servers with one name or one connection.
* Facts about lists of any length (`PickedFacts`, `DedupeFacts`, `RowOfIn`) are proved by looking at a
  least place that would refute them (`LeastExists`), as the induction theorems of the library cannot be
  instantiated.

Only model-checked:

* liveness under fairness, which is out of the prover's reach: `SubmissionsReviewed`, `DueIsTaken`, `Served`,
  `WaitsEnd`, `CardShown`, `AskerReleased`, `RunEnds`;
* `ViewComplete`, `BranchFaithful`, `RolledBack`, `EndsOnce` and `NothingLost` in stories that are not `Orderly`,
  of which the run tells the five with answers.

## 6. Where the code departs from its texts, or from what one expects

None of these is the subject of a run: the models follow the code, and the properties are
stated so that they hold around them.  They were met while modelling; the ones marked *seen*
are counterexamples TLC found to a stronger form of a property.

Sessions and gateway:

* An answer that is posted again by the same run with the same decision passes
  `prepare_resume` (`sessions/store.py:701`) and its calls are executed again, though
  `store.py:792` says the intent prevents this (*seen*).  It is modelled (`PostAgain`, once and after the first stream is
  over) and named as an exception by `ConfirmedOnce` and `EndsOnce`: the run's events may stand twice in the
  history.  If the first claim was broken off before the cards were written, `finish_resume` settles such a
  card as denied whatever was executed; the model settles it by the decision.
* A cancel that arrives after the run has finished puts a tombstone on a completed turn
  (*seen*); after a stop, `_stopped_active_run_ids` is never cleared by an answering run.
* A disconnect leaves `pendingContinuation` behind, and new input is refused with 409 until
  the process restarts (*seen*).  A stopped run that had compacted is continued by a
  restarted process and ends twice (`store.py:341`).
* After a crash in `finish_resume` a card may be open with a final status, and the same decision
  is refused for ever; an answer whose outcome is not known can be confirmed once only.
* A card raised in a recovered run is never written as open (`LoseCard`); the events of a
  cancelled run that were recovered are not removed.
* `record_failure` raises the revision, so a later compaction of the same run conflicts and
  the stream ends without a terminal event.
* Events the browser was shown but that were still queued are dropped by a stop; cancelling a run
  that waits for the lock swallows events of the one that runs.
* A message that is cancelled while it waits for the lock is recorded behind its own tombstone
  (`store.py:241` does not ask `_cancelled_run_ids`).  The whole history does not show it, but a compaction with
  the tombstone before its boundary brings it back into what the model is given (`context_store.py:221`; *seen*
  with three runs in a story that queues, cancels and compacts).
* Found while proving, with more runs or events than the run has: an answer that executes a call again
  repeats, behind a summary that covers the first result, the message it replaces in the whole history; a run that was
  cancelled after it compacted is taken up by a restart as long as its continuation is pending, and so are
  its messages; a cancel that comes late may take messages out of a view that is in use.
* A client that leaves, or a request that is cancelled, after the lock was taken (`gateway.py:420`) and
  before the generator (`:606`) has made its first step leaves the session's lock held for good: neither the `except`
  blocks nor the generator's `finally` (`:953`) runs.  It is modelled (`Leave` of a run that is `opening`, phase
  `lost`, *seen*) and the one exception of `RunEnds`; whoever waits for that lock gives up by the
  limiter's timeout.
* Not in the model: a store call that fails between two of its writes, where memory and files then differ
  (what fails in the model has written nothing; `save_run_start` keeps what it had put into memory), a persist
  worker cancelled in the middle of a write, `delete_session` during a run (a late commit recreates its
  files), a torn last line of a history, and `get_or_create` beside `create_session`, whose check and creation
  take the lock apart.

Backend:

* The tools of the last iteration are executed though no iteration reads their results
  (`react_agent.py:927` says otherwise); the reactive compaction never works
  (`react_agent.py:1052` leaves its scope without completing it).
* `pair_tool_messages` keeps a second result of a call, or one that stands apart from it (`manager.py:111`), which a provider
  refuses; an answer that executes a call again leaves such a history.  `HistoryAssumption` leaves these out, and
  `PairedHistory` does not hold of them.
* `check_permission` promises the first rule that matches; an earlier `ask` is overridden by a
  later `allow`.  The one-time approval stays when a call fails before it is used.
* Events taken in the same round as a card, and those queued behind it, are dropped
  (`approvals.py:173`), and open reasoning or text is not closed on the wire.  The `finally` block of
  `stream()` awaits before it unregisters: a second cancellation leaves the run
  registered and its callers waiting (*seen*).
* A CLI run that is resumed starts its provider over: commands it had run may run again.
  A run of a CLI has no timeout.  `_cli_error` of Codex ends as the message `'payload'`.  A
  reasoning item of Codex repeats its streamed text when it is complete, so `EachPieceOnce` is about text.
  The `error` notification ends the stream without closing the text or reasoning that is open (`ErrorGiven`), and
  `Protocol` accepts an error, like a card, in the middle of them.  Under Python 3.12
  the bridge of Claude would wait in `wait_closed` while a prompt is open.
* `tools/list` is awaited without a timeout (`client.py:187`, from `:424`): `_call_timeout` bounds `call_tool` (`:528`),
  `read_resource` (`:474`) and prompts (`:591`) only, and nothing if no timeout is configured.  A server that does not answer
  holds the run that asks (`k_agent.py:148`), and with it the session's lock and a slot of the limiter, until the
  client leaves or the connection ends; `main.py:234` and `:252` wait likewise.  It holds no lock of the pool: that
  is what `WaitsEnd` shows.
* A tool call of an MCP server is sent again after a timeout although the server may have
  executed it (`client.py:527`), and a good answer whose text contains "connection closed" is
  taken for a failure (`client.py:268`).  A dead connection shows as `pending`.
* `release` finds the entry by its fingerprint: the lease of a replaced entry is
  returned to its replacement, whose connection is closed under its user (*seen*; hence
  `NotCutUnlessReplaced`).  A connect that times out while another run waits leaves its
  process behind (`pool.py:103`).
* Two reloads at a time overwrite each other's manager (`backend/main.py:257`).

Teams and scheduled tasks:

* `main.py:373` gives the team router a proxy that exposes only the store: the route that
  resumes a held run fails on the missing attribute (`router.py:174`).  A held attempt
  stays for ever; cancelling a team whose supervisor is held leaves it waiting.  If
  `resume_approval` were reached it would take no semaphore, another key of `_active`
  and no lease.
* `fail_task` puts back a submitted task and leaves a review job that no decision can
  satisfy; every attempt of it fails and the team is paused (*seen*).
* `recover_expired_leases` is called in `start()` only (`runtime.py:99`): a restart before the
  lease has run out leaves the task running for ever.  `stop()` cancels coroutines that
  wait for the semaphore outside their `try` block (`runtime.py:419`).
* A decision commits before its files are promoted (`runtime.py:539, 716`).
* A supervisor that read an earlier submission may accept right after a new one;
  if the worker then fails, `fail_task` takes the completed task back.
* `_claim_due_sync` spawns an occurrence also when `INSERT OR IGNORE` found it in the
  table (`scheduled_tasks/store.py:321`); after a clock was set back and the task
  edited, it is executed twice.  Every missed occurrence is recorded (`store.py:308`), where
  section 5.2 of the design wants one record; one row that does not validate rolls back
  the claim of every task.
* `resume_approval` of a scheduled run leaves its row at `failed`: the task can be deleted, or
  started by hand, under a resumed run (`store.py:236`).
* A control operation may wait for a run: between a release and the moment the woken
  waiter resumes, the lock looks free (`concurrency.py:109`).

Marketplace:

* A crash between the two files leaves a connector that can neither be installed (409) nor is
  listed whole, until it is uninstalled; an unfinished import leaves a row without a package, and
  a later one appends a second row.
* A stale form deletes what was installed meanwhile, or brings an uninstalled skill back with
  nothing but its `SKILL.md`; a connector that was uninstalled meanwhile comes back with the mask
  `***` as its secret (`main.py:508`; *seen*, hence "that is still there" in `SecretKept`).
* Of two enabled servers with the same connection the second can never be ticked.

Terminals: the message that a shell is ready is sent outside the `try` block
(`terminal.py:276`); when it fails the shell goes on with no socket, and counts.

## 7. Not modelled

* Session terminals, the built-in tools, memory and prompts, logging, tracing,
  sandbox, configuration: I/O, text and processes around the state modelled here.
* The web UI and the CLI: clients of the HTTP interface.
* Of modelled components: `resume_approval` of teams (unreachable), listing, titles,
  attachments and deletion of sessions, hooks and observers of the loop, the text of cards,
  prompts, manifests, events and files, the lists and searches of the market.

`PROJECT.json` lists each part with the reason.
