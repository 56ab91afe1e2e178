----------------------------- MODULE RunGateway -----------------------------
(***************************************************************************)
(* access_layer/gateway.py over the session store: the runs of one session  *)
(* from the POST of the browser to the release of the session's lock, with  *)
(* the queue of events to persist, the answers to approval cards, the       *)
(* compaction of the context in the middle of a run and its recovery after  *)
(* a restart.                                                              *)
(*                                                                         *)
(* The Agent Backend is the environment: it may send any stream of events   *)
(* its protocol allows, and its connection may break.                      *)
(***************************************************************************)
EXTENDS SessionStore

CONSTANT Stories    \* sets of the behaviours of client, backend and machine below

CONSTANTS
  Backlog,      \* bound on the events queued for the disk
  MaxCompacts   \* bound on the compactions of one run

Behaviours == {"stop", "cancel", "answer", "leave", "compact", "manual", "crash", "deaf",
               "late", "queued", "break", "third", "talk",
               "shrink", "undo", "repeat"}

ASSUME StoriesAssumption == Stories \subseteq SUBSET Behaviours
ASSUME BoundsAssumption == Backlog \in Nat \ {0} /\ MaxCompacts \in Nat

VARIABLES
  may,      \* the behaviours of this story
  request,  \* what each posted run asked for
  waiting,  \* runs that wait for the session's lock
  cur,      \* the run that holds it, and what its stream has come to
  shown,    \* approval cards the browser has been sent
  begun     \* <<card, word>>: the executions of approved tool calls, on what word

clientVars == <<may, request, waiting>>
ghosts == <<shown, begun>>
vars == <<disk, mem, clientVars, cur, ghosts>>

Input == [kind |-> "input"]
\* twice: the run has been posted a second time
Answer(decision, twice) == [kind |-> "answer", decision |-> decision, twice |-> twice]
NotPosted == [kind |-> "none"]

\* phase: where the run is ("lost": nobody is left to give the lock back); queue: events
\* not yet persisted; deaf: one of them failed;
\* ok, bad: a terminal was sent on; left: the browser is gone; cont: the compactions so
\* far; view: the context the backend works on; sent: what the backend has sent;
\* again: the run is continued by a restarted process, without a browser.
Holding(r, phase) ==
  [run |-> r, phase |-> phase, queue |-> <<>>, deaf |-> FALSE, ok |-> FALSE, bad |-> FALSE,
   left |-> FALSE, cont |-> 0, view |-> View(NewDisk), sent |-> {}, again |-> FALSE]
Idle == Holding(None, "idle")

Init ==
  /\ disk = NewDisk /\ mem = NewMemory
  /\ may \in Stories
  /\ request = [r \in Runs |-> NotPosted]
  /\ waiting = {} /\ cur = Idle
  /\ shown = {} /\ begun = <<>>

IsAnswer(r) == request[r].kind = "answer"

\* The word on which an answer executes its calls: for the first time, again by its own
\* account, or once more because it is posted once more.
Words == {"first", "again", "repeated"}
Word(r) ==
  IF request[r].twice THEN "repeated" ELSE IF request[r].decision.again THEN "again" ELSE "first"

-----------------------------------------------------------------------------
(* The client.                                                             *)

\* It posts the next run: a message, or an answer to the cards that are open; it says
\* so when the outcome of an earlier answer is not known.
PostNew(r) ==
  /\ request[r] = NotPosted /\ \A s \in 1..(r - 1) : request[s] # NotPosted
  /\ r <= 2 \/ "third" \in may
  /\ waiting = {} /\ (cur = Idle \/ "queued" \in may)
  /\ \/ request' = [request EXCEPT ![r] = Input]
     \/ /\ "answer" \in may /\ disk.open # {}
        /\ \E yes, again \in BOOLEAN :
             request' = [request EXCEPT ![r] =
                           Answer([cards |-> disk.open, yes |-> yes, again |-> again], FALSE)]
  /\ waiting' = {r}
  /\ UNCHANGED <<disk, mem, may, cur, ghosts>>

\* An answer whose stream is over is posted once more, by the same run and as it was: the
\* connection broke, or the button was pressed twice.
PostAgain(r) ==
  /\ IsAnswer(r) /\ ~request[r].twice /\ "repeat" \in may
  /\ waiting = {} /\ cur = Idle
  /\ request' = [request EXCEPT ![r] = Answer(request[r].decision, TRUE)]
  /\ waiting' = {r}
  /\ UNCHANGED <<disk, mem, may, cur, ghosts>>

Post(r) == PostNew(r) \/ PostAgain(r)

\* The stop button: stops the run on the screen.
Stoppable(r) ==
  /\ request[r] # NotPosted
  /\ \/ "stop" \in may /\ cur.run = r /\ cur.phase \in {"opening", "streaming", "closing"}
     \/ "late" \in may /\ r \notin waiting \cup {cur.run}
  /\ r \notin mem.stopped

Stop(r) ==
  /\ Stoppable(r)
  /\ Perform(StopRun(disk, mem, r))
  /\ UNCHANGED <<clientVars, cur, ghosts>>

Cancellable(r) ==
  /\ request[r] # NotPosted
  /\ \/ "cancel" \in may /\ cur.run = r /\ cur.phase \in {"opening", "streaming", "closing"}
     \/ "undo" \in may /\ Idle = cur /\ waiting = {}
     \/ {"queued", "cancel"} \subseteq may /\ (r \in waiting \/ cur.run = r)
     \/ "late" \in may /\ r \notin waiting \cup {cur.run}
  /\ r \notin mem.cancelled

Cancel(r) ==
  /\ Cancellable(r)
  /\ Perform(CancelRun(disk, mem, r))
  /\ UNCHANGED <<clientVars, cur, ghosts>>

-----------------------------------------------------------------------------
(* AgentAccessLayer.run, up to the response.                               *)

Acquire(r) ==
  /\ r \in waiting /\ cur = Idle
  /\ waiting' = waiting \ {r} /\ cur' = Holding(r, "locked")
  /\ UNCHANGED <<disk, mem, may, request, ghosts>>

Release == cur' = Idle

Pending == Validated(disk.context, disk.history).pending # None

Refusable(r) == \/ request[r] = Input /\ Pending
                \/ IsAnswer(r) /\ ~CanResume(disk, request[r].decision, r)

\* A message: refused while a continuation is pending; else it dismisses the cards.
Refuse(r) ==
  /\ cur.run = r /\ cur.phase = "locked" /\ Refusable(r)
  /\ Perform(Checking(disk, Outcome(mem, <<>>))) /\ Release
  /\ UNCHANGED <<clientVars, ghosts>>

\* What save_run_start has made of the memory when its append fails.
SaveBegun(m, r) ==
  [m EXCEPT !.active = None, !.cancelledActive = None, !.stoppedActive = None,
            !.text = {}, !.tool = {}, !.messages = @ \cup {<<"U", r>>}]

\* A call of the store has failed, or was cancelled with the request, before it wrote
\* anything.
CallFailed(r) ==
  /\ cur.run = r /\ cur.phase \in {"locked", "accepting"} /\ may \cap {"deaf", "leave"} # {}
  /\ mem' = mem \/ (cur.phase = "accepting" /\ mem' = SaveBegun(mem, r))
  /\ UNCHANGED <<disk, clientVars, ghosts>>

\* A slip: the lock is given back for a conflict only
StoreFailsHolding(r) == CallFailed(r) /\ cur' = [cur EXCEPT !.phase = "failed"]

StoreFails(r) == CallFailed(r) /\ Release

Dismiss(r) ==
  /\ cur.run = r /\ cur.phase = "locked" /\ request[r] = Input /\ ~Pending
  /\ Perform(Checking(disk, DismissCards(disk, mem)))
  /\ cur' = [cur EXCEPT !.phase = "accepting"]
  /\ UNCHANGED <<clientVars, ghosts>>

Accept(r) ==
  /\ cur.run = r /\ cur.phase = "accepting"
  /\ Perform(SaveRunStart(disk, mem, r))
  /\ cur' = [cur EXCEPT !.phase = "opening"]
  /\ UNCHANGED <<clientVars, ghosts>>

\* An answer claims every open card.
ClaimCards(r) ==
  /\ cur.run = r /\ cur.phase = "locked" /\ IsAnswer(r)
  /\ CanResume(disk, request[r].decision, r)
  /\ Perform(Checking(disk, PrepareResume(disk, mem, request[r].decision, r)))
  /\ cur' = [cur EXCEPT !.phase = "opening"]
  /\ UNCHANGED <<clientVars, ghosts>>

\* The stream to the backend opens with the summary and the messages after it; an
\* approved answer makes the backend execute the tool calls of its cards.
Open(r) ==
  /\ cur.run = r /\ cur.phase = "opening"
  /\ disk' = [disk EXCEPT !.context = View(disk).context]
  /\ cur' = [cur EXCEPT !.phase = "streaming", !.view = View(disk)]
  /\ begun' = IF IsAnswer(r) /\ request[r].decision.yes
              THEN begun \o SetToSeq({<<i, Word(r)>> : i \in request[r].decision.cards})
              ELSE begun
  /\ UNCHANGED <<mem, clientVars, shown>>

-----------------------------------------------------------------------------
(* The stream of the Agent Backend.                                        *)

Live(r) == cur.run = r /\ cur.phase = "streaming" /\ ~cur.ok /\ ~cur.bad
Sent(type, x) == Says(type, x) \in cur.sent

\* An answer first takes up the calls its cards are about.
Calls(r) == IF IsAnswer(r) /\ ~cur.again THEN request[r].decision.cards \cup {r} ELSE {r}
InCall(x) == Sent("call", x) /\ ~Sent("result", x)
InText(r) == Sent("text_start", r) /\ ~Sent("text_end", r)
Resting(r) == ~InText(r) /\ ~\E x \in Runs : InCall(x)
TakenUp(r) == \A i \in Calls(r) \ {r} : Sent("result", i)

\* What the backend may send next: one text, and one call for each of Calls(r).
Sendable(r, type, x) ==
  /\ ~Sent(type, x)
  /\ type # "run_started" => Sent("run_started", r)
  /\ Sent("patch", r) => type \in {"run_finished", "run_error"}
  /\ CASE type \in {"run_started", "run_error"} -> x = r
       [] type = "text_start" -> x = r /\ "talk" \in may /\ Resting(r) /\ TakenUp(r)
       [] type = "text" -> x = r /\ InText(r)
       [] type = "text_end" -> x = r /\ InText(r) /\ Sent("text", r)
       [] type = "call" -> Resting(r) /\ (x = r => TakenUp(r) /\ ("talk" \in may \/ ~IsAnswer(r)))
       [] type = "result" -> InCall(x) /\ ~Sent("card", x)
       [] type = "run_finished" -> x = r /\ TakenUp(r) /\ (Resting(r) \/ Sent("card", r))

Relayable == {"run_started", "text_start", "text", "text_end", "call", "result",
              "run_finished", "run_error"}

\* The event is sent on to the browser and queued for the disk.
Queued(e) == [cur EXCEPT !.sent = @ \cup {e}, !.queue = Append(@, e),
                         !.ok = @ \/ e[1] = "run_finished", !.bad = @ \/ e[1] = "run_error"]

HasRoom == Len(cur.queue) < IF cur.again THEN 1 ELSE Backlog

Relay(r) ==
  /\ Live(r) /\ HasRoom
  /\ \E type \in Relayable, x \in Calls(r) :
       /\ Sendable(r, type, x)
       /\ Terminal(<<type, x>>) => cur.cont = 0 \/ cur.again
       /\ cur' = Queued(<<type, x>>)
  /\ UNCHANGED <<disk, mem, clientVars, ghosts>>

\* The terminal of a continuation clears it, unless the context has a new generation.
RelayLast(r) ==
  /\ Live(r) /\ HasRoom /\ cur.cont # 0 /\ ~cur.again
  /\ \E type \in {"run_finished", "run_error"} :
       /\ Sendable(r, type, r)
       /\ IF CanClear(disk.context, cur.view.context.gen)
          THEN /\ disk' = [disk EXCEPT !.context = Cleared(@)]
               /\ cur' = Queued(<<type, r>>)
          ELSE /\ cur' = [Queued(<<type, r>>) EXCEPT !.phase = "closing"]
               /\ UNCHANGED disk
  /\ UNCHANGED <<mem, clientVars, ghosts>>

CardQueued(r) == cur' = [cur EXCEPT !.sent = @ \cup {Says("card", r)}, !.queue = Append(@, Says("card", r))]
CanShow(r) == Live(r) /\ HasRoom /\ "answer" \in may /\ Sent("call", r) /\ InCall(r) /\ ~Sent("card", r)

\* A slip: the browser is sent the card before its file is written
ShowCardFirst(r) ==
  /\ CanShow(r) /\ ~cur.again
  /\ Perform(PersistInterruptLate(disk, mem, r))
  /\ shown' = shown \cup {r} /\ CardQueued(r)
  /\ UNCHANGED <<clientVars, begun>>

\* A call waits for approval: its card is persisted, then shown.
ShowCard(r) ==
  /\ CanShow(r) /\ ~cur.again
  /\ Perform(PersistInterrupt(disk, mem, r))
  /\ shown' = shown \cup {r} /\ CardQueued(r)
  /\ UNCHANGED <<clientVars, begun>>

\* A continuation of a restarted process keeps the card among the events only.
LoseCard(r) ==
  /\ CanShow(r) /\ cur.again /\ CardQueued(r)
  /\ UNCHANGED <<disk, mem, clientVars, ghosts>>

\* The backend's summary takes the older summary and its view up to a message before
\* the last user message.
Older ==
  LET tail == cur.view.tail
      users == {n \in DOMAIN tail : tail[n][1] = "U"}
  IN {n \in DOMAIN tail : \E k \in users : n < k}

Proposal(n) ==
  [gen |-> cur.view.context.gen, rev |-> cur.view.context.rev, through |-> cur.view.tail[n],
   said |-> cur.view.context.said \o SubSeq(cur.view.tail, 1, n)]

CanPropose(r) ==
  /\ Live(r) /\ "compact" \in may /\ Sent("run_started", r) /\ ~Sent("patch", r)
  /\ Resting(r) /\ TakenUp(r) /\ cur.cont < MaxCompacts /\ Older # {}

Compacting(r, n) ==
  /\ disk' = [disk EXCEPT !.context = Compacted(disk, Proposal(n), r)]
  /\ cur' = [cur EXCEPT !.cont = @ + 1, !.phase = "reopening",
                        !.queue = Append(@, Says("compacted", r))]

\* A summary is committed, with the continuation of the run, once every event is on
\* the disk.
Compact(r) ==
  /\ CanPropose(r) /\ cur.queue = <<>> /\ ~cur.deaf
  /\ \E n \in Older : CanCompact(disk, Proposal(n)) /\ Compacting(r, n)
  /\ UNCHANGED <<mem, clientVars, ghosts>>

\* The commit is refused, and the stream fails, if an event could not be written or the
\* proposal is stale; a recovery is given up, its continuation stays pending.
CompactRefused(r) ==
  /\ CanPropose(r) /\ cur.queue = <<>>
  /\ \E n \in Older :
       /\ cur.deaf \/ ~CanCompact(disk, Proposal(n))
       /\ disk' = IF cur.deaf THEN disk ELSE [disk EXCEPT !.context = Validated(@, disk.history)]
  /\ cur' = IF cur.again THEN Idle ELSE [cur EXCEPT !.phase = "closing"]
  /\ UNCHANGED <<mem, clientVars, ghosts>>

\* The next stream to the backend continues the run, without the answer.
Reopen(r) ==
  /\ cur.run = r /\ cur.phase = "reopening" /\ (cur.again => cur.queue = <<>>)
  /\ disk' = [disk EXCEPT !.context = View(disk).context]
  /\ cur' = [cur EXCEPT !.phase = "streaming", !.view = View(disk)]
  /\ UNCHANGED <<mem, clientVars, ghosts>>

Marked(type, r) == cur' = [cur EXCEPT !.sent = @ \cup {Says(type, r)}]

\* The backend reports that it could not compact: the revision moves on.
Failure(r) ==
  /\ CanPropose(r) /\ "shrink" \in may /\ ~Sent("failure", r)
  /\ disk' = [disk EXCEPT !.context = Revised(@)]
  /\ Marked("failure", r)
  /\ UNCHANGED <<mem, clientVars, ghosts>>

\* Its last shortening of tool results; a stale one is discarded.
Patch(r) ==
  /\ Live(r) /\ "shrink" \in may /\ Sent("run_started", r) /\ ~Sent("patch", r)
  /\ Resting(r) /\ TakenUp(r) /\ cur.queue = <<>>
  /\ disk' = IF cur.view.context.rev = disk.context.rev
             THEN [disk EXCEPT !.context = Revised(@)] ELSE disk
  /\ Marked("patch", r)
  /\ UNCHANGED <<mem, clientVars, ghosts>>

-----------------------------------------------------------------------------
(* The worker that persists, and the end of the response.                  *)

Persisting == cur.queue # <<>> /\ cur.phase \in {"streaming", "reopening", "closing"}

Persist ==
  /\ Persisting
  /\ Perform(AppendEvent(disk, mem, Head(cur.queue)))
  /\ cur' = [cur EXCEPT !.queue = Tail(@)]
  /\ UNCHANGED <<clientVars, ghosts>>

\* A write that fails is noted and the worker goes on; a recovery is given up.
PersistFails ==
  /\ Persisting /\ "deaf" \in may /\ ~cur.deaf
  /\ Perform(AppendFails(disk, mem, Head(cur.queue)))
  /\ cur' = IF cur.again THEN Idle ELSE [cur EXCEPT !.queue = Tail(@), !.deaf = TRUE]
  /\ UNCHANGED <<clientVars, ghosts>>

\* The backend's stream ends after its terminal, or breaks.
StreamEnds(r) ==
  /\ cur.run = r /\ cur.phase = "streaming" /\ ~cur.again
  /\ cur.ok \/ cur.bad \/ "break" \in may
  /\ cur' = [cur EXCEPT !.phase = "closing"]
  /\ UNCHANGED <<disk, mem, clientVars, ghosts>>

\* The browser goes away: the response is cancelled.  Before the backend's stream is open
\* the generator has begun, and gives the lock back, or has not, and nobody ever will.
Leave(r) ==
  /\ cur.run = r /\ ~cur.again /\ "leave" \in may
  /\ \/ /\ cur.phase \in {"streaming", "reopening"}
        /\ cur' = [cur EXCEPT !.phase = "closing", !.left = TRUE]
     \/ cur.phase = "opening" /\ (Release \/ cur' = Holding(None, "lost"))
  /\ UNCHANGED <<disk, mem, clientVars, ghosts>>

\* The generator's clean-up waits for the queue, then settles the answered cards.
\* The cancellation may reach it again there: then it does neither.
CutShort ==
  /\ cur.phase = "closing" /\ cur.left
  /\ Release
  /\ UNCHANGED <<disk, mem, clientVars, ghosts>>

Finished(r) ==
  IF IsAnswer(r) THEN FinishResume(disk, mem, request[r].decision, cur.ok, ~cur.ok /\ ~cur.bad)
  ELSE Outcome(mem, <<>>)

\* A slip: the answered cards are settled before the queue is empty
CloseEarly(r) ==
  /\ cur.run = r /\ cur.phase = "closing"
  /\ Perform(Finished(r)) /\ Release
  /\ UNCHANGED <<clientVars, ghosts>>

Close(r) ==
  /\ cur.run = r /\ cur.phase = "closing" /\ cur.queue = <<>>
  /\ Perform(Finished(r)) /\ Release
  /\ UNCHANGED <<clientVars, ghosts>>

-----------------------------------------------------------------------------
(* Compaction on request and reset of the context, in an idle session.     *)

ManualBegin ==
  /\ "manual" \in may /\ cur = Idle /\ waiting = {} /\ disk.open = {}
  /\ disk' = [disk EXCEPT !.context = View(disk).context]
  /\ cur' = [Holding(None, "manual") EXCEPT !.view = View(disk)]
  /\ UNCHANGED <<mem, clientVars, ghosts>>

ManualEnd ==
  /\ cur.phase = "manual"
  /\ \/ \E n \in Older :
          /\ CanCompact(disk, Proposal(n))
          /\ disk' = [disk EXCEPT !.context = Compacted(disk, Proposal(n), None)]
     \/ disk' = [disk EXCEPT !.context = Revised(@)]
  /\ may' = may \ {"manual"} /\ Release
  /\ UNCHANGED <<mem, request, waiting, ghosts>>

Reset ==
  /\ "manual" \in may /\ cur = Idle /\ disk.open = {} /\ disk.context # EmptyContext
  /\ disk' = [disk EXCEPT !.context = EmptyContext]
  /\ UNCHANGED <<mem, clientVars, cur, ghosts>>

-----------------------------------------------------------------------------
(* The process stops, at any point or between two writes of an operation,   *)
(* and is started again: a pending continuation is taken up first.          *)

\* The operations of more than one write that the next step may be.
Underway ==
  {Finished(r) : r \in {r \in Runs : cur.run = r /\ cur.phase = "closing" /\ cur.queue = <<>>}}
  \cup {DismissCards(disk, mem) : r \in {r \in Runs : cur.run = r /\ cur.phase = "locked" /\ request[r] = Input /\ ~Pending}}
  \cup {PrepareResume(disk, mem, request[r].decision, r) :
          r \in {r \in Runs : cur.run = r /\ cur.phase = "locked" /\ IsAnswer(r)
                              /\ CanResume(disk, request[r].decision, r)}}
  \cup {PersistInterrupt(disk, mem, r) : r \in {r \in Runs : CanShow(r) /\ ~cur.again}}
  \cup {CancelRun(disk, mem, r) : r \in {r \in Runs : Cancellable(r)}}

\* What of the run's stream is in the files when it is continued.
Recorded(r) ==
  LET events == ToSet(VisibleEvents(disk'.history, Len(disk'.history)))
  IN {Says("run_started", r)}
     \cup (IF Says("text_end", r) \in events
           THEN {<<t, r>> : t \in {"text_start", "text", "text_end"}} ELSE {})
     \cup (IF Says("result", r) \in events THEN {Says("call", r), Says("result", r)} ELSE {})

Restart ==
  LET r == Validated(disk'.context, disk'.history).pending
  IN IF r = None THEN Idle
     ELSE [Holding(r, "streaming") EXCEPT !.again = TRUE, !.view = View(disk'), !.sent = Recorded(r)]

Crash ==
  /\ "crash" \in may
  /\ \/ disk' = Restarted(disk) /\ mem' = Loaded(disk')
     \/ \E op \in Underway : BreakOff(op)
  /\ may' = may \ {"crash"} /\ waiting' = {}
  /\ cur' = Restart
  /\ UNCHANGED <<request, ghosts>>

\* After a terminal the continuation is cleared, unless the generation has changed;
\* without one it stays pending.
Recover ==
  /\ cur.again /\ cur.phase = "streaming" /\ cur.queue = <<>>
  /\ \/ /\ cur.ok \/ cur.bad
        /\ disk' = IF CanClear(disk.context, cur.view.context.gen)
                   THEN [disk EXCEPT !.context = Cleared(@)] ELSE disk
     \/ ~cur.ok /\ ~cur.bad /\ "break" \in may /\ UNCHANGED disk
  /\ Release
  /\ UNCHANGED <<mem, clientVars, ghosts>>

-----------------------------------------------------------------------------
(* The specification.                                                      *)

Next ==
  \/ \E r \in Runs :
       \/ Post(r) \/ Stop(r) \/ Cancel(r)
       \/ Acquire(r) \/ Refuse(r) \/ StoreFails(r) \/ Dismiss(r) \/ Accept(r) \/ ClaimCards(r) \/ Open(r)
       \/ Relay(r) \/ RelayLast(r) \/ ShowCard(r) \/ LoseCard(r)
       \/ Compact(r) \/ CompactRefused(r) \/ Reopen(r) \/ Failure(r) \/ Patch(r)
       \/ StreamEnds(r) \/ Leave(r) \/ Close(r)
  \/ Persist \/ PersistFails \/ CutShort
  \/ ManualBegin \/ ManualEnd \/ Reset
  \/ Crash \/ Recover

Spec == Init /\ [][Next]_vars

\* The process goes on: while a run has the lock or waits for it, what holds the lock moves,
\* unless it waits for the backend, whose stream is read without a timeout.  This is
\* WF_cur(Next) in these phases, with Busy for the ENABLED that TLC is slow to find: in every
\* one of them there is a step.
Phases == {"locked", "accepting", "opening", "reopening", "closing", "manual"}
Busy == cur.phase \in Phases \/ (cur = Idle /\ waiting # {})
Fairness == []<>~Busy \/ []<><<Next>>_cur

FairSpec == Spec /\ Fairness

-----------------------------------------------------------------------------
(* The properties.                                                         *)

TypeOK ==
  /\ may \subseteq Behaviours /\ waiting \subseteq Runs
  /\ cur.run \in Runs \cup {None}
  /\ mem.active \in Runs \cup {None} /\ mem.count \in 0..Len(mem.events)
  /\ disk.open \subseteq Runs
  /\ disk.context.pending \in Runs \cup {None}
  /\ disk.context.upto \in 0..Len(disk.history)

\* What a run that begins now is given, the summary and the messages after it, is each
\* message of the conversation once and in order (active_view, commit_compaction).
ViewComplete ==
  LET view == View(disk)
  IN view.context.said \o view.tail = AllMessages(disk.history)

\* A branch that takes the summary along has exactly the messages it stands for at its
\* start (fork_session).
BranchFaithful ==
  \A r \in Runs :
    LET branch == BranchHistory(disk, r)
    IN CanBranch(disk, r) /\ Inherits(disk, branch) =>
         IsPrefix(disk.context.said, AllMessages(branch))

\* A card the browser has been sent can be answered after any restart: it is open with
\* its checkpoint, or it has been settled (persist_interrupt).
ShownIsDurable ==
  \A i \in shown :
    IF i \in disk.open THEN disk.cards[i].status # "none"
    ELSE disk.cards[i].status \in {"approved", "denied", "cancelled"}

\* The calls of a card are executed once, and again only on an answer that says so or
\* that its run posts again; what such a repetition has executed may be taken for fresh
\* (prepare_resume).
ConfirmedOnce ==
  \A j, k \in DOMAIN begun :
    j < k /\ begun[j][1] = begun[k][1] => begun[j][2] = "repeated" \/ begun[k][2] # "first"

\* A later run was asked to take up the call of this one.
Answered(r) == \E s \in Runs : IsAnswer(s) /\ r \in request[s].decision.cards

\* No message of a cancelled run is left in the history (cancel_run).
RolledBack ==
  \A r \in mem.cancelled : \A m \in ToSet(AllMessages(disk.history)) : m[2] = r => m[1] = "K" /\ Answered(r)

\* The history closes a run once and says nothing of it afterwards, unless the run was
\* posted a second time (stop_run, append_event).
EndsOnce ==
  LET events == VisibleEvents(disk.history, Len(disk.history))
  IN \A i, j \in DOMAIN events :
       i < j /\ Terminal(events[i]) /\ events[i][2] = events[j][2]
         => \/ events[j][1] = "card"
            \/ events[j][1] \in {"call", "result"} /\ Answered(events[j][2])
            \/ IsAnswer(events[j][2]) /\ request[events[j][2]].twice

\* A run that ended in peace, neither stopped nor cancelled nor left, has every message
\* it sent in the history when the next may begin.
NothingLost ==
  [][\A r \in Runs :
       Close(r) /\ ~cur.left /\ ~cur.deaf /\ r \notin mem.stopped \cup mem.cancelled =>
         {<<IF e[1] = "result" THEN "K" ELSE "T", e[2]>> :
             e \in {e \in cur.sent : e[1] \in {"text_end", "result"}}}
           \subseteq ToSet(AllMessages(disk'.history))]_vars

\* Whoever has the session's lock gives it back or waits for the backend, and gives it
\* back once that stream is over; also where the store fails before there is a stream.  But
\* for a run whose client left before the stream's generator had begun.
RunEnds ==
  cur # Idle ~> cur = Idle \/ cur.phase = "streaming" \/ (cur.phase = "lost" /\ "leave" \in may)
=============================================================================
