---------------------------- MODULE SessionStore ----------------------------
(***************************************************************************)
(* access_layer/sessions: what one chat session keeps on disk              *)
(* (history.jsonl, session.json, approvals/, resume-intents/, context/) and *)
(* in memory, and what each operation of the store does to the two.        *)
(*                                                                         *)
(* An operation holds the store's lock from its first to its last line, so  *)
(* it is one step.  It is given as the memory it leaves and the sequence of *)
(* file writes it makes, since the process may stop between two writes.    *)
(*                                                                         *)
(* A run r brings one user message "U", may say one text "T" and may call   *)
(* the tool "K"; an approval card is named by the run that raised it.      *)
(***************************************************************************)
EXTENDS Naturals, SequencesExt

CONSTANT MaxRuns        \* bound on the runs of the session

ASSUME RunsAssumption == MaxRuns \in Nat \ {0}

Runs == 1..MaxRuns
None == 0

VARIABLES
  disk,     \* the files of the session
  mem       \* its SessionRecord and the store's tables about it

-----------------------------------------------------------------------------
(* The events of the stream and the records of history.jsonl.  An event is  *)
(* <<type, run, message or call or card>>; only those with a type below carry *)
(* a runId.                                                                *)

Named(e) == e[1] \in {"input", "run_started", "run_finished", "run_error", "compacted"}
Terminal(e) == e[1] \in {"run_finished", "run_error"}
Says(type, r) == <<type, r>>

Record(kind, r, events) == [kind |-> kind, run |-> r, events |-> events]

\* visible_records: neither tombstones nor what belongs to a removed run.
Visible(history, k) ==
  /\ history[k].kind # "remove"
  /\ ~\E j \in DOMAIN history : history[j].kind = "remove" /\ history[j].run = history[k].run

VisibleEvents(history, through) ==
  LET upTo[k \in 0..through] ==
        IF k = 0 THEN <<>>
        ELSE upTo[k - 1] \o IF Visible(history, k) THEN history[k].events ELSE <<>>
  IN upTo[through]

\* events[i] completes a message: an accepted input, a text that has content, or a tool
\* result whose call was announced, if no event like it has closed the buffer since.
EndsMessage(e) == e[1] \in {"input", "text_end", "result"}
Starts(s, e) == s[2] = e[2] /\ <<s[1], e[1]>> \in {<<"text", "text_end">>, <<"call", "result">>}

Completes(events, i) ==
  \/ events[i][1] = "input"
  \/ \E j \in 1..(i - 1) :
       Starts(events[j], events[i]) /\ \A k \in (j + 1)..(i - 1) : events[k] # events[i]

MessageOf(e) == <<CASE e[1] = "input" -> "U" [] e[1] = "text_end" -> "T" [] OTHER -> "K", e[2]>>

\* A message that is completed again keeps its place (_upsert_message).
MessagesIn(events) ==
  LET upTo[n \in 0..Len(events)] ==
        IF n = 0 THEN <<>>
        ELSE IF /\ EndsMessage(events[n]) /\ Completes(events, n)
                /\ ~\E j \in 1..(n - 1) : events[j] = events[n] /\ Completes(events, j)
             THEN Append(upTo[n - 1], MessageOf(events[n]))
             ELSE upTo[n - 1]
  IN upTo[Len(events)]

\* messages_from_records(through_seq); it also stands for the prefix digest.
Messages(history, through) == MessagesIn(VisibleEvents(history, through))
AllMessages(history) == Messages(history, Len(history))

\* message_seq_index: the record that ends message m, or 0.
RecordOf(history, m) ==
  LET ends == {k \in DOMAIN history : Visible(history, k) /\ \E i \in DOMAIN history[k].events :
                 EndsMessage(history[k].events[i]) /\ MessageOf(history[k].events[i]) = m}
  IN IF ends = {} THEN 0 ELSE CHOOSE k \in ends : \A j \in ends : j <= k

-----------------------------------------------------------------------------
(* The files and the memory of a new session.                              *)

\* said is what went into the summary, covers what its digest stands for
EmptyContext == [gen |-> 0, rev |-> 0, upto |-> 0, covers |-> <<>>, said |-> <<>>, pending |-> None]

NoCard == [status |-> "none", gen |-> 0, by |-> None]

NewDisk == [history |-> <<>>, open |-> {}, cards |-> [r \in Runs |-> NoCard],
            intents |-> {}, context |-> EmptyContext]

\* A text buffer is [msg, run, some]: its message, the run active when it began, and
\* whether a delta came; a tool buffer is [msg, run].
NewMemory == [events |-> <<>>, count |-> 0, messages |-> {}, active |-> None, inputs |-> {},
              stopped |-> {}, stoppedActive |-> None,
              cancelled |-> {}, cancelledActive |-> None, text |-> {}, tool |-> {}]

\* _ensure_loaded: what a restarted process rebuilds, and marks as of unknown outcome.
Loaded(d) ==
  LET events == VisibleEvents(d.history, Len(d.history))
  IN [NewMemory EXCEPT !.events = events, !.count = Len(events), !.messages = ToSet(AllMessages(d.history))]

Restarted(d) ==
  [d EXCEPT !.cards = [r \in Runs |->
     IF r \in d.open /\ @[r].status = "resuming" THEN [@[r] EXCEPT !.status = "unknown_outcome"]
     ELSE @[r]]]

Outcome(m, writes) == [mem |-> m, writes |-> writes]

\* A file is as it was last written.
Written(d, writes) ==
  [f \in DOMAIN d |->
     LET to == {n \in DOMAIN writes : writes[n][1] = f}
     IN IF to = {} THEN d[f] ELSE writes[Max(to)][2]]

Perform(op) == mem' = op.mem /\ disk' = Written(disk, op.writes)

\* The process stops after some, not all, of the writes, and is started again.
BreakOff(op) ==
  \E n \in 0..(Len(op.writes) - 1) :
    /\ disk' = Restarted(Written(disk, SubSeq(op.writes, 1, n)))
    /\ mem' = Loaded(disk')

-----------------------------------------------------------------------------
(* The context state (context_store.py).                                   *)

\* A slip: the digest of the prefix is not compared
ValidatedBlind(context, history) == context

\* validated: a summary is trusted while the prefix it stands for is unchanged.
Validated(context, history) ==
  IF context.upto # 0 /\ Messages(history, context.upto) # context.covers
  THEN EmptyContext ELSE context

\* An operation that first drops a summary that cannot be trusted.
Checking(d, op) ==
  Outcome(op.mem, <<<<"context", Validated(d.context, d.history)>>>> \o op.writes)

\* active_view: the summary, and the messages after its boundary.
View(d) ==
  LET context == Validated(d.context, d.history)
      tail == SubSeq(d.history, context.upto + 1, Len(d.history))
  IN [context |-> context, tail |-> AllMessages(tail)]

\* commit_compaction: the boundary must be a message of the history, the proposal must be
\* of the current generation and revision.
CanCompact(d, proposal) ==
  LET context == Validated(d.context, d.history)
  IN /\ proposal.gen = context.gen /\ proposal.rev = context.rev
     /\ RecordOf(d.history, proposal.through) # 0

Compacted(d, proposal, pending) ==
  LET upto == RecordOf(d.history, proposal.through)
  IN [gen |-> proposal.gen + 1, rev |-> proposal.rev + 1, upto |-> upto,
      covers |-> Messages(d.history, upto), said |-> proposal.said, pending |-> pending]

\* commit_patch and record_failure: a new revision.
Revised(context) == [context EXCEPT !.rev = @ + 1]

\* clear_pending: refused when the generation has changed.
CanClear(context, gen) == context.gen = gen
Cleared(context) == IF context.pending = None THEN context
                    ELSE [Revised(context) EXCEPT !.pending = None]

-----------------------------------------------------------------------------
(* history.jsonl: appending.                                               *)

\* _append_pending_events_locked: the events since the last append, under the first run
\* id among them, else that of the active run.
Flush(d, m) ==
  LET tail == SubSeq(m.events, m.count + 1, Len(m.events))
      named == {i \in DOMAIN tail : Named(tail[i])}
      r == IF named = {} THEN m.active ELSE tail[Min(named)][2]
  IN Outcome([m EXCEPT !.count = Len(m.events)],
             IF tail = <<>> THEN <<>>
             ELSE <<<<"history", Append(d.history, Record("events", r, tail))>>>>)

\* save_run_start
SaveRunStart(d, m, r) ==
  LET new == <<"U", r>> \notin m.messages
      events == IF new THEN Append(m.events, Says("input", r)) ELSE m.events
  IN Outcome([m EXCEPT !.active = None, !.cancelledActive = None, !.stoppedActive = None,
                       !.text = {}, !.tool = {}, !.messages = @ \cup {<<"U", r>>},
                       !.events = events, !.count = IF new THEN Len(events) ELSE @,
                       !.inputs = IF new THEN @ \cup {r} ELSE @ \ {r}],
             IF new THEN <<<<"history", Append(d.history, Record("input", r, <<Says("input", r)>>))>>>>
             ELSE <<>>)

\* _flush_incremental_events and _seal_partial_text: the texts begun under run r that
\* have content are closed as they are.
Sealed(m, r) ==
  LET filled == {b \in m.text : b.run = r /\ b.some}
      texts == SetToSeq({b.msg : b \in filled})
  IN [m EXCEPT !.events = @ \o [i \in DOMAIN texts |-> Says("text", texts[i])]
                            \o [i \in DOMAIN texts |-> Says("text_end", texts[i])],
               !.messages = @ \cup {<<"T", b.msg>> : b \in filled},
               !.text = {b \in @ : b.run # r}]

Ended(m, r) == \E i \in DOMAIN m.events : Terminal(m.events[i]) /\ m.events[i][2] = r

\* A slip: the run is closed, but its later events are not shut out
StopRunOpen(d, m, r) ==
  IF Ended(m, r) THEN Outcome(m, <<>>)
  ELSE Flush(d, [Sealed(m, r) EXCEPT !.active = None, !.inputs = @ \ {r},
                                     !.events = @ \o <<Says("run_finished", r)>>,
                                     !.tool = {b \in @ : b.run # r}])

\* stop_run
StopRun(d, m, r) ==
  LET kept == Sealed(m, r)
      started == \E i \in DOMAIN kept.events : kept.events[i] = Says("run_started", r)
      ends == IF started THEN <<Says("run_finished", r)>>
              ELSE <<Says("run_started", r), Says("run_finished", r)>>
  IN IF Ended(m, r) THEN Outcome(m, <<>>)
     ELSE Flush(d, [kept EXCEPT !.stopped = @ \cup {r}, !.stoppedActive = r, !.active = None,
                                  !.inputs = @ \ {r}, !.events = @ \o ends,
                                  !.tool = {b \in @ : b.run # r}])

\* _events_without_run: the run's own events, and all those from its start to its end.
WithoutRun(events, r) ==
  LET dropped(i) ==
        \/ Named(events[i]) /\ events[i][2] = r
        \/ \E j \in 1..(i - 1) : /\ events[j] = Says("run_started", r)
                                 /\ \A k \in j..(i - 1) : ~Terminal(events[k])
      upTo[n \in 0..Len(events)] ==
        IF n = 0 THEN <<>>
        ELSE IF dropped(n) THEN upTo[n - 1] ELSE Append(upTo[n - 1], events[n])
  IN upTo[Len(events)]

\* cancel_run
CancelRun(d, m, r) ==
  LET events == WithoutRun(m.events, r)
      history == Append(d.history, Record("remove", r, <<>>))
  IN Outcome([m EXCEPT !.cancelled = @ \cup {r}, !.cancelledActive = r, !.inputs = @ \ {r},
                       !.messages = IF r \in m.inputs THEN @ \ {<<"U", r>>} ELSE @,
                       !.events = events, !.count = Len(events),
                       !.active = IF @ = r THEN None ELSE @,
                       !.text = {b \in @ : b.run # r}, !.tool = {b \in @ : b.run # r}],
             <<<<"history", history>>, <<"context", Validated(d.context, history)>>>>)

-----------------------------------------------------------------------------
(* append_event.                                                           *)

RunIdOf(e) == IF Named(e) THEN e[2] ELSE None

\* A slip: only events that carry the run's id are shut out
ShutOutNamed(m, e) == RunIdOf(e) \in m.stopped \cup m.cancelled

\* What a manual stop or a cancel shuts out.
ShutOut(m, e) ==
  \/ RunIdOf(e) \in m.stopped \cup m.cancelled
  \/ \E r \in {m.stoppedActive, m.cancelledActive} \ {None} : RunIdOf(e) \in {None, r}

ShutOutMemory(m, e) ==
  IF /\ RunIdOf(e) \notin m.stopped /\ (m.stoppedActive = None \/ RunIdOf(e) \notin {None, m.stoppedActive})
     /\ RunIdOf(e) \in m.cancelled
  THEN [m EXCEPT !.cancelledActive = IF e[1] = "run_started" THEN e[2] ELSE IF Terminal(e) THEN None ELSE @]
  ELSE m

Buffered(m, e) ==
  LET old == {b \in m.text : b.msg = e[2]}
      owner == IF old = {} THEN m.active ELSE (CHOOSE b \in old : TRUE).run
  IN [m EXCEPT !.text = (@ \ old) \cup {[msg |-> e[2], run |-> owner, some |-> TRUE]}]

\* What an accepted event makes of the memory.
Projected(m, e) ==
  LET x == e[2]
      next == [m EXCEPT !.events = Append(@, e)]
      texts == {b \in m.text : b.msg = x}
      tools == {b \in m.tool : b.msg = x}
  IN CASE e[1] = "run_started" -> [next EXCEPT !.active = x]
       [] e[1] = "text_start" ->
            [next EXCEPT !.text = (@ \ texts) \cup {[msg |-> x, run |-> m.active, some |-> FALSE]}]
       [] e[1] = "text_end" ->
            IF \E b \in texts : b.some
            THEN [m EXCEPT !.events = @ \o <<Says("text", x), e>>, !.text = @ \ texts,
                           !.messages = @ \cup {<<"T", x>>}]
            ELSE [next EXCEPT !.text = @ \ texts]
       [] e[1] = "call" -> [next EXCEPT !.tool = (@ \ tools) \cup {[msg |-> x, run |-> m.active]}]
       [] e[1] = "result" ->
            IF tools = {} THEN next
            ELSE [next EXCEPT !.tool = @ \ tools, !.messages = @ \cup {<<"K", x>>}]
       [] Terminal(e) ->
            [Sealed(m, x) EXCEPT !.events = Append(@, e), !.active = None, !.inputs = @ \ {x},
                                 !.text = {}, !.tool = {}]
       [] OTHER -> next

AppendEvent(d, m, e) ==
  IF ShutOut(m, e) THEN Outcome(ShutOutMemory(m, e), <<>>)
  ELSE IF e[1] = "text" THEN Outcome(Buffered(m, e), <<>>)
  ELSE IF e[1] \in {"run_started", "text_end", "call", "result", "run_finished", "run_error", "card"}
       THEN Flush(d, Projected(m, e))
       ELSE Outcome(Projected(m, e), <<>>)

\* The append fails: the memory has moved on, the file has not.
AppendFails(d, m, e) == Outcome(AppendEvent(d, m, e).mem, <<>>)

-----------------------------------------------------------------------------
(* Approvals that outlive their run.                                       *)

\* persist_interrupt
PersistInterrupt(d, m, r) ==
  LET context == Validated(d.context, d.history)
      card == [status |-> "pending", gen |-> context.gen, by |-> None]
      cards == [d.cards EXCEPT ![r] = IF @.status = "none" THEN card ELSE @]
  IN Outcome(m, <<<<"context", context>>, <<"cards", cards>>, <<"open", d.open \cup {r}>>>>)

\* A slip: session.json names the card before its file is written
PersistInterruptLate(d, m, r) == Outcome(m, <<<<"open", d.open \cup {r}>>>>)

Claim(decision, r) == [decision |-> decision, run |-> r]
Claims(d, decision) == {i \in d.intents : i.decision = decision}

\* A slip: what was tried before is taken like a new card
CanResumeBlind(d, decision, r) ==
  /\ d.open # {} /\ decision.cards = d.open /\ Claims(d, decision) = {}
  /\ \A i \in d.open : d.cards[i].status \in {"pending", "unknown_outcome", "resume_failed"}

\* prepare_resume, its checks.  A decision that was claimed before is given to the run
\* that claimed it.
CanResume(d, decision, r) ==
  LET context == Validated(d.context, d.history)
  IN /\ d.open # {} /\ decision.cards = d.open
     /\ \/ Claim(decision, r) \in d.intents
        \/ /\ Claims(d, decision) = {}
           /\ \A i \in d.open :
                /\ d.cards[i].status \in {"pending", "unknown_outcome", "resume_failed"}
                /\ d.cards[i].gen = context.gen
                /\ d.cards[i].status = "pending" \/ decision.again

PrepareResume(d, m, decision, r) ==
  LET cards == SetToSeq(d.open)
      upTo(n) == [i \in Runs |-> IF \E j \in 1..n : cards[j] = i
                                 THEN [d.cards[i] EXCEPT !.status = "resuming", !.by = r]
                                 ELSE d.cards[i]]
  IN IF Claim(decision, r) \in d.intents THEN Outcome(m, <<>>)
     ELSE Outcome(m, <<<<"intents", d.intents \cup {Claim(decision, r)}>>>>
                     \o [n \in DOMAIN cards |-> <<"cards", upTo(n)>>])

CardSnapshots(ids) == LET s == SetToSeq(ids) IN [n \in DOMAIN s |-> Says("card", s[n])]

\* The cards of ids are given the status one file at a time, then the snapshots are
\* appended, then the closed ones leave session.json.
Settle(d, m, ids, status, closed) ==
  LET cards == SetToSeq(ids)
      upTo(n) == [i \in Runs |-> IF \E j \in 1..n : cards[j] = i
                                 THEN [d.cards[i] EXCEPT !.status = status] ELSE d.cards[i]]
      appended == Flush(d, [m EXCEPT !.events = @ \o CardSnapshots(ids)])
  IN Outcome(appended.mem, [n \in DOMAIN cards |-> <<"cards", upTo(n)>>] \o appended.writes
                           \o <<<<"open", d.open \ closed>>>>)

\* finish_resume
FinishResume(d, m, decision, succeeded, unknown) ==
  LET status == IF unknown THEN "unknown_outcome"
                ELSE IF ~succeeded THEN "resume_failed"
                ELSE IF decision.yes THEN "approved" ELSE "denied"
  IN Settle(d, m, decision.cards, status, IF succeeded THEN decision.cards ELSE {})

\* ensure_accepts_new_input: a new message dismisses the open cards.
DismissCards(d, m) ==
  IF d.open = {} THEN Outcome(m, <<>>) ELSE Settle(d, m, d.open, "cancelled", d.open)

-----------------------------------------------------------------------------
(* fork_session: a branch through run r, and the summary it inherits.      *)

BranchHistory(d, r) ==
  LET last == {k \in DOMAIN d.history : Visible(d.history, k) /\ d.history[k].run = r}
      cut == CHOOSE k \in last : \A j \in last : j <= k
  IN [k \in 1..cut |-> IF Visible(d.history, k) THEN d.history[k] ELSE Record("remove", MaxRuns + 1, <<>>)]

\* A slip: the branch takes the summary along unseen
InheritsAny(d, branch) == d.context.upto # 0

Inherits(d, branch) ==
  /\ d.context.upto # 0
  /\ Messages(d.history, d.context.upto) = d.context.covers
  /\ Messages(branch, Min({d.context.upto, Len(branch)})) = d.context.covers

CanBranch(d, r) == \E k \in DOMAIN d.history : Visible(d.history, k) /\ d.history[k].run = r
=============================================================================
