------------------------- MODULE SessionInvariants -------------------------
(* What holds of a session: of its approval cards and what is known of them,   *)
(* of the records of its history and the messages they make, of the memory     *)
(* against what of a run's stream was dealt with, and of the summary.  They    *)
(* are the parts of the inductive invariants of SessionProofs.                 *)
EXTENDS RunGateway

-----------------------------------------------------------------------------
(* Sequences and writes.                                                   *)

\* A sequence, of whatever.
Row(s) == Len(s) \in Nat /\ s = [n \in 1..Len(s) |-> s[n]]

-----------------------------------------------------------------------------
(* What the operations write.                                              *)

\* The files are there, and every card has a status.
Shape(d) ==
  /\ DOMAIN d = {"history", "open", "cards", "intents", "context"}
  /\ d.open \subseteq Runs
  /\ DOMAIN d.cards = Runs /\ \A i \in Runs : "status" \in DOMAIN d.cards[i]

St(d, i) == d.cards[i].status

\* The cards of e are those of d.
SameCards(d, e) ==
  /\ Shape(e) /\ e.open = d.open /\ e.intents = d.intents
  /\ \A i \in Runs : St(e, i) = St(d, i)

\* Writes that the cards have no part in.
Harmless(ws) == Row(ws) /\ \A n \in 1..Len(ws) : ws[n][1] \in {"history", "context"}

\* The card files v are those of d, but for cards of ids that now have status s.
Turn(v, d, ids, s) ==
  DOMAIN v = Runs /\ \A i \in Runs : /\ "status" \in DOMAIN v[i]
                                     /\ v[i].status = St(d, i) \/ (i \in ids /\ v[i].status = s)

-----------------------------------------------------------------------------
(* Settling cards, and taking them up.                                     *)

\* The card files after the first n of cards are settled, or taken up by run r.
TurnedTo(d, cards, s, n) ==
  [i \in Runs |-> IF \E j \in 1..n : cards[j] = i THEN [d.cards[i] EXCEPT !.status = s] ELSE d.cards[i]]
ClaimedTo(d, cards, r, n) ==
  [i \in Runs |-> IF \E j \in 1..n : cards[j] = i
                  THEN [d.cards[i] EXCEPT !.status = "resuming", !.by = r] ELSE d.cards[i]]

\* The cards that e has turned to s since d; the open ones are no others.
Turned(d, e, ids, s) ==
  Shape(e) /\ e.open = d.open /\ e.intents = d.intents /\ Turn(e.cards, d, ids, s)

-----------------------------------------------------------------------------
(* What a step may do to the cards.                                        *)

Settled == {"approved", "denied", "cancelled"}
Fresh == {"none", "pending"}

\* A card never becomes fresh again, one that is open has a status, and one that is no
\* longer open is settled.
Onward(d, e) ==
  /\ Shape(e)
  /\ \A i \in Runs : /\ St(d, i) \notin Fresh => St(e, i) \notin Fresh
                     /\ St(d, i) # "none" => St(e, i) # "none"
                     /\ i \in e.open => i \in d.open \/ St(e, i) # "none"
                     /\ i \notin e.open /\ (i \in d.open \/ St(d, i) \in Settled) => St(e, i) \in Settled

-----------------------------------------------------------------------------
(* The steps that leave the cards alone.                                   *)

Keys(c) == {"run", "phase", "again", "queue", "sent", "ok", "bad", "deaf", "left", "cont", "view"} \subseteq DOMAIN c
Recovering == {"streaming", "reopening"}

\* The run that holds the lock gives it back, stays where it is, or goes about its
\* stream; only one with a browser comes to the clean-up.
Flows ==
  /\ Keys(cur')
  /\ \/ cur'.run = None /\ ~cur'.again
     \/ /\ cur'.run = cur.run /\ cur'.again = cur.again
        /\ \/ cur'.phase = cur.phase
           \/ /\ cur.phase \in Recovering /\ cur'.phase \in Recovering \cup {"closing"}
              /\ cur.again => cur'.phase # "closing"

Calm == SameCards(disk, disk') /\ UNCHANGED <<request, waiting, shown, begun>> /\ Flows

Shaped == Shape(disk) /\ Keys(cur) /\ (cur.again => cur.phase \in Recovering)

\* The steps that are not calm.
Stirs(r) == Post(r) \/ Acquire(r) \/ Dismiss(r) \/ Accept(r) \/ ClaimCards(r) \/ Open(r) \/ ShowCard(r) \/ Close(r)

-----------------------------------------------------------------------------
(* The inductive invariant.                                                *)

Decisions == [cards : SUBSET Runs, yes : BOOLEAN, again : BOOLEAN]
Requests == {NotPosted, Input} \cup {Answer(e, t) : e \in Decisions, t \in BOOLEAN}

\* Run r holds the lock, and was not taken up by a restarted process.
Own(r) == cur.run = r /\ ~cur.again
Taken == {"opening", "streaming", "reopening", "closing"}
Cards(r) == request[r].decision.cards

CardTypes ==
  /\ Shaped
  /\ request \in [Runs -> Requests] /\ waiting \subseteq Runs /\ shown \subseteq Runs

\* A run that waits or holds the lock was posted, and is in one place.
PostedInv ==
  /\ \A r \in waiting : request[r] # NotPosted
  /\ \A r \in Runs : Own(r) => request[r] # NotPosted /\ r \notin waiting
                               /\ (cur.phase = "accepting" => ~IsAnswer(r))

\* An open card has its file; one that was shown and is no longer open is settled.
FilesInv ==
  /\ \A i \in disk.open : St(disk, i) # "none"
  /\ \A i \in shown \ disk.open : St(disk, i) \in Settled

\* While an answer is under way its cards stay open.
OpenInv ==
  \A r \in Runs : Own(r) /\ IsAnswer(r) /\ cur.phase \in Taken => Cards(r) \subseteq disk.open

\* A decision was claimed by an answer that is past its lock, or was posted again.
ClaimInv ==
  \A c \in disk.intents :
    /\ c.run \in Runs /\ IsAnswer(c.run)
    /\ request[c.run].twice \/ (c.run \notin waiting /\ ~ (Own(c.run) /\ cur.phase = "locked"))

\* What was executed is no longer fresh; nor is what will be, and it was not executed
\* before, or the user says so.  (The cards of an answer that is posted again may be fresh,
\* where the first claim was broken off.)
BegunInv ==
  /\ begun \in Seq(Runs \X Words)
  /\ \A n \in 1..Len(begun) : begun[n][2] = "repeated" \/ St(disk, begun[n][1]) \notin Fresh
AgainInv ==
  \A r \in Runs : Own(r) /\ IsAnswer(r) /\ cur.phase = "opening" /\ Word(r) # "repeated" =>
    \A i \in Cards(r) :
      /\ St(disk, i) \notin Fresh
      /\ Word(r) = "first" => \A n \in 1..Len(begun) : begun[n][1] = i => begun[n][2] = "repeated"
OnceInv ==
  \A j, k \in 1..Len(begun) :
    j < k /\ begun[j][1] = begun[k][1] => begun[j][2] = "repeated" \/ begun[k][2] # "first"

RunsInv == CardTypes /\ PostedInv /\ OpenInv /\ ClaimInv /\ AgainInv
CardsInv == RunsInv /\ FilesInv /\ BegunInv /\ OnceInv

\* What an answer executes: its cards, each once.
Executions(cards, word) == SetToSeq({<<i, word>> : i \in cards})

\* An operation broken off between two writes, by a restarted process's account: the
\* cards have gone onward, and a decision may have been claimed.
Breakable(op) ==
  \A l \in 0..(Len(op.writes) - 1) :
    LET v == Written(disk, SubSeq(op.writes, 1, l))
    IN /\ Onward(disk, v)
       /\ \A c \in v.intents : c \in disk.intents \/ (Own(c.run) /\ c.run \in Runs /\ IsAnswer(c.run))

-----------------------------------------------------------------------------
(* The events and the records of a history.                                *)

\* What an event, and a message, consist of: what it is, and the run it is of.
Kinds == Relayable \cup {"input", "compacted"} \cup {"U", "T", "K"}
Pairs == Kinds \X Runs
Records == [kind : {"input", "events", "remove"}, run : Nat, events : Seq(Pairs)]

\* What a record adds to the events that can be seen.
Part(h, k) == IF Visible(h, k) THEN h[k].events ELSE <<>>

\* Sequences part[1] to part[l], and what they come to one behind the other.
Parts(part, l) == \A n \in 1..l : part[n] \in Seq(Pairs)
Joins(f, part, l) == f[0] = <<>> /\ \A n \in 1..l : f[n] = f[n - 1] \o part[n]

\* The events of a record, and what a history shows, one by one.
Has(rec, e) == \E i \in 1..Len(rec.events) : rec.events[i] = e

-----------------------------------------------------------------------------
(* The messages of a run of events.                                        *)

\* Event n of s completes a message that is not there yet.
New(s, n) == /\ EndsMessage(s[n]) /\ Completes(s, n)
             /\ ~\E j \in 1..(n - 1) : s[j] = s[n] /\ Completes(s, j)

\* What it adds to the messages.
Adds(s, n) == IF New(s, n) THEN <<MessageOf(s[n])>> ELSE <<>>

-----------------------------------------------------------------------------
(* The messages of a history, record by record.                            *)

\* A record of the history: an accepted input, a tombstone, or events of one run, under
\* its id or none, that complete at most one message; a text is closed in the record that
\* has its content, a call and what completes a message are not in the same one, and a
\* terminal is the last event.
RecordInv(rec) ==
  LET es == rec.events
      N == 1..Len(es)
  IN /\ rec.kind \in {"input", "events", "remove"}
     /\ rec.kind = "input" => rec.run \in Runs /\ es = <<Says("input", rec.run)>>
     /\ rec.kind = "remove" => rec.run \in Runs /\ es = <<>>
     /\ rec.kind = "events" =>
          \E x \in Runs : rec.run \in {x, None} /\ \A i \in N : es[i][2] = x /\ es[i][1] # "input"
     /\ \A i, j \in N : EndsMessage(es[i]) /\ EndsMessage(es[j]) => i = j
     /\ \A i \in N : es[i][1] = "text_end" => \E j \in 1..(i - 1) : es[j] = Says("text", es[i][2])
     /\ \A i, j \in N : es[i][1] = "call" => es[j][1] \notin {"text_end", "result"}
     /\ \A i \in N : Terminal(es[i]) => i = Len(es)

\* No message is completed in two records.
Distinct(h) ==
  \A k, l \in 1..Len(h) : \A e \in Pairs : EndsMessage(e) /\ Has(h[k], e) /\ Has(h[l], e) => k = l

Plain(h) == h \in Seq(Records) /\ (\A k \in 1..Len(h) : RecordInv(h[k])) /\ Distinct(h)

\* Record k is seen and completes a message with e.
Yields(h, k, e) ==
  /\ Visible(h, k) /\ Has(h[k], e) /\ EndsMessage(e)
  /\ e[1] = "result" => \E l \in 1..(k - 1) : Visible(h, l) /\ Has(h[l], Says("call", e[2]))

-----------------------------------------------------------------------------
(* One sequence at the start of another.                                   *)

Begins(p, s) == Len(p) <= Len(s) /\ \A i \in 1..Len(p) : s[i] = p[i]

-----------------------------------------------------------------------------
(* Record by record.                                                       *)

\* What record k adds to the messages.
Gives(h, k) == IF \E e : Yields(h, k, e) THEN <<MessageOf(CHOOSE e : Yields(h, k, e))>> ELSE <<>>

-----------------------------------------------------------------------------
(* What the records of a history keep to.                                  *)

In(h, e) == \E k \in 1..Len(h) : Has(h[k], e)
EndsIn(h, k) == \E e \in Pairs : Has(h[k], e) /\ EndsMessage(e)
Whole(h) == \A k \in 1..Len(h) : h[k].kind # "remove"
Removed(h, r) == \E p \in 1..Len(h) : h[p].kind = "remove" /\ h[p].run = r

\* What may still be written of a run after its tombstone.
Bare == {"run_started", "run_finished", "text_start", "compacted"}

\* A result follows its call with no other message between the two.
CallsNear(h) ==
  \A k \in 1..Len(h) : \A x \in Runs : Has(h[k], Says("result", x)) =>
    \A l \in 1..(k - 1) : Has(h[l], Says("call", x)) =>
      \E n \in l..(k - 1) : Has(h[n], Says("call", x)) /\ \A j \in n..(k - 1) : ~ EndsIn(h, j)

\* No message comes after the tombstone of its run.
RemovedBare(h) ==
  \A p, k \in 1..Len(h) : p < k /\ h[p].kind = "remove" /\ h[k].run = h[p].run =>
    \A e : Has(h[k], e) => e[1] \in Bare

\* A record without a run id and a tombstone are not in the same history.
Labelled(h) == (\E k \in 1..Len(h) : h[k].run = None) => Whole(h)

\* Nothing comes after the end of a run, but for a run that is removed.
EndsLast(h) ==
  \A k, l \in 1..Len(h) : k < l => \A e, f \in Pairs :
    Terminal(e) /\ Has(h[k], e) /\ Has(h[l], f) /\ f[2] = e[2] => Removed(h, h[l].run)

HistoryInv(h) == Plain(h) /\ CallsNear(h) /\ RemovedBare(h) /\ Labelled(h) /\ EndsLast(h)

-----------------------------------------------------------------------------
(* The messages after a record that ends one.                              *)

\* g is what comes after record u of h.
After(h, u, g) ==
  /\ g \in Seq(Records) /\ Len(g) = Len(h) - u /\ \A j \in 1..Len(g) : g[j] = h[u + j]

-----------------------------------------------------------------------------
(* The history with one more record.                                       *)

\* g is h with the record rec behind it.
Grown(h, g, rec) ==
  /\ g \in Seq(Records) /\ Len(g) = Len(h) + 1 /\ g[Len(h) + 1] = rec
  /\ \A k \in 1..Len(h) : g[k] = h[k]

\* A message with a call whose last record ends nothing after it.
CallLast(h, r) == \E k \in 1..Len(h) : Has(h[k], Says("call", r)) /\ \A n \in k..Len(h) : ~ EndsIn(h, n)

\* What a record must keep to when it is appended.
Fits(h, rec) ==
  /\ RecordInv(rec) /\ rec.kind # "remove"
  /\ \A e \in Pairs : Has(rec, e) /\ EndsMessage(e) => ~ In(h, e)
  /\ \A x \in Runs : Has(rec, Says("result", x)) => CallLast(h, x) \/ ~ In(h, Says("call", x))
  /\ Removed(h, rec.run) => \A e : Has(rec, e) => e[1] \in Bare
  /\ rec.run = None => Whole(h)
  /\ \A e, f \in Pairs : Terminal(e) /\ In(h, e) /\ Has(rec, f) /\ f[2] = e[2] => Removed(h, rec.run)

\* A tombstone.
Tombstone(r) == Record("remove", r, <<>>)

-----------------------------------------------------------------------------
(* The messages and their order.                                           *)

\* Events p and q of v are of the records k and l of h, in this order.
TwoOf(h, k, l, v, p, q) ==
  /\ Visible(h, k) /\ Visible(h, l)
  /\ \E a \in 1..Len(h[k].events), b \in 1..Len(h[l].events) :
       v[p] = h[k].events[a] /\ v[q] = h[l].events[b] /\ (k < l \/ (k = l /\ a < b))

-----------------------------------------------------------------------------
(* What the store appends.                                                 *)

Texts == [msg : Runs, run : Runs \cup {None}, some : BOOLEAN]
Tools == [msg : Runs, run : Runs \cup {None}]
Memories ==
  [events : Seq(Pairs), count : Nat, messages : SUBSET Pairs, active : Runs \cup {None},
   inputs : SUBSET Runs, stopped : SUBSET Runs, stoppedActive : Runs \cup {None},
   cancelled : SUBSET Runs, cancelledActive : Runs \cup {None},
   text : SUBSET Texts, tool : SUBSET Tools]

\* The events that wait in the memory for the next append: of run x, and of no weight.
Waits(m, x) ==
  /\ m.count \in 0..Len(m.events)
  /\ \A i \in (m.count + 1)..Len(m.events) :
       m.events[i][1] \in {"text_start", "compacted"} /\ m.events[i][2] = x

\* The memory m has the events of s behind those of m0.
Longer(m0, m, s) ==
  /\ m \in Memories /\ m.count = m0.count /\ Len(m.events) = Len(m0.events) + Len(s)
  /\ \A i \in 1..Len(m0.events) : m.events[i] = m0.events[i]
  /\ \A i \in 1..Len(s) : m.events[Len(m0.events) + i] = s[i]

\* What is behind the events of the memory, as a record.
Tailed(m, rec) ==
  /\ rec \in Records /\ rec.kind = "events" /\ Len(rec.events) = Len(m.events) - m.count
  /\ \A i \in 1..Len(rec.events) : rec.events[i] = m.events[m.count + i]

-----------------------------------------------------------------------------
(* The view of the backend, and what can be seen of a history in order.    *)

Contexts == [gen : Nat, rev : Nat, upto : Nat, covers : Seq(Pairs), said : Seq(Pairs), pending : Runs \cup {None}]

\* The summary says what its digest stands for, and its boundary is a record of the
\* history that ends a message.
Sound(c, h) ==
  /\ c \in Contexts /\ c.said = c.covers
  /\ c.upto = 0 => c.said = <<>>
  /\ c.upto # 0 => c.upto \in 1..Len(h) /\ EndsIn(h, c.upto)

-----------------------------------------------------------------------------
(* What one event of a run adds to its history.                            *)

Holds(s, f) == \E i \in 1..Len(s) : s[i] = f
Quiet(f, x) == f[1] \in {"text_start", "compacted"} /\ f[2] = x

\* New events of run x that make a record.
Piece(s, x) ==
  /\ s \in Seq(Pairs) /\ Len(s) \in Nat \ {0}
  /\ \A i \in 1..Len(s) : s[i][2] = x /\ s[i][1] # "input"
  /\ \A i, j \in 1..Len(s) : EndsMessage(s[i]) /\ EndsMessage(s[j]) => i = j
  /\ \A i \in 1..Len(s) : s[i][1] = "text_end" => \E j \in 1..(i - 1) : s[j] = Says("text", x)
  /\ \A i, j \in 1..Len(s) : s[i][1] = "call" => s[j][1] \notin {"text_end", "result"}
  /\ \A i \in 1..Len(s) : Terminal(s[i]) => i = Len(s)

\* The record rec has the events of s, behind quiet ones.
Carries(rec, s, x) ==
  /\ rec \in Records /\ rec.kind = "events" /\ RecordInv(rec)
  /\ \A f : Has(rec, f) => Holds(s, f) \/ Quiet(f, x)
  /\ \A f : Holds(s, f) => Has(rec, f)

\* The record rec with the events of s is appended.
Flushed(d, m1, s, x, rec) ==
  /\ Carries(rec, s, x) /\ rec.run \in {x, None}
  /\ (m1.active = x \/ \E f : Holds(s, f) /\ Named(f)) => rec.run = x
  /\ Flush(d, m1) = Outcome([m1 EXCEPT !.count = Len(m1.events)], <<<<"history", Append(d.history, rec)>>>>)

-----------------------------------------------------------------------------
(* The history of a run against what of its stream has been dealt with.    *)

Over(S, x) == Says("run_finished", x) \in S \/ Says("run_error", x) \in S

\* A stream S of run x that the protocol allows.
Sane(S, x) ==
  /\ ~ (/\ Says("call", x) \in S /\ Says("result", x) \notin S
        /\ Says("text_start", x) \in S /\ Says("text_end", x) \notin S)
  /\ Says("result", x) \in S => Says("call", x) \in S
  /\ Says("text", x) \in S => Says("text_start", x) \in S
  /\ Says("text_end", x) \in S => Says("text", x) \in S
  /\ \A e \in S : e[1] \in Relayable => Says("run_started", x) \in S

\* A result comes after its call.
CalledBefore(h, x) ==
  \E k, l \in 1..Len(h) : l < k /\ Has(h[l], Says("call", x)) /\ Has(h[k], Says("result", x))

\* No input comes after an event of run x.
NoneBefore(h, x) ==
  \A k, l \in 1..Len(h) : k < l /\ h[l].kind = "input" => \A e : Has(h[k], e) => e[2] # x

\* S was dealt with: the history has no message of x that is not in S, an open call is the
\* last thing it has, and a run that lost nothing has all of S in it.
Told(h, x, S, deaf, again) ==
  /\ ~ Over(S, x) =>
       /\ Says("call", x) \in S /\ Says("result", x) \notin S =>
            CallLast(h, x) \/ (deaf /\ ~ In(h, Says("call", x)))
       /\ Says("call", x) \notin S => again \/ ~ In(h, Says("call", x))
       /\ \A t \in {"text_end", "result", "run_finished", "run_error"} :
            Says(t, x) \notin S => ~ In(h, Says(t, x))
  /\ ~ deaf /\ ~ again =>
       /\ Says("text_end", x) \in S => In(h, Says("text_end", x))
       /\ Says("result", x) \in S => CalledBefore(h, x)

\* The new events are e, what closes an open text, and before a terminal perhaps a start.
Brings(s, e, S, x) ==
  /\ Piece(s, x) /\ Holds(s, e)
  /\ \A f : Holds(s, f) =>
       \/ f = e
       \/ /\ f \in {Says("text", x), Says("text_end", x)} /\ Says("text_end", x) \notin S
          /\ e[1] = "text_end" \/ Terminal(e)
       \/ f = Says("run_started", x) /\ Terminal(e)

-----------------------------------------------------------------------------
(* The pieces, and the memory with them.                                   *)

Text(x) == <<Says("text", x), Says("text_end", x)>>

-----------------------------------------------------------------------------
(* The memory against what of the stream has been dealt with.              *)

Off(m, x) == x \in m.stopped \cup m.cancelled

\* S was dealt with: a text that is open is in a buffer, and one that has content has it
\* there, nothing is kept of a run that is shut out, which the store knows as long as the
\* run goes on, and its end is noted.
Heard(m, x, S, again) ==
  /\ \A b \in m.text : b.msg = x /\ b.run \in {x, None} /\ (b.run = None => again)
  /\ m.active \in {x, None}
  /\ Off(m, x) \/ Over(S, x) => m.text = {}
  /\ Off(m, x) /\ ~ Over(S, x) => x \in {m.stoppedActive, m.cancelledActive}
  /\ ~ Off(m, x) => m.stoppedActive = None /\ m.cancelledActive = None
  /\ ~ Off(m, x) /\ Over(S, x) /\ ~ again => Ended(m, x)
  /\ ~ Off(m, x) /\ ~ Over(S, x) =>
       /\ Says("run_started", x) \in S /\ ~ again => m.active = x
       /\ \A b \in m.text : /\ Says("text_end", x) \notin S /\ Says("text_start", x) \in S
                            /\ b.some => Says("text", x) \in S
       /\ Says("text", x) \in S /\ Says("text_end", x) \notin S => \E b \in m.text : b.some

SameStops(m, m1) ==
  /\ m1.stopped = m.stopped /\ m1.stoppedActive = m.stoppedActive
  /\ m1.cancelled = m.cancelled /\ m1.cancelledActive = m.cancelledActive
NoUser(w, messages) == \A r : <<"U", r>> \in w => <<"U", r>> \in messages
SameUsers(m, m1) == NoUser(m1.messages, m.messages)

\* The events of s are new in the memory.
Moved(m, m1, s) == Longer(m, m1, s) /\ SameStops(m, m1) /\ SameUsers(m, m1)

\* The memory with these parts of it replaced.
Made(m, ev, w, a, ts, us) == [m EXCEPT !.events = ev, !.messages = w, !.active = a, !.text = ts, !.tool = us]

TextsOf(m, x) == {b \in m.text : b.msg = x}
ToolsOf(m, x) == {b \in m.tool : b.msg = x}
Opened(m, x) == (m.text \ TextsOf(m, x)) \cup {[msg |-> x, run |-> m.active, some |-> FALSE]}
Closed(m, x) == m.text \ TextsOf(m, x)
Called(m, x) == (m.tool \ ToolsOf(m, x)) \cup {[msg |-> x, run |-> m.active]}
Returned(m, x) == m.tool \ ToolsOf(m, x)

-----------------------------------------------------------------------------
(* append_event, for the events of the run that holds the lock.            *)

\* The memory with its events counted as written.
Counted(m) == [m EXCEPT !.count = Len(m.events)]

\* The record rec is appended to the history h by an event e of run x.
Puts(h, x, e, rec, again) ==
  /\ rec \in Records /\ rec.kind = "events" /\ Fits(h, rec)
  /\ rec.run \in {x, None} /\ (rec.run = None => again)
  /\ \A f : Has(rec, f) => f[2] = x /\ (Terminal(f) => Terminal(e))

\* The operation op makes that one write, and T was dealt with.
PutsOne(h, x, e, T, deaf, again, op) ==
  \E rec : /\ Puts(h, x, e, rec, again)
           /\ op.writes = <<<<"history", Append(h, rec)>>>>
           /\ \A g : Grown(h, g, rec) => Told(g, x, T, deaf, again)

\* The memory m1 has the events s that event e brings, and is ready for the append.
Ready(d, m, e, x, S, T, deaf, again, s, m1) ==
  /\ Waits(m, x) /\ d.history \in Seq(Records) /\ Told(d.history, x, S, deaf, again) /\ ~ Over(S, x)
  /\ Sane(S, x) /\ Sane(T, x) /\ ~ Removed(d.history, x) /\ (again => Whole(d.history))
  /\ e[2] = x /\ e \notin S /\ T = S \cup {e}
  /\ e[1] \in {"run_started", "text_end", "call", "result", "run_finished", "run_error"}
  /\ Brings(s, e, S, x) /\ Moved(m, m1, s) /\ Heard(m1, x, T, again)
  /\ ~ again => m1.active = x \/ Terminal(e)

\* What the memory is after an event of run x.
Leaves(m, m1, x, T, again) ==
  /\ m1 \in Memories /\ Waits(m1, x) /\ SameUsers(m, m1) /\ Heard(m1, x, T, again)
  /\ m1.stopped = m.stopped /\ m1.cancelled = m.cancelled
  /\ Off(m, x) \/ SameStops(m, m1)

\* An event of run x that comes next, T being what is dealt with after it.
Next1(e, x, S, T) ==
  /\ e \in Pairs /\ e[2] = x /\ ~ Over(S, x) /\ Sane(S, x) /\ Sane(T, x)
  /\ \/ e[1] \in Relayable /\ e \notin S /\ T = S \cup {e}
     \/ e[1] = "compacted" /\ T = S

\* The append either is kept in the memory or puts one record into the history.
Appends(d, m, e, x, T, deaf, again, op) ==
  /\ Leaves(m, op.mem, x, T, again)
  /\ \/ op.writes = <<>> /\ (Off(m, x) \/ Told(d.history, x, T, deaf, again))
     \/ ~ Off(m, x) /\ PutsOne(d.history, x, e, T, deaf, again, op)

-----------------------------------------------------------------------------
(* cancel_run, stop_run, save_run_start and the load after a restart.      *)

\* stop_run has made of the memory and appended this.
Stops(d, m, x, S, op) ==
  /\ op.mem \in Memories /\ Waits(op.mem, x) /\ SameUsers(m, op.mem) /\ Heard(op.mem, x, S, FALSE)
  /\ op.mem.cancelled = m.cancelled /\ op.mem.stopped = m.stopped \cup {x}
  /\ \E rec : /\ Puts(d.history, x, Says("run_finished", x), rec, FALSE)
              /\ op.writes = <<<<"history", Append(d.history, rec)>>>>

\* Nothing is known of run x yet.
Unheard(h, m, x) ==
  /\ <<"U", x>> \notin m.messages /\ x \notin m.stopped \cup m.cancelled
  /\ \A k \in 1..Len(h) : h[k].run # x /\ \A e : Has(h[k], e) => e[2] # x

InputOf(x) == Record("input", x, <<Says("input", x)>>)

\* save_run_start has made of the memory and appended this.
Accepts(d, m, x, op) ==
  /\ op.writes = <<<<"history", Append(d.history, InputOf(x))>>>>
  /\ op.mem \in Memories /\ Waits(op.mem, x) /\ Heard(op.mem, x, {}, FALSE)
  /\ \A q : <<"U", q>> \in op.mem.messages => <<"U", q>> \in m.messages \/ q = x
  /\ op.mem.stopped = m.stopped /\ op.mem.cancelled = m.cancelled
  /\ op.mem.stoppedActive = None /\ op.mem.cancelledActive = None

\* What of a run's stream is in the history when it is continued.
RecordedIn(h, r) ==
  LET events == ToSet(VisibleEvents(h, Len(h)))
  IN {Says("run_started", r)}
     \cup (IF Says("text_end", r) \in events
           THEN {<<t, r>> : t \in {"text_start", "text", "text_end"}} ELSE {})
     \cup (IF Says("result", r) \in events THEN {Says("call", r), Says("result", r)} ELSE {})

-----------------------------------------------------------------------------
(* The queue of the events to persist.                                     *)

\* What the backend has sent of the protocol, and what of it is persisted before queued
\* event i.
Stream(c) == {e \in c.sent : e[1] \in Relayable}
Due(c, i) == Stream(c) \ {c.queue[j] : j \in i..Len(c.queue)}

\* An event is queued once, the protocol is kept to at each point of the queue, and only
\* the last event ends the run.
QueueOk(c) ==
  /\ c.queue \in Seq(Pairs)
  /\ \A i \in 1..Len(c.queue) :
       /\ c.queue[i][2] = c.run /\ (c.queue[i] \in Stream(c) \/ c.queue[i][1] = "compacted")
       /\ ~ Over(Due(c, i), c.run)
  /\ \A i, j \in 1..Len(c.queue) : c.queue[i] = c.queue[j] => i = j
  /\ \A i \in 1..(Len(c.queue) + 1) : Sane(Due(c, i), c.run)
  /\ (c.ok \/ c.bad) <=> Over(Stream(c), c.run)
  /\ c.phase = "opening" => c.queue = <<>> /\ c.sent = {}

-----------------------------------------------------------------------------
(* The stories in which each message is seen once.                         *)

\* No answers to approval cards; runs are stopped and cancelled while they have the lock or
\* when the session is idle; where the context is compacted in a run and the process
\* restarts, none is.
Orderly(story) ==
  /\ story \cap {"late", "answer"} = {} /\ ~ ({"queued", "cancel"} \subseteq story)
  /\ {"compact", "crash"} \subseteq story => story \cap {"stop", "cancel", "undo"} = {}

OrderlySpec == Init /\ Orderly(may) /\ [][Next]_vars

\* Those of them in which no run is continued by a restarted process.
UncontinuedSpec == Init /\ Orderly(may) /\ ~ ({"compact", "crash"} \subseteq may) /\ [][Next]_vars

\* The phases, and a session without cards.
StillInv ==
  /\ disk.open = {} /\ \A r \in Runs : request[r] \in {NotPosted, Input}
  /\ Orderly(may)
  /\ cur.phase \in Taken \cup {"idle", "locked", "accepting", "manual", "lost"}
  /\ cur.phase \in Taken \cup {"locked", "accepting"} =>
       cur.run \in Runs /\ request[cur.run] # NotPosted /\ cur.run \notin waiting
  /\ cur.again => "crash" \notin may
  /\ cur.cont \in Nat

QueueInv == cur.phase \in Taken => QueueOk(cur)

\* The history is in order, and has a tombstone for each run that was cancelled.
OrderInv ==
  /\ HistoryInv(disk.history) /\ mem \in Memories
  /\ \A r \in mem.cancelled : Removed(disk.history, r)

\* What of the stream of a run was persisted is in the files and in the memory.
FlowOk(h, m, c) ==
  /\ Waits(m, c.run) /\ Heard(m, c.run, Due(c, 1), c.again)
  /\ Off(m, c.run) \/ Told(h, c.run, Due(c, 1), c.deaf, c.again)
  /\ Removed(h, c.run) => c.run \in m.cancelled
  /\ ~c.again => NoneBefore(h, c.run)
  /\ c.again => ~c.deaf
FlowInv == cur.phase \in Taken => FlowOk(disk.history, mem, cur)

\* A run that was not accepted yet, of which nothing is known.
Unknown(r) == request[r] = NotPosted \/ r \in waiting \/ (cur.run = r /\ cur.phase \in {"locked", "accepting"})
UnknownInv ==
  \A r \in Runs : Unknown(r) => Unheard(disk.history, mem, r) /\ disk.context.pending # r

\* Where a run is taken up after a restart none was stopped or cancelled.
Clean ==
  /\ may \cap {"stop", "cancel", "undo"} = {} /\ Whole(disk.history)
  /\ mem.stopped = {} /\ mem.cancelled = {} /\ mem.stoppedActive = None /\ mem.cancelledActive = None
CleanInv ==
  cur.again \/ {"compact", "crash"} \subseteq may \/ (\E k \in 1..Len(disk.history) : disk.history[k].run = None)
    => Clean

\* A continuation that a restart would take up has not ended.
PendingInv ==
  LET q == disk.context.pending
  IN /\ q \in Runs \cup {None} /\ (q # None => "compact" \in may)
     /\ {"gen", "rev", "pending"} \subseteq DOMAIN disk.context
     /\ cur.phase = "accepting" => q = None
     /\ q # None /\ "crash" \in may =>
          /\ ~ In(disk.history, Says("run_finished", q)) /\ ~ In(disk.history, Says("run_error", q))
          /\ cur.phase \in Taken /\ cur.run = q => ~cur.ok /\ ~cur.bad /\ cur.cont # 0
     /\ cur.phase = "streaming" /\ {"compact", "crash"} \subseteq may => cur.view.context.gen = disk.context.gen

StoryInv == StillInv /\ QueueInv /\ OrderInv /\ FlowInv /\ UnknownInv /\ CleanInv /\ PendingInv

-----------------------------------------------------------------------------
(* What the steps do to the files.                                         *)

\* Nothing but the context.
OnlyContext(x) == disk'.history = disk.history /\ disk'.context = x /\ disk'.open = disk.open

-----------------------------------------------------------------------------
(* The steps that leave the history and the memory alone.                  *)

\* The stream of a run comes no further.
Rests ==
  /\ disk'.history = disk.history /\ mem' = mem /\ may' \subseteq may /\ (cur'.again => cur.again)
  /\ \A r \in Runs : Unknown(r)' => Unknown(r)
  /\ \A r \in Runs : Unknown(r)' /\ disk'.context.pending = r => disk.context.pending = r
  /\ cur'.phase \in Taken =>
       /\ cur.phase \in Taken /\ cur'.run = cur.run /\ cur'.again = cur.again /\ cur'.deaf = cur.deaf
       /\ Due(cur', 1) = Due(cur, 1)

-----------------------------------------------------------------------------
(* The steps that append to the history.                                   *)

\* The record rec was appended, or none.
Wrote(rec) == disk'.history = disk.history \/ Grown(disk.history, disk'.history, rec)

\* A record that is of run x, or of nobody.
OfOne(rec, x) == rec.run \in {x, None} /\ \A f : Has(rec, f) => f[2] = x

\* No record at all.
Nothing(x) == Record("events", x, <<>>)

-----------------------------------------------------------------------------
(* A message is accepted.                                                  *)

\* A run that was not accepted yet has sent nothing.
StandsInv ==
  cur.phase \in {"locked", "accepting"} => cur.queue = <<>> /\ cur.sent = {} /\ ~cur.ok /\ ~cur.bad

-----------------------------------------------------------------------------
(* A run that ended in peace.                                              *)

\* What a run has sent is of its own.
SentInv == \A e \in cur.sent : e = Says(e[1], cur.run)

-----------------------------------------------------------------------------
(* The summary, and the view of the backend that the next one is made from. *)

\* What a summary of the view v up to message n says.
SaidOf(v, n) == v.context.said \o SubSeq(v.tail, 1, n)
OlderOf(v) == {n \in 1..Len(v.tail) : \E k \in 1..Len(v.tail) : v.tail[k][1] = "U" /\ n < k}

\* A summary that may be made from v says the first messages of the history, and none of
\* run x, which goes on, unless it is a continuation.
ViewOk(v, h, x, again) ==
  /\ v.context \in Contexts /\ v.tail \in Seq(Pairs)
  /\ \A n \in OlderOf(v) : /\ Begins(SaidOf(v, n), AllMessages(h))
                           /\ again \/ \A i \in 1..Len(SaidOf(v, n)) : SaidOf(v, n)[i][2] # x

Viewing(c) == c.phase \in {"streaming", "manual"}
SummaryInv ==
  /\ Sound(disk.context, disk.history)
  /\ Viewing(cur) => ViewOk(cur.view, disk.history, cur.run, cur.again)

-----------------------------------------------------------------------------
(* The steps keep the summary sound.                                       *)

Goes == Viewing(cur') => Viewing(cur) /\ cur'.view = cur.view /\ cur'.run = cur.run /\ cur'.again = cur.again

\* An operation appends one record at most, and no tombstone.
AppendsOnly(d, op) ==
  \/ op.writes = <<>>
  \/ \E rec : rec.kind # "remove" /\ op.writes = <<<<"history", Append(d.history, rec)>>>>

\* The context is revised, cleared, checked or dropped, or left as it is.
Checked(c) == c \in {disk.context, Revised(disk.context), Cleared(disk.context), Validated(disk.context, disk.history), EmptyContext}
=============================================================================
