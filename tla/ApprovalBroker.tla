--------------------------- MODULE ApprovalBroker ---------------------------
(***************************************************************************)
(* backend/approvals.py: the stream of one run, in which the events of its *)
(* runner and an interrupt (a permission card) race for the response.      *)
(* Streams stands for the requests that stream the same (thread, run).     *)
(***************************************************************************)
EXTENDS Naturals, FiniteSets

CONSTANTS
  Streams,
  Askers,      \* tasks of a runner that ask for permission beside its coroutine
  Own,         \* the runner's own coroutine, as the one that asks
  None,
  MaxEvents    \* bound on the events of one runner

ASSUME BrokerAssumption ==
  /\ Own \notin Askers /\ None \notin Streams \cup Askers \cup {Own}
  /\ MaxEvents \in Nat

VARIABLES
  active,      \* _active_runs: the stream registered under the key, or None
  phase,       \* where stream() is
  closed,      \* its run_closed is set
  runner,      \* state of the runner inside pump()
  produced,    \* events the runner has yielded
  queued,      \* events in event_queue
  ended,       \* what follows them in the queue: "no", "done" or "error"
  card,        \* the asker whose payload is in interrupt_queue, or None
  raced,       \* the get() tasks of this round that are finished
  got,         \* what the finished event_task holds: "event", "done", "error" or None
  delivered,   \* events passed on to the response
  shown,       \* the asker whose payload was taken from interrupt_queue
  left,        \* the client is gone
  asks         \* the stream whose run_closed each asker awaits, or None

queueVars == <<produced, queued, ended, card>>
raceVars == <<raced, got, delivered, shown>>
vars == <<active, phase, closed, runner, queueVars, raceVars, left, asks>>

\* loop: before a round; racing: in asyncio.wait; yielding: the response is being
\* sent an event; stopping: awaits the cancelled pump; card, interrupt: the last two
\* yields; closing: in the finally block; gone: left it by a second cancellation
Phases == {"new", "loop", "racing", "yielding", "stopping", "card", "interrupt",
           "closing", "closed", "gone", "refused"}

Serving(s) == phase[s] \notin {"new", "closed", "gone", "refused"}

\* pump() reads the runner, and is not cancelled
Pumping(s) == runner[s] = "running" /\ phase[s] \in {"loop", "racing", "yielding"}

Init ==
  /\ active = None
  /\ phase = [s \in Streams |-> "new"]
  /\ closed = [s \in Streams |-> FALSE]
  /\ runner = [s \in Streams |-> "none"]
  /\ produced = [s \in Streams |-> 0]
  /\ queued = [s \in Streams |-> 0]
  /\ ended = [s \in Streams |-> "no"]
  /\ card = [s \in Streams |-> None]
  /\ raced = [s \in Streams |-> {}]
  /\ got = [s \in Streams |-> None]
  /\ delivered = [s \in Streams |-> 0]
  /\ shown = [s \in Streams |-> None]
  /\ left = [s \in Streams |-> FALSE]
  /\ asks = [a \in Askers |-> None]

-----------------------------------------------------------------------------
(* stream(): registration.                                                 *)

Open(s) ==
  /\ phase[s] = "new"
  /\ \/ /\ active = None
        /\ active' = s
        /\ phase' = [phase EXCEPT ![s] = "loop"]
        /\ runner' = [runner EXCEPT ![s] = "running"]
     \/ /\ active # None
        /\ phase' = [phase EXCEPT ![s] = "refused"]
        /\ UNCHANGED <<active, runner>>
  /\ UNCHANGED <<closed, queueVars, raceVars, left, asks>>

-----------------------------------------------------------------------------
(* pump(): the runner.                                                     *)

Produce(s) ==
  /\ Pumping(s) /\ produced[s] < MaxEvents
  /\ produced' = [produced EXCEPT ![s] = @ + 1]
  /\ queued' = [queued EXCEPT ![s] = @ + 1]
  /\ UNCHANGED <<active, phase, closed, runner, ended, card, raceVars, left, asks>>

\* request() called by the runner's own coroutine, which waits in it; when a card is
\* pending or nothing is registered it gets an error instead.
AskOwn(s) ==
  /\ Pumping(s) /\ active = s
  /\ card[s] = None
  /\ card' = [card EXCEPT ![s] = Own]
  /\ runner' = [runner EXCEPT ![s] = "asking"]
  /\ UNCHANGED <<active, phase, closed, produced, queued, ended, raceVars, left, asks>>

\* The runner returns or fails.
RunnerEnds(s) ==
  /\ Pumping(s)
  /\ runner' = [runner EXCEPT ![s] = "over"]
  /\ \E how \in {"done", "error"} : ended' = [ended EXCEPT ![s] = how]
  /\ UNCHANGED <<active, phase, closed, produced, queued, card, raceVars, left, asks>>

\* It throws the interrupt itself: a card, unless one is pending, and the end.  If
\* both get() tasks wait, both are woken before the stream is.
RunnerThrows(s) ==
  /\ Pumping(s)
  /\ runner' = [runner EXCEPT ![s] = "over"]
  /\ \/ /\ phase[s] = "racing" /\ raced[s] = {} /\ queued[s] = 0 /\ card[s] = None
        /\ shown' = [shown EXCEPT ![s] = Own]
        /\ got' = [got EXCEPT ![s] = "done"]
        /\ raced' = [raced EXCEPT ![s] = {"event", "interrupt"}]
        /\ UNCHANGED <<ended, card>>
     \/ /\ ~ (phase[s] = "racing" /\ raced[s] = {} /\ queued[s] = 0 /\ card[s] = None)
        /\ card' = [card EXCEPT ![s] = IF @ = None THEN Own ELSE @]
        /\ ended' = [ended EXCEPT ![s] = "done"]
        /\ UNCHANGED <<shown, got, raced>>
  /\ UNCHANGED <<active, phase, closed, produced, queued, delivered, left, asks>>

-----------------------------------------------------------------------------
(* stream(): the race.                                                     *)

EventReady(s) == queued[s] > 0 \/ ended[s] # "no"

\* event_queue.get(): events first, then how the runner ended
Taken(s) == IF queued[s] > 0 THEN "event" ELSE ended[s]

TakeEvent(s) ==
  /\ got' = [got EXCEPT ![s] = Taken(s)]
  /\ IF queued[s] > 0
     THEN queued' = [queued EXCEPT ![s] = @ - 1] /\ UNCHANGED ended
     ELSE ended' = [ended EXCEPT ![s] = "no"] /\ UNCHANGED queued

TakeCard(s) ==
  /\ shown' = [shown EXCEPT ![s] = card[s]]
  /\ card' = [card EXCEPT ![s] = None]

\* Two tasks are started, and each takes at once what its queue has.
StartRound(s) ==
  /\ phase[s] = "loop"
  /\ phase' = [phase EXCEPT ![s] = "racing"]
  /\ raced' = [raced EXCEPT ![s] = {t \in {"event", "interrupt"} :
                 IF t = "event" THEN EventReady(s) ELSE card[s] # None}]
  /\ IF EventReady(s) THEN TakeEvent(s) ELSE UNCHANGED <<got, queued, ended>>
  /\ IF card[s] # None THEN TakeCard(s) ELSE UNCHANGED <<shown, card>>
  /\ UNCHANGED <<active, closed, runner, produced, delivered, left, asks>>

\* Something arrives before the stream is resumed.  A card that is there when an event
\* is taken is taken before the stream is resumed too.
LateTake(s) ==
  /\ phase[s] = "racing"
  /\ \/ /\ "event" \notin raced[s] /\ EventReady(s)
        /\ card[s] = None \/ "interrupt" \in raced[s]
        /\ TakeEvent(s)
        /\ raced' = [raced EXCEPT ![s] = @ \cup {"event"}]
        /\ UNCHANGED <<card, shown>>
     \/ /\ "interrupt" \notin raced[s] /\ card[s] # None
        /\ TakeCard(s)
        /\ raced' = [raced EXCEPT ![s] = @ \cup {"interrupt"}]
        /\ UNCHANGED <<queued, ended, got>>
  /\ UNCHANGED <<active, phase, closed, runner, produced, delivered, left, asks>>

\* The stream goes on with the event that event_task holds.
PassOn(s) ==
  /\ \/ /\ got[s] = "event"
        /\ phase' = [phase EXCEPT ![s] = "yielding"]
        /\ delivered' = [delivered EXCEPT ![s] = @ + 1]
        /\ got' = [got EXCEPT ![s] = None]
     \/ /\ got[s] \in {"done", "error"}
        /\ phase' = [phase EXCEPT ![s] = "closing"]
        /\ UNCHANGED <<delivered, got>>
  /\ raced' = [raced EXCEPT ![s] = {}]
  /\ UNCHANGED <<active, closed, runner, queueVars, shown, left, asks>>

\* It goes on with the card: the pump is cancelled and awaited.
TurnToCard(s) ==
  /\ phase' = [phase EXCEPT ![s] = "stopping"]
  /\ raced' = [raced EXCEPT ![s] = {}]
  /\ UNCHANGED <<active, closed, runner, queueVars, got, delivered, shown, left, asks>>

\* A slip: the event is looked at first
ResumeEventFirst(s) ==
  /\ phase[s] = "racing" /\ raced[s] # {}
  /\ \/ "event" \in raced[s] /\ PassOn(s)
     \/ "event" \notin raced[s] /\ TurnToCard(s)

\* The stream is resumed.  A card wins, and an event taken in the same round is lost.
Resume(s) ==
  /\ phase[s] = "racing" /\ raced[s] # {}
  /\ \/ "interrupt" \in raced[s] /\ TurnToCard(s)
     \/ "interrupt" \notin raced[s] /\ PassOn(s)

\* The pump is over: run_closed is set and the card goes out.
PumpStopped(s) ==
  /\ phase[s] = "stopping"
  /\ runner' = [runner EXCEPT ![s] = "over"]
  /\ closed' = [closed EXCEPT ![s] = TRUE]
  /\ phase' = [phase EXCEPT ![s] = "card"]
  /\ UNCHANGED <<active, queueVars, raceVars, left, asks>>

\* The response asks for what comes after a yield.
ReadOn(s) ==
  /\ \/ phase[s] = "yielding" /\ phase' = [phase EXCEPT ![s] = "loop"]
     \/ phase[s] = "card" /\ phase' = [phase EXCEPT ![s] = "interrupt"]
     \/ phase[s] = "interrupt" /\ phase' = [phase EXCEPT ![s] = "closing"]
  /\ UNCHANGED <<active, closed, runner, queueVars, raceVars, left, asks>>

\* The client disconnects: the stream is cancelled where it waits, or closed at a yield.
Disconnect(s) ==
  /\ phase[s] \in {"racing", "yielding", "stopping", "card", "interrupt"}
  /\ phase' = [phase EXCEPT ![s] = "closing"]
  /\ left' = [left EXCEPT ![s] = TRUE]
  /\ raced' = [raced EXCEPT ![s] = {}]
  /\ UNCHANGED <<active, closed, runner, queueVars, got, delivered, shown, asks>>

\* A slip: run_closed is set for a card only
CloseSilently(s) ==
  /\ phase[s] = "closing"
  /\ runner' = [runner EXCEPT ![s] = "over"]
  /\ active' = None
  /\ phase' = [phase EXCEPT ![s] = "closed"]
  /\ UNCHANGED <<closed, queueVars, raceVars, left, asks>>

\* The finally block, after the pump is over.
Close(s) ==
  /\ phase[s] = "closing"
  /\ runner' = [runner EXCEPT ![s] = "over"]
  /\ active' = None
  /\ closed' = [closed EXCEPT ![s] = TRUE]
  /\ phase' = [phase EXCEPT ![s] = "closed"]
  /\ UNCHANGED <<queueVars, raceVars, left, asks>>

\* A cancellation while the finally block awaits the pump: the response's cancel scope
\* repeats it as long as the task waits.  The await raises when the pump is over, and
\* the rest of the block is skipped.
Abandon(s) ==
  /\ phase[s] = "closing"
  /\ runner' = [runner EXCEPT ![s] = "over"]
  /\ phase' = [phase EXCEPT ![s] = "gone"]
  /\ left' = [left EXCEPT ![s] = TRUE]
  /\ UNCHANGED <<active, closed, queueVars, raceVars, asks>>

-----------------------------------------------------------------------------
(* request() from a task beside the runner's coroutine.                    *)

\* It is accepted while no card is in the queue, also when one was taken from it.
Ask(a) ==
  /\ asks[a] = None /\ active # None
  /\ card[active] = None
  /\ card' = [card EXCEPT ![active] = a]
  /\ asks' = [asks EXCEPT ![a] = active]
  /\ UNCHANGED <<active, phase, closed, runner, produced, queued, ended, raceVars, left>>

\* request() returns: the call is cancelled.
Answered(a) ==
  /\ asks[a] # None /\ closed[asks[a]]
  /\ asks' = [asks EXCEPT ![a] = None]
  /\ UNCHANGED <<active, phase, closed, runner, queueVars, raceVars, left>>

-----------------------------------------------------------------------------
\* what the stream does by itself, and when its client reads
StreamStep(s) ==
  \/ StartRound(s) \/ LateTake(s) \/ Resume(s)
  \/ PumpStopped(s) \/ ReadOn(s) \/ Close(s)

Next ==
  \/ \E s \in Streams :
       \/ Open(s)
       \/ Produce(s) \/ AskOwn(s) \/ RunnerEnds(s) \/ RunnerThrows(s)
       \/ StreamStep(s) \/ Disconnect(s) \/ Abandon(s)
  \/ \E a \in Askers : Ask(a) \/ Answered(a)

Spec == Init /\ [][Next]_vars

FairSpec ==
  /\ Spec
  /\ \A s \in Streams : WF_vars(StreamStep(s))
  /\ \A a \in Askers : WF_vars(Answered(a))
-----------------------------------------------------------------------------
(* Properties.                                                             *)

TypeOK ==
  /\ active \in Streams \cup {None}
  /\ phase \in [Streams -> Phases]
  /\ closed \in [Streams -> BOOLEAN] /\ left \in [Streams -> BOOLEAN]
  /\ runner \in [Streams -> {"none", "running", "asking", "over"}]
  /\ produced \in [Streams -> 0 .. MaxEvents]
  /\ queued \in [Streams -> 0 .. MaxEvents]
  /\ ended \in [Streams -> {"no", "done", "error"}]
  /\ card \in [Streams -> Askers \cup {Own, None}]
  /\ raced \in [Streams -> SUBSET {"event", "interrupt"}]
  /\ got \in [Streams -> {"event", "done", "error", None}]
  /\ delivered \in [Streams -> 0 .. MaxEvents]
  /\ shown \in [Streams -> Askers \cup {Own, None}]
  /\ asks \in [Askers -> Streams \cup {None}]

\* When the runner asks for permission a card goes out, whatever races with it, unless
\* the client leaves: the runner's, or one that a task beside it asked for first.
CardShown ==
  \A s \in Streams :
    ~ closed[s] /\ (card[s] = Own \/ (phase[s] = "racing" /\ shown[s] = Own))
      ~> phase[s] = "card" \/ left[s]

\* A request beside the runner's coroutine always comes back, also when its card is not
\* shown or the client leaves.  Of the streams that a second cancellation left behind, whose
\* askers wait for ever, it says nothing.
AskerReleased ==
  \A a \in Askers : \A s \in Streams :
    asks[a] = s ~> asks[a] = None \/ phase[s] = "gone"
=============================================================================
