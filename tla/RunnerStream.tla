---------------------------- MODULE RunnerStream ----------------------------
(***************************************************************************)
(* backend/main.py and backend/runners: the calls of the Backend for one    *)
(* conversation, with its own agent, Codex or Claude Code as the runner.    *)
(* A run starts a provider, maps what it says, asks the user through the     *)
(* broker for what it wants to do, and is over with a final event, an error, *)
(* a card, or its client.  A card is answered by another run, in which the   *)
(* provider starts over and has to ask again.                              *)
(***************************************************************************)
EXTENDS CliEvents, FiniteSets

CONSTANTS
  Kinds,      \* subset of {"k_agent", "codex", "claude_code"}
  Requests,   \* what a provider may ask for: a tool with its arguments
  ToolOf,     \* the tool of a request
  Items,      \* tool items a provider may have running
  MaxPieces,  \* bound on the pieces of text and reasoning of a run
  MaxItems    \* bound on its tool items and requests

ASSUME StreamAssumption ==
  /\ Kinds \subseteq {"k_agent", "codex", "claude_code"}
  /\ MaxPieces \in Nat /\ MaxItems \in Nat /\ None \notin Requests

VARIABLES
  kind,     \* agentKind of the run
  phase,    \* idle, opening, reading, blocked, done or failed: where the runner is
  proc,     \* the provider's process
  auth,     \* resume_authorization: [request, action, scope, consumed]
  allowed,  \* _run_allowed_tools of Claude's bridge
  card,     \* the request in the interrupt queue, or None
  stream,   \* the mapping state
  queue,    \* events of the runner the broker has not passed on
  agui,     \* the translator's state
  wire,     \* the events the last step put on the wire
  block,    \* the block the provider is in: [type, pieces]
  running,  \* its tool items under way
  used,     \* tool items and requests so far
  client,   \* what the client has been shown, and what of it is open (not in the code)
  said,     \* pieces of text the provider said (not in the code)
  let,      \* the requests let through in this run, in order (not in the code)
  last      \* the pieces of this run, counted (not in the code)

broker == <<card, queue>>
rights == <<auth, allowed, let>>
provider == <<block, running, used, said, last>>
output == <<agui, client>>
vars == <<kind, phase, proc, rights, broker, stream, output, wire, provider>>

Unauthorised == [request |-> None, action |-> "none", scope |-> "once", consumed |-> TRUE]
NoBlock == [type |-> "none", pieces |-> <<>>]
Fresh == [run |-> "running", reasoning |-> None, thought |-> None, texts |-> {},
          calls |-> {}, results |-> {}, text |-> <<>>]

Init ==
  /\ kind \in Kinds /\ phase = "idle" /\ proc = "none" /\ auth = Unauthorised /\ allowed = {}
  /\ card = None /\ stream = NewStream /\ queue = <<>> /\ agui = NoReasoning /\ wire = <<>>
  /\ block = NoBlock /\ running = {} /\ used = 0
  /\ client = Fresh /\ said = <<>> /\ let = <<>> /\ last = 0

-----------------------------------------------------------------------------
(* Calls of the Access Layer.                                              *)

\* A run begins, new or with the answer to a card: the user's decision counts for the very
\* request of that card.
Begin(authorization) ==
  /\ phase = "idle" /\ phase' = "opening" /\ auth' = authorization
  /\ kind' \in IF authorization = Unauthorised THEN Kinds ELSE {kind}
  /\ allowed' = {} /\ let' = <<>> /\ card' = None /\ queue' = <<>>
  /\ stream' = NewStream /\ agui' = NoReasoning /\ wire' = <<>> /\ client' = Fresh
  /\ block' = NoBlock /\ running' = {} /\ used' = 0 /\ said' = <<>> /\ last' = 0
  /\ proc' = "none"

New == Begin(Unauthorised)

Answer ==
  /\ card # None
  /\ \E action \in {"approve", "deny", "cancel"}, scope \in {"once", "run"} :
       Begin([request |-> card, action |-> action, scope |-> scope, consumed |-> FALSE])

\* _stop_process, on whatever way the runner is left.
StopProcess == proc' = IF proc = "up" THEN "killed" ELSE proc

\* The client is gone, or the run is cancelled.
Leave ==
  /\ phase # "idle" /\ phase' = "idle" /\ card' = None /\ queue' = <<>>
  /\ StopProcess /\ wire' = <<>>
  /\ UNCHANGED <<kind, rights, stream, output, provider>>

-----------------------------------------------------------------------------
(* The broker and the wire.                                                *)

\* What a client that follows the protocol makes of an event.
Seen(c, e) ==
  CASE e.type = "reasoning_start" -> [c EXCEPT !.reasoning = e.id]
    [] e.type = "reasoning_message_start" -> [c EXCEPT !.thought = e.id]
    [] e.type = "reasoning_message_end" -> [c EXCEPT !.thought = None]
    [] e.type = "reasoning_end" -> [c EXCEPT !.reasoning = None]
    [] e.type = "text_start" -> [c EXCEPT !.texts = @ \cup {e.id}]
    [] e.type = "text_content" -> [c EXCEPT !.text = @ \o e.text]
    [] e.type = "text_end" -> [c EXCEPT !.texts = @ \ {e.id}]
    [] e.type = "tool_call" -> [c EXCEPT !.calls = @ \cup {e.id}]
    [] e.type = "tool_result" -> [c EXCEPT !.results = @ \cup {e.id}]
    [] e.type \in {"run_finished", "run_error", "run_interrupted"} -> [c EXCEPT !.run = "over"]
    [] OTHER -> c

SeenAfter(c, events) ==
  LET seen[n \in 0..Len(events)] == IF n = 0 THEN c ELSE Seen(seen[n - 1], events[n])
  IN  seen[Len(events)]

Put(events) == wire' = events /\ client' = SeenAfter(client, events)

\* The next event of the runner. One that cannot be translated ends the run.
Deliver ==
  /\ phase # "idle" /\ queue # <<>>
  /\ Put(WireOf(agui, Head(queue)))
  /\ agui' = StateAfter(agui, Head(queue))
  /\ IF client'.run = "over"
     THEN phase' = "idle" /\ queue' = <<>> /\ card' = None
     ELSE queue' = Tail(queue) /\ UNCHANGED <<phase, card>>
  /\ UNCHANGED <<kind, proc, rights, stream, provider>>

\* The card stops the runner; the events behind it are dropped.
ShowCard ==
  /\ phase # "idle" /\ card # None
  /\ Put(CardWire) /\ phase' = "idle" /\ queue' = <<>> /\ StopProcess
  /\ UNCHANGED <<kind, rights, card, stream, agui, provider>>

\* The runner is through without having said so.
Drained ==
  /\ phase = "done" /\ queue = <<>> /\ phase' = "idle" /\ card' = None /\ wire' = <<>>
  /\ UNCHANGED <<kind, proc, rights, queue, stream, output, provider>>

\* The error of the runner, behind its events.
Report ==
  /\ phase = "failed" /\ queue = <<>> /\ phase' = "idle" /\ card' = None
  /\ Put(Failed(agui)) /\ agui' = Closed(agui)
  /\ UNCHANGED <<kind, proc, rights, queue, stream, provider>>

-----------------------------------------------------------------------------
(* The runner.                                                             *)

\* What a start comes to: where the runner is, and its process.  Before there is a process
\* the provider, the workspace or its settings may be missing; Codex also has to shake hands.
Unprepared == <<"failed", "none">>
AgentStart == {<<"reading", "none">>, Unprepared}
ClaudeStart == {<<"reading", "up">>, Unprepared}
CodexStart == {<<"reading", "up">>, <<"failed", "exited">>, <<"failed", "killed">>, Unprepared}

Starts == CASE kind = "codex" -> CodexStart
            [] kind = "claude_code" -> ClaudeStart
            [] OTHER -> AgentStart

Open ==
  /\ phase = "opening" /\ wire' = <<>>
  /\ \E start \in Starts : phase' = start[1] /\ proc' = start[2]
  /\ UNCHANGED <<kind, rights, broker, stream, output, provider>>

\* The runner takes one message of the provider.
Take(mapped) ==
  /\ phase = "reading"
  /\ stream' = [mapped EXCEPT !.out = <<>>]
  /\ queue' = queue \o mapped.out
  /\ wire' = <<>>
  /\ UNCHANGED <<kind, rights, card, output>>

Going == UNCHANGED <<phase, proc>>
Ends(result, process) == phase' = result /\ proc' = process

Alive == phase = "reading" /\ (kind = "k_agent" \/ proc = "up")
In(type) == block.type \in {"none", type}
Piece == last + 1
Says(type, pieces) ==
  /\ last' = last + Len(pieces)
  /\ said' = IF type = "text" THEN said \o pieces ELSE said

-----------------------------------------------------------------------------
(* Command line providers: a block of text or thinking is streamed as far   *)
(* as it is, and then complete.                                            *)

CliDelta(type) ==
  /\ Alive /\ kind # "k_agent" /\ In(type) /\ last < MaxPieces
  /\ block' = [type |-> type, pieces |-> Append(block.pieces, Piece)]
  /\ Says(type, <<Piece>>)
  /\ Take(CASE kind = "codex" /\ type = "text" -> CodexTextDelta(stream, <<Piece>>)
            [] kind = "codex" /\ type = "think" -> CodexThinkDelta(stream, <<Piece>>)
            [] kind = "claude_code" /\ type = "text" -> ClaudeTextDelta(stream, <<Piece>>)
            [] OTHER -> ClaudeThinkDelta(stream, <<Piece>>))
  /\ Going /\ UNCHANGED <<running, used>>

\* Claude completes a block it has streamed in part; Codex one it has streamed wholly or
\* not at all.
CliBlock(type) ==
  /\ Alive /\ kind # "k_agent" /\ In(type) /\ block' = NoBlock
  /\ \E more \in {<<>>, <<Piece>>} :
       LET whole == block.pieces \o more
       IN  /\ whole # <<>> /\ last + Len(more) <= MaxPieces
           /\ kind = "codex" => more = <<>> \/ block.pieces = <<>>
           /\ Says(type, more)
           /\ Take(CASE kind = "codex" /\ type = "text" -> CodexMessage(stream, whole)
                     [] kind = "codex" /\ type = "think" -> CodexReasoning(stream, whole)
                     [] kind = "claude_code" /\ type = "text" -> ClaudeText(stream, whole)
                     [] OTHER -> ClaudeThinking(stream, whole))
  /\ Going /\ UNCHANGED <<running, used>>

ItemStarts(i) ==
  /\ Alive /\ kind # "k_agent" /\ block = NoBlock /\ i \notin running /\ used < MaxItems
  /\ running' = running \cup {i} /\ used' = used + 1
  /\ Take(IF kind = "codex" THEN CodexItemStarted(stream, i) ELSE ClaudeToolUse(stream, i))
  /\ Going /\ UNCHANGED <<block, said, last>>

\* Also of an item whose start was not seen. No item of Codex ends inside a message.
ItemEnds(i) ==
  /\ Alive /\ kind # "k_agent" /\ (kind = "codex" => block = NoBlock) /\ (i \in running \/ used < MaxItems)
  /\ running' = running \ {i} /\ used' = IF i \in running THEN used ELSE used + 1
  /\ Take(IF kind = "codex" THEN CodexItemCompleted(stream, i) ELSE ClaudeToolResult(stream, i))
  /\ Going /\ UNCHANGED <<block, said, last>>

\* The end of a turn: Codex is stopped, Claude goes by itself.
TurnEnds(ok) ==
  /\ Alive /\ kind = "codex"
  /\ Take(CodexTurn(stream, ok)) /\ Ends("done", "killed")
  /\ UNCHANGED provider

ErrorGiven ==
  /\ Alive /\ kind = "codex"
  /\ Take(CodexError(stream)) /\ Ends("done", "killed")
  /\ UNCHANGED provider

ResultGiven(ok) ==
  /\ Alive /\ kind = "claude_code" /\ block = NoBlock /\ card = None
  /\ block' = [NoBlock EXCEPT !.type = "over"]
  /\ \E answer \in {<<>>} \cup (IF stream.wrote \/ last = MaxPieces THEN {} ELSE {<<Piece>>}) :
       /\ Says("text", answer) /\ Take(ClaudeResult(stream, answer))
  /\ IF ok THEN Going ELSE Ends("failed", "killed")
  /\ UNCHANGED <<running, used>>

\* The output ends: for Codex an error, for Claude the end of the run.
Exits(code) ==
  /\ Alive /\ kind # "k_agent" /\ (code = 0 => card = None)
  /\ IF kind = "codex" THEN Take(stream) /\ Ends("failed", "exited") /\ UNCHANGED <<said, last>>
     ELSE /\ Take(CliEnd(stream, code, <<Piece>>))
          /\ Ends(IF code = 0 THEN "done" ELSE "failed", "exited")
          /\ IF code = 0 /\ ~ stream.wrote THEN Says("text", <<Piece>>) ELSE UNCHANGED <<said, last>>
  /\ UNCHANGED <<block, running, used>>

-----------------------------------------------------------------------------
(* What a provider wants to do.                                            *)

\* A slip: what is consumed may be consumed again.
MatchesAgain(r) == auth.request = r
Matches(r) == auth.request = r /\ ~ auth.consumed

Let(r) == let' = Append(let, r)

\* Claude's bridge remembers the tool of an approval for the run.
AllowedAfter(r) ==
  IF kind = "claude_code" /\ auth.action = "approve" /\ auth.scope = "run"
  THEN allowed \cup {ToolOf[r]} ELSE allowed

\* consume_resume_authorization: the answer to the card, for the same request, once.
Authorised(r) ==
  /\ Alive /\ kind # "k_agent" /\ used < MaxItems /\ used' = used + 1
  /\ kind = "codex" \/ ToolOf[r] \notin allowed
  /\ Matches(r)
  /\ auth' = [auth EXCEPT !.consumed = TRUE]
  /\ IF auth.action = "approve" THEN Let(r) ELSE UNCHANGED let
  /\ allowed' = AllowedAfter(r)
  /\ wire' = <<>>
  /\ UNCHANGED <<kind, phase, proc, broker, stream, output, block, running, said, last>>

\* Claude's bridge lets a tool through that the user allowed for the run.
Waved(r) ==
  /\ Alive /\ kind = "claude_code" /\ used < MaxItems /\ used' = used + 1
  /\ ToolOf[r] \in allowed /\ Let(r)
  /\ wire' = <<>>
  /\ UNCHANGED <<kind, phase, proc, auth, allowed, broker, stream, output, block, running, said, last>>

\* Codex asks in its stream, which waits; Claude on connections of their own.
Waiting == IF kind = "codex" THEN "blocked" ELSE phase

\* Any other request is a card; one of Claude's that finds a card waiting is denied.
Asks(r) ==
  /\ Alive /\ kind # "k_agent" /\ block.type # "over" /\ used < MaxItems /\ used' = used + 1
  /\ ~ Matches(r) /\ (kind = "codex" \/ ToolOf[r] \notin allowed)
  /\ card' = IF card = None THEN r ELSE card
  /\ phase' = Waiting
  /\ wire' = <<>>
  /\ UNCHANGED <<kind, proc, rights, queue, stream, output, block, running, said, last>>

\* A request the runner does not know is an error of the run.
Unsupported ==
  /\ Alive /\ kind = "codex" /\ Take(stream) /\ Ends("failed", "killed")
  /\ UNCHANGED provider

-----------------------------------------------------------------------------
(* K Agent: the events of the loop are those of the model's stream.        *)

Reason(m, pieces) ==
  LET o == IF m.think # None THEN m
           ELSE Emit([m EXCEPT !.think = m.fresh, !.fresh = m.fresh + 1],
                     <<Event("reasoning_start", m.fresh)>>)
  IN  Emit(o, <<Delta("reasoning_delta", o.think, pieces)>>)

EndReasoning(m) ==
  IF m.think = None THEN m
  ELSE Emit([m EXCEPT !.think = None], <<Event("reasoning_end", m.think)>>)

KThinks ==
  /\ Alive /\ kind = "k_agent" /\ last < MaxPieces /\ running = {}
  /\ IF stream.text # None THEN Take(stream) /\ Ends("failed", proc) /\ UNCHANGED last
     ELSE Take(Reason(stream, <<Piece>>)) /\ last' = Piece /\ Going
  /\ UNCHANGED <<block, running, used, said>>

KWrites ==
  /\ Alive /\ kind = "k_agent" /\ last < MaxPieces /\ running = {}
  /\ Take(AppendText(EndReasoning(stream), <<Piece>>))
  /\ Says("text", <<Piece>>) /\ Going
  /\ UNCHANGED <<block, running, used>>

\* The model's message is complete, with calls or without.
KCompletes ==
  /\ Alive /\ kind = "k_agent" /\ running = {}
  /\ LET o == CloseText(EndReasoning(stream))
     IN  \/ /\ Take(Emit(o, <<Event("context", None), Event("final", None)>>)) /\ Ends("done", proc)
            /\ UNCHANGED <<running, used>>
         \/ \E i \in Items : /\ used < MaxItems /\ used' = used + 1 /\ running' = {i}
                             /\ Take(Announce(o, i)) /\ Going
  /\ UNCHANGED <<block, said, last>>

KOutputs ==
  /\ Alive /\ kind = "k_agent" /\ used < MaxItems /\ used' = used + 1
  /\ \E i \in running : Take(Emit(stream, <<Event("tool_output", stream.calls[i])>>))
  /\ Going /\ UNCHANGED <<block, running, said, last>>

\* The result, and the budget that is measured before the model goes on.
KObserves ==
  /\ Alive /\ kind = "k_agent"
  /\ \E i \in running : Take(Emit(Conclude(stream, i), <<Event("context", None)>>))
  /\ running' = {} /\ Going /\ UNCHANGED <<block, used, said, last>>

\* At the limit of its rounds the loop has the last word, with a note.
KGivesUp ==
  /\ Alive /\ kind = "k_agent" /\ last < MaxPieces /\ running = {} /\ used > 0 /\ stream.text = None
  /\ LET o == AppendText(EndReasoning(stream), <<Piece>>)
     IN  Take(Emit(CloseText(o), <<Thinking(o.fresh, <<>>, FALSE), Event("final", None)>>))
  /\ Says("text", <<Piece>>) /\ Ends("done", proc)
  /\ UNCHANGED <<block, running, used>>

\* A summary that the Access Layer has to commit first ends the call without a final event.
KCompacts ==
  /\ Alive /\ kind = "k_agent" /\ running = {} /\ stream.text = None /\ stream.think = None
  /\ Take(Emit(stream, <<Event("context", None)>>)) /\ Ends("done", proc)
  /\ UNCHANGED provider

KFails ==
  /\ Alive /\ kind = "k_agent" /\ Take(stream) /\ Ends("failed", proc)
  /\ UNCHANGED provider

-----------------------------------------------------------------------------

Next ==
  \/ New \/ Answer \/ Leave \/ Deliver \/ ShowCard \/ Drained \/ Report \/ Open
  \/ \E type \in {"text", "think"} : CliDelta(type) \/ CliBlock(type)
  \/ \E i \in Items : ItemStarts(i) \/ ItemEnds(i)
  \/ \E ok \in BOOLEAN : TurnEnds(ok) \/ ResultGiven(ok)
  \/ ErrorGiven
  \/ \E code \in 0..1 : Exits(code)
  \/ \E r \in Requests : Authorised(r) \/ Waved(r) \/ Asks(r)
  \/ Unsupported
  \/ KThinks \/ KWrites \/ KCompletes \/ KOutputs \/ KObserves
  \/ KGivesUp \/ KCompacts \/ KFails

Spec == Init /\ [][Next]_vars

-----------------------------------------------------------------------------
(* Properties.                                                             *)

\* What a client may be sent next.
Accepts(c, e) ==
  /\ c.run = "running"
  /\ CASE e.type = "reasoning_start" -> c.reasoning = None
       [] e.type = "reasoning_message_start" -> c.reasoning # None /\ c.thought = None
       [] e.type \in {"reasoning_content", "reasoning_message_end"} -> c.thought = e.id
       [] e.type = "reasoning_end" -> c.reasoning = e.id /\ c.thought = None
       [] e.type = "text_start" -> c.reasoning = None /\ e.id \notin c.texts
       [] e.type = "text_content" -> c.reasoning = None /\ e.id \in c.texts
       [] e.type = "text_end" -> e.id \in c.texts
       [] e.type = "tool_call" -> c.reasoning = None /\ e.id \notin c.calls
       [] e.type \in {"tool_output", "tool_result"} -> e.id \in c.calls \ c.results
       [] e.type = "run_finished" -> c.reasoning = None /\ c.texts = {}
       [] e.type = "run_error" -> c.reasoning = None
       [] OTHER -> TRUE

\* Whatever runner it is and wherever it fails, the wire carries one well-formed run:
\* reasoning is over before text, a call or the end begins (agui.py:218-222, 322), results
\* belong to a call that was announced and has none, and nothing follows the end. An error
\* may leave text open, and a card text and reasoning too (approvals.py:173).
Protocol ==
  [][\A i \in DOMAIN wire' :
       Accepts(SeenAfter(client, SubSeq(wire', 1, i - 1)), wire'[i])]_vars

Pieces(e) == IF e.type = "delta" THEN e.text ELSE <<>>
PiecesIn(events) ==
  LET pieces[n \in 0..Len(events)] == IF n = 0 THEN <<>> ELSE pieces[n - 1] \o Pieces(events[n])
  IN  pieces[Len(events)]

\* What the provider says is shown once, in order and completely, streamed or not: blocks
\* and results repeat what was streamed (_complete_claude_text, saw_final_text).
EachPieceOnce == phase # "idle" => client.text \o PiecesIn(queue) = said

\* A provider is let through only what the user's answer allows, and only in the run that
\* brings the answer: the very request of the card, once, or with "run" for Claude the
\* tool of that request (consume_resume_authorization, _run_allowed_tools).
GrantedOnce ==
  let # <<>> =>
    /\ auth.action = "approve"
    /\ \A i \in DOMAIN let : ToolOf[let[i]] = ToolOf[auth.request]
    /\ kind = "codex" \/ auth.scope = "once" => let = <<auth.request>>
=============================================================================
