------------------------------ MODULE CliEvents ------------------------------
(***************************************************************************)
(* backend/runners/cli_process.py, codex.py and claude_code.py: what the    *)
(* output of a provider's command line becomes.  A stream is a record that  *)
(* each operator takes and returns, with the events in its field out: the   *)
(* message and the thinking step that are open, whether there was text, the *)
(* call each running item stands for, and Claude's streamed prefixes.       *)
(***************************************************************************)
EXTENDS AguiStream, Functions

NewStream == [text |-> None, think |-> None, buffer |-> <<>>, wrote |-> FALSE, calls |-> <<>>,
              textDelta |-> <<>>, thinkDelta |-> <<>>, fresh |-> 1, out |-> <<>>]

Emit(m, events) == [m EXCEPT !.out = @ \o events]

-----------------------------------------------------------------------------
(* Text, thinking and calls (cli_process.py).                              *)

OpenText(m) ==
  IF m.text # None THEN m
  ELSE Emit([m EXCEPT !.text = m.fresh, !.fresh = @ + 1], <<Event("message_start", m.fresh)>>)

AppendText(m, pieces) ==
  IF pieces = <<>> THEN m
  ELSE LET o == OpenText(m)
       IN  Emit([o EXCEPT !.wrote = TRUE], <<Delta("delta", o.text, pieces)>>)

CloseText(m) ==
  IF m.text = None THEN m ELSE Emit([m EXCEPT !.text = None], <<Event("message_end", m.text)>>)

\* A snapshot of the step, which a finish ends; also one that adds nothing.
Think(m, pieces, finish) ==
  IF pieces = <<>> /\ ~ finish THEN m
  ELSE LET o == IF m.think # None THEN m
                ELSE [m EXCEPT !.think = m.fresh, !.fresh = @ + 1, !.buffer = <<>>]
           detail == o.buffer \o pieces
       IN  Emit([o EXCEPT !.think = IF finish THEN None ELSE @,
                          !.buffer = IF finish THEN <<>> ELSE detail],
                <<Thinking(o.think, detail, ~ finish)>>)

CloseThinking(m) == IF m.think = None THEN m ELSE Think(m, <<>>, TRUE)

Announce(m, item) ==
  Emit([m EXCEPT !.calls = [i \in DOMAIN @ \cup {item} |-> IF i = item THEN m.fresh ELSE @[i]],
                 !.fresh = @ + 1],
       <<Event("tool_start", m.fresh)>>)

\* The result goes to the call of the item, or to one that is announced with it.
Conclude(m, item) ==
  IF item \in DOMAIN m.calls
  THEN Emit([m EXCEPT !.calls = Restrict(@, DOMAIN @ \ {item})],
            <<Event("tool_result", m.calls[item])>>)
  ELSE Emit([m EXCEPT !.fresh = @ + 1],
            <<Event("tool_start", m.fresh), Event("tool_result", m.fresh)>>)

-----------------------------------------------------------------------------
(* Codex: the notifications of its app-server.                             *)

CodexTextDelta(m, pieces) == AppendText(CloseThinking(m), pieces)
CodexThinkDelta(m, pieces) == Think(m, pieces, FALSE)

\* The whole message counts only where none of it was streamed.
CodexMessage(m, whole) == CloseText(IF m.text = None THEN AppendText(m, whole) ELSE m)

CodexReasoning(m, summary) ==
  IF summary = <<>> THEN CloseThinking(m) ELSE Think(m, summary, TRUE)

CodexItemStarted(m, item) == Announce(CloseText(CloseThinking(m)), item)
CodexItemCompleted(m, item) == Conclude(CloseText(CloseThinking(m)), item)

CodexTurn(m, ok) ==
  Emit(CloseText(CloseThinking(m)),
       IF ok THEN <<Event("cli_session", None), Event("final", None)>>
       ELSE <<Event("cli_error", None)>>)

\* An error outside of a turn closes nothing.
CodexError(m) == Emit(m, <<Event("cli_error", None)>>)

-----------------------------------------------------------------------------
(* Claude: partial messages, and the blocks they add up to.                *)

ClaudeThinkDelta(m, pieces) ==
  Think([m EXCEPT !.thinkDelta = @ \o pieces], pieces, FALSE)

ClaudeTextDelta(m, pieces) ==
  AppendText(CloseThinking([m EXCEPT !.textDelta = @ \o pieces]), pieces)

Behind(streamed, snapshot) ==
  IF IsPrefix(streamed, snapshot) THEN SubSeq(snapshot, Len(streamed) + 1, Len(snapshot))
  ELSE snapshot

\* A slip: the prefix is kept for the next block.
ClaudeTextKeeping(m, snapshot) ==
  LET o == CloseThinking(m) IN AppendText(o, Behind(o.textDelta, snapshot))

\* A text block that is complete: what was not streamed of it.
ClaudeText(m, snapshot) ==
  LET o == CloseThinking(m)
  IN  AppendText([o EXCEPT !.textDelta = <<>>], Behind(o.textDelta, snapshot))

ClaudeThinking(m, snapshot) ==
  LET o == [m EXCEPT !.thinkDelta = <<>>]
  IN  IF IsPrefix(m.thinkDelta, snapshot) THEN Think(o, Behind(m.thinkDelta, snapshot), TRUE)
      ELSE Think(CloseThinking(o), snapshot, TRUE)

ClaudeToolUse(m, item) == Announce(CloseText(CloseThinking(m)), item)
ClaudeToolResult(m, item) == Conclude(m, item)

\* The result repeats the answer; it is text only where there was none.
ClaudeResult(m, answer) ==
  LET o == CloseThinking(m)
  IN  IF m.wrote THEN CloseText(o) ELSE CloseText(AppendText(CloseText(o), answer))

\* The end of the output of run_cli_jsonl: something is always said.
CliEnd(m, code, remark) ==
  LET ended == Emit(CloseText(m), <<Event("cli_session", None)>>)
  IN  IF code # 0 THEN ended
      ELSE Emit(IF m.wrote \/ m.text # None THEN ended ELSE CloseText(AppendText(ended, remark)),
                <<Event("final", None)>>)
=============================================================================
