----------------------------- MODULE AguiStream -----------------------------
(***************************************************************************)
(* backend/agui.py: how the events of a runner become the events of an      *)
(* AG-UI run on the wire.  Runners describe reasoning in two ways: as a     *)
(* stream (start, delta, end) and as snapshots of one step whose detail     *)
(* grows; on the wire there are only streams, one open at a time.           *)
(***************************************************************************)
EXTENDS Naturals, SequencesExt

None == 0

\* An event of a runner: the message, step or call it is about, a sequence of pieces of
\* text and, for a thinking snapshot, whether the step goes on.
Event(type, id) == [type |-> type, id |-> id, text |-> <<>>, active |-> FALSE]
Delta(type, id, text) == [Event(type, id) EXCEPT !.text = text]
Thinking(id, detail, active) == [Delta("thinking", id, detail) EXCEPT !.active = active]

\* An event on the wire.
Wire(type, id) == [type |-> type, id |-> id, text |-> <<>>]
WireText(type, id, text) == IF text = <<>> THEN <<>> ELSE <<[type |-> type, id |-> id, text |-> text]>>

-----------------------------------------------------------------------------
(* The reasoning that is open.  outer is the REASONING block, named for the *)
(* step it was opened for, inner the message in it, detail what of it is    *)
(* out, ended the steps that are over.                                     *)

NoReasoning == [outer |-> None, inner |-> None, detail |-> <<>>, ended |-> {}]

Closed(t) ==
  [t EXCEPT !.outer = None, !.inner = None, !.detail = <<>>,
            !.ended = IF t.outer # None /\ t.inner # None THEN @ \cup {t.inner} ELSE @]

\* close_reasoning_events
CloseReasoning(t) ==
  IF t.outer = None THEN <<>>
  ELSE (IF t.inner = None THEN <<>> ELSE <<Wire("reasoning_message_end", t.inner)>>)
       \o <<Wire("reasoning_end", t.outer)>>

Late(t, e) == ~ e.active /\ e.id \in t.ended /\ t.inner # e.id

\* The next snapshot of the open step adds a tail, or takes the place of what was out.
Grown(t, e) ==
  IF IsPrefix(t.detail, e.text)
  THEN WireText("reasoning_content", e.id, SubSeq(e.text, Len(t.detail) + 1, Len(e.text)))
  ELSE <<Wire("reasoning_message_end", e.id), Wire("reasoning_message_start", e.id)>>
       \o WireText("reasoning_content", e.id, e.text)

\* A new step ends the one that is open.
Entered(t, e) ==
  (IF t.inner = None THEN <<>> ELSE <<Wire("reasoning_message_end", t.inner)>>)
  \o <<Wire("reasoning_message_start", e.id)>> \o WireText("reasoning_content", e.id, e.text)

\* reasoning_events
SnapshotWire(t, e) ==
  IF Late(t, e) THEN <<>>
  ELSE (IF t.outer = None THEN <<Wire("reasoning_start", e.id)>> ELSE <<>>)
       \o (IF t.inner = e.id THEN Grown(t, e) ELSE Entered(t, e))
       \o (IF e.active THEN <<>>
           ELSE <<Wire("reasoning_message_end", e.id),
                  Wire("reasoning_end", IF t.outer = None THEN e.id ELSE t.outer)>>)

SnapshotState(t, e) ==
  LET left == IF t.inner \in {None, e.id} THEN t.ended ELSE t.ended \cup {t.inner}
  IN  CASE Late(t, e) -> t
        [] ~ Late(t, e) /\ e.active ->
             [outer |-> IF t.outer = None THEN e.id ELSE t.outer, inner |-> e.id,
              detail |-> e.text, ended |-> left]
        [] OTHER -> [NoReasoning EXCEPT !.ended = left \cup {e.id}]

-----------------------------------------------------------------------------
(* The events.                                                             *)

\* A slip: a tool call does not end the reasoning.
BoundaryTextOnly(e) ==
  \/ e.type \in {"reasoning_start", "message_start", "context", "final"}
  \/ e.type = "delta" /\ e.text # <<>>

\* Where reasoning ends whether or not its runner said so.
Boundary(e) ==
  \/ e.type \in {"reasoning_start", "message_start", "tool_start", "context", "final"}
  \/ e.type = "delta" /\ e.text # <<>>

\* An event that cannot be translated: reasoning that is not open, and the sentinel of
\* the command line runners, which has no payload.
Untranslatable(t, e) ==
  \/ e.type \in {"reasoning_delta", "reasoning_end"} /\ t.inner # e.id
  \/ e.type = "cli_error"

Plain(e) ==
  CASE e.type = "reasoning_start" ->
         <<Wire("reasoning_start", e.id), Wire("reasoning_message_start", e.id)>>
    [] e.type = "reasoning_delta" -> WireText("reasoning_content", e.id, e.text)
    [] e.type = "reasoning_end" ->
         <<Wire("reasoning_message_end", e.id), Wire("reasoning_end", e.id)>>
    [] e.type = "message_start" -> <<Wire("text_start", e.id)>>
    [] e.type = "delta" -> WireText("text_content", e.id, e.text)
    [] e.type = "message_end" -> <<Wire("text_end", e.id)>>
    [] e.type = "tool_start" -> <<Wire("tool_call", e.id)>>
    [] e.type = "tool_output" -> <<Wire("tool_output", e.id)>>
    [] e.type = "tool_result" -> <<Wire("tool_result", e.id)>>
    [] e.type = "final" -> <<Wire("run_finished", None)>>
    [] OTHER -> <<Wire("custom", None)>>

\* RUN_ERROR, behind the end of the reasoning.
Failed(t) == CloseReasoning(t) \o <<Wire("run_error", None)>>

WireOf(t, e) ==
  CASE Untranslatable(t, e) -> Failed(t)
    [] ~ Untranslatable(t, e) /\ e.type = "thinking" -> SnapshotWire(t, e)
    [] OTHER -> (IF Boundary(e) THEN CloseReasoning(t) ELSE <<>>) \o Plain(e)

StateAfter(t, e) ==
  CASE e.type = "thinking" -> SnapshotState(t, e)
    [] e.type = "reasoning_start" -> [Closed(t) EXCEPT !.outer = e.id, !.inner = e.id]
    [] e.type = "reasoning_end" -> Closed(t)
    [] OTHER -> IF Boundary(e) THEN Closed(t) ELSE t

\* The card: its snapshots and the end of the run with an interrupt, nothing else.
CardWire == <<Wire("custom", None), Wire("run_interrupted", None)>>
=============================================================================
