----------------------------- MODULE AgentLoop -----------------------------
(***************************************************************************)
(* backend/agent/react_agent.py, driven by backend/runners/k_agent.py and   *)
(* backend/approvals.py: the reason-and-act loop of one conversation turn.  *)
(* A turn is a chain of Backend calls: a run of the user's may be           *)
(* interrupted by cards, each answered by a run that takes the loop up at   *)
(* the tool it stopped at, and within a run a compaction ends one call and  *)
(* opens the next with a summary in place of the older messages.            *)
(* What becomes of its events is the matter of RunnerStream.               *)
(***************************************************************************)
EXTENDS Integers, ToolGate, ContextWindow

CONSTANTS
  Histories,      \* conversations as the Access Layer may hand them out
  Batches,        \* what a round may ask for: sequences of tools
  MaxIterations,  \* max_model_iterations
  MaxCompactions  \* full compactions of a public run: 2

Call == [id : Nat, tool : Tools]
Message == [role : {"user", "assistant", "tool"}, id : Nat, text : BOOLEAN, calls : Seq(Call)]
Request == Said("user", 0)

ASSUME LoopAssumption ==
  /\ MaxIterations \in Nat /\ MaxCompactions \in Nat
  /\ Batches \subseteq Seq(Tools) \ {<<>>}

\* A conversation as runs leave it that were broken off anywhere: calls may be without a
\* result and results without a call, but a result that answers a call stands behind it with
\* nothing but results between, and no call was answered twice.
BrokenOffAnywhere(ms) ==
  /\ ms \in Seq(Message)
  /\ \A i \in DOMAIN ms : CallIds(ms[i]) # {} => ~ IsResult(ms[i])
  /\ \A i, j \in DOMAIN ms : \A k \in DOMAIN ms[i].calls, l \in DOMAIN ms[j].calls :
       ms[i].calls[k].id = ms[j].calls[l].id => i = j /\ k = l
  /\ \A i \in {n \in DOMAIN ms : IsResult(ms[n])} :
       /\ \A j \in DOMAIN ms : IsResult(ms[j]) /\ ms[j].id = ms[i].id => j = i
       /\ \A j \in DOMAIN ms : ms[i].id \in CallIds(ms[j]) =>
            j < i /\ \A n \in (j + 1)..i : IsResult(ms[n])

ASSUME HistoryAssumption == \A h \in Histories : BrokenOffAnywhere(h)

VARIABLES
  pc,         \* where the Backend is; idle: no call is open
  full,       \* permissionMode of the public run is full_access
  msgs,       \* the messages the model is given
  covered,    \* the messages that a summary stands for
  iter,       \* iteration
  batch,      \* the calls of the round, in order
  at,         \* pendingIndex, from 1
  scope,      \* the allowlist in tool_effect_state; Tools when there is none
  auth,       \* _resume_authorization: the call approved by the user
  told,       \* the call whose answer is a result already
  tried,      \* auto_compact_attempted
  compacts,   \* compactCount of the continuation
  held,       \* the checkpoint the Access Layer keeps
  past,       \* all messages of the turn (not in the code)
  ran,        \* calls executed in this turn, in order (not in the code)
  approved    \* calls the user approved (not in the code)

window == <<msgs, covered, past>>
round == <<iter, batch, at>>
rights == <<full, scope, auth, told>>
limits == <<tried, compacts>>
book == <<ran, approved>>
vars == <<pc, window, round, rights, limits, held, book>>

Nothing == [kind |-> "nothing"]
Current == batch[at]

Init ==
  /\ pc = "idle" /\ full = FALSE /\ msgs = <<>> /\ covered = <<>> /\ iter = 0 /\ batch = <<>>
  /\ at = 0 /\ scope = Tools /\ auth = NoCall /\ told = NoCall /\ tried = FALSE
  /\ compacts = 0 /\ held = Nothing
  /\ past = <<>> /\ ran = <<>> /\ approved = {}

-----------------------------------------------------------------------------
(* Calls of the Access Layer.                                              *)

\* New input; open cards are dismissed by it.
Begin ==
  /\ pc = "idle" /\ pc' = "connecting"
  /\ \E h \in Histories : msgs' = PairToolMessages(Append(h, Request))
  /\ full' \in BOOLEAN
  /\ past' = msgs' /\ covered' = <<>> /\ iter' = 0 /\ batch' = <<>> /\ at' = 0
  /\ scope' = Tools /\ auth' = NoCall /\ told' = NoCall /\ tried' = FALSE
  /\ compacts' = 0 /\ held' = Nothing /\ ran' = <<>> /\ approved' = {}

\* The answer to the card: the round goes on at the call it was for, with the messages and
\* the allowlist of the checkpoint. That a card is answered once is the Access Layer's part.
Resume(decision) ==
  /\ pc = "idle" /\ held.kind = "boundary" /\ pc' = "connecting"
  /\ LET call == held.batch[held.at]
         outcome == ResumeOutcome(call.tool, decision)
     IN  /\ auth' = IF outcome = "authorize" THEN call.id ELSE NoCall
         /\ told' = IF outcome = "observe" THEN call.id ELSE NoCall
         /\ approved' = IF decision = "approve" THEN approved \cup {call.id} ELSE approved
  /\ msgs' = held.msgs /\ iter' = held.iter /\ batch' = held.batch /\ at' = held.at
  /\ scope' = held.scope /\ full' \in BOOLEAN
  /\ held' = Nothing /\ tried' = FALSE /\ compacts' = 0
  /\ UNCHANGED <<covered, past, ran>>

\* A slip: the allowlist of the skill does not survive the compaction.
ContinueFree ==
  /\ pc = "proposed" /\ pc' = "connecting"
  /\ msgs' = held.msgs /\ covered' = held.covered /\ iter' = held.iter /\ scope' = Tools
  /\ compacts' = held.compacts /\ held' = Nothing
  /\ tried' = FALSE /\ auth' = NoCall /\ told' = NoCall /\ batch' = <<>> /\ at' = 0
  /\ UNCHANGED <<full, past, book>>

\* The Access Layer has committed the summary and opens the call that goes on from it.
Continue ==
  /\ pc = "proposed" /\ pc' = "connecting"
  /\ msgs' = held.msgs /\ covered' = held.covered /\ iter' = held.iter /\ scope' = held.scope
  /\ compacts' = held.compacts /\ held' = Nothing
  /\ tried' = FALSE /\ auth' = NoCall /\ told' = NoCall /\ batch' = <<>> /\ at' = 0
  /\ UNCHANGED <<full, past, book>>

\* A run that is stopped, a client that leaves, a summary that cannot be committed.
Cancel ==
  /\ pc # "idle" /\ pc' = "idle" /\ held' = Nothing
  /\ UNCHANGED <<window, round, rights, limits, book>>

-----------------------------------------------------------------------------
(* The broker.                                                             *)

\* The card, in front of every event that waits behind it; the run is over.
ShowCard ==
  /\ pc = "asked" /\ pc' = "idle"
  /\ held' = [kind |-> "boundary", msgs |-> msgs, iter |-> iter, batch |-> batch,
              at |-> at, scope |-> scope]
  /\ UNCHANGED <<window, round, rights, limits, book>>

\* The terminal event, behind all others.
Close ==
  /\ pc = "closing" /\ pc' = "idle"
  /\ UNCHANGED <<window, round, rights, limits, held, book>>

-----------------------------------------------------------------------------
(* The loop.                                                               *)

\* The runtime, its MCP connections included: a call that resumes goes on with the tools.
Connect ==
  /\ pc = "connecting"
  /\ pc' \in {IF batch = <<>> THEN "observe" ELSE "act", "closing"}
  /\ UNCHANGED <<window, round, rights, limits, held, book>>

\* Out of rounds: the loop says so and is done.
Limit ==
  /\ pc = "observe" /\ iter > MaxIterations /\ pc' = "closing"
  /\ UNCHANGED <<window, round, rights, limits, held, book>>

\* The budget is measured before every request. At the hard limit no request is made: the
\* run fails, also where the loop attempts a last compaction first, because that one leaves
\* the scope of the agent without a result.
Observe ==
  /\ pc = "observe" /\ iter <= MaxIterations
  /\ \E needs, hard, enabled \in BOOLEAN :
       LET compacting == needs /\ enabled /\ ~ tried
       IN  /\ tried' = (tried \/ compacting)
           /\ pc' = CASE compacting /\ hard -> "squeezed"
                      [] compacting /\ ~ hard -> "summarise"
                      [] ~ compacting /\ hard -> "closing"
                      [] OTHER -> "reason"
  /\ UNCHANGED <<window, round, rights, compacts, held, book>>

\* What the next call needs, with the round that has not reached the model yet.
Continuation(part) ==
  [kind |-> "continuation", msgs |-> part.tail, covered |-> covered \o part.covered,
   iter |-> iter, scope |-> scope, compacts |-> compacts + 1]

\* A summary of some prefix, after the request for it was shortened up to two times.
Summarised ==
  /\ pc \in {"summarise", "squeezed"}
  /\ \E cut \in Cuts(msgs), k \in 0..2 : held' = Continuation(Split(msgs, cut, k))
  /\ compacts < MaxCompactions
  /\ pc' = "proposed"
  /\ UNCHANGED <<window, round, rights, tried, compacts, book>>

\* One too many is an error; without a summary the request goes out as it is, if it can.
NotSummarised ==
  /\ pc \in {"summarise", "squeezed"}
  /\ \/ pc = "summarise" /\ pc' = "reason"
     \/ (pc = "squeezed" \/ compacts >= MaxCompactions) /\ pc' = "closing"
  /\ UNCHANGED <<window, round, rights, limits, held, book>>

Numbered(tools) ==
  [k \in DOMAIN tools |-> [id |-> 10 * Len(past) + k, tool |-> tools[k]]]

\* The model asks for tools.
ReasonCalls ==
  /\ pc = "reason" /\ pc' = "act"
  /\ \E tools \in Batches : batch' = Numbered(tools)
  /\ at' = 1
  /\ LET m == Calling(10 * Len(past), batch')
     IN  msgs' = Append(msgs, m) /\ past' = Append(past, m)
  /\ UNCHANGED <<covered, iter, rights, limits, held, ran, approved>>

\* It has answered, or it failed: an error of the provider, an idle timeout, no result, a
\* context that is too long after all.
ReasonEnds ==
  /\ pc = "reason" /\ pc' = "closing"
  /\ UNCHANGED <<window, round, rights, limits, held, ran, approved>>

\* The result is what the model reads next; after the last one a new round begins.
Observed ==
  LET m == Result(Current.id)
      last == at = Len(batch)
  IN  /\ msgs' = Append(msgs, m) /\ past' = Append(past, m)
      /\ pc' = IF last THEN "observe" ELSE "act"
      /\ iter' = IF last THEN iter + 1 ELSE iter
      /\ batch' = IF last THEN <<>> ELSE batch
      /\ at' = IF last THEN 0 ELSE at + 1

\* The tool resolves to nothing, or its arguments do not fit. What the user has approved
\* has fitted once, but the server of an MCP tool may have gone since.
Unusable(call) == call.id # auth \/ Profile[call.tool].source = "mcp"

\* The answers to a question, or a refusal, are the result.
ActTold ==
  /\ pc = "act" /\ Current.id = told
  /\ Observed
  /\ UNCHANGED <<covered, rights, limits, held, book>>

ActRefused ==
  /\ pc = "act" /\ Current.id # told
  /\ Unusable(Current) \/ Gate(Current, scope, auth, full) = "refuse"
  /\ Observed
  /\ UNCHANGED <<covered, rights, limits, held, book>>

ActAsks ==
  /\ pc = "act" /\ Current.id # told /\ Gate(Current, scope, auth, full) = "ask"
  /\ pc' = "asked"
  /\ UNCHANGED <<window, round, rights, limits, held, book>>

\* The approval is used up by the call it is for.
ActRuns ==
  /\ pc = "act" /\ Current.id # told /\ Gate(Current, scope, auth, full) = "run"
  /\ pc' = "perform"
  /\ auth' = IF auth = Current.id THEN NoCall ELSE auth
  /\ ran' = Append(ran, [id |-> Current.id, tool |-> Current.tool, full |-> full, ok |-> FALSE])
  /\ UNCHANGED <<window, round, full, scope, told, limits, held, approved>>

\* An error of the tool, its timeout included, is a result like any other, without effects.
ToolEnds(ok) ==
  /\ pc = "perform"
  /\ Observed
  /\ scope' = IF ok THEN Effects(Current.tool, scope) ELSE scope
  /\ ran' = [ran EXCEPT ![Len(ran)].ok = ok]
  /\ UNCHANGED <<covered, full, auth, told, limits, held, approved>>

Next ==
  \/ Begin \/ Continue \/ Cancel \/ ShowCard \/ Close
  \/ \E d \in {"approve", "deny", "cancelled"} : Resume(d)
  \/ Connect \/ Limit \/ Observe \/ Summarised \/ NotSummarised
  \/ ReasonCalls \/ ReasonEnds \/ ActTold \/ ActRefused \/ ActAsks \/ ActRuns
  \/ \E ok \in BOOLEAN : ToolEnds(ok)

Spec == Init /\ [][Next]_vars

-----------------------------------------------------------------------------
(* Properties.                                                             *)

\* What goes to the provider is a conversation it takes: whatever was broken off in the
\* past, cut off by a compaction or taken up at a card, every call has its result next to
\* it (pair_tool_messages, group_api_rounds, the resumed messages of react_agent.py:345-460).
PairedHistory == pc = "reason" => WellPaired(msgs)

\* The summary and the messages behind it are the whole turn, each message once: nothing
\* falls between them, also when the summary had to be made of less (compact.py:100-140).
NothingForgotten == pc = "reason" => covered \o msgs = past

\* A call is executed once at most, and only if the user approved this very call, or the
\* rules allow all that it does, or the run has full access (dispatcher.py:172-228,
\* permissions.py:103-145): across cards, resumed rounds and compactions.
OnceAndGranted ==
  /\ \A i, j \in DOMAIN ran : i # j => ran[i].id # ran[j].id
  /\ \A i \in DOMAIN ran :
       LET t == ran[i].tool
       IN  /\ t \notin Questions
           /\ \/ ran[i].full \/ ran[i].id \in approved
              \/ Profile[t].wants = "nothing" /\ (Profile[t].readOnly \/
                   \A s \in Profile[t].subjects : CheckPermission(t, s) = "allow")

\* Once a skill has been loaded, no tool it does not list is executed for the rest of the
\* turn, through cards and compactions (checkpoint_state, restore_state).
ScopeKept ==
  \A i, j \in DOMAIN ran :
    i < j /\ ran[i].tool \in Skills /\ ran[i].ok /\ ~ ran[j].full => ran[j].tool \in Listed

=============================================================================
