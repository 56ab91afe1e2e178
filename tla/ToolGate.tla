------------------------------ MODULE ToolGate ------------------------------
(***************************************************************************)
(* backend/permissions/rules.py and backend/tools: what becomes of a tool   *)
(* call that a model asks for, before anything is executed. A tool stands   *)
(* for a tool with its arguments: the subjects its permission is asked for, *)
(* whether it only reads, and what it wants beyond the sandbox.             *)
(***************************************************************************)
EXTENDS Naturals, Sequences, FiniteSets, FiniteSetsExt

CONSTANTS
  Tools,
  Profile,   \* of a tool: [source, subjects, readOnly, wants]
  Rules,     \* the rules in the order of their files: [tools, subjects, behavior]
  Default,   \* K_AGENT_PERMISSION_DEFAULT
  Skills,    \* the tools that load a skill
  Listed,    \* the tools the skill allows, Skill itself included
  Questions  \* the tools that only ask the user (AskUserQuestion)

Behaviors == {"allow", "ask", "deny"}
Wants == {"nothing", "outside", "vague", "reachable"}

ASSUME ToolsAssumption ==
  /\ Skills \subseteq Listed /\ Listed \subseteq Tools /\ Questions \subseteq Tools
  /\ Skills \cap Questions = {} /\ Default \in Behaviors
  /\ \A t \in Tools :
       /\ Profile[t].source \in {"local", "mcp"} /\ Profile[t].wants \in Wants
       /\ Profile[t].readOnly \in BOOLEAN /\ IsFiniteSet(Profile[t].subjects)
       /\ Profile[t].subjects # {}
       /\ Profile[t].source = "mcp" => Profile[t].wants = "nothing"
  /\ DOMAIN Rules \subseteq Nat /\ \A i \in DOMAIN Rules : Rules[i].behavior \in Behaviors

-----------------------------------------------------------------------------
(* The rules.                                                              *)

Matching(tool, subject) ==
  {i \in DOMAIN Rules : tool \in Rules[i].tools /\ subject \in Rules[i].subjects}

\* The first rule that allows or denies decides; a rule that asks only waits for one.
CheckPermission(tool, subject) ==
  LET hits == Matching(tool, subject)
      decisive == {i \in hits : Rules[i].behavior # "ask"}
  IN  CASE decisive # {} -> Rules[Min(decisive)].behavior
        [] decisive = {} /\ hits # {} -> "ask"
        [] OTHER -> Default

\* The strictest decision over the subjects of a call.
CheckPermissions(tool) ==
  LET all == {CheckPermission(tool, s) : s \in Profile[tool].subjects}
  IN  CASE "deny" \in all -> "deny"
        [] "deny" \notin all /\ "ask" \in all -> "ask"
        [] OTHER -> "allow"

\* Reading is never asked about; what wants to leave the sandbox always is, unless it
\* does not say for what, or for something the sandbox lets it reach anyway.
LocalDecision(tool, full) ==
  LET ruled == CheckPermissions(tool)
  IN  CASE full -> "allow"
        [] ~ full /\ Profile[tool].wants = "outside" -> "ask"
        [] ~ full /\ Profile[tool].wants \in {"vague", "reachable"} -> "deny"
        [] OTHER -> IF Profile[tool].readOnly /\ ruled = "ask" THEN "allow" ELSE ruled

McpDecision(tool, full) == IF full THEN "allow" ELSE CheckPermissions(tool)

Decision(tool, full) ==
  IF Profile[tool].source = "local" THEN LocalDecision(tool, full) ELSE McpDecision(tool, full)

-----------------------------------------------------------------------------
(* The gate before execution. scope is the tools the active skill allows,   *)
(* auth the call the user has approved, or NoCall.                         *)

NoCall == 0

Forbidden(tool, scope, full) == ~ full /\ tool \notin scope

\* A slip: any approval lets any call through.
GateLoose(call, scope, auth, full) ==
  CASE Forbidden(call.tool, scope, full) -> "refuse"
    [] call.tool \in Questions -> "ask"
    [] auth # NoCall -> "run"
    [] OTHER -> CASE Decision(call.tool, full) = "allow" -> "run"
                  [] Decision(call.tool, full) = "ask" -> "ask"
                  [] OTHER -> "refuse"

\* The allowlist of a skill comes first; a question never gets further than its card;
\* the user's approval is for one call, with the arguments it was given for.
Gate(call, scope, auth, full) ==
  CASE Forbidden(call.tool, scope, full) -> "refuse"
    [] ~ Forbidden(call.tool, scope, full) /\ call.tool \in Questions -> "ask"
    [] OTHER -> CASE auth = call.id \/ Decision(call.tool, full) = "allow" -> "run"
                  [] auth # call.id /\ Decision(call.tool, full) = "ask" -> "ask"
                  [] OTHER -> "refuse"

\* What a successful call changes for the calls after it.
Effects(tool, scope) == IF tool \in Skills THEN Listed ELSE scope

\* The answer to a card, as the call it was for sees it on resume: answers and refusals
\* are results without an execution.
ResumeOutcome(tool, decision) ==
  IF tool \in Questions \/ decision # "approve" THEN "observe" ELSE "authorize"
=============================================================================
