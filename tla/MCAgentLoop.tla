---------------------------- MODULE MCAgentLoop ----------------------------
(* A small tool set, two rules and a conversation that was broken off.      *)
EXTENDS AgentLoop, TLC

CONSTANTS read, shell, erase, skill, question

Local(subjects, readOnly) ==
  [source |-> "local", subjects |-> subjects, readOnly |-> readOnly, wants |-> "nothing"]

Profiles ==
  read :> Local({"file"}, TRUE) @@ shell :> Local({"list", "remove"}, FALSE) @@
  erase :> [Local({"record"}, FALSE) EXCEPT !.source = "mcp"] @@
  skill :> Local({"name"}, FALSE) @@ question :> Local({"user"}, FALSE)

\* the skill may be loaded, and a part of what the shell is to do is allowed
TwoRules ==
  <<[tools |-> {skill}, subjects |-> {"name"}, behavior |-> "allow"],
    [tools |-> {shell}, subjects |-> {"list"}, behavior |-> "allow"]>>

\* a round, its second call unanswered, then a call nobody answered
BrokenOff ==
  {<<Said("user", 101),
     Calling(102, <<[id |-> 1, tool |-> read], [id |-> 2, tool |-> read]>>), Result(1),
     Calling(103, <<[id |-> 3, tool |-> erase]>>),
     Said("assistant", 104)>>}

Rounds == {<<skill, erase>>, <<erase, shell>>, <<question, read>>}
=============================================================================
