---------------------------- MODULE RunExclusion ----------------------------
(***************************************************************************)
(* What the request limiter promises: at most one user, a run or a control *)
(* operation, inside each session, and at most MaxSlots runs in all.       *)
(***************************************************************************)
EXTENDS Naturals, FiniteSets

CONSTANTS Runs, Controls, Sessions, SessionOf, MaxSlots

VARIABLE inside       \* the users that may change their session

Rivals(u) == {v \in inside : SessionOf[v] = SessionOf[u]}

Init == inside = {}

Enter(u) ==
  /\ u \notin inside
  /\ Rivals(u) = {}
  /\ u \in Runs => Cardinality(inside \cap Runs) < MaxSlots
  /\ inside' = inside \cup {u}

Exit(u) ==
  /\ u \in inside
  /\ inside' = inside \ {u}

Next == \E u \in Runs \cup Controls : Enter(u) \/ Exit(u)

Spec == Init /\ [][Next]_inside
=============================================================================
