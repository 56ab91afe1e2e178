-------------------------- MODULE MCScheduledTasks --------------------------
(* Instances of ScheduledTasks for TLC.                                     *)
EXTENDS ScheduledTasks, TLC

CONSTANTS a, b

\* once at 2; due at 1 and at 3
OnceAndTwice == {[once |-> TRUE, at |-> {2}], [once |-> FALSE, at |-> {1, 3}]}

TwoTasks == Permutations({a, b})
=============================================================================
