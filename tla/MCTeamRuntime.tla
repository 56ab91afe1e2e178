--------------------------- MODULE MCTeamRuntime ---------------------------
(* Small teams: a supervisor lead, workers w1 and w2, and two tasks.        *)
EXTENDS TeamRuntime, TLC, FiniteSets

CONSTANTS lead, w1, w2, t1, t2

\* t2 needs the result of t1
Chain == t1 :> {} @@ t2 :> {t1}

\* two independent tasks
Parallel == t1 :> {} @@ t2 :> {}

\* a single task
Alone == t1 :> {}

Workers == Permutations({w1, w2})
=============================================================================
