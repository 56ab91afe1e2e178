-------------------------- MODULE MCRequestLimiter --------------------------
(* Five runs of two sessions, and a control operation on the first session. *)
EXTENDS RequestLimiter, TLC

CONSTANTS r1, r2, r3, r4, r5, c1, s1, s2

TwoSessions ==
  (r1 :> s1) @@ (r2 :> s1) @@ (r3 :> s1) @@ (r4 :> s2) @@ (r5 :> s2) @@ (c1 :> s1)
=============================================================================
