----------------------------- MODULE MCMcpManager -----------------------------
(* Two users of one server: keys share nothing but the pool's lock. *)
EXTENDS McpManager

CONSTANTS u1, u2, k1

OneKey == [u \in Users |-> k1]
=============================================================================
