------------------------------ MODULE McpManager ------------------------------
(***************************************************************************)
(* backend/mcp_tool/client.py above the pool: what a McpClientManager does *)
(* with the connection it leased.  It lists the server's tools, and waits  *)
(* for them as long as the server likes; a call of one of them goes out up *)
(* to 1 + MaxRetries times: an attempt is bounded by a timeout, and what   *)
(* went wrong decides whether it is sent again.  A retry does not connect  *)
(* again: it is the pool that does, for the next user, once this one has   *)
(* returned its lease.                                                     *)
(***************************************************************************)
EXTENDS McpPool

CONSTANT MaxRetries     \* max_call_retries of the settings

ASSUME RetriesAssumption == MaxRetries \in Nat

VARIABLES
  tools,       \* users whose list_tools has given the server's tools
  call,        \* what each user awaits: list_tools ("listing"), or call_tool's answer
               \* ("sent") or next attempt ("backoff")
  attempt      \* the attempt it is at, counted from 0

callVars == <<tools, call, attempt>>
allVars == <<vars, callVars>>

\* What the server may reply.  reset: a failure that reads as transient; quote: a good
\* answer that happens to contain such words.
Replies == {"good", "refused", "reset", "quote"}

ManagerInit ==
  /\ Init
  /\ tools = {}
  /\ call = [u \in Users |-> "none"]
  /\ attempt = [u \in Users |-> 0]

\* The manager's dictionary of sessions goes with the lease, and the task that awaits a
\* call is cancelled with the run: connect_all, close_all.
WithTheLease ==
  LET out == {u \in Users : pc'[u] # "using"}
  IN /\ tools' = tools \ out
     /\ call' = [u \in Users |-> IF u \in out THEN "none" ELSE call[u]]
     /\ attempt' = [u \in Users |-> IF u \in out THEN 0 ELSE attempt[u]]

\* A session that is dead offers nothing, and the run goes on without the server's tools.
Offers(u) == Alive(mine[u])

\* tools/list is sent, before a call of the tools
StartList(u) ==
  /\ pc[u] = "using" /\ u \notin tools /\ call[u] = "none"
  /\ Offers(u)
  /\ call' = [call EXCEPT ![u] = "listing"]
  /\ UNCHANGED <<vars, tools, attempt>>

\* The server's answer.  No timeout bounds the wait for it.
Listed(u) ==
  /\ call[u] = "listing" /\ Running(mine[u])
  /\ tools' = tools \cup {u}
  /\ call' = [call EXCEPT ![u] = "none"]
  /\ UNCHANGED <<vars, attempt>>

\* An error, or the end of the connection: the run goes on without the tools.
ListFails(u) ==
  /\ call[u] = "listing"
  /\ call' = [call EXCEPT ![u] = "none"]
  /\ UNCHANGED <<vars, tools, attempt>>

\* An attempt: McpSession.call_tool raises at once when the connection is gone, and
\* that error is not worth a retry.
Attempt(u, n) ==
  IF Alive(mine[u])
  THEN /\ call' = [call EXCEPT ![u] = "sent"]
       /\ attempt' = [attempt EXCEPT ![u] = n]
  ELSE /\ call' = [call EXCEPT ![u] = "none"]
       /\ attempt' = [attempt EXCEPT ![u] = 0]

Call(u) ==
  /\ pc[u] = "using" /\ u \in tools /\ call[u] = "none"
  /\ Attempt(u, 0)
  /\ UNCHANGED <<vars, tools>>

\* _is_transient_result looks for its words in an error and in a good answer alike
Transient(a) == a \in {"reset", "quote"}

\* The attempt is over: another one after a delay, or the end of the call.
Outcome(u, again) ==
  IF again /\ attempt[u] < MaxRetries
  THEN /\ call' = [call EXCEPT ![u] = "backoff"]
       /\ UNCHANGED attempt
  ELSE /\ call' = [call EXCEPT ![u] = "none"]
       /\ attempt' = [attempt EXCEPT ![u] = 0]

Answer(u) ==
  /\ call[u] = "sent" /\ Running(mine[u])
  /\ \E a \in Replies : Outcome(u, Transient(a))
  /\ UNCHANGED <<vars, tools>>

\* The connection ends or fails under the call; some of the errors are retried
\* (OSError, ConnectionError, EOFError), those of the protocol are not.
CallBreaks(u) ==
  /\ call[u] = "sent" /\ ~ Running(mine[u])
  /\ \E again \in BOOLEAN : Outcome(u, again)
  /\ UNCHANGED <<vars, tools>>

\* _call_timeout; TimeoutError is always retried
CallTimesOut(u) ==
  /\ call[u] = "sent"
  /\ Outcome(u, TRUE)
  /\ UNCHANGED <<vars, tools>>

\* A slip: the attempts are not counted
SameAttempt(u) == attempt[u]

NextAttempt(u) == attempt[u] + 1

\* the delay before the next attempt is over
Retry(u) ==
  /\ call[u] = "backoff"
  /\ Attempt(u, NextAttempt(u))
  /\ UNCHANGED <<vars, tools>>

PoolStep == Next /\ WithTheLease

CallStep(u) ==
  \/ StartList(u) \/ Listed(u) \/ ListFails(u)
  \/ Call(u) \/ Answer(u) \/ CallBreaks(u) \/ CallTimesOut(u) \/ Retry(u)

ManagerNext == PoolStep \/ \E u \in Users : CallStep(u)

(* Fairness: closing a connection, connecting and a call are bounded by timeouts, a   *)
(* delay ends, and asyncio.Lock serves its waiters in order.  Nothing is asked of the *)
(* server, of the runs or of the network: a tools/list may stay without an answer.    *)
Fairness ==
  \A u \in Users :
    /\ WF_allVars(Evicted(u) /\ WithTheLease)
    /\ SF_allVars(EnterLock(u) /\ WithTheLease)
    /\ SF_allVars(Release(u) /\ WithTheLease)
    /\ WF_allVars(TimesOut(u) /\ WithTheLease)
    /\ WF_allVars(CallTimesOut(u))
    /\ WF_allVars(Retry(u))

ManagerSpec == ManagerInit /\ [][ManagerNext]_allVars /\ Fairness
-----------------------------------------------------------------------------
(* Properties.                                                             *)

ManagerTypeOK ==
  /\ TypeOK
  /\ tools \subseteq Users
  /\ call \in [Users -> {"none", "listing", "sent", "backoff"}]
  /\ attempt \in [Users -> 0 .. MaxRetries]

\* u waits for something that a timeout bounds.  The wait for tools/list is not bounded.
Waits(u) == pc[u] \notin {"idle", "using"} \/ call[u] \in {"sent", "backoff"}

\* Whoever waits for a lock of the pool, a connection, the answer to a call or its next
\* attempt comes out of it, also when another user is left waiting for tools/list: the
\* timeouts cover what the others do with a lock, and a lister holds a lease but no lock.
WaitsEnd == \A u \in Users : Waits(u) ~> ~ Waits(u)
=============================================================================
