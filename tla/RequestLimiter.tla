--------------------------- MODULE RequestLimiter ---------------------------
(***************************************************************************)
(* access_layer/concurrency.py: a global slot and the lock of its session  *)
(* guard every agent run; control operations take the lock of an idle      *)
(* session.  asyncio's Semaphore and Lock are modelled as they work: a     *)
(* release wakes a waiter, which resumes later, and until then others run. *)
(* Runs and Controls stand for the places of concurrent requests: a place  *)
(* is used again once its request was answered.                            *)
(***************************************************************************)
EXTENDS Naturals, Sequences, FiniteSets

CONSTANTS
  Runs,        \* places of agent runs (gateway.run, recovery of continuations)
  Controls,    \* places of control operations (compact, context reset)
  Sessions,
  SessionOf,   \* the session each place works on
  MaxSlots     \* max_concurrent_requests

Users == Runs \cup Controls

ASSUME UsersAssumption ==
  /\ Runs \cap Controls = {}
  /\ SessionOf \in [Users -> Sessions]
ASSUME SlotsAssumption == MaxSlots \in Nat \ {0} /\ IsFiniteSet(Runs)

VARIABLES
  pc,          \* where each request is
  slots,       \* value of the semaphore _request_slots
  slotQueue,   \* its waiters, the woken ones included
  locked,      \* _session_locks[s].locked()
  lockQueue    \* the waiters of each session's lock, the woken one included

vars == <<pc, slots, slotQueue, locked, lockQueue>>
slotVars == <<slots, slotQueue>>
lockVars == <<locked, lockQueue>>

\* idle: no request; hasSlot: between the two acquisitions; inside: in the body;
\* refused: answered 429 or 409
Places == {"idle", "slotWait", "slotWoken", "hasSlot",
           "lockWait", "lockWoken", "inside", "refused"}

Init ==
  /\ pc = [u \in Users |-> "idle"]
  /\ slots = MaxSlots
  /\ slotQueue = <<>>
  /\ locked = [s \in Sessions |-> FALSE]
  /\ lockQueue = [s \in Sessions |-> <<>>]

\* q without its element u
Without(q, u) ==
  LET k == CHOOSE i \in DOMAIN q : q[i] = u
  IN [i \in 1 .. Len(q) - 1 |-> IF i < k THEN q[i] ELSE q[i + 1]]

-----------------------------------------------------------------------------
(* The semaphore.                                                          *)

Unwoken(q, p) == {i \in DOMAIN q : p[q[i]] = "slotWait"}

\* Semaphore._wake_up_next, when it holds n free slots, its waiters are q, and
\* the requests are at p: the first waiter not yet woken is given a slot.
WakeSlot(n, q, p) ==
  \/ /\ n > 0
     /\ \E i \in Unwoken(q, p) :
          /\ \A j \in Unwoken(q, p) : i <= j
          /\ pc' = [p EXCEPT ![q[i]] = "slotWoken"]
     /\ slots' = n - 1
  \/ /\ n = 0 \/ Unwoken(q, p) = {}
     /\ slots' = n
     /\ pc' = p

\* Semaphore.acquire: at once if a slot is free and nobody waits
AskSlot(r) ==
  /\ pc[r] = "idle"
  /\ \/ /\ slots > 0 /\ slotQueue = <<>>
        /\ slots' = slots - 1
        /\ pc' = [pc EXCEPT ![r] = "hasSlot"]
        /\ UNCHANGED slotQueue
     \/ /\ slots = 0 \/ slotQueue # <<>>
        /\ slotQueue' = Append(slotQueue, r)
        /\ pc' = [pc EXCEPT ![r] = "slotWait"]
        /\ UNCHANGED slots
  /\ UNCHANGED lockVars

\* A woken waiter resumes; it wakes the next one if a slot is left.
TakeSlot(r) ==
  /\ pc[r] = "slotWoken"
  /\ slotQueue' = Without(slotQueue, r)
  /\ WakeSlot(slots, slotQueue', [pc EXCEPT ![r] = "hasSlot"])
  /\ UNCHANGED lockVars

\* wait_for gives up, at its timeout or because the request is cancelled; a slot
\* already given goes to the next waiter.
LeaveSlotQueue(r) ==
  /\ pc[r] \in {"slotWait", "slotWoken"}
  /\ slotQueue' = Without(slotQueue, r)
  /\ \/ /\ pc[r] = "slotWait"
        /\ pc' = [pc EXCEPT ![r] = "refused"]
        /\ UNCHANGED slots
     \/ /\ pc[r] = "slotWoken"
        /\ WakeSlot(slots + 1, slotQueue', [pc EXCEPT ![r] = "refused"])
  /\ UNCHANGED lockVars

-----------------------------------------------------------------------------
(* The lock of a session.                                                  *)

\* Lock._wake_up_first, with waiters q: the first one resumes some time later
WakeFirst(q, p) ==
  IF q # <<>> /\ p[Head(q)] = "lockWait"
  THEN [p EXCEPT ![Head(q)] = "lockWoken"]
  ELSE p

\* Lock.acquire of the session of u: at once if the lock is free and nobody waits
AcquireLock(u) ==
  LET s == SessionOf[u]
  IN \/ /\ ~ locked[s] /\ lockQueue[s] = <<>>
        /\ locked' = [locked EXCEPT ![s] = TRUE]
        /\ pc' = [pc EXCEPT ![u] = "inside"]
        /\ UNCHANGED lockQueue
     \/ /\ locked[s] \/ lockQueue[s] # <<>>
        /\ lockQueue' = [lockQueue EXCEPT ![s] = Append(@, u)]
        /\ pc' = [pc EXCEPT ![u] = "lockWait"]
        /\ UNCHANGED locked

AskLock(r) ==
  /\ pc[r] = "hasSlot"
  /\ AcquireLock(r)
  /\ UNCHANGED slotVars

\* protect_idle_session looks at the lock first
AskIdle(c) ==
  /\ pc[c] = "idle"
  /\ ~ locked[SessionOf[c]]
  /\ AcquireLock(c)
  /\ UNCHANGED slotVars

RefuseBusy(c) ==
  /\ pc[c] = "idle"
  /\ locked[SessionOf[c]]
  /\ pc' = [pc EXCEPT ![c] = "refused"]
  /\ UNCHANGED <<slotVars, lockVars>>

\* The woken waiter resumes; Lock.acquire does not look at the lock again.
TakeLock(u) ==
  LET s == SessionOf[u]
  IN /\ pc[u] = "lockWoken"
     /\ lockQueue' = [lockQueue EXCEPT ![s] = Without(@, u)]
     /\ locked' = [locked EXCEPT ![s] = TRUE]
     /\ pc' = [pc EXCEPT ![u] = "inside"]
     /\ UNCHANGED slotVars

\* A slip: the finally block releases the session lock without looking whether it was acquired
LeaveLockQueueReleasing(r) ==
  LET s == SessionOf[r]
      q == Without(lockQueue[s], r)
  IN /\ pc[r] \in {"lockWait", "lockWoken"}
     /\ lockQueue' = [lockQueue EXCEPT ![s] = q]
     /\ locked' = [locked EXCEPT ![s] = FALSE]
     /\ WakeSlot(slots + 1, slotQueue, WakeFirst(q, [pc EXCEPT ![r] = "refused"]))
     /\ UNCHANGED slotQueue

\* A slip: a run that gives up its wait for the lock keeps its slot
LeaveLockQueueLeaking(r) ==
  LET s == SessionOf[r]
      q == Without(lockQueue[s], r)
      p == [pc EXCEPT ![r] = "refused"]
  IN /\ pc[r] \in {"lockWait", "lockWoken"}
     /\ lockQueue' = [lockQueue EXCEPT ![s] = q]
     /\ pc' = IF locked[s] THEN p ELSE WakeFirst(q, p)
     /\ UNCHANGED <<slotVars, locked>>

\* The wait of a run for the lock times out or is cancelled; its finally block
\* returns the slot.  A lock that is free at that time goes to the next waiter.
LeaveLockQueue(r) ==
  LET s == SessionOf[r]
      q == Without(lockQueue[s], r)
      p == [pc EXCEPT ![r] = "refused"]
  IN /\ pc[r] \in {"lockWait", "lockWoken"}
     /\ lockQueue' = [lockQueue EXCEPT ![s] = q]
     /\ WakeSlot(slots + 1, slotQueue, IF locked[s] THEN p ELSE WakeFirst(q, p))
     /\ UNCHANGED <<slotQueue, locked>>

\* The lock of u's session is released.
Unlocked(u) ==
  LET s == SessionOf[u]
  IN WakeFirst(lockQueue[s], [pc EXCEPT ![u] = "idle"])

\* A slip: the body's end releases the slot only
ExitKeepingLock(r) ==
  /\ pc[r] = "inside"
  /\ WakeSlot(slots + 1, slotQueue, [pc EXCEPT ![r] = "idle"])
  /\ UNCHANGED <<slotQueue, lockVars>>

\* The body ends, fails or is cancelled: the finally block releases the lock,
\* then the slot.
Exit(r) ==
  /\ pc[r] = "inside"
  /\ locked' = [locked EXCEPT ![SessionOf[r]] = FALSE]
  /\ WakeSlot(slots + 1, slotQueue, Unlocked(r))
  /\ UNCHANGED <<slotQueue, lockQueue>>

ExitControl(c) ==
  /\ pc[c] = "inside"
  /\ locked' = [locked EXCEPT ![SessionOf[c]] = FALSE]
  /\ pc' = Unlocked(c)
  /\ UNCHANGED <<slotVars, lockQueue>>

\* The client has its answer.
Answered(u) ==
  /\ pc[u] = "refused"
  /\ pc' = [pc EXCEPT ![u] = "idle"]
  /\ UNCHANGED <<slotVars, lockVars>>

-----------------------------------------------------------------------------
RunStep(r) ==
  \/ AskSlot(r) \/ TakeSlot(r) \/ LeaveSlotQueue(r)
  \/ AskLock(r) \/ TakeLock(r) \/ LeaveLockQueue(r) \/ Exit(r)

ControlStep(c) ==
  AskIdle(c) \/ RefuseBusy(c) \/ TakeLock(c) \/ ExitControl(c)

Next ==
  \/ \E r \in Runs : RunStep(r)
  \/ \E c \in Controls : ControlStep(c)
  \/ \E u \in Users : Answered(u)

Spec == Init /\ [][Next]_vars

\* The event loop resumes what is ready, and runs and control operations end.
\* No timeout is needed for what follows, and none is assumed.
LiveSpec ==
  /\ Spec
  /\ \A r \in Runs : WF_vars(TakeSlot(r) \/ AskLock(r) \/ TakeLock(r)) /\ WF_vars(Exit(r))
  /\ \A c \in Controls : WF_vars(TakeLock(c)) /\ WF_vars(ExitControl(c))

-----------------------------------------------------------------------------
(* Properties.                                                             *)

TypeOK ==
  /\ pc \in [Users -> Places]
  /\ \A c \in Controls : pc[c] \notin {"slotWait", "slotWoken", "hasSlot"}
  /\ slots \in 0 .. MaxSlots
  /\ slotQueue \in Seq(Runs)
  /\ locked \in [Sessions -> BOOLEAN]
  /\ lockQueue \in [Sessions -> Seq(Users)]

\* Two requests are never inside one session together: neither two runs, which
\* would write its history against each other, nor a run and a compaction.
SessionExclusive ==
  \A u, v \in Users :
    pc[u] = "inside" /\ pc[v] = "inside" /\ SessionOf[u] = SessionOf[v] => u = v

HoldsSlot == {r \in Runs : pc[r] \in {"slotWoken", "hasSlot", "lockWait", "lockWoken", "inside"}}

\* No slot is lost or made up, whichever of the two waits is given up and
\* whenever: a free one or a run's.
SlotsKept == slots + Cardinality(HoldsSlot) = MaxSlots

Inside == {u \in Users : pc[u] = "inside"}
Exclusion == INSTANCE RunExclusion WITH inside <- Inside

\* The limiter keeps its promise (RunExclusion): one user a session, and a
\* bounded number of runs.
Promise == Exclusion!Spec

\* Who waits for a slot or a lock gets in or is refused, even if no wait times out.
Served ==
  \A u \in Users :
    pc[u] \in {"slotWait", "lockWait"} ~> pc[u] \in {"inside", "refused"}
=============================================================================
