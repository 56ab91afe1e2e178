------------------------ MODULE RequestLimiterProofs ------------------------
(***************************************************************************)
(* Theorems about RequestLimiter: one user a session, no slot lost, and    *)
(* the refinement of RunExclusion.                                         *)
(***************************************************************************)
EXTENDS RequestLimiter, FiniteSetTheorems, TLAPS

\* w is q without its k-th element u; each element of w is one of q, and so on.
Removed(q, u, k, w) ==
  /\ Len(w) = Len(q) - 1
  /\ \A i \in DOMAIN w : w[i] = IF i < k THEN q[i] ELSE q[i + 1]
  /\ \A i \in DOMAIN w : w[i] # u /\ \E j \in DOMAIN q : w[i] = q[j]
  /\ \A j \in DOMAIN q : q[j] # u => \E i \in DOMAIN w : w[i] = q[j]
  /\ \A i, j \in DOMAIN w : w[i] = w[j] => i = j

Distinct(q) == \A i, j \in DOMAIN q : q[i] = q[j] => i = j

\* Removing an element from a queue without repetitions keeps the others in order.
LEMMA Removal ==
  ASSUME NEW S, NEW q \in Seq(S), NEW u, NEW k \in DOMAIN q, q[k] = u, Distinct(q)
  PROVE  Without(q, u) \in Seq(S) /\ Removed(q, u, k, Without(q, u))
<1> DEFINE c == CHOOSE i \in DOMAIN q : q[i] = u
           w == [i \in 1 .. Len(q) - 1 |-> IF i < k THEN q[i] ELSE q[i + 1]]
<1>1. c = k
  BY DEF Distinct
<1>2. Without(q, u) = w
  BY <1>1 DEF Without
<1>3. DOMAIN q = 1 .. Len(q) /\ Len(q) \in Nat /\ k \in 1 .. Len(q)
  OBVIOUS
<1>4. w \in Seq(S) /\ Len(w) = Len(q) - 1 /\ DOMAIN w = 1 .. Len(q) - 1
  BY <1>3
<1>5. \A j \in DOMAIN q : q[j] # u => \E i \in DOMAIN w : w[i] = q[j]
  <2> SUFFICES ASSUME NEW j \in DOMAIN q, q[j] # u
               PROVE  \E i \in DOMAIN w : w[i] = q[j]
    OBVIOUS
  <2>1. CASE j < k
    BY <2>1, <1>3, <1>4
  <2>2. CASE j > k
    <3>1. j - 1 \in DOMAIN w /\ ~ (j - 1 < k) /\ (j - 1) + 1 = j
      BY <2>2, <1>3, <1>4
    <3> QED
      BY <3>1
  <2> QED
    BY <2>1, <2>2, <1>3
<1>6. \A i \in DOMAIN w : \E j \in DOMAIN q : j # k /\ w[i] = q[j]
  BY <1>3, <1>4
<1>7. \A i, j \in DOMAIN w : w[i] = w[j] => i = j
  BY <1>3, <1>4 DEF Distinct
<1>8. \A i \in DOMAIN w : w[i] = IF i < k THEN q[i] ELSE q[i + 1]
  BY <1>4
<1> HIDE DEF w
<1>9. \A i \in DOMAIN w : w[i] # u /\ \E j \in DOMAIN q : w[i] = q[j]
  BY <1>6 DEF Distinct
<1> QED
  BY <1>2, <1>4, <1>5, <1>7, <1>8, <1>9 DEF Removed

\* What joining a queue gives.
LEMMA Appending ==
  ASSUME NEW S, NEW o \in Seq(S), NEW u \in S
  PROVE  /\ Append(o, u) \in Seq(S) /\ Append(o, u) # <<>>
         /\ Len(Append(o, u)) = Len(o) + 1 /\ Len(o) \in Nat
         /\ DOMAIN o = 1 .. Len(o) /\ DOMAIN Append(o, u) = 1 .. Len(Append(o, u))
         /\ Append(o, u)[Len(Append(o, u))] = u
         /\ \A i \in 1 .. Len(o) : Append(o, u)[i] = o[i]
<1>1. Append(o, u) \in Seq(S) /\ Len(Append(o, u)) = Len(o) + 1 /\ Len(o) \in Nat
  OBVIOUS
<1>2. Append(o, u)[Len(o) + 1] = u /\ \A i \in 1 .. Len(o) : Append(o, u)[i] = o[i]
  OBVIOUS
<1>3. Append(o, u) # <<>>
  BY <1>1
<1> QED
  BY <1>1, <1>2, <1>3

-----------------------------------------------------------------------------
(* The locks.  The last three parts say that a queue holds who waits,      *)
(* once; WokenFirst that a woken waiter is the first of a lock that is free, *)
(* which is what lets Lock.acquire take it without looking again.           *)

Waiting == {"lockWait", "lockWoken"}

InsideLocked(p, lk) ==
  \A u \in Users : p[u] = "inside" => lk[SessionOf[u]]
InsideAlone(p) ==
  \A u, v \in Users :
    p[u] = "inside" /\ p[v] = "inside" /\ SessionOf[u] = SessionOf[v] => u = v
WokenFirst(p, lk, lq) ==
  \A u \in Users : p[u] = "lockWoken" =>
    /\ ~ lk[SessionOf[u]]
    /\ lq[SessionOf[u]] # <<>>
    /\ lq[SessionOf[u]][1] = u
WaitersQueued(p, lq) ==
  \A u \in Users : p[u] \in Waiting =>
    \E i \in DOMAIN lq[SessionOf[u]] : lq[SessionOf[u]][i] = u
QueuedWait(p, lq) ==
  \A s \in Sessions : \A i \in DOMAIN lq[s] :
    p[lq[s][i]] \in Waiting /\ SessionOf[lq[s][i]] = s
QueuedOnce(lq) == \A s \in Sessions : Distinct(lq[s])

LockInv(p, lk, lq) ==
  /\ InsideLocked(p, lk)
  /\ InsideAlone(p)
  /\ WokenFirst(p, lk, lq)
  /\ WaitersQueued(p, lq)
  /\ QueuedWait(p, lq)
  /\ QueuedOnce(lq)

(* The semaphore: a free slot or a holder for each of the MaxSlots.         *)

Holding == {"slotWoken", "hasSlot", "lockWait", "lockWoken", "inside"}
Holders(p) == {r \in Runs : p[r] \in Holding}

SlotWaiting == {"slotWait", "slotWoken"}

SlotsBalance(p, n) == n + Cardinality(Holders(p)) = MaxSlots
SlotWaitersQueued(p, q) ==
  \A r \in Runs : p[r] \in SlotWaiting => \E i \in DOMAIN q : q[i] = r
SlotQueuedWait(p, q) == \A i \in DOMAIN q : p[q[i]] \in SlotWaiting

SlotInv(p, n, q) ==
  /\ SlotsBalance(p, n)
  /\ SlotWaitersQueued(p, q)
  /\ SlotQueuedWait(p, q)
  /\ Distinct(q)

PcType(p) ==
  /\ p \in [Users -> Places]
  /\ \A c \in Controls : p[c] \notin {"slotWait", "slotWoken", "hasSlot"}

Inv == TypeOK /\ LockInv(pc, locked, lockQueue) /\ SlotInv(pc, slots, slotQueue)

\* Changes of requests that are nowhere near the lock leave its invariant alone.
LEMMA LockFrame ==
  ASSUME NEW p \in [Users -> Places], NEW x \in Users, NEW to \in Places,
         NEW lk, NEW lq,
         p[x] \notin Waiting, to \notin Waiting \cup {"inside"},
         LockInv(p, lk, lq)
  PROVE  LockInv([p EXCEPT ![x] = to], lk, lq)
<1> DEFINE n == [p EXCEPT ![x] = to]
<1>1. \A u \in Users : n[u] = p[u] \/ (u = x /\ n[u] = to)
  OBVIOUS
<1>2. \A u \in Users : (n[u] \in Waiting <=> p[u] \in Waiting)
                      /\ (n[u] = "lockWoken" => p[u] = "lockWoken")
                      /\ (n[u] = "inside" => p[u] = "inside")
  BY <1>1 DEF Waiting
<1>3. \A s \in Sessions : \A i \in DOMAIN lq[s] : n[lq[s][i]] = p[lq[s][i]]
  BY DEF LockInv, QueuedWait
<1> HIDE DEF n
<1>4. LockInv(n, lk, lq)
  BY <1>2, <1>3 DEF LockInv, InsideLocked, InsideAlone, WokenFirst, WaitersQueued,
                    QueuedWait, QueuedOnce
<1> QED
  BY <1>4 DEF n

\* What waking a run for a slot does: nothing, or one waiter is given one slot.
LEMMA SlotWaking ==
  ASSUME NEW n \in Nat, NEW q \in Seq(Runs), NEW p, WakeSlot(n, q, p)
  PROVE  \/ slots' = n /\ pc' = p
         \/ /\ n > 0 /\ slots' = n - 1
            /\ \E x \in Runs : p[x] = "slotWait" /\ pc' = [p EXCEPT ![x] = "slotWoken"]
<1>1. \A i \in Unwoken(q, p) : q[i] \in Runs /\ p[q[i]] = "slotWait"
  BY DEF Unwoken
<1> QED
  BY <1>1 DEF WakeSlot

-----------------------------------------------------------------------------
(* What the steps at a lock preserve.                                      *)

\* The lock of a session that nobody wants is taken at once.
LEMMA LockAcquired ==
  ASSUME NEW p \in [Users -> Places], NEW u \in Users,
         NEW lk \in [Sessions -> BOOLEAN], NEW lq \in [Sessions -> Seq(Users)],
         ~ lk[SessionOf[u]], lq[SessionOf[u]] = <<>>,
         LockInv(p, lk, lq)
  PROVE  LockInv([p EXCEPT ![u] = "inside"], [lk EXCEPT ![SessionOf[u]] = TRUE], lq)
<1> DEFINE n == [p EXCEPT ![u] = "inside"]
           m == [lk EXCEPT ![SessionOf[u]] = TRUE]
<1>1. \A v \in Users : SessionOf[v] \in Sessions
  BY UsersAssumption
<1>2. \A v \in Users : SessionOf[v] = SessionOf[u] => p[v] \notin Waiting /\ p[v] # "inside"
  BY <1>1 DEF LockInv, InsideLocked, WaitersQueued
<1>3. (\A v \in Users : v # u => n[v] = p[v]) /\ n[u] = "inside"
  OBVIOUS
<1>4. m[SessionOf[u]] = TRUE /\ \A t \in Sessions : t # SessionOf[u] => m[t] = lk[t]
  BY <1>1
<1>5. \A t \in Sessions : \A i \in DOMAIN lq[t] : lq[t][i] \in Users
  OBVIOUS
<1>6. p[u] \notin Waiting
  BY <1>2
<1> HIDE DEF n, m
<1>7. InsideLocked(n, m)
  BY <1>1, <1>3, <1>4 DEF LockInv, InsideLocked
<1>8. InsideAlone(n)
  BY <1>2, <1>3 DEF LockInv, InsideAlone
<1>9. WokenFirst(n, m, lq)
  BY <1>1, <1>2, <1>3, <1>4 DEF LockInv, WokenFirst, Waiting
<1>10. WaitersQueued(n, lq)
  BY <1>3 DEF LockInv, WaitersQueued, Waiting
<1>11. QueuedWait(n, lq)
  BY <1>3, <1>5, <1>6 DEF LockInv, QueuedWait
<1> QED
  BY <1>7, <1>8, <1>9, <1>10, <1>11 DEF LockInv, n, m

\* Otherwise the request joins the end of the queue.
LEMMA LockQueued ==
  ASSUME NEW p \in [Users -> Places], NEW u \in Users,
         NEW lk \in [Sessions -> BOOLEAN], NEW lq \in [Sessions -> Seq(Users)],
         p[u] \notin Waiting,
         lk[SessionOf[u]] \/ lq[SessionOf[u]] # <<>>,
         LockInv(p, lk, lq)
  PROVE  LockInv([p EXCEPT ![u] = "lockWait"], lk,
                 [lq EXCEPT ![SessionOf[u]] = Append(@, u)])
<1> DEFINE s == SessionOf[u]
           n == [p EXCEPT ![u] = "lockWait"]
           o == lq[s]
           q == Append(o, u)
           m == [lq EXCEPT ![s] = q]
<1>1. s \in Sessions /\ \A v \in Users : SessionOf[v] \in Sessions
  BY UsersAssumption
<1>2. o \in Seq(Users) /\ q \in Seq(Users) /\ Len(q) = Len(o) + 1 /\ Len(o) \in Nat
      /\ DOMAIN o = 1 .. Len(o) /\ DOMAIN q = 1 .. Len(q) /\ q # <<>>
      /\ q[Len(q)] = u /\ \A i \in 1 .. Len(o) : q[i] = o[i]
  <2>1. o \in Seq(Users)
    BY <1>1
  <2> HIDE DEF o
  <2> QED
    BY <2>1, Appending
<1>3. \A t \in Sessions : \A i \in DOMAIN lq[t] : lq[t][i] \in Users /\ lq[t][i] # u
  BY DEF LockInv, QueuedWait
<1>4. (\A v \in Users : v # u => n[v] = p[v]) /\ n[u] = "lockWait"
  OBVIOUS
<1>5. m[s] = q /\ \A t \in Sessions : t # s => m[t] = lq[t]
  BY <1>1
<1>6. o # <<>> => 1 \in DOMAIN o /\ q[1] = o[1]
  BY <1>2
<1>7. o = lq[s]
  OBVIOUS
<1>8. \A i \in DOMAIN q : i = Len(q) \/ (i \in DOMAIN o /\ q[i] = o[i])
  BY <1>2
<1>9. Len(q) \in DOMAIN q /\ Len(q) \notin DOMAIN o
  BY <1>2
<1>10. \A i \in DOMAIN o : i \in DOMAIN q /\ q[i] = o[i]
  BY <1>2
<1>11. SessionOf[u] = s
  OBVIOUS
<1> HIDE DEF n, m, q, o, s
<1>12. InsideLocked(n, lk) /\ InsideAlone(n)
  BY SMTT(30), <1>4 DEF LockInv, InsideLocked, InsideAlone
<1>13. WokenFirst(n, lk, m)
  <2> SUFFICES ASSUME NEW v \in Users, n[v] = "lockWoken"
               PROVE  ~ lk[SessionOf[v]] /\ m[SessionOf[v]] # <<>> /\ m[SessionOf[v]][1] = v
    BY DEF WokenFirst
  <2>1. p[v] = "lockWoken"
    BY <1>4
  <2>2. ~ lk[SessionOf[v]] /\ lq[SessionOf[v]] # <<>> /\ lq[SessionOf[v]][1] = v
    BY <2>1 DEF LockInv, WokenFirst
  <2>3. CASE SessionOf[v] = s
    BY <1>2, <1>5, <1>6, <1>7, <2>2, <2>3
  <2>4. CASE SessionOf[v] # s
    BY <1>1, <1>5, <2>2, <2>4
  <2> QED
    BY <2>3, <2>4
<1>14. WaitersQueued(n, m)
  <2> SUFFICES ASSUME NEW v \in Users, n[v] \in Waiting
               PROVE  \E i \in DOMAIN m[SessionOf[v]] : m[SessionOf[v]][i] = v
    BY DEF WaitersQueued
  <2>1. CASE v = u
    BY <1>2, <1>5, <1>9, <1>11, <2>1
  <2>2. CASE v # u
    <3>1. PICK i \in DOMAIN lq[SessionOf[v]] : lq[SessionOf[v]][i] = v
      BY <1>4, <2>2 DEF LockInv, WaitersQueued
    <3>2. CASE SessionOf[v] = s
      BY <1>5, <1>7, <1>10, <3>1, <3>2
    <3>3. CASE SessionOf[v] # s
      BY <1>1, <1>5, <3>1, <3>3
    <3> QED
      BY <3>2, <3>3
  <2> QED
    BY <2>1, <2>2
<1>15. QueuedWait(n, m)
  <2> SUFFICES ASSUME NEW t \in Sessions, NEW i \in DOMAIN m[t]
               PROVE  n[m[t][i]] \in Waiting /\ SessionOf[m[t][i]] = t
    BY DEF QueuedWait
  <2>1. \A j \in DOMAIN lq[t] : n[lq[t][j]] \in Waiting /\ SessionOf[lq[t][j]] = t
    BY <1>3, <1>4 DEF LockInv, QueuedWait
  <2>2. CASE t # s
    BY <1>5, <2>1, <2>2
  <2>3. CASE t = s
    <3>1. CASE i = Len(q)
      BY <1>2, <1>4, <1>5, <1>11, <2>3, <3>1 DEF Waiting
    <3>2. CASE i # Len(q)
      BY <1>5, <1>7, <1>8, <2>1, <2>3, <3>2
    <3> QED
      BY <3>1, <3>2
  <2> QED
    BY <2>2, <2>3
<1>16. QueuedOnce(m)
  <2> SUFFICES ASSUME NEW t \in Sessions, NEW i \in DOMAIN m[t], NEW j \in DOMAIN m[t],
                      m[t][i] = m[t][j]
               PROVE  i = j
    BY DEF QueuedOnce, Distinct
  <2>1. CASE t # s
    BY <1>5, <2>1 DEF LockInv, QueuedOnce, Distinct
  <2>2. CASE t = s
    <3>1. \A k \in DOMAIN o : o[k] # u
      BY <1>1, <1>3, <1>7
    <3>2. \A k, l \in DOMAIN o : o[k] = o[l] => k = l
      BY <1>1, <1>7 DEF LockInv, QueuedOnce, Distinct
    <3>3. i \in DOMAIN q /\ j \in DOMAIN q /\ q[i] = q[j]
      BY <1>5, <2>2
    <3> QED
      BY <1>2, <1>8, <3>1, <3>2, <3>3
  <2> QED
    BY <2>1, <2>2
<1> QED
  BY <1>12, <1>13, <1>14, <1>15, <1>16 DEF LockInv, n, m, q, o, s

\* A free lock may wake its first waiter.
LEMMA FirstWaking ==
  ASSUME NEW p \in [Users -> Places], NEW s \in Sessions,
         NEW lk \in [Sessions -> BOOLEAN], NEW lq \in [Sessions -> Seq(Users)],
         ~ lk[s],
         LockInv(p, lk, lq)
  PROVE  LockInv(WakeFirst(lq[s], p), lk, lq)
<1>1. CASE ~ (lq[s] # <<>> /\ p[Head(lq[s])] = "lockWait")
  BY <1>1 DEF WakeFirst
<1>2. CASE lq[s] # <<>> /\ p[Head(lq[s])] = "lockWait"
  <2> DEFINE h == lq[s][1]
             n == [p EXCEPT ![h] = "lockWoken"]
  <2>1. h = Head(lq[s]) /\ 1 \in DOMAIN lq[s] /\ h \in Users
    BY <1>2
  <2>2. SessionOf[h] = s /\ p[h] = "lockWait"
    BY <1>2, <2>1 DEF LockInv, QueuedWait
  <2>3. n[h] = "lockWoken" /\ \A v \in Users : v # h => n[v] = p[v]
    BY <2>1
  <2>4. \A t \in Sessions : \A i \in DOMAIN lq[t] : lq[t][i] \in Users
    OBVIOUS
  <2>5. WakeFirst(lq[s], p) = n
    BY <1>2, <2>1 DEF WakeFirst
  <2>6. lq[s][1] = h
    OBVIOUS
  <2> HIDE DEF n, h
  <2>7. \A v \in Users : n[v] \in Waiting <=> p[v] \in Waiting
    BY <2>2, <2>3 DEF Waiting
  <2>8. InsideLocked(n, lk) /\ InsideAlone(n)
    <3>1. \A v \in Users : n[v] = "inside" => p[v] = "inside"
      BY <2>3
    <3> QED
      BY <3>1 DEF LockInv, InsideLocked, InsideAlone
  <2>9. WokenFirst(n, lk, lq)
    BY <1>2, <2>2, <2>3, <2>6 DEF LockInv, WokenFirst
  <2>10. WaitersQueued(n, lq)
    BY <2>7 DEF LockInv, WaitersQueued
  <2>11. QueuedWait(n, lq)
    BY <2>4, <2>7 DEF LockInv, QueuedWait
  <2> QED
    BY <2>5, <2>8, <2>9, <2>10, <2>11 DEF LockInv
<1> QED
  BY <1>1, <1>2

FirstStays(u, lq, w) ==
  \A v \in Users : v # u /\ lq[SessionOf[v]] # <<>> /\ lq[SessionOf[v]][1] = v =>
    w[SessionOf[v]] # <<>> /\ w[SessionOf[v]][1] = v

ElsewhereSame(u, p, n) == \A v \in Users : v # u => n[v] = p[v]

\* A request that leaves its queue, as n says where it goes and with the lock as m
\* says, leaves the others waiting.
LEMMA LockUnqueued ==
  ASSUME NEW p \in [Users -> Places], NEW u \in Users,
         NEW lq \in [Sessions -> Seq(Users)],
         p[u] \in Waiting,
         WaitersQueued(p, lq), QueuedWait(p, lq), QueuedOnce(lq),
         NEW n, ElsewhereSame(u, p, n), n[u] \notin Waiting,
         NEW w, w = [lq EXCEPT ![SessionOf[u]] = Without(@, u)]
  PROVE  /\ w \in [Sessions -> Seq(Users)]
         /\ WaitersQueued(n, w) /\ QueuedWait(n, w) /\ QueuedOnce(w)
         /\ FirstStays(u, lq, w) /\ w \in [Sessions -> Seq(Users)]
<1> DEFINE s == SessionOf[u]
           o == lq[s]
           q == Without(o, u)
<1>1. s \in Sessions /\ o \in Seq(Users) /\ \A v \in Users : SessionOf[v] \in Sessions
  BY UsersAssumption
<1>2. PICK k \in DOMAIN o : o[k] = u
  BY DEF WaitersQueued
<1>3. Distinct(o)
  BY <1>1 DEF QueuedOnce
<1>4. q \in Seq(Users) /\ Removed(o, u, k, q)
  <2> HIDE DEF o
  <2> QED
    BY <1>1, <1>2, <1>3, Removal
<1>5. w[s] = q /\ \A t \in Sessions : t # s => w[t] = lq[t]
  BY <1>1
<1>6. w \in [Sessions -> Seq(Users)]
  BY <1>1, <1>4
<1>7. o = lq[s] /\ SessionOf[u] = s
  OBVIOUS
<1>8. \A t \in Sessions : \A i \in DOMAIN lq[t] : lq[t][i] \in Users
  OBVIOUS
<1> HIDE DEF o, q, s
<1>9. WaitersQueued(n, w)
  <2> SUFFICES ASSUME NEW v \in Users, n[v] \in Waiting
               PROVE  \E i \in DOMAIN w[SessionOf[v]] : w[SessionOf[v]][i] = v
    BY DEF WaitersQueued
  <2>1. v # u /\ p[v] \in Waiting
    BY DEF ElsewhereSame
  <2>2. PICK i \in DOMAIN lq[SessionOf[v]] : lq[SessionOf[v]][i] = v
    BY <2>1 DEF WaitersQueued
  <2>3. CASE SessionOf[v] = s
    BY <1>4, <1>5, <1>7, <2>1, <2>2, <2>3 DEF Removed
  <2>4. CASE SessionOf[v] # s
    BY <1>1, <1>5, <2>2, <2>4
  <2> QED
    BY <2>3, <2>4
<1>10. QueuedWait(n, w)
  <2> SUFFICES ASSUME NEW t \in Sessions, NEW i \in DOMAIN w[t]
               PROVE  n[w[t][i]] \in Waiting /\ SessionOf[w[t][i]] = t
    BY DEF QueuedWait
  <2>1. \A j \in DOMAIN lq[t] : p[lq[t][j]] \in Waiting /\ SessionOf[lq[t][j]] = t
    BY DEF QueuedWait
  <2>2. PICK j \in DOMAIN lq[t] : w[t][i] = lq[t][j]
    BY <1>4, <1>5, <1>7 DEF Removed
  <2>3. w[t][i] # u
    <3>1. CASE t = s
      BY <1>4, <1>5, <3>1 DEF Removed
    <3>2. CASE t # s
      BY <1>7, <2>1, <2>2, <3>2
    <3> QED
      BY <3>1, <3>2
  <2> QED
    BY <1>8, <2>1, <2>2, <2>3 DEF ElsewhereSame
<1>11. QueuedOnce(w)
  <2> SUFFICES ASSUME NEW t \in Sessions, NEW i \in DOMAIN w[t], NEW j \in DOMAIN w[t],
                      w[t][i] = w[t][j]
               PROVE  i = j
    BY DEF QueuedOnce, Distinct
  <2>1. CASE t = s
    BY <1>4, <1>5, <2>1 DEF Removed, Distinct
  <2>2. CASE t # s
    BY <1>5, <2>2 DEF QueuedOnce, Distinct
  <2> QED
    BY <2>1, <2>2
<1>12. FirstStays(u, lq, w)
  <2> SUFFICES ASSUME NEW v \in Users, v # u,
                      lq[SessionOf[v]] # <<>>, lq[SessionOf[v]][1] = v
               PROVE  w[SessionOf[v]] # <<>> /\ w[SessionOf[v]][1] = v
    BY DEF FirstStays
  <2>1. CASE SessionOf[v] # s
    BY <1>1, <1>5, <2>1
  <2>2. CASE SessionOf[v] = s
    <3>1. o[1] = v /\ k # 1 /\ k \in 1 .. Len(o) /\ Len(o) \in Nat
      BY <1>1, <1>2, <1>7, <2>2
    <3>2. 1 \in DOMAIN q /\ 1 < k
      BY <1>4, <3>1 DEF Removed
    <3>3. q[1] = v /\ q # <<>>
      BY <1>4, <3>1, <3>2 DEF Removed
    <3> QED
      BY <1>5, <2>2, <3>3
  <2> QED
    BY <2>1, <2>2
<1> QED
  BY <1>6, <1>9, <1>10, <1>11, <1>12

\* A wait given up.
LEMMA LockLeft ==
  ASSUME NEW p \in [Users -> Places], NEW u \in Users,
         NEW lk \in [Sessions -> BOOLEAN], NEW lq \in [Sessions -> Seq(Users)],
         p[u] \in Waiting,
         LockInv(p, lk, lq)
  PROVE  /\ [lq EXCEPT ![SessionOf[u]] = Without(@, u)] \in [Sessions -> Seq(Users)]
         /\ LockInv([p EXCEPT ![u] = "refused"], lk,
                    [lq EXCEPT ![SessionOf[u]] = Without(@, u)])
<1> DEFINE n == [p EXCEPT ![u] = "refused"]
           w == [lq EXCEPT ![SessionOf[u]] = Without(@, u)]
<1>1. (\A v \in Users : v # u => n[v] = p[v]) /\ n[u] = "refused"
  OBVIOUS
<1>2. w = [lq EXCEPT ![SessionOf[u]] = Without(@, u)]
  OBVIOUS
<1> HIDE DEF n, w
<1>3. /\ WaitersQueued(n, w) /\ QueuedWait(n, w) /\ QueuedOnce(w)
      /\ FirstStays(u, lq, w) /\ w \in [Sessions -> Seq(Users)]
  <2>1. n[u] \notin Waiting
    BY <1>1 DEF Waiting
  <2>2. WaitersQueued(p, lq) /\ QueuedWait(p, lq) /\ QueuedOnce(lq)
    BY DEF LockInv
  <2>3. ElsewhereSame(u, p, n)
    BY <1>1 DEF ElsewhereSame
  <2> QED
    BY <1>2, <2>1, <2>2, <2>3, LockUnqueued
<1>4. \A v \in Users : (n[v] = "inside" => p[v] = "inside")
                      /\ (n[v] = "lockWoken" => v # u /\ p[v] = "lockWoken")
  BY <1>1
<1>5. InsideLocked(n, lk) /\ InsideAlone(n)
  BY <1>4 DEF LockInv, InsideLocked, InsideAlone
<1>6. WokenFirst(n, lk, w)
  BY <1>3, <1>4 DEF LockInv, WokenFirst, FirstStays
<1> QED
  BY <1>3, <1>5, <1>6 DEF LockInv, n, w

\* A woken waiter takes the lock.
LEMMA LockTaken ==
  ASSUME NEW p \in [Users -> Places], NEW u \in Users,
         NEW lk \in [Sessions -> BOOLEAN], NEW lq \in [Sessions -> Seq(Users)],
         p[u] = "lockWoken",
         LockInv(p, lk, lq)
  PROVE  /\ [lq EXCEPT ![SessionOf[u]] = Without(@, u)] \in [Sessions -> Seq(Users)]
         /\ LockInv([p EXCEPT ![u] = "inside"], [lk EXCEPT ![SessionOf[u]] = TRUE],
                    [lq EXCEPT ![SessionOf[u]] = Without(@, u)])
<1> DEFINE n == [p EXCEPT ![u] = "inside"]
           m == [lk EXCEPT ![SessionOf[u]] = TRUE]
           w == [lq EXCEPT ![SessionOf[u]] = Without(@, u)]
<1>1. (\A v \in Users : v # u => n[v] = p[v]) /\ n[u] = "inside"
  OBVIOUS
<1>2. w = [lq EXCEPT ![SessionOf[u]] = Without(@, u)]
  OBVIOUS
<1>3. (\A v \in Users : SessionOf[v] \in Sessions)
      /\ m[SessionOf[u]] = TRUE /\ \A t \in Sessions : t # SessionOf[u] => m[t] = lk[t]
  BY UsersAssumption
<1> HIDE DEF n, w, m
<1>4. /\ WaitersQueued(n, w) /\ QueuedWait(n, w) /\ QueuedOnce(w)
      /\ FirstStays(u, lq, w) /\ w \in [Sessions -> Seq(Users)]
  <2>1. n[u] \notin Waiting /\ p[u] \in Waiting
    BY <1>1 DEF Waiting
  <2>2. WaitersQueued(p, lq) /\ QueuedWait(p, lq) /\ QueuedOnce(lq)
    BY DEF LockInv
  <2>3. ElsewhereSame(u, p, n)
    BY <1>1 DEF ElsewhereSame
  <2> QED
    BY <1>2, <2>1, <2>2, <2>3, LockUnqueued
<1>5. ~ lk[SessionOf[u]] /\ lq[SessionOf[u]][1] = u
  BY DEF LockInv, WokenFirst
<1>6. \A v \in Users : SessionOf[v] = SessionOf[u] => p[v] # "inside" /\ (p[v] = "lockWoken" => v = u)
  BY <1>5 DEF LockInv, WokenFirst, InsideLocked
<1>7. InsideLocked(n, m)
  BY <1>1, <1>3 DEF LockInv, InsideLocked
<1>8. InsideAlone(n)
  BY <1>1, <1>6 DEF LockInv, InsideAlone
<1>9. WokenFirst(n, m, w)
  <2> SUFFICES ASSUME NEW v \in Users, n[v] = "lockWoken"
               PROVE  ~ m[SessionOf[v]] /\ w[SessionOf[v]] # <<>> /\ w[SessionOf[v]][1] = v
    BY DEF WokenFirst
  <2>1. v # u /\ p[v] = "lockWoken" /\ SessionOf[v] # SessionOf[u]
    BY <1>1, <1>6
  <2> QED
    BY <1>3, <1>4, <2>1 DEF LockInv, WokenFirst, FirstStays
<1> QED
  BY <1>4, <1>7, <1>8, <1>9 DEF LockInv, n, m, w

\* The lock is released.
LEMMA LockReleased ==
  ASSUME NEW p \in [Users -> Places], NEW u \in Users,
         NEW lk \in [Sessions -> BOOLEAN], NEW lq \in [Sessions -> Seq(Users)],
         p[u] = "inside",
         LockInv(p, lk, lq)
  PROVE  LockInv(WakeFirst(lq[SessionOf[u]], [p EXCEPT ![u] = "idle"]),
                 [lk EXCEPT ![SessionOf[u]] = FALSE], lq)
<1> DEFINE n == [p EXCEPT ![u] = "idle"]
           m == [lk EXCEPT ![SessionOf[u]] = FALSE]
<1>1. (\A v \in Users : v # u => n[v] = p[v]) /\ n[u] = "idle" /\ n \in [Users -> Places]
  BY DEF Places
<1>2. (\A v \in Users : SessionOf[v] \in Sessions) /\ m \in [Sessions -> BOOLEAN]
      /\ m[SessionOf[u]] = FALSE /\ \A t \in Sessions : t # SessionOf[u] => m[t] = lk[t]
  BY UsersAssumption
<1>3. \A t \in Sessions : \A i \in DOMAIN lq[t] : lq[t][i] \in Users
  OBVIOUS
<1> HIDE DEF n, m
<1>4. p[u] \notin Waiting /\ \A v \in Users : n[v] \in Waiting <=> p[v] \in Waiting
  BY <1>1 DEF Waiting
<1>5. \A v \in Users : (n[v] = "inside" => v # u /\ p[v] = "inside")
                      /\ (n[v] = "lockWoken" => p[v] = "lockWoken")
  BY <1>1
<1>6. InsideLocked(n, m)
  <2>1. \A v \in Users : n[v] = "inside" => SessionOf[v] # SessionOf[u] /\ lk[SessionOf[v]]
    BY <1>5 DEF LockInv, InsideLocked, InsideAlone
  <2> QED
    BY <1>2, <2>1 DEF InsideLocked
<1>7. InsideAlone(n)
  BY <1>5 DEF LockInv, InsideAlone
<1>8. WokenFirst(n, m, lq)
  BY <1>2, <1>5 DEF LockInv, WokenFirst
<1>9. WaitersQueued(n, lq) /\ QueuedWait(n, lq)
  BY <1>3, <1>4 DEF LockInv, WaitersQueued, QueuedWait
<1>10. LockInv(n, m, lq)
  BY <1>6, <1>7, <1>8, <1>9 DEF LockInv
<1>11. LockInv(WakeFirst(lq[SessionOf[u]], n), m, lq)
  BY <1>1, <1>2, <1>10, FirstWaking
<1> QED
  BY <1>11 DEF n, m

-----------------------------------------------------------------------------
(* What the steps at the semaphore preserve.                               *)

\* The holders of slots can be counted.
LEMMA HoldersFinite ==
  ASSUME NEW p
  PROVE  IsFiniteSet(Holders(p)) /\ Cardinality(Holders(p)) \in Nat
<1>1. IsFiniteSet(Holders(p))
  BY SlotsAssumption, FS_Subset DEF Holders
<1> QED
  BY <1>1, FS_CardinalityType

\* Steps that move nobody into or out of a slot or its queue.
LEMMA SlotFrame ==
  ASSUME NEW p, NEW n, NEW m, NEW q \in Seq(Runs),
         \A r \in Runs : (n[r] \in Holding) = (p[r] \in Holding),
         \A r \in Runs : (n[r] \in SlotWaiting) = (p[r] \in SlotWaiting),
         SlotInv(p, m, q)
  PROVE  SlotInv(n, m, q)
<1>1. Holders(n) = Holders(p)
  BY DEF Holders
<1>2. \A i \in DOMAIN q : q[i] \in Runs
  OBVIOUS
<1> QED
  BY <1>1, <1>2 DEF SlotInv, SlotsBalance, SlotWaitersQueued, SlotQueuedWait

\* One run more holds a slot, and one slot less is free; or the other way round.
LEMMA OneMoreHolder ==
  ASSUME NEW p, NEW n, NEW r \in Runs, NEW m \in Nat, m > 0,
         ElsewhereSame(r, p, n), p[r] \notin Holding, n[r] \in Holding,
         SlotsBalance(p, m)
  PROVE  SlotsBalance(n, m - 1)
<1>1. Holders(n) = Holders(p) \cup {r} /\ r \notin Holders(p)
  BY DEF Holders, ElsewhereSame, Users
<1>2. Cardinality(Holders(n)) = Cardinality(Holders(p)) + 1
  BY <1>1, HoldersFinite, FS_AddElement
<1> QED
  BY <1>2, HoldersFinite, SlotsAssumption DEF SlotsBalance

\* A run that gives its slot back leaves one more free.
LEMMA OneHolderLess ==
  ASSUME NEW p, NEW n, NEW r \in Runs, NEW m \in Nat,
         ElsewhereSame(r, p, n), p[r] \in Holding, n[r] \notin Holding,
         SlotsBalance(p, m)
  PROVE  SlotsBalance(n, m + 1)
<1>1. Holders(n) = Holders(p) \ {r} /\ r \in Holders(p)
  BY DEF Holders, ElsewhereSame, Users
<1>2. Cardinality(Holders(n)) = Cardinality(Holders(p)) - 1
  BY <1>1, HoldersFinite, FS_RemoveElement
<1> QED
  BY <1>2, HoldersFinite, SlotsAssumption DEF SlotsBalance

\* A run that moves with its slot, or without one, leaves as many free.
LEMMA SameHolders ==
  ASSUME NEW p, NEW n, NEW r \in Runs, NEW m,
         ElsewhereSame(r, p, n), p[r] \in Holding <=> n[r] \in Holding,
         SlotsBalance(p, m)
  PROVE  SlotsBalance(n, m)
<1>1. Holders(n) = Holders(p)
  BY DEF Holders, ElsewhereSame, Users
<1> QED
  BY <1>1 DEF SlotsBalance

\* A run that leaves the queue of the semaphore.
LEMMA SlotUnqueued ==
  ASSUME NEW p, NEW n, NEW r \in Runs, NEW q \in Seq(Runs),
         p[r] \in SlotWaiting, n[r] \notin SlotWaiting, ElsewhereSame(r, p, n),
         SlotWaitersQueued(p, q), SlotQueuedWait(p, q), Distinct(q)
  PROVE  /\ Without(q, r) \in Seq(Runs)
         /\ SlotWaitersQueued(n, Without(q, r)) /\ SlotQueuedWait(n, Without(q, r))
         /\ Distinct(Without(q, r))
<1>1. PICK k \in DOMAIN q : q[k] = r
  BY DEF SlotWaitersQueued
<1> DEFINE w == Without(q, r)
<1>2. w \in Seq(Runs) /\ Removed(q, r, k, w)
  BY <1>1, Removal
<1>3. \A i \in DOMAIN q : q[i] \in Users
  BY DEF Users
<1> HIDE DEF w
<1>4. SlotWaitersQueued(n, w)
  BY <1>2 DEF SlotWaitersQueued, Removed, ElsewhereSame, Users
<1>5. SlotQueuedWait(n, w)
  BY <1>2, <1>3 DEF SlotQueuedWait, Removed, ElsewhereSame
<1>6. Distinct(w)
  BY <1>2 DEF Removed, Distinct
<1> QED
  BY <1>2, <1>4, <1>5, <1>6 DEF w

\* A run that joins it.
LEMMA SlotQueued ==
  ASSUME NEW p, NEW n, NEW r \in Runs, NEW q \in Seq(Runs),
         p[r] \notin SlotWaiting, n[r] \in SlotWaiting, ElsewhereSame(r, p, n),
         SlotWaitersQueued(p, q), SlotQueuedWait(p, q), Distinct(q)
  PROVE  /\ Append(q, r) \in Seq(Runs)
         /\ SlotWaitersQueued(n, Append(q, r)) /\ SlotQueuedWait(n, Append(q, r))
         /\ Distinct(Append(q, r))
<1> DEFINE w == Append(q, r)
<1>1. /\ w \in Seq(Runs) /\ Len(w) = Len(q) + 1 /\ Len(q) \in Nat
      /\ DOMAIN q = 1 .. Len(q) /\ DOMAIN w = 1 .. Len(w)
      /\ w[Len(w)] = r /\ \A i \in 1 .. Len(q) : w[i] = q[i]
  BY Appending
<1> HIDE DEF w
<1>2. \A i \in DOMAIN w : i = Len(w) \/ i \in DOMAIN q
  BY <1>1
<1>3. \A i \in DOMAIN q : q[i] \in Users /\ q[i] # r /\ i \in DOMAIN w /\ w[i] = q[i]
  BY <1>1 DEF Users, SlotQueuedWait
<1>4. Len(w) \in DOMAIN w
  BY <1>1
<1>5. SlotWaitersQueued(n, w)
  BY <1>1, <1>3, <1>4 DEF SlotWaitersQueued, ElsewhereSame, Users
<1>6. SlotQueuedWait(n, w)
  BY <1>1, <1>2, <1>3 DEF SlotQueuedWait, ElsewhereSame
<1>7. Distinct(w)
  BY <1>1, <1>2, <1>3 DEF Distinct
<1> QED
  BY <1>1, <1>5, <1>6, <1>7 DEF w

\* The free slots are at most all the slots.
LEMMA SlotsBounded ==
  ASSUME NEW p, NEW m \in Nat, SlotsBalance(p, m)
  PROVE  m \in 0 .. MaxSlots
BY HoldersFinite, SlotsAssumption DEF SlotsBalance

\* Waking a run for a slot keeps everything.
LEMMA AfterSlotWaking ==
  ASSUME NEW p, NEW m \in Nat, NEW q \in Seq(Runs), NEW lk, NEW lq,
         PcType(p), LockInv(p, lk, lq), SlotInv(p, m, q), WakeSlot(m, q, p)
  PROVE  /\ PcType(pc') /\ slots' \in 0 .. MaxSlots
         /\ LockInv(pc', lk, lq) /\ SlotInv(pc', slots', q)
<1>1. CASE slots' = m /\ pc' = p
  BY <1>1, SlotsBounded DEF SlotInv
<1>2. ASSUME m > 0, slots' = m - 1, NEW x \in Runs, p[x] = "slotWait",
             pc' = [p EXCEPT ![x] = "slotWoken"]
      PROVE  /\ PcType(pc') /\ slots' \in 0 .. MaxSlots
             /\ LockInv(pc', lk, lq) /\ SlotInv(pc', slots', q)
  <2>1. x \in Users /\ x \notin Controls /\ p \in [Users -> Places]
    BY UsersAssumption DEF Users, PcType
  <2>2. "slotWoken" \in Places /\ "slotWoken" \notin Waiting \cup {"inside"} /\ p[x] \notin Waiting
    BY <1>2 DEF Places, Waiting
  <2>3. LockInv(pc', lk, lq)
    BY <1>2, <2>1, <2>2, LockFrame
  <2>4. ElsewhereSame(x, p, pc') /\ pc'[x] = "slotWoken"
    BY <1>2, <2>1 DEF ElsewhereSame
  <2>5. PcType(pc')
    BY <1>2, <2>1, <2>2 DEF PcType
  <2>6. p[x] \notin Holding /\ pc'[x] \in Holding
    BY <1>2, <2>4 DEF Holding
  <2>7. SlotsBalance(pc', slots')
    BY <1>2, <2>4, <2>6, OneMoreHolder DEF SlotInv
  <2>8. \A r \in Runs : (pc'[r] \in SlotWaiting) = (p[r] \in SlotWaiting)
    BY <1>2, <2>4 DEF SlotWaiting, ElsewhereSame, Users
  <2>9. \A i \in DOMAIN q : q[i] \in Runs
    OBVIOUS
  <2>10. SlotInv(pc', slots', q)
    BY <2>7, <2>8, <2>9 DEF SlotInv, SlotWaitersQueued, SlotQueuedWait
  <2>11. slots' \in 0 .. MaxSlots
    BY <1>2, <2>7, SlotsBounded
  <2> QED
    BY <2>3, <2>5, <2>10, <2>11
<1> QED
  BY <1>1, <1>2, SlotWaking

\* Waking a waiter for the lock of its session concerns no slot.
LEMMA FirstWakingFrame ==
  ASSUME NEW p, PcType(p), NEW q \in Seq(Users)
  PROVE  /\ PcType(WakeFirst(q, p))
         /\ \A r \in Runs : (WakeFirst(q, p)[r] \in Holding) = (p[r] \in Holding)
         /\ \A r \in Runs : (WakeFirst(q, p)[r] \in SlotWaiting) = (p[r] \in SlotWaiting)
<1>1. CASE ~ (q # <<>> /\ p[Head(q)] = "lockWait")
  BY <1>1 DEF WakeFirst
<1>2. CASE q # <<>> /\ p[Head(q)] = "lockWait"
  <2> DEFINE n == [p EXCEPT ![Head(q)] = "lockWoken"]
  <2>1. WakeFirst(q, p) = n /\ Head(q) \in Users
    BY <1>2 DEF WakeFirst
  <2>2. n[Head(q)] = "lockWoken" /\ \A v \in Users : v # Head(q) => n[v] = p[v]
    BY <2>1 DEF PcType
  <2>3. n \in [Users -> Places]
    BY <2>1 DEF PcType, Places
  <2> HIDE DEF n
  <2>4. PcType(n)
    BY <2>2, <2>3 DEF PcType, Users
  <2>5. \A r \in Runs : (n[r] \in Holding) = (p[r] \in Holding)
    BY <1>2, <2>2 DEF Holding, Users
  <2>6. \A r \in Runs : (n[r] \in SlotWaiting) = (p[r] \in SlotWaiting)
    BY <1>2, <2>2 DEF SlotWaiting, Users
  <2> QED
    BY <2>1, <2>4, <2>5, <2>6
<1> QED
  BY <1>1, <1>2

-----------------------------------------------------------------------------
(* The invariant is inductive.                                             *)

\* At first all slots are free.
LEMMA InvInit == Init => Inv
<1> SUFFICES ASSUME Init PROVE Inv
  OBVIOUS
<1>1. pc = [u \in Users |-> "idle"] /\ slots = MaxSlots /\ slotQueue = <<>>
      /\ locked = [s \in Sessions |-> FALSE] /\ lockQueue = [s \in Sessions |-> <<>>]
  BY DEF Init
<1>2. TypeOK
  BY <1>1, SlotsAssumption DEF TypeOK, Places, Users
<1>3. \A u \in Users : pc[u] = "idle"
  BY <1>1
<1>4. LockInv(pc, locked, lockQueue)
  BY <1>1, <1>3 DEF LockInv, InsideLocked, InsideAlone, WokenFirst, WaitersQueued,
                    QueuedWait, QueuedOnce, Distinct, Waiting
<1>5. Holders(pc) = {}
  BY <1>3 DEF Holders, Holding, Users
<1>6. SlotsBalance(pc, slots)
  <2>1. Cardinality(Holders(pc)) = 0
    BY <1>5, FS_EmptySet
  <2> QED
    BY <1>1, <2>1, SlotsAssumption DEF SlotsBalance
<1>7. SlotInv(pc, slots, slotQueue)
  BY <1>1, <1>3, <1>6 DEF SlotInv, SlotWaitersQueued, SlotQueuedWait, SlotWaiting,
                          Distinct, Users
<1> QED
  BY <1>2, <1>4, <1>7 DEF Inv

\* The invariant types the state.
LEMMA InvTypes ==
  Inv <=> /\ PcType(pc) /\ slots \in 0 .. MaxSlots /\ slotQueue \in Seq(Runs)
          /\ locked \in [Sessions -> BOOLEAN] /\ lockQueue \in [Sessions -> Seq(Users)]
          /\ LockInv(pc, locked, lockQueue) /\ SlotInv(pc, slots, slotQueue)
BY DEF Inv, TypeOK, PcType

\* Runs are users that are not control requests.
LEMMA RunsAreUsers == \A r \in Runs : r \in Users /\ r \notin Controls
BY UsersAssumption DEF Users

\* A run asks for a slot.
LEMMA AskSlotStep ==
  ASSUME Inv, NEW r \in Runs, AskSlot(r)
  PROVE  Inv'
<1> USE RunsAreUsers
<1>1. PcType(pc) /\ slots \in Nat /\ slotQueue \in Seq(Runs) /\ pc[r] = "idle"
      /\ LockInv(pc, locked, lockQueue) /\ SlotInv(pc, slots, slotQueue)
      /\ UNCHANGED lockVars
  BY InvTypes DEF AskSlot
<1>2. pc[r] \notin Waiting /\ pc[r] \notin Holding /\ pc[r] \notin SlotWaiting
  BY <1>1 DEF Waiting, Holding, SlotWaiting
<1>3. CASE /\ slots > 0 /\ slots' = slots - 1 /\ slotQueue' = slotQueue
           /\ pc' = [pc EXCEPT ![r] = "hasSlot"]
  <2>1. ElsewhereSame(r, pc, pc') /\ pc'[r] = "hasSlot" /\ PcType(pc')
    BY <1>1, <1>3 DEF ElsewhereSame, PcType, Places, Users
  <2>2. pc'[r] \in Holding /\ pc'[r] \notin SlotWaiting
        /\ "hasSlot" \in Places /\ "hasSlot" \notin Waiting \cup {"inside"}
    BY <2>1 DEF Holding, SlotWaiting, Waiting, Places
  <2>3. SlotsBalance(pc', slots')
    BY <1>1, <1>2, <1>3, <2>1, <2>2, OneMoreHolder DEF SlotInv
  <2>4. SlotWaitersQueued(pc', slotQueue') /\ SlotQueuedWait(pc', slotQueue')
    BY <1>1, <1>2, <1>3, <2>1, <2>2
       DEF SlotInv, SlotWaitersQueued, SlotQueuedWait, ElsewhereSame
  <2>5. LockInv(pc', locked', lockQueue')
    BY <1>1, <1>2, <1>3, <2>2, LockFrame DEF PcType, lockVars
  <2>6. slots' \in 0 .. MaxSlots
    <3>1. slots - 1 \in Nat
      BY <1>1, <1>3
    <3> QED
      BY <1>3, <2>3, <3>1, SlotsBounded
  <2> QED
    BY <1>1, <1>3, <2>1, <2>3, <2>4, <2>5, <2>6, InvTypes
       DEF Inv, TypeOK, PcType, SlotInv, lockVars
<1>4. CASE /\ slotQueue' = Append(slotQueue, r) /\ slots' = slots
           /\ pc' = [pc EXCEPT ![r] = "slotWait"]
  <2>1. ElsewhereSame(r, pc, pc') /\ pc'[r] = "slotWait" /\ PcType(pc')
    BY <1>1, <1>4 DEF ElsewhereSame, PcType, Places, Users
  <2>2. pc'[r] \notin Holding /\ pc'[r] \in SlotWaiting
        /\ "slotWait" \in Places /\ "slotWait" \notin Waiting \cup {"inside"}
    BY <2>1 DEF Holding, SlotWaiting, Waiting, Places
  <2>3. SlotsBalance(pc', slots')
    BY <1>1, <1>2, <1>4, <2>1, <2>2, SameHolders DEF SlotInv
  <2>4. /\ slotQueue' \in Seq(Runs) /\ SlotWaitersQueued(pc', slotQueue')
        /\ SlotQueuedWait(pc', slotQueue') /\ Distinct(slotQueue')
    BY <1>1, <1>2, <1>4, <2>1, <2>2, SlotQueued DEF SlotInv
  <2>5. LockInv(pc', locked', lockQueue')
    BY <1>1, <1>2, <1>4, <2>2, LockFrame DEF PcType, lockVars
  <2> QED
    BY <1>1, <1>4, <2>1, <2>3, <2>4, <2>5, InvTypes
       DEF Inv, TypeOK, PcType, SlotInv, lockVars
<1> QED
  BY <1>3, <1>4 DEF AskSlot

\* The parts of the next state that a step at the semaphore leaves to be shown.
LEMMA AfterWakingInv ==
  ASSUME NEW p, NEW m \in Nat,
         PcType(p), WakeSlot(m, slotQueue', p), slotQueue' \in Seq(Runs),
         locked' \in [Sessions -> BOOLEAN], lockQueue' \in [Sessions -> Seq(Users)],
         LockInv(p, locked', lockQueue'), SlotInv(p, m, slotQueue')
  PROVE  Inv'
<1>1. /\ PcType(pc') /\ slots' \in 0 .. MaxSlots
      /\ LockInv(pc', locked', lockQueue') /\ SlotInv(pc', slots', slotQueue')
  <2> DEFINE q == slotQueue'
             lk == locked'
             lq == lockQueue'
  <2> HIDE DEF q, lk, lq
  <2>1. q \in Seq(Runs) /\ WakeSlot(m, q, p) /\ LockInv(p, lk, lq) /\ SlotInv(p, m, q)
    BY DEF q, lk, lq
  <2>2. /\ PcType(pc') /\ slots' \in 0 .. MaxSlots
        /\ LockInv(pc', lk, lq) /\ SlotInv(pc', slots', q)
    BY <2>1, AfterSlotWaking
  <2> QED
    BY <2>2 DEF q, lk, lq
<1> QED
  BY <1>1 DEF Inv, TypeOK, PcType

\* A run that was woken takes its slot.
LEMMA TakeSlotStep ==
  ASSUME Inv, NEW r \in Runs, TakeSlot(r)
  PROVE  Inv'
<1> DEFINE p == [pc EXCEPT ![r] = "hasSlot"]
<1>1. /\ PcType(pc) /\ slots \in Nat /\ slotQueue \in Seq(Runs) /\ pc[r] = "slotWoken"
      /\ LockInv(pc, locked, lockQueue) /\ SlotInv(pc, slots, slotQueue)
      /\ locked' = locked /\ lockQueue' = lockQueue
      /\ slotQueue' = Without(slotQueue, r) /\ WakeSlot(slots, slotQueue', p)
  BY InvTypes DEF TakeSlot, lockVars
<1>2. ElsewhereSame(r, pc, p) /\ p[r] = "hasSlot" /\ PcType(p)
  BY <1>1, RunsAreUsers DEF ElsewhereSame, PcType, Places
<1>3. /\ pc[r] \in SlotWaiting /\ p[r] \notin SlotWaiting
      /\ pc[r] \in Holding /\ p[r] \in Holding
      /\ pc[r] \notin Waiting /\ "hasSlot" \notin Waiting \cup {"inside"} /\ "hasSlot" \in Places
  BY <1>1, <1>2 DEF SlotWaiting, Holding, Waiting, Places
<1>4. LockInv(p, locked, lockQueue)
  BY <1>1, <1>3, LockFrame, RunsAreUsers DEF PcType
<1> HIDE DEF p
<1>5. SlotsBalance(p, slots)
  BY <1>1, <1>2, <1>3, SameHolders DEF SlotInv
<1>6. slotQueue' \in Seq(Runs) /\ SlotInv(p, slots, slotQueue')
  BY <1>1, <1>2, <1>3, <1>5, SlotUnqueued DEF SlotInv
<1> QED
  BY <1>1, <1>2, <1>4, <1>6, AfterWakingInv, InvTypes

\* A run gives up waiting for a slot.
LEMMA LeaveSlotQueueStep ==
  ASSUME Inv, NEW r \in Runs, LeaveSlotQueue(r)
  PROVE  Inv'
<1> DEFINE p == [pc EXCEPT ![r] = "refused"]
<1>1. /\ PcType(pc) /\ slots \in Nat /\ slotQueue \in Seq(Runs)
      /\ pc[r] \in {"slotWait", "slotWoken"}
      /\ LockInv(pc, locked, lockQueue) /\ SlotInv(pc, slots, slotQueue)
      /\ locked' = locked /\ lockQueue' = lockQueue
      /\ slotQueue' = Without(slotQueue, r)
  BY InvTypes DEF LeaveSlotQueue, lockVars
<1>2. ElsewhereSame(r, pc, p) /\ p[r] = "refused" /\ PcType(p)
  BY <1>1, RunsAreUsers DEF ElsewhereSame, PcType, Places
<1>3. /\ pc[r] \in SlotWaiting /\ p[r] \notin SlotWaiting /\ p[r] \notin Holding
      /\ pc[r] \notin Waiting /\ "refused" \notin Waiting \cup {"inside"} /\ "refused" \in Places
  BY <1>1, <1>2 DEF SlotWaiting, Holding, Waiting, Places
<1>4. LockInv(p, locked, lockQueue)
  BY <1>1, <1>3, LockFrame, RunsAreUsers DEF PcType
<1>5. /\ slotQueue' \in Seq(Runs) /\ SlotWaitersQueued(p, slotQueue')
      /\ SlotQueuedWait(p, slotQueue') /\ Distinct(slotQueue')
  <2> HIDE DEF p
  <2> QED
    BY <1>1, <1>2, <1>3, SlotUnqueued DEF SlotInv
<1>6. CASE pc[r] = "slotWait" /\ pc' = p /\ slots' = slots
  <2>1. pc[r] \notin Holding
    BY <1>6 DEF Holding
  <2> HIDE DEF p
  <2>2. SlotsBalance(p, slots)
    BY <1>1, <1>2, <1>3, <2>1, SameHolders DEF SlotInv
  <2> QED
    BY <1>1, <1>2, <1>4, <1>5, <1>6, <2>2, InvTypes DEF Inv, TypeOK, PcType, SlotInv
<1>7. CASE pc[r] = "slotWoken" /\ WakeSlot(slots + 1, slotQueue', p)
  <2>1. pc[r] \in Holding
    BY <1>7 DEF Holding
  <2> HIDE DEF p
  <2>2. SlotsBalance(p, slots + 1)
    BY <1>1, <1>2, <1>3, <2>1, OneHolderLess DEF SlotInv
  <2>3. slots + 1 \in Nat /\ SlotInv(p, slots + 1, slotQueue')
    BY <1>1, <1>5, <2>2 DEF SlotInv
  <2> QED
    BY <1>1, <1>2, <1>4, <1>5, <1>7, <2>3, AfterWakingInv, InvTypes
<1> QED
  BY <1>6, <1>7 DEF LeaveSlotQueue

\* Taking the lock, or joining its queue: what both kinds of requests share.
LEMMA AcquireLockStep ==
  ASSUME Inv, NEW u \in Users, pc[u] \in {"idle", "hasSlot"},
         u \in Runs => pc[u] = "hasSlot",
         AcquireLock(u), UNCHANGED slotVars
  PROVE  Inv'
<1>1. /\ PcType(pc) /\ slotQueue \in Seq(Runs)
      /\ locked \in [Sessions -> BOOLEAN] /\ lockQueue \in [Sessions -> Seq(Users)]
      /\ LockInv(pc, locked, lockQueue) /\ SlotInv(pc, slots, slotQueue)
      /\ slots' = slots /\ slotQueue' = slotQueue /\ SessionOf[u] \in Sessions
  BY InvTypes, UsersAssumption DEF slotVars
<1>2. /\ LockInv(pc', locked', lockQueue') /\ pc'[u] \in {"inside", "lockWait"}
      /\ ElsewhereSame(u, pc, pc') /\ PcType(pc')
      /\ locked' \in [Sessions -> BOOLEAN] /\ lockQueue' \in [Sessions -> Seq(Users)]
  <2>1. CASE /\ ~ locked[SessionOf[u]] /\ lockQueue[SessionOf[u]] = <<>>
             /\ locked' = [locked EXCEPT ![SessionOf[u]] = TRUE]
             /\ pc' = [pc EXCEPT ![u] = "inside"] /\ lockQueue' = lockQueue
    <3>1. LockInv(pc', locked', lockQueue')
      BY <1>1, <2>1, LockAcquired DEF PcType
    <3>2. PcType(pc') /\ ElsewhereSame(u, pc, pc') /\ pc'[u] = "inside"
      BY <1>1, <2>1 DEF ElsewhereSame, PcType, Places
    <3> QED
      BY <1>1, <2>1, <3>1, <3>2
  <2>2. CASE /\ locked[SessionOf[u]] \/ lockQueue[SessionOf[u]] # <<>>
             /\ lockQueue' = [lockQueue EXCEPT ![SessionOf[u]] = Append(@, u)]
             /\ pc' = [pc EXCEPT ![u] = "lockWait"] /\ locked' = locked
    <3>1. pc[u] \notin Waiting
      BY DEF Waiting
    <3>2. lockQueue' \in [Sessions -> Seq(Users)]
      BY <1>1, <2>2
    <3>3. LockInv(pc', locked', lockQueue')
      BY <1>1, <2>2, <3>1, LockQueued DEF PcType
    <3> QED
      BY <1>1, <2>2, <3>2, <3>3 DEF ElsewhereSame, PcType, Places
  <2> QED
    BY <2>1, <2>2 DEF AcquireLock
<1>3. \A r \in Runs : (pc'[r] \in Holding) = (pc[r] \in Holding)
  BY <1>2, RunsAreUsers DEF ElsewhereSame, Holding
<1>4. \A r \in Runs : (pc'[r] \in SlotWaiting) = (pc[r] \in SlotWaiting)
  BY <1>2, RunsAreUsers DEF ElsewhereSame, SlotWaiting
<1>5. SlotInv(pc', slots', slotQueue')
  BY <1>1, <1>3, <1>4, SlotFrame
<1> QED
  BY <1>1, <1>2, <1>5, InvTypes DEF Inv, TypeOK, PcType

\* A user that was woken takes its lock.
LEMMA TakeLockStep ==
  ASSUME Inv, NEW u \in Users, TakeLock(u)
  PROVE  Inv'
<1>1. /\ PcType(pc) /\ slotQueue \in Seq(Runs)
      /\ locked \in [Sessions -> BOOLEAN] /\ lockQueue \in [Sessions -> Seq(Users)]
      /\ LockInv(pc, locked, lockQueue) /\ SlotInv(pc, slots, slotQueue)
      /\ slots' = slots /\ slotQueue' = slotQueue
      /\ pc[u] = "lockWoken" /\ pc' = [pc EXCEPT ![u] = "inside"]
      /\ locked' = [locked EXCEPT ![SessionOf[u]] = TRUE]
      /\ lockQueue' = [lockQueue EXCEPT ![SessionOf[u]] = Without(@, u)]
  BY InvTypes DEF TakeLock, slotVars
<1>2. lockQueue' \in [Sessions -> Seq(Users)] /\ LockInv(pc', locked', lockQueue')
  BY <1>1, LockTaken DEF PcType
<1>3. ElsewhereSame(u, pc, pc') /\ pc'[u] = "inside" /\ PcType(pc')
      /\ locked' \in [Sessions -> BOOLEAN]
  <2>1. locked' \in [Sessions -> BOOLEAN]
    BY <1>1
  <2>2. ElsewhereSame(u, pc, pc') /\ pc'[u] = "inside" /\ pc' \in [Users -> Places]
    BY <1>1 DEF ElsewhereSame, PcType, Places
  <2>3. \A c \in Controls : pc'[c] \notin {"slotWait", "slotWoken", "hasSlot"}
    BY <1>1, <2>2 DEF ElsewhereSame, PcType, Users
  <2> QED
    BY <2>1, <2>2, <2>3 DEF PcType
<1>4. \A r \in Runs : (pc'[r] \in Holding) = (pc[r] \in Holding)
  BY <1>1, <1>3, RunsAreUsers DEF ElsewhereSame, Holding
<1>5. \A r \in Runs : (pc'[r] \in SlotWaiting) = (pc[r] \in SlotWaiting)
  BY <1>1, <1>3, RunsAreUsers DEF ElsewhereSame, SlotWaiting
<1>6. SlotInv(pc', slots', slotQueue')
  BY <1>1, <1>4, <1>5, SlotFrame
<1> QED
  BY <1>1, <1>2, <1>3, <1>6, InvTypes DEF Inv, TypeOK, PcType

\* A user gives up waiting for a lock.
LEMMA LeaveLockQueueStep ==
  ASSUME Inv, NEW r \in Runs, LeaveLockQueue(r)
  PROVE  Inv'
<1> DEFINE s == SessionOf[r]
           p == [pc EXCEPT ![r] = "refused"]
           n == IF locked[s] THEN p ELSE WakeFirst(Without(lockQueue[s], r), p)
<1>1. /\ PcType(pc) /\ slots \in Nat /\ slotQueue \in Seq(Runs) /\ s \in Sessions
      /\ locked \in [Sessions -> BOOLEAN] /\ lockQueue \in [Sessions -> Seq(Users)]
      /\ LockInv(pc, locked, lockQueue) /\ SlotInv(pc, slots, slotQueue)
      /\ slotQueue' = slotQueue /\ locked' = locked /\ pc[r] \in {"lockWait", "lockWoken"}
      /\ lockQueue' = [lockQueue EXCEPT ![s] = Without(@, r)]
      /\ WakeSlot(slots + 1, slotQueue', n)
  BY InvTypes, UsersAssumption, RunsAreUsers DEF LeaveLockQueue
<1>2. ElsewhereSame(r, pc, p) /\ p[r] = "refused" /\ PcType(p)
  BY <1>1, RunsAreUsers DEF ElsewhereSame, PcType, Places
<1>3. /\ lockQueue' \in [Sessions -> Seq(Users)] /\ LockInv(p, locked, lockQueue')
      /\ lockQueue'[s] = Without(lockQueue[s], r)
  <2> DEFINE w == [lockQueue EXCEPT ![SessionOf[r]] = Without(@, r)]
  <2>1. lockQueue' = w /\ w[s] = Without(lockQueue[s], r)
    BY <1>1
  <2>2. w \in [Sessions -> Seq(Users)] /\ LockInv(p, locked, w)
    <3>1. r \in Users /\ pc[r] \in Waiting /\ pc \in [Users -> Places]
      BY <1>1, RunsAreUsers DEF PcType, Waiting
    <3> QED
      BY <1>1, <3>1, LockLeft
  <2> HIDE DEF w, p, s
  <2> QED
    BY <2>1, <2>2
<1>4. /\ pc[r] \in Holding /\ p[r] \notin Holding
      /\ pc[r] \notin SlotWaiting /\ p[r] \notin SlotWaiting
  BY <1>1, <1>2 DEF Holding, SlotWaiting
<1> HIDE DEF p, s
<1>5. SlotsBalance(p, slots + 1) /\ slots + 1 \in Nat
  BY <1>1, <1>2, <1>4, OneHolderLess DEF SlotInv
<1>6. SlotInv(p, slots + 1, slotQueue)
  <2>1. \A x \in Runs : (p[x] \in SlotWaiting) = (pc[x] \in SlotWaiting)
    BY <1>2, <1>4, RunsAreUsers DEF ElsewhereSame
  <2>2. \A i \in DOMAIN slotQueue : slotQueue[i] \in Runs
    BY <1>1
  <2> QED
    BY <1>1, <1>5, <2>1, <2>2 DEF SlotInv, SlotWaitersQueued, SlotQueuedWait
<1>7. PcType(n) /\ LockInv(n, locked, lockQueue') /\ SlotInv(n, slots + 1, slotQueue)
  <2>1. CASE locked[s]
    BY <1>2, <1>3, <1>6, <2>1
  <2>2. CASE ~ locked[s]
    <3>1. n = WakeFirst(lockQueue'[s], p) /\ lockQueue'[s] \in Seq(Users)
      BY <1>1, <1>3, <2>2
    <3> HIDE DEF n
    <3>2. LockInv(n, locked, lockQueue')
      <4> DEFINE lq == lockQueue'
      <4> HIDE DEF lq
      <4>1. lq \in [Sessions -> Seq(Users)] /\ LockInv(p, locked, lq) /\ n = WakeFirst(lq[s], p)
        BY <1>3, <3>1 DEF lq
      <4>2. LockInv(n, locked, lq)
        BY <1>1, <1>2, <2>2, <4>1, FirstWaking DEF PcType
      <4> QED
        BY <4>2 DEF lq
    <3>3. /\ PcType(n)
          /\ \A x \in Runs : (n[x] \in Holding) = (p[x] \in Holding)
          /\ \A x \in Runs : (n[x] \in SlotWaiting) = (p[x] \in SlotWaiting)
      BY <1>2, <3>1, FirstWakingFrame
    <3>4. SlotInv(n, slots + 1, slotQueue)
      BY <1>1, <1>6, <3>3, SlotFrame
    <3> QED
      BY <3>2, <3>3, <3>4
  <2> QED
    BY <2>1, <2>2
<1> HIDE DEF n
<1> QED
  BY <1>1, <1>3, <1>5, <1>7, AfterWakingInv

\* What the release of the lock gives, before the slot is returned.
LEMMA UnlockedStep ==
  ASSUME Inv, NEW u \in Users, pc[u] = "inside"
  PROVE  /\ PcType(Unlocked(u))
         /\ LockInv(Unlocked(u), [locked EXCEPT ![SessionOf[u]] = FALSE], lockQueue)
         /\ \A r \in Runs : r # u => (Unlocked(u)[r] \in Holding) = (pc[r] \in Holding)
         /\ u \in Runs => Unlocked(u)[u] \notin Holding
         /\ \A r \in Runs : (Unlocked(u)[r] \in SlotWaiting) = (pc[r] \in SlotWaiting)
<1> DEFINE p == [pc EXCEPT ![u] = "idle"]
           q == lockQueue[SessionOf[u]]
<1>1. /\ PcType(pc) /\ SessionOf[u] \in Sessions
      /\ locked \in [Sessions -> BOOLEAN] /\ lockQueue \in [Sessions -> Seq(Users)]
      /\ LockInv(pc, locked, lockQueue) /\ q \in Seq(Users)
  BY InvTypes, UsersAssumption
<1>2. ElsewhereSame(u, pc, p) /\ p[u] = "idle" /\ PcType(p)
  BY <1>1 DEF ElsewhereSame, PcType, Places
<1>3. Unlocked(u) = WakeFirst(q, p)
  BY DEF Unlocked
<1>4. LockInv(Unlocked(u), [locked EXCEPT ![SessionOf[u]] = FALSE], lockQueue)
  BY <1>1, <1>3, LockReleased DEF PcType
<1> HIDE DEF p, q
<1>5. /\ PcType(Unlocked(u))
      /\ \A r \in Runs : (Unlocked(u)[r] \in Holding) = (p[r] \in Holding)
      /\ \A r \in Runs : (Unlocked(u)[r] \in SlotWaiting) = (p[r] \in SlotWaiting)
  BY <1>1, <1>2, <1>3, FirstWakingFrame
<1>6. \A r \in Runs : r # u => p[r] = pc[r]
  BY <1>2, RunsAreUsers DEF ElsewhereSame
<1>7. p[u] \notin Holding /\ p[u] \notin SlotWaiting /\ pc[u] \notin SlotWaiting
  BY <1>2 DEF Holding, SlotWaiting
<1> QED
  BY <1>4, <1>5, <1>6, <1>7

\* A run leaves its session and its slot.
LEMMA ExitStep ==
  ASSUME Inv, NEW r \in Runs, Exit(r)
  PROVE  Inv'
<1> DEFINE p == Unlocked(r)
<1>1. /\ slots \in Nat /\ slotQueue \in Seq(Runs) /\ r \in Users
      /\ locked \in [Sessions -> BOOLEAN] /\ lockQueue \in [Sessions -> Seq(Users)]
      /\ SlotInv(pc, slots, slotQueue) /\ pc[r] = "inside"
      /\ slotQueue' = slotQueue /\ lockQueue' = lockQueue
      /\ locked' = [locked EXCEPT ![SessionOf[r]] = FALSE]
      /\ WakeSlot(slots + 1, slotQueue', p)
  BY InvTypes, RunsAreUsers DEF Exit
<1>2. /\ PcType(p) /\ LockInv(p, locked', lockQueue') /\ p[r] \notin Holding
      /\ \A x \in Runs : x # r => (p[x] \in Holding) = (pc[x] \in Holding)
      /\ \A x \in Runs : (p[x] \in SlotWaiting) = (pc[x] \in SlotWaiting)
  BY <1>1, UnlockedStep
<1>3. locked' \in [Sessions -> BOOLEAN] /\ pc[r] \in Holding
  BY <1>1 DEF Holding
<1> HIDE DEF p
<1>4. Holders(p) = Holders(pc) \ {r} /\ r \in Holders(pc)
  BY <1>2, <1>3 DEF Holders
<1>5. Cardinality(Holders(p)) = Cardinality(Holders(pc)) - 1
  BY <1>4, HoldersFinite, FS_RemoveElement
<1>6. SlotsBalance(p, slots + 1) /\ slots + 1 \in Nat
  <2>1. Cardinality(Holders(pc)) \in Nat
    BY HoldersFinite
  <2>2. slots + Cardinality(Holders(pc)) = MaxSlots
    BY <1>1 DEF SlotInv, SlotsBalance
  <2>3. slots + 1 + Cardinality(Holders(p)) = MaxSlots
    BY <1>1, <1>5, <2>1, <2>2
  <2> QED
    BY <1>1, <2>3 DEF SlotsBalance
<1>7. SlotInv(p, slots + 1, slotQueue')
  <2>1. \A i \in DOMAIN slotQueue : slotQueue[i] \in Runs
    BY <1>1
  <2> QED
    BY <1>1, <1>2, <1>6, <2>1 DEF SlotInv, SlotWaitersQueued, SlotQueuedWait
<1> QED
  BY <1>1, <1>2, <1>3, <1>6, <1>7, AfterWakingInv

\* A control request leaves its session.
LEMMA ExitControlStep ==
  ASSUME Inv, NEW c \in Controls, ExitControl(c)
  PROVE  Inv'
<1>1. /\ c \in Users /\ c \notin Runs
  BY UsersAssumption DEF Users
<1>2. /\ slotQueue \in Seq(Runs) /\ slots' = slots /\ slotQueue' = slotQueue
      /\ locked \in [Sessions -> BOOLEAN] /\ pc[c] = "inside"
      /\ SlotInv(pc, slots, slotQueue)
      /\ pc' = Unlocked(c) /\ lockQueue' = lockQueue
      /\ locked' = [locked EXCEPT ![SessionOf[c]] = FALSE]
  BY InvTypes DEF ExitControl, slotVars
<1>3. /\ PcType(pc') /\ LockInv(pc', locked', lockQueue')
      /\ \A r \in Runs : (pc'[r] \in Holding) = (pc[r] \in Holding)
      /\ \A r \in Runs : (pc'[r] \in SlotWaiting) = (pc[r] \in SlotWaiting)
  BY <1>1, <1>2, UnlockedStep
<1>4. SlotInv(pc', slots', slotQueue')
  BY <1>2, <1>3, SlotFrame
<1> QED
  BY <1>2, <1>3, <1>4, InvTypes DEF Inv, TypeOK, PcType

\* A request that goes from one place away from slots and locks to another.
LEMMA AsideStep ==
  ASSUME Inv, NEW u \in Users, NEW to \in {"idle", "refused"},
         pc[u] \in {"idle", "refused"}, pc' = [pc EXCEPT ![u] = to],
         UNCHANGED <<slotVars, lockVars>>
  PROVE  Inv'
<1>1. /\ PcType(pc) /\ LockInv(pc, locked, lockQueue) /\ SlotInv(pc, slots, slotQueue)
      /\ slotQueue \in Seq(Runs) /\ slots' = slots /\ slotQueue' = slotQueue
      /\ locked' = locked /\ lockQueue' = lockQueue
  BY InvTypes DEF slotVars, lockVars
<1>2. pc'[u] = to /\ PcType(pc') /\ ElsewhereSame(u, pc, pc')
  BY <1>1 DEF PcType, Places, ElsewhereSame
<1>3. pc[u] \notin Waiting /\ to \notin Waiting \cup {"inside"} /\ to \in Places
  BY DEF Waiting, Places
<1>4. LockInv(pc', locked', lockQueue')
  BY <1>1, <1>3, LockFrame DEF PcType
<1>5. \A r \in Runs : (pc'[r] \in Holding) = (pc[r] \in Holding)
  BY <1>2, RunsAreUsers DEF ElsewhereSame, Holding
<1>6. \A r \in Runs : (pc'[r] \in SlotWaiting) = (pc[r] \in SlotWaiting)
  BY <1>2, RunsAreUsers DEF ElsewhereSame, SlotWaiting
<1>7. SlotInv(pc', slots', slotQueue')
  BY <1>1, <1>5, <1>6, SlotFrame
<1> QED
  BY <1>1, <1>2, <1>4, <1>7, InvTypes DEF Inv, TypeOK, PcType

\* Every step keeps the invariant.
LEMMA InvStep == Inv /\ [Next]_vars => Inv'
<1> SUFFICES ASSUME Inv, [Next]_vars
             PROVE  Inv'
  OBVIOUS
<1>1. CASE UNCHANGED vars
  <2>1. pc' = pc /\ slots' = slots /\ slotQueue' = slotQueue
        /\ locked' = locked /\ lockQueue' = lockQueue
    BY <1>1 DEF vars
  <2> QED
    BY <2>1, InvTypes DEF Inv, TypeOK, PcType
<1>2. ASSUME NEW r \in Runs, RunStep(r)
      PROVE  Inv'
  <2>1. CASE AskLock(r)
    BY <2>1, AcquireLockStep, RunsAreUsers DEF AskLock
  <2>2. CASE TakeLock(r)
    BY <2>2, TakeLockStep, RunsAreUsers
  <2> QED
    BY <1>2, <2>1, <2>2, AskSlotStep, TakeSlotStep, LeaveSlotQueueStep,
       LeaveLockQueueStep, ExitStep DEF RunStep
<1>3. ASSUME NEW c \in Controls, ControlStep(c)
      PROVE  Inv'
  <2>1. c \in Users /\ c \notin Runs
    BY UsersAssumption DEF Users
  <2>2. CASE AskIdle(c)
    BY <2>1, <2>2, AcquireLockStep DEF AskIdle
  <2>3. CASE RefuseBusy(c)
    BY <2>1, <2>3, AsideStep DEF RefuseBusy
  <2> QED
    BY <1>3, <2>1, <2>2, <2>3, TakeLockStep, ExitControlStep DEF ControlStep
<1>4. ASSUME NEW u \in Users, Answered(u)
      PROVE  Inv'
  BY <1>4, AsideStep DEF Answered
<1> QED
  BY <1>1, <1>2, <1>3, <1>4 DEF Next

\* The inductive invariant holds in every reachable state.
THEOREM Invariance == Spec => []Inv
  BY InvInit, InvStep, PTL DEF Spec

-----------------------------------------------------------------------------
(* What follows.                                                           *)

\* The state of the limiter is well typed, for any requests, sessions and slots;
\* in particular the bounded semaphore is never released too often.
THEOREM TypeCorrect == Spec => []TypeOK
<1>1. Inv => TypeOK
  BY DEF Inv
<1> QED
  BY <1>1, Invariance, PTL

\* Whatever waits are given up, and whenever, protect and protect_idle_session
\* never let two requests into one session.
THEOREM OneUserPerSession == Spec => []SessionExclusive
<1>1. Inv => SessionExclusive
  BY DEF Inv, LockInv, InsideAlone, SessionExclusive
<1> QED
  BY <1>1, Invariance, PTL

\* Every slot is free or held by a run that is still on its way.
THEOREM NoSlotLost == Spec => []SlotsKept
<1>1. Inv => SlotsKept
  <2>1. HoldsSlot = Holders(pc)
    BY DEF HoldsSlot, Holders, Holding
  <2> QED
    BY <2>1 DEF Inv, SlotInv, SlotsBalance, SlotsKept
<1> QED
  BY <1>1, Invariance, PTL

-----------------------------------------------------------------------------
(* The refinement of RunExclusion.                                         *)

In(p) == {u \in Users : p[u] = "inside"}

\* A user outside the sessions moves: nobody is inside who was not.
LEMMA MoveAside ==
  ASSUME NEW p \in [Users -> Places], NEW u \in Users, NEW to,
         p[u] # "inside", to # "inside"
  PROVE  In([p EXCEPT ![u] = to]) = In(p)
<1> DEFINE n == [p EXCEPT ![u] = to]
<1>1. \A v \in Users : n[v] = "inside" <=> p[v] = "inside"
  OBVIOUS
<1> HIDE DEF n
<1>2. In(n) = In(p)
  BY <1>1 DEF In
<1> QED
  BY <1>2 DEF n

\* Waking the next run lets nobody in.
LEMMA SlotWakingInside ==
  ASSUME NEW n \in Nat, NEW q \in Seq(Runs), NEW p \in [Users -> Places], WakeSlot(n, q, p)
  PROVE  In(pc') = In(p)
<1>1. CASE pc' = p
  BY <1>1
<1>2. ASSUME NEW x \in Runs, p[x] = "slotWait", pc' = [p EXCEPT ![x] = "slotWoken"]
      PROVE  In(pc') = In(p)
  BY <1>2, MoveAside, RunsAreUsers
<1> QED
  BY <1>1, <1>2, SlotWaking

\* Nor does waking the first of a queue.
LEMMA FirstWakingInside ==
  ASSUME NEW q \in Seq(Users), NEW p \in [Users -> Places]
  PROVE  In(WakeFirst(q, p)) = In(p)
<1>1. CASE q # <<>> /\ p[Head(q)] = "lockWait"
  <2>1. Head(q) \in Users
    BY <1>1
  <2> QED
    BY <1>1, <2>1, MoveAside DEF WakeFirst
<1>2. CASE ~ (q # <<>> /\ p[Head(q)] = "lockWait")
  BY <1>2 DEF WakeFirst
<1> QED
  BY <1>1, <1>2

\* Who gets in finds no rival, and a place among the MaxSlots runs: the invariant
\* of the state that is reached says so.
LEMMA GettingIn ==
  ASSUME Inv', NEW u \in Users, u \notin Inside, Inside' = Inside \cup {u}
  PROVE  Exclusion!Enter(u)
<1>1. Inside' = In(pc') /\ LockInv(pc', locked', lockQueue') /\ SlotInv(pc', slots', slotQueue')
      /\ slots' \in Nat
  BY DEF Inside, In, Inv, TypeOK
<1>2. Exclusion!Rivals(u) = {}
  <2> SUFFICES ASSUME NEW v \in Inside, SessionOf[v] = SessionOf[u]
               PROVE  FALSE
    BY DEF Exclusion!Rivals
  <2>1. v \in Users /\ v # u /\ v \in In(pc') /\ u \in In(pc')
    BY <1>1 DEF Inside
  <2>2. pc'[v] = "inside" /\ pc'[u] = "inside"
    BY <2>1 DEF In
  <2>3. InsideAlone(pc')
    BY <1>1 DEF LockInv
  <2> QED
    BY <2>1, <2>2, <2>3 DEF InsideAlone
<1>3. ASSUME u \in Runs
      PROVE  Cardinality(Inside \cap Runs) < MaxSlots
  <2> DEFINE I == Inside \cap Runs
  <2>1. I \cup {u} \subseteq Holders(pc') /\ u \notin I
    BY <1>1, <1>3 DEF Holders, Holding, In
  <2>2. IsFiniteSet(Holders(pc')) /\ Cardinality(Holders(pc')) \in Nat
    BY HoldersFinite
  <2>3. IsFiniteSet(I) /\ Cardinality(I) \in Nat
    BY <2>1, <2>2, FS_Subset, FS_CardinalityType
  <2>4. Cardinality(I \cup {u}) = Cardinality(I) + 1
    BY <2>1, <2>3, FS_AddElement
  <2>5. Cardinality(I \cup {u}) <= Cardinality(Holders(pc'))
    BY <2>1, <2>2, FS_Subset
  <2>6. slots' + Cardinality(Holders(pc')) = MaxSlots
    BY <1>1 DEF SlotInv, SlotsBalance
  <2> HIDE DEF I
  <2>7. Cardinality(I) < MaxSlots
    BY <1>1, <2>2, <2>3, <2>4, <2>5, <2>6, SlotsAssumption
  <2> QED
    BY <2>7 DEF I
<1>4. u \in Runs => Exclusion!Cardinality(Inside \cap Runs) < MaxSlots
  BY <1>3 DEF Exclusion!Cardinality, Cardinality
<1> QED
  BY <1>2, <1>4 DEF Exclusion!Enter

\* A step lets nobody in or out, or one in, or one out.
LEMMA InsideMoves ==
  ASSUME Inv, Next
  PROVE  \/ Inside' = Inside
         \/ \E u \in Users : u \notin Inside /\ Inside' = Inside \cup {u}
         \/ \E u \in Users : u \in Inside /\ Inside' = Inside \ {u}
<1>1. /\ pc \in [Users -> Places] /\ Inside = In(pc) /\ Inside' = In(pc')
      /\ slots \in Nat /\ slots + 1 \in Nat /\ slotQueue \in Seq(Runs)
      /\ lockQueue \in [Sessions -> Seq(Users)] /\ \A u \in Users : SessionOf[u] \in Sessions
  BY InvTypes, UsersAssumption DEF Inside, In, PcType
<1>2. ASSUME NEW u \in Users, pc[u] # "inside", pc' = [pc EXCEPT ![u] = "inside"]
      PROVE  u \notin Inside /\ Inside' = Inside \cup {u}
  <2>1. \A v \in Users : pc'[v] = "inside" <=> (pc[v] = "inside" \/ v = u)
    BY <1>1, <1>2
  <2> QED
    BY <1>1, <1>2, <2>1 DEF In
<1>3. ASSUME NEW u \in Users, pc[u] = "inside"
      PROVE  u \in Inside /\ In(Unlocked(u)) = Inside \ {u} /\ Unlocked(u) \in [Users -> Places]
  <2> DEFINE n == [pc EXCEPT ![u] = "idle"]
  <2>1. n \in [Users -> Places] /\ \A v \in Users : n[v] = "inside" <=> (pc[v] = "inside" /\ v # u)
    BY <1>1 DEF Places
  <2>2. In(n) = In(pc) \ {u} /\ u \in In(pc)
    BY <1>3, <2>1 DEF In
  <2>3. Unlocked(u) = WakeFirst(lockQueue[SessionOf[u]], n) /\ lockQueue[SessionOf[u]] \in Seq(Users)
    BY <1>1 DEF Unlocked
  <2>4. PcType(Unlocked(u))
    BY <1>3, UnlockedStep
  <2> HIDE DEF n
  <2> QED
    BY <1>1, <2>1, <2>2, <2>3, <2>4, FirstWakingInside DEF PcType
<1>4. ASSUME NEW r \in Runs, AskSlot(r) \/ TakeSlot(r) \/ LeaveSlotQueue(r)
      PROVE  Inside' = Inside
  <2>1. r \in Users
    BY RunsAreUsers
  <2>2. CASE AskSlot(r)
    <3>1. PICK to \in {"hasSlot", "slotWait"} : pc' = [pc EXCEPT ![r] = to]
      BY <2>2 DEF AskSlot
    <3>2. pc[r] = "idle"
      BY <2>2 DEF AskSlot
    <3>3. In([pc EXCEPT ![r] = to]) = In(pc)
      BY <1>1, <2>1, <3>2, MoveAside
    <3> QED
      BY <1>1, <3>1, <3>3
  <2>3. ASSUME NEW to \in {"hasSlot", "refused"}, NEW m \in Nat, pc[r] # "inside",
               slotQueue' \in Seq(Runs), WakeSlot(m, slotQueue', [pc EXCEPT ![r] = to])
        PROVE  Inside' = Inside
    <3>1. [pc EXCEPT ![r] = to] \in [Users -> Places]
      BY <1>1 DEF Places
    <3>2. In(pc') = In([pc EXCEPT ![r] = to])
      <4> DEFINE q == slotQueue'
      <4> HIDE DEF q
      <4>1. q \in Seq(Runs) /\ WakeSlot(m, q, [pc EXCEPT ![r] = to])
        BY <2>3 DEF q
      <4> QED
        BY <3>1, <4>1, SlotWakingInside
    <3>3. In([pc EXCEPT ![r] = to]) = In(pc)
      BY <1>1, <2>1, <2>3, MoveAside
    <3> QED
      BY <1>1, <3>2, <3>3
  <2>4. CASE TakeSlot(r)
    <3>1. slotQueue' \in Seq(Runs)
      BY <1>4, <2>4, TakeSlotStep DEF Inv, TypeOK
    <3> QED
      BY <1>1, <2>3, <2>4, <3>1 DEF TakeSlot
  <2>5. CASE LeaveSlotQueue(r)
    <3>1. slotQueue' \in Seq(Runs)
      BY <1>4, <2>5, LeaveSlotQueueStep DEF Inv, TypeOK
    <3>2. CASE pc[r] = "slotWait" /\ pc' = [pc EXCEPT ![r] = "refused"]
      BY <1>1, <2>1, <3>2, MoveAside
    <3>3. CASE pc[r] = "slotWoken" /\ WakeSlot(slots + 1, slotQueue', [pc EXCEPT ![r] = "refused"])
      BY <1>1, <2>3, <3>1, <3>3
    <3> QED
      BY <2>5, <3>2, <3>3 DEF LeaveSlotQueue
  <2> QED
    BY <1>4, <2>2, <2>4, <2>5
<1>5. ASSUME NEW u \in Users, pc[u] \in {"idle", "hasSlot"}, AcquireLock(u)
      PROVE  Inside' = Inside \/ (u \notin Inside /\ Inside' = Inside \cup {u})
  <2>1. CASE pc' = [pc EXCEPT ![u] = "inside"]
    BY <1>2, <1>5, <2>1
  <2>2. CASE pc' = [pc EXCEPT ![u] = "lockWait"]
    BY <1>1, <1>5, <2>2, MoveAside
  <2> QED
    BY <1>5, <2>1, <2>2 DEF AcquireLock
<1>6. ASSUME NEW u \in Users, TakeLock(u)
      PROVE  u \notin Inside /\ Inside' = Inside \cup {u}
  BY <1>2, <1>6 DEF TakeLock
<1>7. ASSUME NEW r \in Runs, LeaveLockQueue(r)
      PROVE  Inside' = Inside
  <2> DEFINE p == [pc EXCEPT ![r] = "refused"]
             q == Without(lockQueue[SessionOf[r]], r)
             n == IF locked[SessionOf[r]] THEN p ELSE WakeFirst(q, p)
  <2>1. r \in Users /\ pc[r] \in {"lockWait", "lockWoken"} /\ WakeSlot(slots + 1, slotQueue, n)
        /\ lockQueue' = [lockQueue EXCEPT ![SessionOf[r]] = q]
    BY <1>7, RunsAreUsers DEF LeaveLockQueue
  <2>2. p \in [Users -> Places] /\ In(p) = In(pc)
    BY <1>1, <2>1, MoveAside DEF Places
  <2>3. q \in Seq(Users)
    <3>1. lockQueue' \in [Sessions -> Seq(Users)]
      BY <1>7, LeaveLockQueueStep DEF Inv, TypeOK
    <3>2. lockQueue'[SessionOf[r]] = q
      BY <1>1, <2>1
    <3> QED
      BY <1>1, <2>1, <3>1, <3>2
  <2> HIDE DEF p, q
  <2>4. n \in [Users -> Places] /\ In(n) = In(p)
    <3>1. CASE locked[SessionOf[r]]
      BY <2>2, <3>1
    <3>2. CASE ~ locked[SessionOf[r]]
      <4>1. n = WakeFirst(q, p)
        BY <3>2
      <4>2. WakeFirst(q, p) \in [Users -> Places]
        BY <2>2 DEF WakeFirst, Places
      <4> QED
        BY <2>2, <2>3, <4>1, <4>2, FirstWakingInside
    <3> QED
      BY <3>1, <3>2
  <2> HIDE DEF n
  <2> QED
    BY <1>1, <2>1, <2>2, <2>4, SlotWakingInside
<1>8. ASSUME NEW r \in Runs, Exit(r)
      PROVE  r \in Inside /\ Inside' = Inside \ {r}
  <2>1. r \in Users /\ pc[r] = "inside" /\ WakeSlot(slots + 1, slotQueue, Unlocked(r))
    BY <1>8, RunsAreUsers DEF Exit
  <2> QED
    BY <1>1, <1>3, <2>1, SlotWakingInside
<1>9. ASSUME NEW c \in Controls, ExitControl(c)
      PROVE  c \in Inside /\ Inside' = Inside \ {c}
  BY <1>1, <1>3, <1>9 DEF ExitControl, Users
<1>10. ASSUME NEW u \in Users, NEW to \in {"idle", "refused"},
              pc[u] # "inside", pc' = [pc EXCEPT ![u] = to]
       PROVE  Inside' = Inside
  BY <1>1, <1>10, MoveAside
<1>11. ASSUME NEW r \in Runs, RunStep(r)
       PROVE  \/ Inside' = Inside
              \/ r \notin Inside /\ Inside' = Inside \cup {r}
              \/ r \in Inside /\ Inside' = Inside \ {r}
  <2>1. CASE AskLock(r)
    BY <1>5, <2>1, RunsAreUsers DEF AskLock
  <2> QED
    BY <1>4, <1>6, <1>7, <1>8, <1>11, <2>1, RunsAreUsers DEF RunStep
<1>12. ASSUME NEW c \in Controls, ControlStep(c)
       PROVE  \/ Inside' = Inside
              \/ c \notin Inside /\ Inside' = Inside \cup {c}
              \/ c \in Inside /\ Inside' = Inside \ {c}
  <2>1. c \in Users
    BY DEF Users
  <2>2. CASE AskIdle(c)
    BY <1>5, <2>1, <2>2 DEF AskIdle
  <2>3. CASE RefuseBusy(c)
    BY <1>10, <2>1, <2>3 DEF RefuseBusy
  <2> QED
    BY <1>6, <1>9, <1>12, <2>1, <2>2, <2>3 DEF ControlStep
<1>13. ASSUME NEW u \in Users, Answered(u)
       PROVE  Inside' = Inside
  BY <1>10, <1>13 DEF Answered
<1> QED
  BY <1>11, <1>12, <1>13, RunsAreUsers DEF Next, Users

\* At first nobody is inside.
LEMMA PromiseInit == Init => Exclusion!Init
BY DEF Init, Exclusion!Init, Inside

\* Every step is one of the promise, or none.
LEMMA PromiseStep == Inv /\ Inv' /\ [Next]_vars => [Exclusion!Next]_Inside
<1> SUFFICES ASSUME Inv, Inv', [Next]_vars
             PROVE  [Exclusion!Next]_Inside
  OBVIOUS
<1>1. CASE UNCHANGED vars
  BY <1>1 DEF vars, Inside
<1>2. CASE Next
  <2>1. ASSUME NEW u \in Users, u \notin Inside, Inside' = Inside \cup {u}
        PROVE  Exclusion!Next
    BY <2>1, GettingIn DEF Exclusion!Next, Users
  <2>2. ASSUME NEW u \in Users, u \in Inside, Inside' = Inside \ {u}
        PROVE  Exclusion!Next
    BY <2>2 DEF Exclusion!Next, Exclusion!Exit, Users
  <2> QED
    BY <1>2, <2>1, <2>2, InsideMoves
<1> QED
  BY <1>1, <1>2

\* The limiter implements RunExclusion: for any requests and any number of slots,
\* one user a session and at most MaxSlots runs.
THEOREM KeepsPromise == Spec => Promise
  BY Invariance, PromiseInit, PromiseStep, PTL DEF Spec, Promise, Exclusion!Spec
=============================================================================
