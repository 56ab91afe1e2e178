------------------------------ MODULE McpProofs ------------------------------
(* Proofs about the pool of MCP connections and the managers above it. *)
EXTENDS McpManager, TLAPS, FiniteSetTheorems
-----------------------------------------------------------------------------
(* Types.                                                                  *)

\* A choice of connections for the entries that drops some of those there are.
Drops(f) ==
  /\ f \in [Entries -> Conns \cup {None}]
  /\ \A e \in Entries : f[e] \in {session[e], None}
  /\ \A u \in Users : held[u] # None => f[held[u]] = session[held[u]]

\* What is collected was held by nobody.
LEMMA KeptFacts ==
  ASSUME TypeOK, NEW p, NEW h, NEW e \in Entries
  PROVE  /\ Kept(p, h) \in [Entries -> Conns \cup {None}]
         /\ Kept(p, h)[e] \in {session[e], None}
         /\ (\E k \in Keys : p[k] = e) \/ (\E u \in Users : h[u] = e) => Kept(p, h)[e] = session[e]
BY DEF Kept, TypeOK

\* Closing ends connections and begins none.
LEMMA ClosedFacts ==
  ASSUME TypeOK, NEW S, NEW c \in Conns
  PROVE  Closed(S) \in [Conns -> ConnStates] /\ Closed(S)[c] \in {conn[c], "off"}
BY DEF Closed, TypeOK, ConnStates

\* Who holds an entry, and who a connection.
PlacesSound ==
  \A u \in Users :
    /\ held[u] # None <=> pc[u] \in {"leased", "connecting", "using", "returning"}
    /\ mine[u] # None <=> pc[u] \in {"connecting", "using"}

\* Entering the lock of an entry keeps the types.
LEMMA ConnectTypes ==
  ASSUME TypeOK, NEW u \in Users, NEW e \in Entries, NEW f \in [Entries -> Conns \cup {None}], Connect(u, e, f)
  PROVE  /\ mine' \in [Users -> Conns \cup {None}] /\ pc' \in [Users -> Places]
         /\ session' \in [Entries -> Conns \cup {None}] /\ conn' \in [Conns -> ConnStates]
BY DEF Connect, TypeOK, Alive, Places, ConnStates

\* Types after a user went on with an entry.
LEMMA GoOnTypes ==
  ASSUME TypeOK, NEW u \in Users, NEW e \in Entries, NEW f \in [Entries -> Conns \cup {None}], GoOn(u, e, f)
  PROVE  /\ mine' \in [Users -> Conns \cup {None}] /\ pc' \in [Users -> Places]
         /\ session' \in [Entries -> Conns \cup {None}] /\ conn' \in [Conns -> ConnStates]
<1>1. CASE Connect(u, e, f) BY <1>1, ConnectTypes
<1>2. CASE pc' = [pc EXCEPT ![u] = "leased"] /\ session' = f /\ UNCHANGED <<conn, mine>>
  BY <1>2 DEF TypeOK, Places
<1> QED BY <1>1, <1>2 DEF GoOn

\* What a lease is: of the entry the dictionary holds by then, which lives on.
LEMMA LeaseFacts ==
  ASSUME TypeOK, NEW u \in Users, Lease(u)
  PROVE  \E e \in Entries, f \in [Entries -> Conns \cup {None}] :
           /\ GoOn(u, e, f)
           /\ \A d \in Entries : f[d] \in {session[d], None}
           /\ \A v \in Users : held[v] # None /\ v # u => f[held[v]] = session[held[v]]
           /\ f[e] = session[e]
           /\ held' = [held EXCEPT ![u] = e]
           /\ \/ pool[KeyOf[u]] = e /\ pool' = pool /\ leases' = [leases EXCEPT ![KeyOf[u]] = @ + 1] /\ replaced' = replaced /\ retire' = retire
              \/ /\ FreeEntry(e) /\ pool' = [pool EXCEPT ![KeyOf[u]] = e] /\ leases' = [leases EXCEPT ![KeyOf[u]] = 1]
                 /\ retire' = [retire EXCEPT ![KeyOf[u]] = FALSE]
                 /\ replaced' = IF pool[KeyOf[u]] # None /\ Holders(pool[KeyOf[u]]) # {} THEN replaced \cup {KeyOf[u]} ELSE replaced
<1> DEFINE k == KeyOf[u]
<1>0. k \in Keys BY PoolAssumption
<1>1. CASE pool[k] # None /\ ~ retire[k]
  <2>1. pool[k] \in Entries BY <1>0, <1>1 DEF TypeOK
  <2>2. GoOn(u, pool[k], session) /\ held' = [held EXCEPT ![u] = pool[k]] /\ pool' = pool
        /\ leases' = [leases EXCEPT ![k] = @ + 1] /\ replaced' = replaced /\ retire' = retire
    BY <1>1 DEF Lease
  <2>3. session \in [Entries -> Conns \cup {None}] BY DEF TypeOK
  <2> QED BY <2>1, <2>2, <2>3
<1>2. CASE pool[k] = None \/ retire[k]
  <2>1. PICK e \in Entries :
          /\ FreeEntry(e) /\ held' = [held EXCEPT ![u] = e] /\ pool' = [pool EXCEPT ![k] = e]
          /\ GoOn(u, e, Kept(pool', held'))
    BY <1>2 DEF Lease
  <2>2. /\ leases' = [leases EXCEPT ![k] = 1] /\ retire' = [retire EXCEPT ![k] = FALSE]
        /\ replaced' = IF pool[k] # None /\ Holders(pool[k]) # {} THEN replaced \cup {k} ELSE replaced
    BY <1>2 DEF Lease
  <2> DEFINE f == Kept(pool', held')
  <2>3. f \in [Entries -> Conns \cup {None}] /\ \A d \in Entries : f[d] \in {session[d], None}
    BY KeptFacts, <2>1
  <2>4. f[e] = session[e]
    <3>1. pool'[k] = e BY <1>0, <2>1 DEF TypeOK
    <3> QED BY <1>0, <3>1, KeptFacts
  <2>5. \A v \in Users : held[v] # None /\ v # u => f[held[v]] = session[held[v]]
    <3> SUFFICES ASSUME NEW v \in Users, held[v] # None, v # u PROVE f[held[v]] = session[held[v]]
      OBVIOUS
    <3>1. held'[v] = held[v] /\ held[v] \in Entries BY <2>1 DEF TypeOK
    <3> QED BY <3>1, KeptFacts
  <2> HIDE DEF f
  <2>6. GoOn(u, e, f) BY <2>1 DEF f
  <2> QED BY <2>1, <2>2, <2>3, <2>4, <2>5, <2>6
<1> QED BY <1>1, <1>2

\* The types of a removal
LEMMA RemoveTypes ==
  ASSUME TypeOK, NEW K \in SUBSET Keys, Remove(K)
  PROVE  /\ pool' \in [Keys -> Entries \cup {None}] /\ leases' \in [Keys -> Nat] /\ conn' \in [Conns -> ConnStates]
BY DEF Remove, TypeOK, Closed, ConnStates

\* Types after a lease.
LEMMA LeaseTypes ==
  ASSUME TypeOK, NEW u \in Users, Lease(u)
  PROVE  /\ pool' \in [Keys -> Entries \cup {None}] /\ leases' \in [Keys -> Nat] /\ retire' \in [Keys -> BOOLEAN]
         /\ session' \in [Entries -> Conns \cup {None}] /\ conn' \in [Conns -> ConnStates]
         /\ pc' \in [Users -> Places] /\ held' \in [Users -> Entries \cup {None}]
         /\ mine' \in [Users -> Conns \cup {None}] /\ replaced' \subseteq Keys
<1>1. KeyOf[u] \in Keys BY PoolAssumption
<1>2. PICK e \in Entries, f \in [Entries -> Conns \cup {None}] :
        /\ GoOn(u, e, f) /\ held' = [held EXCEPT ![u] = e]
        /\ \/ pool' = pool /\ leases' = [leases EXCEPT ![KeyOf[u]] = @ + 1] /\ replaced' = replaced /\ retire' = retire
           \/ /\ pool' = [pool EXCEPT ![KeyOf[u]] = e] /\ leases' = [leases EXCEPT ![KeyOf[u]] = 1]
              /\ retire' = [retire EXCEPT ![KeyOf[u]] = FALSE]
              /\ replaced' = IF pool[KeyOf[u]] # None /\ Holders(pool[KeyOf[u]]) # {} THEN replaced \cup {KeyOf[u]} ELSE replaced
  BY LeaseFacts
<1>3. /\ mine' \in [Users -> Conns \cup {None}] /\ pc' \in [Users -> Places]
      /\ session' \in [Entries -> Conns \cup {None}] /\ conn' \in [Conns -> ConnStates]
  BY <1>2, GoOnTypes
<1>4. /\ pool' \in [Keys -> Entries \cup {None}] /\ leases' \in [Keys -> Nat] /\ retire' \in [Keys -> BOOLEAN]
      /\ held' \in [Users -> Entries \cup {None}] /\ replaced' \subseteq Keys
  <2> USE DEF TypeOK
  <2>1. pool' \in [Keys -> Entries \cup {None}] BY <1>1, <1>2
  <2>2. leases' \in [Keys -> Nat] BY <1>1, <1>2
  <2>3. retire' \in [Keys -> BOOLEAN] BY <1>1, <1>2
  <2>4. held' \in [Users -> Entries \cup {None}] BY <1>2
  <2>5. replaced' \subseteq Keys BY <1>1, <1>2
  <2> QED BY <2>1, <2>2, <2>3, <2>4, <2>5
<1> QED BY <1>3, <1>4

\* What a return is: the count goes down, the last one out of a retired entry removes it.
LEMMA ReturnTypes ==
  ASSUME TypeOK, NEW u \in Users, NEW well \in BOOLEAN, Return(u, well)
  PROVE  /\ pool' \in [Keys -> Entries \cup {None}] /\ leases' \in [Keys -> Nat] /\ retire' \in [Keys -> BOOLEAN]
         /\ session' \in [Entries -> Conns \cup {None}] /\ conn' \in [Conns -> ConnStates]
         /\ pc' \in [Users -> Places] /\ held' \in [Users -> Entries \cup {None}] /\ healthy' \in [Users -> BOOLEAN]
<1> DEFINE k == KeyOf[u]
<1>0. k \in Keys BY PoolAssumption
<1>1. Left(k) \in Nat BY <1>0 DEF Left, TypeOK
<1>2. pool' \in [Keys -> Entries \cup {None}] /\ leases' \in [Keys -> Nat] /\ retire' \in [Keys -> BOOLEAN] /\ conn' \in [Conns -> ConnStates]
  <2>1. CASE pool[k] = None /\ UNCHANGED <<pool, leases, retire, conn>> BY <2>1 DEF TypeOK
  <2>2. CASE leases' = [leases EXCEPT ![k] = Left(k)] /\ retire' = [retire EXCEPT ![k] = retire[k] \/ ~ well] /\ UNCHANGED <<pool, conn>>
    BY <1>0, <1>1, <2>2 DEF TypeOK
  <2>3. CASE Remove({k}) /\ retire' = [retire EXCEPT ![k] = FALSE]
    BY <1>0, <2>3, RemoveTypes DEF TypeOK
  <2> QED BY <2>1, <2>2, <2>3 DEF Return
<1>3. session' \in [Entries -> Conns \cup {None}]
  BY DEF Return, Kept, TypeOK
<1>4. pc' \in [Users -> Places] /\ held' \in [Users -> Entries \cup {None}] /\ healthy' \in [Users -> BOOLEAN]
  BY DEF Return, TypeOK, Places
<1> QED BY <1>2, <1>3, <1>4

\* Types after a user left.
LEMMA LeaveTypes ==
  ASSUME TypeOK, NEW u \in Users, NEW well \in BOOLEAN, Leave(u, well)
  PROVE  TypeOK'
<1>1. mine' \in [Users -> Conns \cup {None}] /\ serving' \in BOOLEAN /\ reloads' \in 0 .. MaxReloads /\ replaced' \subseteq Keys
  BY DEF Leave, TypeOK, procVars
<1>2. CASE Return(u, well) BY <1>1, <1>2, ReturnTypes DEF TypeOK
<1>3. CASE pc' = [pc EXCEPT ![u] = "returning"] /\ healthy' = [healthy EXCEPT ![u] = well] /\ UNCHANGED <<entryVars, conn, held>>
  BY <1>1, <1>3 DEF TypeOK, Places, entryVars
<1> QED BY <1>2, <1>3 DEF Leave

\* Every step keeps the types.
LEMMA TypeStep == TypeOK /\ PlacesSound /\ [Next]_vars => TypeOK'
<1> SUFFICES ASSUME TypeOK, PlacesSound, [Next]_vars PROVE TypeOK'
  OBVIOUS
<1>1. ASSUME NEW u \in Users, Acquire(u) \/ Evicted(u) PROVE TypeOK'
  <2>0. healthy' \in [Users -> BOOLEAN] /\ serving' \in BOOLEAN /\ reloads' \in 0 .. MaxReloads
    BY <1>1 DEF Acquire, Evicted, TypeOK
  <2>1. CASE Lease(u) BY <2>0, <2>1, LeaseTypes DEF TypeOK
  <2>2. ASSUME NEW stale \in SUBSET Idle, Remove(stale), pc' = [pc EXCEPT ![u] = "evicting"], session' = Kept(pool', held),
               UNCHANGED <<retire, held, mine, replaced>>
        PROVE  TypeOK'
    <3>1. stale \in SUBSET Keys BY DEF Idle
    <3>2. session' \in [Entries -> Conns \cup {None}] BY <2>2 DEF Kept, TypeOK
    <3> QED BY <2>0, <2>2, <3>1, <3>2, RemoveTypes DEF TypeOK, Places
  <2> QED BY <1>1, <2>1, <2>2 DEF Acquire, Evicted
<1>2. ASSUME NEW u \in Users, EnterLock(u) PROVE TypeOK'
  <2>1. held[u] \in Entries BY <1>2 DEF EnterLock, PlacesSound, TypeOK
  <2>2. session \in [Entries -> Conns \cup {None}] BY DEF TypeOK
  <2> QED BY <1>2, <2>1, <2>2, ConnectTypes DEF EnterLock, TypeOK, procVars
<1>3. ASSUME NEW u \in Users, Connected(u) PROVE TypeOK'
  BY <1>3 DEF Connected, TypeOK, Places, entryVars, procVars
<1>4. ASSUME NEW u \in Users, GiveUp(u) \/ TimesOut(u) \/ Finish(u) PROVE TypeOK'
  <2>1. Alive(mine[u]) \in BOOLEAN BY DEF Alive
  <2> QED BY <1>4, <2>1, LeaveTypes DEF GiveUp, TimesOut, Finish
<1>5. ASSUME NEW u \in Users, Release(u) PROVE TypeOK'
  <2>1. healthy[u] \in BOOLEAN BY DEF TypeOK
  <2> QED BY <1>5, <2>1, ReturnTypes DEF Release, TypeOK, procVars
<1>6. ASSUME NEW force \in BOOLEAN, CloseAll(force), serving' \in BOOLEAN, reloads' \in 0 .. MaxReloads PROVE TypeOK'
  <2>1. {k \in Keys : pool[k] # None /\ Closable(k, force)} \in SUBSET Keys
    OBVIOUS
  <2>2. session' \in [Entries -> Conns \cup {None}] BY <1>6 DEF CloseAll, Kept, TypeOK
  <2>3. retire' \in [Keys -> BOOLEAN] BY <1>6 DEF CloseAll
  <2> QED BY <1>6, <2>1, <2>2, <2>3, RemoveTypes DEF CloseAll, TypeOK, userVars
<1>7. CASE Reload
  <2>1. serving' \in BOOLEAN BY <1>7 DEF Reload, TypeOK
  <2>2. reloads' \in 0 .. MaxReloads BY <1>7, PoolAssumption DEF Reload, TypeOK
  <2> QED BY <1>6, <1>7, <2>1, <2>2 DEF Reload
<1>8. CASE Shutdown
  BY <1>6, <1>8 DEF Shutdown, TypeOK
<1>9. ASSUME NEW c \in Conns, ConnStep(c) PROVE TypeOK'
  BY <1>9 DEF ConnStep, OpenTransport, Initialized, Ends, TypeOK, ConnStates, entryVars, userVars, procVars
<1>10. CASE UNCHANGED vars
  BY <1>10 DEF vars, entryVars, userVars, procVars, TypeOK
<1> QED BY <1>1, <1>2, <1>3, <1>4, <1>5, <1>7, <1>8, <1>9, <1>10 DEF Next, UserStep

-----------------------------------------------------------------------------
(* One connection.                                                         *)

\* No entry under two keys, no connection in two entries.
EntriesApart ==
  /\ \A k, l \in Keys : pool[k] # None /\ pool[k] = pool[l] => k = l
  /\ \A d, e \in Entries : session[d] # None /\ session[d] = session[e] => d = e

\* What u connects or uses is its entry's connection, as long as it lives; one at a
\* time is inside the lock of an entry.
SharedBy(u) ==
  /\ pc[u] = "connecting" => session[held[u]] = mine[u]
  /\ pc[u] = "using" => conn[mine[u]] # "starting" /\ (Alive(mine[u]) => session[held[u]] = mine[u])
  /\ \A v \in Users : pc[u] = "connecting" /\ pc[v] = "connecting" /\ held[u] = held[v] => u = v
Shared == \A u \in Users : SharedBy(u)

ConnInv == TypeOK /\ PlacesSound /\ EntriesApart /\ Shared

\* A user that comes to an entry's lock finds it free, or waits.
LEMMA Entering ==
  ASSUME ConnInv, NEW u \in Users, pc[u] \in {"idle", "evicting", "leased"}, NEW e \in Entries,
         NEW f \in [Entries -> Conns \cup {None}], \A d \in Entries : f[d] \in {session[d], None},
         \A v \in Users : held[v] # None /\ v # u => f[held[v]] = session[held[v]],
         held' = [held EXCEPT ![u] = e],
         \/ EntryFree(e) /\ Connect(u, e, f)
         \/ pc' = [pc EXCEPT ![u] = "leased"] /\ session' = f /\ UNCHANGED <<conn, mine>>
  PROVE  /\ PlacesSound' /\ Shared'
         /\ \A d, g \in Entries : session'[d] # None /\ session'[d] = session'[g] => d = g
<1>0. /\ pc \in [Users -> Places] /\ held \in [Users -> Entries \cup {None}] /\ mine \in [Users -> Conns \cup {None}]
      /\ session \in [Entries -> Conns \cup {None}] /\ conn \in [Conns -> ConnStates] /\ None \notin Entries \cup Conns
  BY PoolAssumption DEF ConnInv, TypeOK
<1>a. /\ \A v \in Users : held[v] # None <=> pc[v] \in {"leased", "connecting", "using", "returning"}
      /\ \A v \in Users : mine[v] # None <=> pc[v] \in {"connecting", "using"}
      /\ \A v \in Users : SharedBy(v)
      /\ \A d, g \in Entries : session[d] # None /\ session[d] = session[g] => d = g
  BY DEF ConnInv, PlacesSound, Shared, EntriesApart
<1>1. \A v \in Users : v # u => pc'[v] = pc[v] /\ mine'[v] = mine[v] /\ held'[v] = held[v]
  BY <1>0 DEF Connect
<1>2. CASE pc' = [pc EXCEPT ![u] = "leased"] /\ session' = f /\ UNCHANGED <<conn, mine>>
  <2>1. PlacesSound' BY <1>0, <1>a, <1>2 DEF PlacesSound
  <2>2. ASSUME NEW v \in Users PROVE SharedBy(v)'
    BY <1>0, <1>a, <1>2 DEF SharedBy, Alive
  <2>3. \A d, g \in Entries : session'[d] # None /\ session'[d] = session'[g] => d = g
    BY <1>a, <1>2
  <2> QED BY <2>1, <2>2, <2>3 DEF Shared
<1>3. CASE EntryFree(e) /\ Connect(u, e, f) /\ Alive(f[e])
  <2>1. f[e] \in Conns /\ f[e] = session[e] /\ conn[f[e]] \in {"shaking", "up"} BY <1>0, <1>3 DEF Alive
  <2>2. mine' = [mine EXCEPT ![u] = f[e]] /\ pc' = [pc EXCEPT ![u] = "using"] /\ session' = f /\ conn' = conn
    BY <1>3 DEF Connect
  <2>3. PlacesSound' BY <1>0, <1>a, <2>1, <2>2 DEF PlacesSound
  <2>4. SharedBy(u)' BY <1>0, <2>1, <2>2 DEF SharedBy
  <2>5. ASSUME NEW v \in Users, v # u PROVE SharedBy(v)'
    BY <1>0, <1>a, <2>2, <2>5 DEF SharedBy, Alive
  <2>6. \A d, g \in Entries : session'[d] # None /\ session'[d] = session'[g] => d = g
    BY <1>a, <2>2
  <2> QED BY <2>3, <2>4, <2>5, <2>6 DEF Shared
<1>4. CASE EntryFree(e) /\ Connect(u, e, f) /\ ~ Alive(f[e])
  <2>1. PICK c \in Conns : /\ FreeConn(c) /\ session' = [f EXCEPT ![e] = c] /\ conn' = [conn EXCEPT ![c] = "starting"]
                           /\ mine' = [mine EXCEPT ![u] = c]
    BY <1>4 DEF Connect
  <2>2. pc' = [pc EXCEPT ![u] = "connecting"] BY <1>4 DEF Connect
  <2>3. c # None /\ (\A v \in Users : mine[v] # c) /\ (\A d \in Entries : session[d] # c)
    BY <1>0, <2>1 DEF FreeConn
  <2>4. PlacesSound' BY <1>0, <1>a, <2>1, <2>2, <2>3 DEF PlacesSound
  <2>5. \A v \in Users : v # u /\ held[v] = e => pc[v] # "connecting"
    BY <1>4 DEF EntryFree, Holders
  <2>6. SharedBy(u)'
    BY <1>0, <1>1, <2>1, <2>2, <2>5 DEF SharedBy
  <2>7. ASSUME NEW v \in Users, v # u PROVE SharedBy(v)'
    <3>1. pc'[v] = pc[v] /\ held'[v] = held[v] /\ mine'[v] = mine[v] BY <1>1, <2>7
    <3>2. mine[v] # None => mine[v] \in Conns /\ mine[v] # c /\ conn'[mine[v]] = conn[mine[v]] BY <1>0, <2>1, <2>3
    <3>3. pc[v] = "connecting" => session'[held[v]] = session[held[v]]
      <4>1. pc[v] = "connecting" => held[v] # None /\ held[v] # e BY <1>a, <2>5, <2>7
      <4> QED BY <1>0, <2>1, <2>7, <4>1
    <3>4. pc[v] = "using" /\ Alive(mine[v]) => session'[held[v]] = session[held[v]]
      <4>1. ASSUME pc[v] = "using", Alive(mine[v]) PROVE held[v] # None /\ held[v] # e
        <5>1. held[v] # None /\ session[held[v]] = mine[v] BY <1>a, <4>1 DEF SharedBy
        <5>2. f[held[v]] = mine[v] BY <2>7, <5>1
        <5> QED BY <1>4, <4>1, <5>1, <5>2
      <4> QED BY <1>0, <2>1, <2>7, <4>1
    <3>5. pc[v] \in {"connecting", "using"} => mine[v] # None BY <1>a
    <3>6. SharedBy(v) BY <1>a
    <3>7. pc'[v] = "connecting" => session'[held'[v]] = mine'[v] BY <3>1, <3>3, <3>6 DEF SharedBy
    <3>8. pc'[v] = "using" => conn'[mine'[v]] # "starting" /\ (Alive(mine[v])' => session'[held'[v]] = mine'[v])
      BY <3>1, <3>2, <3>4, <3>5, <3>6 DEF SharedBy, Alive
    <3>9. \A w \in Users : pc'[v] = "connecting" /\ pc'[w] = "connecting" /\ held'[v] = held'[w] => v = w
      <4>1. pc[v] = "connecting" => held[v] # e BY <2>5, <2>7
      <4>2. held'[u] = e BY <1>0
      <4> QED BY <1>1, <3>1, <3>6, <4>1, <4>2 DEF SharedBy
    <3> QED BY <3>7, <3>8, <3>9 DEF SharedBy
  <2>8. \A d, g \in Entries : session'[d] # None /\ session'[d] = session'[g] => d = g
    BY <1>0, <1>a, <2>1, <2>3
  <2> QED BY <2>4, <2>6, <2>7, <2>8 DEF Shared
<1> QED BY <1>2, <1>3, <1>4

\* Connections that end, and leases that are given back, take nothing from the others.
LEMMA Leaving ==
  ASSUME ConnInv, conn' \in [Conns -> ConnStates],
         \A c \in Conns : conn'[c] \in {conn[c], "off"} \/ (conn[c] # "off" /\ conn'[c] # "starting"),
         session' \in [Entries -> Conns \cup {None}], \A d \in Entries : session'[d] \in {session[d], None},
         \A v \in Users : \/ /\ pc'[v] = pc[v] /\ held'[v] = held[v] /\ mine'[v] = mine[v]
                             /\ held[v] # None => session'[held[v]] = session[held[v]]
                          \/ /\ pc'[v] \in {"idle", "evicting", "returning"} /\ mine'[v] = None
                             /\ held'[v] # None <=> pc'[v] = "returning"
                          \/ /\ pc[v] = "connecting" /\ pc'[v] = "using" /\ conn'[mine[v]] # "starting"
                             /\ held'[v] = held[v] /\ mine'[v] = mine[v] /\ session'[held[v]] = session[held[v]]
  PROVE  /\ PlacesSound' /\ Shared'
         /\ \A d, g \in Entries : session'[d] # None /\ session'[d] = session'[g] => d = g
<1>0. /\ pc \in [Users -> Places] /\ held \in [Users -> Entries \cup {None}] /\ mine \in [Users -> Conns \cup {None}]
      /\ session \in [Entries -> Conns \cup {None}] /\ conn \in [Conns -> ConnStates] /\ None \notin Entries \cup Conns
  BY PoolAssumption DEF ConnInv, TypeOK
<1>a. /\ \A v \in Users : held[v] # None <=> pc[v] \in {"leased", "connecting", "using", "returning"}
      /\ \A v \in Users : mine[v] # None <=> pc[v] \in {"connecting", "using"}
      /\ \A v \in Users : SharedBy(v)
      /\ \A d, g \in Entries : session[d] # None /\ session[d] = session[g] => d = g
  BY DEF ConnInv, PlacesSound, Shared, EntriesApart
<1>1. PlacesSound'
  BY <1>a DEF PlacesSound
<1>2. \A d, g \in Entries : session'[d] # None /\ session'[d] = session'[g] => d = g
  BY <1>a
<1>3. ASSUME NEW v \in Users PROVE SharedBy(v)'
  <2>1. \A w \in Users : pc'[w] = "connecting" => pc[w] = "connecting" /\ held'[w] = held[w]
    OBVIOUS
  <2>2. \A w \in Users : pc'[v] = "connecting" /\ pc'[w] = "connecting" /\ held'[v] = held'[w] => v = w
    BY <1>a, <2>1 DEF SharedBy
  <2>3. ASSUME pc'[v] = "connecting" PROVE session'[held'[v]] = mine'[v]
    BY <1>a, <2>3 DEF SharedBy
  <2>4. ASSUME pc'[v] = "using"
        PROVE  conn'[mine'[v]] # "starting" /\ (Alive(mine[v])' => session'[held'[v]] = mine'[v])
    <3>1. held'[v] = held[v] /\ mine'[v] = mine[v] /\ session'[held[v]] = session[held[v]] /\ mine[v] \in Conns
      BY <1>0, <1>a, <2>4
    <3>2. CASE pc[v] = "using"
      <4>1. conn[mine[v]] # "starting" /\ (Alive(mine[v]) => session[held[v]] = mine[v]) BY <1>a, <3>2 DEF SharedBy
      <4>2. Alive(mine[v])' => Alive(mine[v]) BY <1>0, <3>1, <4>1 DEF Alive, ConnStates
      <4> QED BY <3>1, <4>1, <4>2
    <3>3. CASE pc[v] = "connecting" /\ conn'[mine[v]] # "starting" BY <1>a, <3>1, <3>3 DEF SharedBy
    <3> QED BY <2>4, <3>2, <3>3
  <2> QED BY <2>2, <2>3, <2>4 DEF SharedBy
<1> QED BY <1>1, <1>2, <1>3 DEF Shared

\* A removal takes entries out, and ends connections only.
LEMMA RemoveFacts ==
  ASSUME TypeOK, NEW K \in SUBSET Keys, Remove(K)
  PROVE  /\ \A k \in Keys : pool'[k] = IF k \in K THEN None ELSE pool[k]
         /\ \A k \in Keys : leases'[k] = IF k \in K THEN 0 ELSE leases[k]
         /\ \A c \in Conns : conn'[c] = IF (\E k \in K : pool[k] # None /\ session[pool[k]] = c) /\ Running(c)
                                        THEN "off" ELSE conn[c]
BY DEF Remove, Closed

\* What is returned, and what becomes of the entry that the dictionary holds.
LEMMA ReturnFacts ==
  ASSUME TypeOK, NEW u \in Users, NEW well, Return(u, well)
  PROVE  LET k == KeyOf[u] IN
         /\ pc' = [pc EXCEPT ![u] = "idle"] /\ held' = [held EXCEPT ![u] = None] /\ session' = Kept(pool', held')
         /\ \/ pool[k] = None /\ UNCHANGED <<pool, leases, conn>>
            \/ pool[k] # None /\ leases' = [leases EXCEPT ![k] = Left(k)] /\ UNCHANGED <<pool, conn>>
            \/ pool[k] # None /\ Left(k) = 0 /\ Remove({k})
BY DEF Return

\* A session survives as long as someone holds its entry.
LEMMA KeptWhileHeld ==
  ASSUME TypeOK, NEW p, NEW h, session' = Kept(p, h)
  PROVE  /\ \A d \in Entries : session'[d] \in {session[d], None}
         /\ \A v \in Users : h[v] \in Entries => session'[h[v]] = session[h[v]]
BY KeptFacts

\* Every step keeps the connections apart and shared.
LEMMA ConnInvStep == ConnInv /\ [Next]_vars => ConnInv'
<1> SUFFICES ASSUME ConnInv, [Next]_vars, TypeOK' PROVE PlacesSound' /\ Shared' /\ EntriesApart'
  BY TypeStep DEF ConnInv
<1>0. TypeOK /\ PlacesSound /\ EntriesApart /\ Shared BY DEF ConnInv
<1>a. /\ pc \in [Users -> Places] /\ held \in [Users -> Entries \cup {None}] /\ mine \in [Users -> Conns \cup {None}]
      /\ session \in [Entries -> Conns \cup {None}] /\ conn \in [Conns -> ConnStates] /\ None \notin Entries \cup Conns
      /\ pool \in [Keys -> Entries \cup {None}] /\ conn' \in [Conns -> ConnStates]
      /\ session' \in [Entries -> Conns \cup {None}]
      /\ \A v \in Users : held[v] # None <=> pc[v] \in {"leased", "connecting", "using", "returning"}
      /\ \A v \in Users : mine[v] # None <=> pc[v] \in {"connecting", "using"}
  BY <1>0, PoolAssumption DEF TypeOK, PlacesSound
<1> DEFINE Apart == \A d, g \in Entries : session'[d] # None /\ session'[d] = session'[g] => d = g
           Good == PlacesSound' /\ Shared' /\ Apart
<1>b. ASSUME Good, \A k \in Keys : pool'[k] \in {pool[k], None} PROVE PlacesSound' /\ Shared' /\ EntriesApart'
  <2>1. \A k, l \in Keys : pool'[k] # None /\ pool'[k] = pool'[l] => k = l
    BY <1>0, <1>b DEF EntriesApart
  <2> QED BY <1>b, <2>1 DEF EntriesApart
<1>1. ASSUME NEW u \in Users, pc[u] \in {"idle", "evicting"}, Lease(u) PROVE PlacesSound' /\ Shared' /\ EntriesApart'
  <2>1. PICK e \in Entries, f \in [Entries -> Conns \cup {None}] :
           /\ GoOn(u, e, f)
           /\ \A d \in Entries : f[d] \in {session[d], None}
           /\ \A v \in Users : held[v] # None /\ v # u => f[held[v]] = session[held[v]]
           /\ f[e] = session[e]
           /\ held' = [held EXCEPT ![u] = e]
           /\ pool' = pool \/ (FreeEntry(e) /\ pool' = [pool EXCEPT ![KeyOf[u]] = e])
    BY <1>0, <1>1, LeaseFacts
  <2>2. \/ EntryFree(e) /\ Connect(u, e, f)
        \/ pc' = [pc EXCEPT ![u] = "leased"] /\ session' = f /\ UNCHANGED <<conn, mine>>
    BY <2>1 DEF GoOn
  <2>3. Good BY <1>1, <2>1, <2>2, Entering
  <2>4. \A k, l \in Keys : pool'[k] # None /\ pool'[k] = pool'[l] => k = l
    <3>1. CASE pool' = pool BY <1>0, <3>1 DEF EntriesApart
    <3>2. CASE FreeEntry(e) /\ pool' = [pool EXCEPT ![KeyOf[u]] = e]
      <4>1. \A k \in Keys : pool[k] # e BY <1>a, <3>2 DEF FreeEntry, Pooled
      <4> QED BY <1>0, <1>a, <3>2, <4>1 DEF EntriesApart
    <3> QED BY <2>1, <3>1, <3>2
  <2> QED BY <2>3, <2>4 DEF EntriesApart
<1>2. ASSUME NEW u \in Users, Acquire(u), ~ Lease(u) PROVE PlacesSound' /\ Shared' /\ EntriesApart'
  <2>1. PICK stale \in SUBSET Idle : Remove(stale) /\ pc' = [pc EXCEPT ![u] = "evicting"] /\ session' = Kept(pool', held)
    BY <1>2 DEF Acquire
  <2>2. held' = held /\ mine' = mine /\ pc[u] = "idle" BY <1>2 DEF Acquire
  <2>3. stale \in SUBSET Keys BY DEF Idle
  <2>4. \A c \in Conns : conn'[c] \in {conn[c], "off"} BY <1>0, <2>1, <2>3, RemoveFacts
  <2>5. /\ \A d \in Entries : session'[d] \in {session[d], None}
        /\ \A v \in Users : held[v] # None => session'[held[v]] = session[held[v]]
    BY <1>0, <1>a, <2>1, KeptWhileHeld
  <2>6. Good BY <1>a, <2>1, <2>2, <2>4, <2>5, Leaving
  <2> QED BY <1>0, <1>b, <2>1, <2>3, <2>6, RemoveFacts
<1>3. ASSUME NEW u \in Users, EnterLock(u) PROVE PlacesSound' /\ Shared' /\ EntriesApart'
  <2>1. pc[u] = "leased" /\ EntryFree(held[u]) /\ Connect(u, held[u], session) /\ held' = [held EXCEPT ![u] = held[u]] /\ pool' = pool
    BY <1>a, <1>3 DEF EnterLock
  <2>2. held[u] \in Entries BY <1>a, <2>1
  <2>3. Good BY <1>a, <2>1, <2>2, Entering
  <2> QED BY <1>b, <2>1, <2>3
<1>4. ASSUME NEW u \in Users, Connected(u) PROVE PlacesSound' /\ Shared' /\ EntriesApart'
  <2>1. pc[u] = "connecting" /\ conn[mine[u]] = "up" /\ pc' = [pc EXCEPT ![u] = "using"]
        /\ UNCHANGED <<pool, session, conn, held, mine>>
    BY <1>4 DEF Connected, entryVars
  <2>2. Good BY <1>a, <2>1, Leaving
  <2> QED BY <1>b, <2>1, <2>2
<1>5. ASSUME NEW u \in Users, NEW well \in BOOLEAN, pc[u] \in {"leased", "connecting", "using", "returning"}, Return(u, well),
             mine' = [mine EXCEPT ![u] = None]
      PROVE  PlacesSound' /\ Shared' /\ EntriesApart'
  <2>1. pc' = [pc EXCEPT ![u] = "idle"] /\ held' = [held EXCEPT ![u] = None] /\ session' = Kept(pool', held')
    BY <1>0, <1>5, ReturnFacts
  <2>2. /\ \A c \in Conns : conn'[c] \in {conn[c], "off"} 
        /\ \A k \in Keys : pool'[k] \in {pool[k], None}
    <3>1. KeyOf[u] \in Keys BY PoolAssumption
    <3>2. CASE Remove({KeyOf[u]}) BY <1>0, <3>1, <3>2, RemoveFacts
    <3> QED BY <1>0, <1>5, <3>2, ReturnFacts
  <2>3. /\ \A d \in Entries : session'[d] \in {session[d], None}
        /\ \A v \in Users : held'[v] \in Entries => session'[held'[v]] = session[held'[v]]
    BY <1>0, <2>1, KeptWhileHeld
  <2>4. ASSUME NEW v \in Users, v # u
        PROVE  /\ pc'[v] = pc[v] /\ held'[v] = held[v] /\ mine'[v] = mine[v]
               /\ held[v] # None => session'[held[v]] = session[held[v]]
    <3>1. pc'[v] = pc[v] /\ held'[v] = held[v] /\ mine'[v] = mine[v] BY <1>5, <2>1, <2>4
    <3> QED BY <1>a, <2>3, <3>1
  <2>5. pc'[u] = "idle" /\ held'[u] = None /\ mine'[u] = None BY <1>a, <1>5, <2>1
  <2>6. Good BY <1>a, <2>2, <2>3, <2>4, <2>5, Leaving
  <2> QED BY <1>b, <2>2, <2>6
<1>6. ASSUME NEW u \in Users, GiveUp(u) \/ TimesOut(u) \/ Finish(u) PROVE PlacesSound' /\ Shared' /\ EntriesApart'
  <2>1. PICK well \in BOOLEAN : Leave(u, well) /\ pc[u] \in {"leased", "connecting", "using"}
    <3>1. Alive(mine[u]) \in BOOLEAN BY DEF Alive
    <3> QED BY <1>6, <3>1 DEF GiveUp, TimesOut, Finish
  <2>2. mine' = [mine EXCEPT ![u] = None] BY <2>1 DEF Leave
  <2>3. CASE Return(u, well)
    <3>1. pc[u] \in {"leased", "connecting", "using", "returning"} BY <2>1
    <3> QED BY <1>5, <2>2, <2>3, <3>1, Zenon
  <2>4. CASE pc' = [pc EXCEPT ![u] = "returning"] /\ UNCHANGED <<entryVars, conn, held>>
    <3>1. UNCHANGED <<pool, session, conn, held>> BY <2>4 DEF entryVars
    <3>2. Good BY <1>a, <2>1, <2>2, <2>4, <3>1, Leaving
    <3> QED BY <1>b, <3>1, <3>2
  <2> QED BY <2>1, <2>3, <2>4 DEF Leave
<1>7. ASSUME NEW u \in Users, Release(u) PROVE PlacesSound' /\ Shared' /\ EntriesApart'
  <2>1. pc[u] = "returning" /\ Return(u, healthy[u]) /\ mine' = mine BY <1>7 DEF Release
  <2>2. mine' = [mine EXCEPT ![u] = None] BY <1>a, <2>1
  <2>3. healthy[u] \in BOOLEAN BY <1>0 DEF TypeOK
  <2>4. pc[u] \in {"leased", "connecting", "using", "returning"} BY <2>1
  <2> QED BY <1>5, <2>1, <2>2, <2>3, <2>4, Zenon
<1>8. ASSUME NEW force, CloseAll(force) PROVE PlacesSound' /\ Shared' /\ EntriesApart'
  <2>1. PICK K \in SUBSET Keys : Remove(K)
    BY <1>8 DEF CloseAll
  <2>2. session' = Kept(pool', held) /\ UNCHANGED <<pc, held, mine>> BY <1>8 DEF CloseAll, userVars
  <2>3. \A c \in Conns : conn'[c] \in {conn[c], "off"} BY <1>0, <2>1, RemoveFacts
  <2>4. /\ \A d \in Entries : session'[d] \in {session[d], None}
        /\ \A v \in Users : held[v] # None => session'[held[v]] = session[held[v]]
    BY <1>0, <1>a, <2>2, KeptWhileHeld
  <2>5. Good BY <1>a, <2>2, <2>3, <2>4, Leaving
  <2> QED BY <1>0, <1>b, <2>1, <2>5, RemoveFacts
<1>9. ASSUME NEW c \in Conns, ConnStep(c) PROVE PlacesSound' /\ Shared' /\ EntriesApart'
  <2>1. UNCHANGED <<pool, session, pc, held, mine>> BY <1>9 DEF ConnStep, entryVars, userVars
  <2>2. \A d \in Conns : conn'[d] \in {conn[d], "off"} \/ (conn[d] # "off" /\ conn'[d] # "starting")
    BY <1>a, <1>9 DEF ConnStep, OpenTransport, Initialized, Ends
  <2>3. Good BY <1>a, <2>1, <2>2, Leaving
  <2> QED BY <1>b, <2>1, <2>3
<1>10. CASE UNCHANGED vars
  <2>1. UNCHANGED <<pool, session, pc, held, mine, conn>> BY <1>10 DEF vars, entryVars, userVars
  <2>2. Good BY <1>a, <2>1, Leaving
  <2> QED BY <1>b, <2>1, <2>2
<1>11. ASSUME NEW u \in Users, UserStep(u) PROVE PlacesSound' /\ Shared' /\ EntriesApart'
  BY <1>1, <1>2, <1>3, <1>4, <1>6, <1>7, <1>11 DEF UserStep, Acquire, Evicted
<1> QED BY <1>8, <1>9, <1>10, <1>11 DEF Next, Reload, Shutdown

\* At first there is neither entry nor connection.
LEMMA InitConnInv == Init => ConnInv
BY PoolAssumption DEF Init, ConnInv, TypeOK, PlacesSound, EntriesApart, Shared, SharedBy, ConnStates, Places

\* A manager does to the pool what the pool's users do, and nothing else.
LEMMA ManagerUsesPool == ManagerInit /\ [][ManagerNext]_allVars => Spec
<1>1. ManagerInit => Init BY DEF ManagerInit
<1>2. [ManagerNext]_allVars => [Next]_vars
  BY DEF ManagerNext, PoolStep, CallStep, StartList, Listed, ListFails, Call, Answer, CallBreaks, CallTimesOut, Retry, allVars
<1> QED BY <1>1, <1>2, PTL DEF Spec

\* The users of an entry share one connection: the lock around a cold start admits one
\* of them, and the others find what it has begun.
THEOREM ConnectionIsShared == Spec => []OneConnection
<1>1. ConnInv => OneConnection
  BY DEF ConnInv, Shared, SharedBy, OneConnection
<1> QED BY <1>1, InitConnInv, ConnInvStep, PTL DEF Spec

-----------------------------------------------------------------------------
(* Whose connection is closed.                                             *)

\* The users that hold an entry they leased as that of k.
Borrowers(k) == {u \in Users : KeyOf[u] = k /\ held[u] # None}
\* They hold the entry of the dictionary, and are counted.
CountedFor(k) ==
  /\ leases[k] = Cardinality(Borrowers(k))
  /\ \A u \in Borrowers(k) : held[u] = pool[k]
Counted == serving => \A k \in Keys \ replaced : CountedFor(k)

PoolInv == ConnInv /\ Counted

\* The users that hold an entry can be counted.
LEMMA BorrowersFinite ==
  ASSUME NEW k
  PROVE  /\ IsFiniteSet(Borrowers(k)) /\ Cardinality(Borrowers(k)) \in Nat
         /\ Cardinality(Borrowers(k)) = 0 <=> Borrowers(k) = {}
<1>1. Borrowers(k) \subseteq Users BY DEF Borrowers
<1>2. IsFiniteSet(Borrowers(k)) BY <1>1, PoolAssumption, FS_Subset
<1> QED BY <1>2, FS_CardinalityType, FS_EmptySet

\* A removal of entries that count no lease takes none from a borrower.
LEMMA CountedRemove ==
  ASSUME TypeOK, NEW K \in SUBSET Keys, \A k \in K : leases[k] = 0, Remove(K), UNCHANGED held,
         NEW k \in Keys, CountedFor(k)
  PROVE  CountedFor(k)'
<1>1. Borrowers(k)' = Borrowers(k) BY DEF Borrowers
<1>2. CASE k \notin K
  <2>1. pool'[k] = pool[k] /\ leases'[k] = leases[k] BY <1>2, RemoveFacts
  <2> QED BY <1>1, <2>1 DEF CountedFor
<1>3. CASE k \in K
  <2>1. leases[k] = 0 /\ leases'[k] = 0 BY <1>3, RemoveFacts
  <2>2. Borrowers(k) = {} BY <2>1, BorrowersFinite DEF CountedFor
  <2> QED BY <1>1, <2>1, <2>2 DEF CountedFor
<1> QED BY <1>2, <1>3

\* A lease is counted, or begins a new count where nobody is left.
LEMMA CountedLease ==
  ASSUME ConnInv, NEW u \in Users, pc[u] \in {"idle", "evicting"}, Lease(u), NEW k \in Keys, k \notin replaced', CountedFor(k)
  PROVE  CountedFor(k)'
<1>0. TypeOK /\ held[u] = None BY DEF ConnInv, PlacesSound
<1>a. leases \in [Keys -> Nat] /\ held \in [Users -> Entries \cup {None}] /\ pool \in [Keys -> Entries \cup {None}] /\ None \notin Entries
  BY <1>0, PoolAssumption DEF TypeOK
<1>1. PICK e \in Entries :
           /\ held' = [held EXCEPT ![u] = e]
           /\ \/ pool[KeyOf[u]] = e /\ pool' = pool /\ leases' = [leases EXCEPT ![KeyOf[u]] = @ + 1]
              \/ /\ pool' = [pool EXCEPT ![KeyOf[u]] = e] /\ leases' = [leases EXCEPT ![KeyOf[u]] = 1]
                 /\ replaced' = IF pool[KeyOf[u]] # None /\ Holders(pool[KeyOf[u]]) # {} THEN replaced \cup {KeyOf[u]} ELSE replaced
  BY <1>0, LeaseFacts
<1>2. CASE KeyOf[u] # k
  <2>1. Borrowers(k)' = Borrowers(k) BY <1>1, <1>2, <1>a DEF Borrowers
  <2>2. leases'[k] = leases[k] /\ pool'[k] = pool[k] /\ \A v \in Borrowers(k) : held'[v] = held[v]
    BY <1>1, <1>2, <1>a DEF Borrowers
  <2> QED BY <2>1, <2>2 DEF CountedFor
<1>3. CASE KeyOf[u] = k
  <2>1. Borrowers(k)' = Borrowers(k) \cup {u} BY <1>1, <1>3, <1>a DEF Borrowers
  <2>2. u \notin Borrowers(k) BY <1>0 DEF Borrowers
  <2>3. Cardinality(Borrowers(k)') = Cardinality(Borrowers(k)) + 1
    BY <2>1, <2>2, BorrowersFinite, FS_AddElement
  <2>4. CASE pool[k] = e /\ pool' = pool /\ leases' = [leases EXCEPT ![k] = @ + 1]
    <3>1. leases'[k] = Cardinality(Borrowers(k)') BY <1>a, <2>3, <2>4 DEF CountedFor
    <3>2. \A v \in Borrowers(k) \cup {u} : held'[v] = pool'[k]
      BY <1>1, <1>a, <2>2, <2>4 DEF CountedFor, Borrowers
    <3> QED BY <2>1, <3>1, <3>2 DEF CountedFor
  <2>5. CASE /\ pool' = [pool EXCEPT ![k] = e] /\ leases' = [leases EXCEPT ![k] = 1]
             /\ replaced' = IF pool[k] # None /\ Holders(pool[k]) # {} THEN replaced \cup {k} ELSE replaced
    <3>1. pool[k] = None \/ Holders(pool[k]) = {} BY <2>5
    <3>2. Borrowers(k) = {} BY <3>1 DEF CountedFor, Borrowers, Holders
    <3>3. leases'[k] = 1 /\ pool'[k] = e /\ held'[u] = e BY <1>1, <1>a, <2>5
    <3>4. Cardinality(Borrowers(k)) = 0 BY <3>2, BorrowersFinite
    <3> QED BY <2>1, <2>3, <3>2, <3>3, <3>4 DEF CountedFor
  <2> QED BY <1>1, <1>3, <2>4, <2>5
<1> QED BY <1>2, <1>3

\* A return is counted once, and removes only what nobody else holds.
LEMMA CountedReturn ==
  ASSUME TypeOK, NEW u \in Users, NEW well, held[u] # None, Return(u, well), NEW k \in Keys, CountedFor(k)
  PROVE  CountedFor(k)' /\ (pool'[k] # pool[k] => Borrowers(k) = {u})
<1>a. leases \in [Keys -> Nat] /\ held \in [Users -> Entries \cup {None}] /\ pool \in [Keys -> Entries \cup {None}] /\ None \notin Entries
  BY PoolAssumption DEF TypeOK
<1>1. /\ held' = [held EXCEPT ![u] = None]
      /\ \/ pool[KeyOf[u]] = None /\ UNCHANGED <<pool, leases, conn>>
         \/ pool[KeyOf[u]] # None /\ leases' = [leases EXCEPT ![KeyOf[u]] = Left(KeyOf[u])] /\ UNCHANGED <<pool, conn>>
         \/ pool[KeyOf[u]] # None /\ Left(KeyOf[u]) = 0 /\ Remove({KeyOf[u]})
  BY ReturnFacts
<1>2. KeyOf[u] \in Keys BY PoolAssumption
<1>3. CASE KeyOf[u] # k
  <2>1. Borrowers(k)' = Borrowers(k) BY <1>1, <1>3, <1>a DEF Borrowers
  <2>2. leases'[k] = leases[k] /\ pool'[k] = pool[k]
    <3>1. Remove({KeyOf[u]}) => leases'[k] = leases[k] /\ pool'[k] = pool[k] BY <1>2, <1>3, RemoveFacts
    <3> QED BY <1>1, <1>3, <1>a, <3>1
  <2>3. \A v \in Borrowers(k) : held'[v] = held[v]
    BY <1>1, <1>3, <1>a DEF Borrowers
  <2> QED BY <2>1, <2>2, <2>3 DEF CountedFor
<1>4. CASE KeyOf[u] = k
  <2>1. Borrowers(k)' = Borrowers(k) \ {u} /\ u \in Borrowers(k) BY <1>1, <1>4, <1>a DEF Borrowers
  <2>2. pool[k] # None BY <2>1 DEF CountedFor
  <2>3. Cardinality(Borrowers(k)') = Cardinality(Borrowers(k)) - 1
    BY <2>1, BorrowersFinite, FS_RemoveElement
  <2>4. Left(k) = Cardinality(Borrowers(k)')
    <3>1. Cardinality(Borrowers(k)) > 0 BY <2>1, BorrowersFinite
    <3> QED BY <2>3, <3>1, BorrowersFinite DEF Left, CountedFor
  <2>5. \A v \in Borrowers(k)' : held'[v] = held[v] /\ held[v] = pool[k]
    BY <1>1, <1>a, <2>1 DEF CountedFor, Borrowers
  <2>6. CASE leases' = [leases EXCEPT ![k] = Left(k)] /\ UNCHANGED <<pool, conn>>
    BY <1>a, <2>4, <2>5, <2>6 DEF CountedFor
  <2>7. CASE Left(k) = 0 /\ Remove({k})
    <3>1. Borrowers(k)' = {}
      <4>1. IsFiniteSet(Borrowers(k)') BY <2>1, BorrowersFinite, FS_Subset
      <4> QED BY <2>4, <2>7, <4>1, FS_EmptySet
    <3>2. leases'[k] = 0 BY <2>7, RemoveFacts
    <3> QED BY <2>1, <2>4, <2>7, <3>1, <3>2 DEF CountedFor
  <2> QED BY <1>1, <1>4, <2>2, <2>6, <2>7
<1> QED BY <1>3, <1>4

\* What closes connections: the removal of entries that count no lease, a return that
\* takes the last one, or the shutdown.
LEMMA PoolMoves ==
  ASSUME ConnInv, [Next]_vars, serving'
  PROVE  /\ serving
         /\ \/ \E u \in Users : pc[u] \in {"idle", "evicting"} /\ Lease(u)
            \/ \E K \in SUBSET Keys : (\A k \in K : leases[k] = 0) /\ Remove(K) /\ UNCHANGED <<held, replaced>>
            \/ \E u \in Users, well \in BOOLEAN : held[u] # None /\ Return(u, well) /\ UNCHANGED replaced
            \/ UNCHANGED <<pool, leases, replaced>> /\ \A u \in Users : held'[u] = held[u]
<1> DEFINE Quiet == UNCHANGED <<pool, leases, replaced>> /\ \A u \in Users : held'[u] = held[u]
           Leased == \E u \in Users : pc[u] \in {"idle", "evicting"} /\ Lease(u)
           Removed == \E K \in SUBSET Keys : (\A k \in K : leases[k] = 0) /\ Remove(K) /\ UNCHANGED <<held, replaced>>
           Returned == \E u \in Users, well \in BOOLEAN : held[u] # None /\ Return(u, well) /\ UNCHANGED replaced
           Good == serving /\ (Leased \/ Removed \/ Returned \/ Quiet)
<1>0. TypeOK /\ PlacesSound BY DEF ConnInv
<1>1. ASSUME NEW u \in Users, Acquire(u) \/ Evicted(u) PROVE Good
  <2>1. serving BY <1>1 DEF Acquire, Evicted
  <2>2. CASE Lease(u) BY <1>1, <2>1, <2>2 DEF Acquire, Evicted
  <2>3. ASSUME NEW stale \in SUBSET Idle, Remove(stale), UNCHANGED <<held, replaced>> PROVE Removed
    BY <2>3 DEF Idle
  <2> QED BY <1>1, <2>1, <2>2, <2>3 DEF Acquire, Evicted
<1>2. ASSUME NEW u \in Users, EnterLock(u) \/ Connected(u) PROVE Good
  BY <1>2 DEF EnterLock, Connected, procVars, entryVars
<1>3. ASSUME NEW u \in Users, GiveUp(u) \/ TimesOut(u) \/ Finish(u) PROVE Good
  <2>1. PICK well \in BOOLEAN : Leave(u, well) /\ pc[u] \in {"leased", "connecting", "using"}
    <3>1. Alive(mine[u]) \in BOOLEAN BY DEF Alive
    <3> QED BY <1>3, <3>1 DEF GiveUp, TimesOut, Finish
  <2>2. held[u] # None BY <1>0, <2>1 DEF PlacesSound
  <2> QED BY <2>1, <2>2 DEF Leave, procVars, entryVars
<1>4. ASSUME NEW u \in Users, Release(u) PROVE Good
  <2>1. healthy[u] \in BOOLEAN /\ held[u] # None BY <1>0, <1>4 DEF TypeOK, PlacesSound, Release
  <2> QED BY <1>4, <2>1 DEF Release, procVars
<1>5. CASE Reload
  <2>1. {k \in Keys : pool[k] # None /\ Closable(k, FALSE)} \in SUBSET Keys OBVIOUS
  <2> QED BY <1>5, <2>1 DEF Reload, CloseAll, Closable, userVars
<1>6. CASE Shutdown BY <1>6 DEF Shutdown
<1>7. ASSUME NEW c \in Conns, ConnStep(c) PROVE Good
  BY <1>7 DEF ConnStep, entryVars, userVars, procVars
<1>8. CASE UNCHANGED vars
  BY <1>8 DEF vars, entryVars, userVars, procVars
<1>9. Good BY <1>1, <1>2, <1>3, <1>4, <1>5, <1>6, <1>7, <1>8 DEF Next, UserStep
<1> QED BY <1>9

\* Every step keeps the counts of entries that were never replaced under their users.
LEMMA CountedStep == PoolInv /\ [Next]_vars => Counted'
<1> SUFFICES ASSUME PoolInv, [Next]_vars, serving', NEW k \in Keys, k \notin replaced' PROVE CountedFor(k)'
  BY DEF Counted
<1>0. ConnInv /\ TypeOK /\ PlacesSound BY DEF PoolInv, ConnInv
<1>1. serving BY <1>0, PoolMoves
<1>2. k \notin replaced => CountedFor(k) BY <1>1 DEF PoolInv, Counted
<1>3. ASSUME NEW u \in Users, pc[u] \in {"idle", "evicting"}, Lease(u) PROVE CountedFor(k)'
  <2>1. replaced' = replaced \/ replaced' = replaced \cup {KeyOf[u]} BY <1>0, <1>3, LeaseFacts
  <2> QED BY <1>0, <1>2, <1>3, <2>1, CountedLease
<1>4. ASSUME NEW K \in SUBSET Keys, \A l \in K : leases[l] = 0, Remove(K), UNCHANGED <<held, replaced>> PROVE CountedFor(k)'
  BY <1>0, <1>2, <1>4, CountedRemove
<1>5. ASSUME NEW u \in Users, NEW well \in BOOLEAN, held[u] # None, Return(u, well), UNCHANGED replaced PROVE CountedFor(k)'
  BY <1>0, <1>2, <1>5, CountedReturn
<1>6. ASSUME UNCHANGED <<pool, leases, replaced>>, \A u \in Users : held'[u] = held[u] PROVE CountedFor(k)'
  <2>1. Borrowers(k)' = Borrowers(k) BY <1>6 DEF Borrowers
  <2> QED BY <1>2, <1>6, <2>1 DEF CountedFor, Borrowers
<1> QED BY <1>0, <1>3, <1>4, <1>5, <1>6, PoolMoves

\* Nobody loses the connection in use by an act of the pool unless the entry was replaced.
LEMMA NotCutStep ==
  ASSUME PoolInv, [Next]_vars, NEW u \in Users, Cut(u)
  PROVE  KeyOf[u] \in replaced
<1> SUFFICES ASSUME KeyOf[u] \notin replaced PROVE FALSE
  OBVIOUS
<1> DEFINE k == KeyOf[u]
           c == mine[u]
<1>0. ConnInv /\ TypeOK /\ PlacesSound /\ EntriesApart /\ SharedBy(u) BY DEF PoolInv, ConnInv, Shared
<1>1. /\ pc[u] = "using" /\ pc'[u] = "using" /\ serving' /\ conn[c] # "off" /\ conn'[c] = "off" /\ pool' # pool
  BY DEF Cut, Running
<1>2. k \in Keys /\ c \in Conns /\ held[u] \in Entries /\ c # None
  BY <1>0, <1>1, PoolAssumption DEF PlacesSound, TypeOK
<1>3. session[held[u]] = c
  <2>1. Alive(c) BY <1>0, <1>1, <1>2 DEF SharedBy, TypeOK, ConnStates, Alive
  <2> QED BY <1>0, <1>1, <2>1 DEF SharedBy
<1>4. serving BY <1>0, <1>1, PoolMoves
<1>5. CountedFor(k) /\ u \in Borrowers(k) /\ held[u] = pool[k]
  <2>1. CountedFor(k) BY <1>2, <1>4 DEF PoolInv, Counted
  <2>2. u \in Borrowers(k) BY <1>2, PoolAssumption DEF Borrowers
  <2> QED BY <2>1, <2>2 DEF CountedFor
<1>6. ASSUME NEW K \in SUBSET Keys, Remove(K) PROVE k \in K
  <2>1. PICK l \in K : pool[l] # None /\ session[pool[l]] = c BY <1>0, <1>1, <1>2, <1>6, RemoveFacts
  <2>2. pool[l] \in Entries BY <1>0, <2>1 DEF TypeOK
  <2>3. pool[l] = pool[k] BY <1>0, <1>2, <1>3, <1>5, <2>1, <2>2 DEF EntriesApart
  <2> QED BY <1>0, <1>2, <2>1, <2>3 DEF EntriesApart
<1> HIDE DEF k, c
<1>7. ASSUME NEW v \in Users, Lease(v) PROVE FALSE
  <2>1. conn'[c] \in {conn[c], "starting"}
    <3>1. PICK e \in Entries, f \in [Entries -> Conns \cup {None}] : GoOn(v, e, f) BY <1>0, <1>7, LeaseFacts
    <3> QED BY <1>0, <1>2, <3>1 DEF GoOn, Connect, TypeOK
  <2> QED BY <1>1, <2>1
<1>8. ASSUME NEW K \in SUBSET Keys, \A l \in K : leases[l] = 0, Remove(K) PROVE FALSE
  <2>1. leases[k] = 0 BY <1>6, <1>8
  <2> QED BY <1>5, <2>1, BorrowersFinite DEF CountedFor
<1>9. ASSUME NEW v \in Users, NEW well \in BOOLEAN, held[v] # None, Return(v, well) PROVE FALSE
  <2>1. KeyOf[v] \in Keys BY PoolAssumption
  <2>2. Remove({KeyOf[v]}) BY <1>0, <1>1, <1>9, ReturnFacts
  <2>3. KeyOf[v] = k BY <1>6, <2>1, <2>2
  <2>4. pool'[k] # pool[k]
    <3>1. pool'[k] = None BY <1>0, <2>1, <2>2, <2>3, RemoveFacts
    <3> QED BY <1>0, <1>2, <1>5, <3>1, PoolAssumption
  <2>5. Borrowers(k) = {v} BY <1>0, <1>2, <1>5, <1>9, <2>4, CountedReturn
  <2>6. pc'[u] = "idle" BY <1>0, <1>5, <1>9, <2>5, ReturnFacts DEF TypeOK
  <2> QED BY <1>1, <2>6
<1> QED BY <1>0, <1>1, <1>7, <1>8, <1>9, PoolMoves

\* A run does not lose the connection it uses by an act of the pool, unless the entry of
\* its server was replaced under it: the count of an entry's leases is never below
\* its users, whatever others fail at, give up, reload or evict.
THEOREM UsersAreNotCut == Spec => NotCutUnlessReplaced
<1>1. Init => PoolInv
  <2>1. Init => Counted
    <3> SUFFICES ASSUME Init, NEW k \in Keys PROVE CountedFor(k)
      BY DEF Counted
    <3>1. Borrowers(k) = {} /\ leases[k] = 0 BY DEF Init, Borrowers
    <3> QED BY <3>1, BorrowersFinite DEF CountedFor
  <2> QED BY <2>1, InitConnInv DEF PoolInv
<1>2. PoolInv /\ [Next]_vars => PoolInv'
  BY ConnInvStep, CountedStep DEF PoolInv
<1>3. PoolInv /\ [Next]_vars => [\A u \in Users : KeyOf[u] \in replaced \/ ~ Cut(u)]_vars
  BY NotCutStep
<1> QED BY <1>1, <1>2, <1>3, PTL DEF Spec, NotCutUnlessReplaced
=============================================================================
