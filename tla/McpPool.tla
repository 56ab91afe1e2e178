------------------------------- MODULE McpPool -------------------------------
(***************************************************************************)
(* backend/mcp_tool/pool.py: connections to MCP servers shared by runs.    *)
(* A pool entry is an object of its own: the dictionary may hold a new one *)
(* for the key while runs still use the old one.  Its count and its        *)
(* tombstone matter only while the dictionary holds it, and are kept by    *)
(* key; its connection and its lock matter to who holds it.  A connection  *)
(* (McpSession of client.py) has a background task, which opens the        *)
(* transport, shakes hands and may end by itself at any time.              *)
(***************************************************************************)
EXTENDS Naturals, FiniteSets

CONSTANTS
  Users,       \* places of McpClientManagers, those of runs and the process's own
  Keys,        \* fingerprints of server configurations
  KeyOf,       \* the server that each user wants
  Entries,     \* numbers of the _PooledSession objects in use
  Conns,       \* numbers of the McpSession objects that were told to connect
  None,
  MaxReloads   \* bound on reloads

ASSUME PoolAssumption ==
  /\ KeyOf \in [Users -> Keys]
  /\ IsFiniteSet(Users)
  /\ Entries \subseteq Nat /\ Conns \subseteq Nat
  /\ None \notin Entries \cup Conns
  /\ MaxReloads \in Nat

VARIABLES
  pool,        \* _entries: the entry of each key, or None
  leases,      \* of the entry of each key
  retire,      \* of the entry of each key: the tombstone
  session,     \* of each entry: its connection, or None before the first one
  conn,        \* state of each connection
  pc,          \* where each user is
  held,        \* the entry it took a lease of
  mine,        \* the connection it connects or uses
  healthy,     \* what it will say when it returns the lease
  serving,     \* the application is not shut down
  reloads,
  replaced     \* history: the keys of which an entry was replaced while in use

entryVars == <<pool, leases, retire, session>>
userVars == <<pc, held, mine, healthy>>
procVars == <<serving, reloads, replaced>>
vars == <<entryVars, conn, userVars, procVars>>

\* evicting: closes idle entries, with the pool's lock; leased: waits for entry.lock;
\* returning: waits for the pool's lock to release
Places == {"idle", "evicting", "leased", "connecting", "using", "returning"}

\* starting: no transport yet; shaking: ClientSession open, not initialized;
\* off: not started, ended by itself, or closed
ConnStates == {"starting", "shaking", "up", "off"}

\* McpSession.session is not None
Alive(c) == c # None /\ conn[c] \in {"shaking", "up"}

Running(c) == conn[c] # "off"

Init ==
  /\ pool = [k \in Keys |-> None]
  /\ leases = [k \in Keys |-> 0]
  /\ retire = [k \in Keys |-> FALSE]
  /\ session = [e \in Entries |-> None]
  /\ conn = [c \in Conns |-> "off"]
  /\ pc = [u \in Users |-> "idle"]
  /\ held = [u \in Users |-> None]
  /\ mine = [u \in Users |-> None]
  /\ healthy = [u \in Users |-> TRUE]
  /\ serving = TRUE
  /\ reloads = 0
  /\ replaced = {}

Holders(e) == {u \in Users : held[u] = e}

Pooled == {pool[k] : k \in Keys} \ {None}

\* The pool's lock is held across an await only while idle entries are closed.
LockFree == \A u \in Users : pc[u] # "evicting"

\* Objects nothing refers to are collected, and their numbers used again.
Kept(p, h) ==
  [e \in Entries |->
     IF (\E k \in Keys : p[k] = e) \/ (\E u \in Users : h[u] = e) THEN session[e] ELSE None]

\* McpSession.close: the background task is told to stop, or cancelled after 3 seconds.
Closed(S) == [c \in Conns |-> IF c \in S /\ Running(c) THEN "off" ELSE conn[c]]

\* The entries of the keys K leave the dictionary and are closed (_close_entry).
Remove(K) ==
  /\ pool' = [k \in Keys |-> IF k \in K THEN None ELSE pool[k]]
  /\ leases' = [k \in Keys |-> IF k \in K THEN 0 ELSE leases[k]]
  /\ conn' = Closed({session[pool[k]] : k \in {l \in K : pool[l] # None}})

-----------------------------------------------------------------------------
(* acquire.                                                                *)

FreeEntry(e) == e \notin Pooled /\ Holders(e) = {}

\* Nothing refers to c.  Its task may still run; it is not followed any further
\* when the number is used again.
FreeConn(c) ==
  /\ \A u \in Users : mine[u] # c
  /\ \A e \in Entries : session[e] # c

\* A slip: no lock around the cold start
EntryFound(e) == TRUE

\* nobody has entry.lock
EntryFree(e) == \A v \in Holders(e) : pc[v] # "connecting"

\* With entry.lock, when the entries' connections are those of f: the entry's own
\* if it is alive, else a new one is started.
Connect(u, e, f) ==
  \/ /\ Alive(f[e])
     /\ mine' = [mine EXCEPT ![u] = f[e]]
     /\ pc' = [pc EXCEPT ![u] = "using"]
     /\ session' = f
     /\ UNCHANGED conn
  \/ /\ ~ Alive(f[e])
     /\ \E c \in Conns :
          /\ FreeConn(c) /\ \A d \in Conns : FreeConn(d) => c <= d
          /\ session' = [f EXCEPT ![e] = c]
          /\ conn' = [conn EXCEPT ![c] = "starting"]
          /\ mine' = [mine EXCEPT ![u] = c]
     /\ pc' = [pc EXCEPT ![u] = "connecting"]

\* u goes on to entry.lock, or to its queue.
GoOn(u, e, f) ==
  LET busy == ~ EntryFree(e) \/ \E v \in Holders(e) : pc[v] = "leased"
  IN \/ /\ ~ busy
        /\ Connect(u, e, f)
     \/ /\ busy
        /\ pc' = [pc EXCEPT ![u] = "leased"]
        /\ session' = f
        /\ UNCHANGED <<conn, mine>>

\* The rest of acquire up to its next await: a lease of the key's entry, or of a
\* new one when there is none or a retired one.
Lease(u) ==
  LET k == KeyOf[u]
  IN \/ /\ pool[k] # None /\ ~ retire[k]
        /\ held' = [held EXCEPT ![u] = pool[k]]
        /\ leases' = [leases EXCEPT ![k] = @ + 1]
        /\ UNCHANGED <<pool, retire, replaced>>
        /\ GoOn(u, pool[k], session)
     \/ /\ pool[k] = None \/ retire[k]
        /\ \E e \in Entries :
             /\ FreeEntry(e) /\ \A f \in Entries : FreeEntry(f) => e <= f
             /\ held' = [held EXCEPT ![u] = e]
             /\ pool' = [pool EXCEPT ![k] = e]
             /\ GoOn(u, e, Kept(pool', held'))
        /\ leases' = [leases EXCEPT ![k] = 1]
        /\ retire' = [retire EXCEPT ![k] = FALSE]
        /\ replaced' = IF pool[k] # None /\ Holders(pool[k]) # {}
                       THEN replaced \cup {k} ELSE replaced

Idle == {k \in Keys : pool[k] # None /\ leases[k] = 0}

\* acquire; any idle entry may be past its time, and is closed first
Acquire(u) ==
  /\ pc[u] = "idle" /\ serving /\ LockFree
  /\ \/ Lease(u)
     \/ \E stale \in SUBSET Idle \ {{}} :
          /\ Remove(stale)
          /\ pc' = [pc EXCEPT ![u] = "evicting"]
          /\ session' = Kept(pool', held)
          /\ UNCHANGED <<retire, held, mine, replaced>>
  /\ UNCHANGED <<healthy, serving, reloads>>

\* The stale entries are closed.
Evicted(u) ==
  /\ pc[u] = "evicting"
  /\ Lease(u)
  /\ UNCHANGED <<healthy, serving, reloads>>

EnterLock(u) ==
  /\ pc[u] = "leased" /\ EntryFree(held[u])
  /\ Connect(u, held[u], session)
  /\ UNCHANGED <<pool, leases, retire, held, healthy, procVars>>

Connected(u) ==
  /\ pc[u] = "connecting"
  /\ conn[mine[u]] = "up"
  /\ pc' = [pc EXCEPT ![u] = "using"]
  /\ UNCHANGED <<entryVars, conn, held, mine, healthy, procVars>>

-----------------------------------------------------------------------------
(* release and close_all.                                                  *)

\* what is left of the count after a release
Left(k) == IF leases[k] > 0 THEN leases[k] - 1 ELSE 0

\* release, of a connection found well or not.  It finds the entry by its key: it
\* may not be the one u holds.
Return(u, well) ==
  LET k == KeyOf[u]
      left == Left(k)
      retired == retire[k] \/ ~ well
  IN /\ \/ /\ pool[k] = None
           /\ UNCHANGED <<pool, leases, retire, conn>>
        \/ /\ pool[k] # None /\ (left > 0 \/ ~ retired)
           /\ leases' = [leases EXCEPT ![k] = left]
           /\ retire' = [retire EXCEPT ![k] = retired]
           /\ UNCHANGED <<pool, conn>>
        \/ /\ pool[k] # None /\ left = 0 /\ retired
           /\ Remove({k})
           /\ retire' = [retire EXCEPT ![k] = FALSE]
     /\ pc' = [pc EXCEPT ![u] = "idle"]
     /\ held' = [held EXCEPT ![u] = None]
     /\ healthy' = [healthy EXCEPT ![u] = TRUE]
     /\ session' = Kept(pool', held')

\* The lease is returned at once, or when the pool's lock is free again.
Leave(u, well) ==
  /\ \/ /\ LockFree
        /\ Return(u, well)
     \/ /\ ~ LockFree
        /\ pc' = [pc EXCEPT ![u] = "returning"]
        /\ healthy' = [healthy EXCEPT ![u] = well]
        /\ UNCHANGED <<entryVars, conn, held>>
  /\ mine' = [mine EXCEPT ![u] = None]
  /\ UNCHANGED procVars

\* The run is cancelled while it waits for entry.lock.
GiveUp(u) ==
  /\ pc[u] = "leased"
  /\ Leave(u, FALSE)

\* The connection fails, takes too long, or the run is cancelled.  The task of a
\* connection that takes too long is not stopped here.
TimesOut(u) ==
  /\ pc[u] = "connecting"
  /\ Leave(u, FALSE)

\* The run ends: McpClientManager.close_all
Finish(u) ==
  /\ pc[u] = "using"
  /\ Leave(u, Alive(mine[u]))

Release(u) ==
  /\ pc[u] = "returning" /\ LockFree
  /\ Return(u, healthy[u])
  /\ UNCHANGED <<mine, procVars>>

\* A slip: reload closes everything
ClosableAny(k, force) == TRUE

\* what close_all closes at once
Closable(k, force) == leases[k] = 0 \/ force

\* close_all: what is in use is only retired, unless force
CloseAll(force) ==
  LET gone == {k \in Keys : pool[k] # None /\ Closable(k, force)}
  IN /\ LockFree
     /\ Remove(gone)
     /\ retire' = [k \in Keys |-> pool'[k] # None]
     /\ session' = Kept(pool', held)
     /\ UNCHANGED <<userVars, replaced>>

\* POST /internal/mcp/reload; the lease of the process's manager is a user's like any
Reload ==
  /\ serving /\ reloads < MaxReloads
  /\ CloseAll(FALSE)
  /\ reloads' = reloads + 1
  /\ UNCHANGED serving

Shutdown ==
  /\ serving
  /\ CloseAll(TRUE)
  /\ serving' = FALSE
  /\ UNCHANGED reloads

-----------------------------------------------------------------------------
(* The background task of a connection.                                    *)

OpenTransport(c) == conn[c] = "starting" /\ conn' = [conn EXCEPT ![c] = "shaking"]
Initialized(c) == conn[c] = "shaking" /\ conn' = [conn EXCEPT ![c] = "up"]
Ends(c) == Running(c) /\ conn' = [conn EXCEPT ![c] = "off"]

ConnStep(c) ==
  /\ OpenTransport(c) \/ Initialized(c) \/ Ends(c)
  /\ UNCHANGED <<entryVars, userVars, procVars>>

UserStep(u) ==
  \/ Acquire(u) \/ Evicted(u) \/ EnterLock(u) \/ Connected(u)
  \/ GiveUp(u) \/ TimesOut(u) \/ Finish(u) \/ Release(u)

Next ==
  \/ \E u \in Users : UserStep(u)
  \/ \E c \in Conns : ConnStep(c)
  \/ Reload
  \/ Shutdown

Spec == Init /\ [][Next]_vars
-----------------------------------------------------------------------------
(* Properties.                                                             *)

TypeOK ==
  /\ pool \in [Keys -> Entries \cup {None}]
  /\ leases \in [Keys -> Nat]
  /\ retire \in [Keys -> BOOLEAN]
  /\ session \in [Entries -> Conns \cup {None}]
  /\ conn \in [Conns -> ConnStates]
  /\ pc \in [Users -> Places]
  /\ held \in [Users -> Entries \cup {None}]
  /\ mine \in [Users -> Conns \cup {None}]
  /\ healthy \in [Users -> BOOLEAN]
  /\ serving \in BOOLEAN /\ reloads \in 0 .. MaxReloads /\ replaced \subseteq Keys

\* The users of an entry share one connection: as long as it lives no second one
\* is opened beside it.
OneConnection ==
  \A u, v \in Users :
    /\ held[u] = held[v]
    /\ pc[u] \in {"connecting", "using"} /\ pc[v] \in {"connecting", "using"}
    /\ Alive(mine[u]) /\ Alive(mine[v])
    => mine[u] = mine[v]

\* u loses the connection it uses by an act of the pool: the connection's own end
\* leaves the pool alone.
Cut(u) ==
  /\ pc[u] = "using" /\ pc'[u] = "using" /\ serving'
  /\ Running(mine[u]) /\ conn'[mine[u]] = "off" /\ pool' # pool

\* It does not, as long as no entry of the key was replaced under its users: not
\* when others fail beside the run, nor when it reloads, nor when it evicts.
NotCutUnlessReplaced == [][\A u \in Users : KeyOf[u] \in replaced \/ ~ Cut(u)]_vars
=============================================================================
