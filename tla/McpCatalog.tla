----------------------------- MODULE McpCatalog -----------------------------
(***************************************************************************)
(* What the access layer computes about MCP servers, without state of its  *)
(* own: the draft a market entry is installed as (install_mcp.py), the     *)
(* merge of the configuration files by scope, policy and duplicates        *)
(* (mcp_config.py), and the choice a run is given for what the user ticked *)
(* (catalog.py).  A configuration file is a sequence of entries, in the    *)
(* order of its keys; a catalogue a sequence of rows.                      *)
(***************************************************************************)
EXTENDS Picking, SequencesExt

CONSTANTS
  Ids,            \* names of servers and skills on this machine
  NoOne,          \* no market entry
  Uvx,            \* is uvx installed?
  Above,          \* the entries of the managed, user and project files, in that order
  Denied,         \* K_AGENT_DENIED_MCP_SERVERS: names or connections
  Permitted       \* K_AGENT_ALLOWED_MCP_SERVERS, empty for no restriction

ASSUME CatalogAssumption ==
  /\ Uvx \in BOOLEAN
  /\ IsFiniteSet(Ids) /\ NoOne \notin Ids
  /\ Above \in Seq({Above[i] : i \in DOMAIN Above})
  /\ \A i \in DOMAIN Above : Above[i].id \in Ids

-----------------------------------------------------------------------------
\* Installing

Blocked == [conn |-> "none", asks |-> {}]

\* Of the variables and headers an entry declares, those the user has to fill in.
Asks(fields) == {f.key : f \in {g \in fields : g.required /\ ~ g.default}}

\* A server that is reached by its address needs nothing but that address.
ByAddress(server) ==
  IF server.url = "none" THEN Blocked ELSE [conn |-> server.url, asks |-> Asks(server.fields)]

\* A package is started by npx or by uvx; only uvx is looked for on the machine.
ByCommand(server) ==
  IF server.command = "none" \/ (server.command = "uvx" /\ ~ Uvx)
  THEN Blocked
  ELSE [conn |-> server.command, asks |-> Asks(server.fields)]

\* An entry of ModelScope carries one configuration: an address, or a command.
FromModelScope(server) ==
  IF server.url # "none" \/ server.remote THEN ByAddress(server) ELSE ByCommand(server)

\* An entry of the registry lists remotes and packages: a remote with an address is
\* preferred, then an npm package, then one of PyPI.
FromRegistry(server) == IF server.url # "none" THEN ByAddress(server) ELSE ByCommand(server)

MapInstall(server) ==
  IF server.config = "modelscope" THEN FromModelScope(server) ELSE FromRegistry(server)

-----------------------------------------------------------------------------
\* Files

Keys(entries) == {entries[i].id : i \in DOMAIN entries}

\* A list without the rows of an id.
Without(entries, id) == Picked(entries, {i \in DOMAIN entries : entries[i].id # id})

\* Of several rows with one id the last counts, as in a dictionary.
RowOf(entries, id) == entries[CHOOSE i \in DOMAIN entries :
  entries[i].id = id /\ \A j \in DOMAIN entries : entries[j].id = id => j <= i]

\* A row keeps the origin its predecessor had, so that saving a form does not lose it.
RetainOrigin(entry, previous) ==
  IF entry.origin = NoOne /\ entry.id \in Keys(previous)
  THEN [entry EXCEPT !.origin = RowOf(previous, entry.id).origin]
  ELSE entry
Summary(e) == [id |-> e.id, enabled |-> e.enabled, origin |-> e.origin]
Summaries(entries, previous) ==
  [i \in DOMAIN entries |-> RetainOrigin(Summary(entries[i]), previous)]

-----------------------------------------------------------------------------
\* Running

MatchesPolicy(e, list) == {e.id, e.conn} \cap list # {}
AllowedByPolicy(e) ==
  /\ e.enabled
  /\ ~ MatchesPolicy(e, Denied)
  /\ Permitted = {} \/ MatchesPolicy(e, Permitted)

\* An entry without a command or an address is left out with a warning.
Wellformed(e) == e.conn # "none"

\* A slip: only the name tells two servers apart.
KeptByName(kept, e) == IF e.id \in Keys(kept) THEN kept ELSE Append(kept, e)

\* Of several servers with one name, or with one connection, the first is kept.
KeptWith(kept, e) ==
  IF \E i \in DOMAIN kept : kept[i].id = e.id \/ kept[i].conn = e.conn
  THEN kept ELSE Append(kept, e)
DedupeServers(entries) ==
  LET kept[n \in 0..Len(entries)] == IF n = 0 THEN <<>> ELSE KeptWith(kept[n - 1], entries[n])
  IN kept[Len(entries)]

\* What the files say for a run, the one of this machine last.
ConfigSources(local) ==
  LET all == Above \o local IN Picked(all, {i \in DOMAIN all : Wellformed(all[i])})
LoadScoped(local) ==
  LET scoped == ConfigSources(local)
  IN DedupeServers(Picked(scoped, {i \in DOMAIN scoped : AllowedByPolicy(scoped[i])}))

Refused == [ok |-> FALSE, given |-> {}]
Offered(rows) == {id \in Keys(rows) : RowOf(rows, id).enabled}

\* A run gets the connection of everything that was ticked, or it is refused: when
\* something is not offered any more, and when it has no connection of its own.
SelectedRuntime(rows, local, ticked) ==
  LET loaded == LoadScoped(local) IN
  IF ~ ticked \subseteq Offered(rows) \/ ~ ticked \subseteq Keys(loaded)
  THEN Refused
  ELSE [ok |-> TRUE, given |-> {RowOf(loaded, id) : id \in ticked}]
=============================================================================
