---------------------------- MODULE Marketplace ----------------------------
(***************************************************************************)
(* The connectors and skills of a machine: config/mcp.json and             *)
(* catalog/mcp.json, content/skills/ and catalog/skills.json, which belong *)
(* together and are written one after the other.  Browser tabs install     *)
(* from the market (service.py), whose details come through a cache that   *)
(* joins requests under way (cache.py), uninstall, import archives, and    *)
(* save forms they have read some time ago (main.py).                      *)
(*                                                                         *)
(* What runs between two awaits is one request's turn.  Its writes are     *)
(* performed one by one, with nothing in between but a crash.              *)
(***************************************************************************)
EXTENDS McpCatalog

CONSTANTS
  Tabs,             \* browser tabs
  Sources,          \* entries of the MCP market
  Server,           \* what the market says of each
  LocalId,          \* the name an entry, or a skill of the hub, is installed under
  Slugs,            \* entries of the skill hub
  MaxRequests,      \* bound on the requests of all tabs
  MaxCrashes        \* bound on crashes

NoPackage == "no package"

ASSUME MarketAssumption ==
  /\ LocalId \in [Sources \cup Slugs -> Ids]
  /\ DOMAIN Server = Sources
  /\ NoOne \notin Sources \cup Slugs /\ NoPackage \notin Slugs

VARIABLES
  connections,      \* config/mcp.json
  rows,             \* catalog/mcp.json, NoFile before the first start
  packages,         \* content/skills: where each package came from
  skillRows,        \* catalog/skills.json
  writes,           \* the writes the turn still has to perform
  torn,             \* names a crash caught between two writes
  cached,           \* _values: what the cache holds of each source
  fetches,          \* every fetch ever started: its source and its state
  inflight,         \* _inflight: the fetch of each source, 0 for none
  pc, job,          \* what each tab is waiting for
  requests, crashes

vars == <<connections, rows, packages, skillRows, writes, torn, cached, fetches,
          inflight, pc, job, requests, crashes>>
files == <<connections, rows, packages, skillRows>>
cache == <<cached, fetches, inflight>>

NoFile == <<[id |-> "missing"]>>
NoJob == [of |-> NoOne]
Read(list) == IF list = NoFile THEN <<>> ELSE list

Write(file, value) == [file |-> file, id |-> NoOne, value |-> value]
Package(id, content) == [file |-> "packages", id |-> id, value |-> content]

\* RuntimeCatalog.ensure: a catalogue that is missing is made from what there is.
SkillRow(id, on, origin) == [id |-> id, enabled |-> on, origin |-> origin]
Ensure(listed, skillsListed) ==
  (IF listed # NoFile THEN <<>>
   ELSE <<Write("rows", [i \in DOMAIN connections |->
            SkillRow(connections[i].id, connections[i].enabled, NoOne)])>>) \o
  (IF skillsListed # NoFile THEN <<>>
   ELSE <<Write("skillRows", [i \in 1..Cardinality({x \in Ids : packages[x] # NoPackage}) |->
            SkillRow(SetToSeq({x \in Ids : packages[x] # NoPackage})[i], TRUE, NoOne)])>>)

\* A machine that is new, or one that is upgraded from before there were catalogues.
Init ==
  /\ \/ /\ connections = <<>> /\ rows = <<>> /\ skillRows = <<>>
        /\ packages = [x \in Ids |-> NoPackage]
     \/ \E x \in Ids :
          /\ connections = <<[id |-> x, conn |-> "manual", secret |-> "key", enabled |-> TRUE]>>
          /\ packages = [y \in Ids |-> IF y = x THEN "own" ELSE NoPackage]
          /\ rows = NoFile /\ skillRows = NoFile
  /\ writes = Ensure(rows, skillRows)
  /\ torn = {}
  /\ cached = [s \in Sources |-> "none"]
  /\ fetches = <<>>
  /\ inflight = [s \in Sources |-> 0]
  /\ pc = [c \in Tabs |-> "idle"] /\ job = [c \in Tabs |-> NoJob]
  /\ requests = 0 /\ crashes = 0

-----------------------------------------------------------------------------
\* Writes

Quiet == writes = <<>>
Busy(c, where) == pc[c] = where /\ Quiet
Goes(c, where, with) == pc' = [pc EXCEPT ![c] = where] /\ job' = [job EXCEPT ![c] = with]

Perform ==
  /\ writes # <<>>
  /\ LET w == Head(writes) IN
     /\ connections' = IF w.file = "connections" THEN w.value ELSE connections
     /\ rows' = IF w.file = "rows" THEN w.value ELSE rows
     /\ skillRows' = IF w.file = "skillRows" THEN w.value ELSE skillRows
     /\ packages' = IF w.file = "packages" THEN [packages EXCEPT ![w.id] = w.value] ELSE packages
  /\ writes' = Tail(writes)
  /\ UNCHANGED <<torn, cache, pc, job, requests, crashes>>

\* The names for which a write that is not performed would have made a difference.
Entries(list, id) == Picked(Read(list), {i \in DOMAIN Read(list) : Read(list)[i].id = id})
Touched(w) ==
  CASE w.file = "connections" -> {x \in Ids : Entries(w.value, x) # Entries(connections, x)}
    [] w.file = "rows" -> {x \in Ids : rows # NoFile /\ Entries(w.value, x) # Entries(rows, x)}
    [] w.file = "skillRows" ->
         {x \in Ids : skillRows # NoFile /\ Entries(w.value, x) # Entries(skillRows, x)}
    [] w.file = "packages" -> {w.id}

\* The process is gone with its cache and its requests, and starts again.  A form stays
\* open in its tab.
Crash ==
  /\ crashes < MaxCrashes
  /\ crashes' = crashes + 1
  /\ torn' = torn \cup UNION {Touched(writes[i]) : i \in DOMAIN writes}
  /\ writes' = Ensure(rows, skillRows)
  /\ cached' = [s \in Sources |-> "none"]
  /\ fetches' = [f \in DOMAIN fetches |-> [fetches[f] EXCEPT !.state = "gone"]]
  /\ inflight' = [s \in Sources |-> 0]
  /\ pc' = [c \in Tabs |-> IF pc[c] \in {"connectors", "skills"} THEN pc[c] ELSE "idle"]
  /\ job' = [c \in Tabs |-> IF pc[c] \in {"connectors", "skills"} THEN job[c] ELSE NoJob]
  /\ UNCHANGED <<files, requests>>

-----------------------------------------------------------------------------
\* Connectors of the market

Requested == requests < MaxRequests /\ requests' = requests + 1

\* The row that came from this entry, or else one that is called like it.
MatchInstalled(s) ==
  {i \in DOMAIN rows : rows[i].origin = s \/
     ((\A j \in DOMAIN rows : rows[j].origin # s) /\ rows[i].id = LocalId[s])}
LocalName(s) ==
  IF MatchInstalled(s) = {} THEN LocalId[s] ELSE rows[Min(MatchInstalled(s))].id

\* preview_mcp: is the name taken, in the one file or in the other?
Taken(id) == id \in Keys(connections) \cup Keys(rows)
\* The name that is proposed; another one when it is taken.
Proposed(s) == IF Taken(LocalName(s)) THEN Ids \ {LocalName(s)} ELSE {LocalName(s)}

\* The turn of install_mcp after its await.  Nothing is written for an entry that
\* cannot be installed, that asks for more than was filled in, or whose name is taken.
InstallWrites(s, id, filled) ==
  LET draft == MapInstall(Server[s]) IN
  IF draft = Blocked \/ ~ draft.asks \subseteq filled \/ Taken(id) THEN <<>>
  ELSE <<Write("connections", Append(connections,
           [id |-> id, conn |-> draft.conn, secret |-> "key", enabled |-> TRUE])),
         Write("rows", Summaries(Append(rows, [id |-> id, enabled |-> TRUE, origin |-> s]), rows))>>

\* get_or_fetch: what is fresh is given at once, a fetch under way is joined, another
\* one is started.
AskConnector(c, s) ==
  /\ Busy(c, "idle") /\ Requested
  /\ \E id \in Proposed(s), filled \in {{}, MapInstall(Server[s]).asks} :
       IF cached[s] = "fresh"
       THEN /\ writes' = InstallWrites(s, id, filled)
            /\ UNCHANGED <<cache, pc, job>>
       ELSE LET f == IF inflight[s] = 0 THEN Len(fetches) + 1 ELSE inflight[s] IN
            /\ fetches' = IF inflight[s] = 0
                          THEN Append(fetches, [of |-> s, state |-> "running"]) ELSE fetches
            /\ inflight' = [inflight EXCEPT ![s] = f]
            /\ Goes(c, "fetching", [of |-> s, id |-> id, filled |-> filled, fetch |-> f])
            /\ UNCHANGED <<cached, writes>>
  /\ UNCHANGED <<files, torn, crashes>>

\* The market answers, or does not.
FetchEnds(f, how) ==
  /\ fetches[f].state = "running"
  /\ fetches' = [fetches EXCEPT ![f].state = how]
  /\ UNCHANGED <<files, writes, torn, cached, inflight, pc, job, requests, crashes>>

\* A slip: whoever is done clears the entry, whichever fetch it holds by now.
ForgottenAlways(f) == [inflight EXCEPT ![fetches[f].of] = 0]

\* The fetch is taken from the table by the first who is done with it.
Forgotten(f) ==
  IF inflight[fetches[f].of] = f THEN [inflight EXCEPT ![fetches[f].of] = 0] ELSE inflight

\* One of those who waited goes on: with the answer, or after a failure with the answer
\* of last time if there was one.
TakeAnswer(c) ==
  /\ Busy(c, "fetching")
  /\ LET j == job[c]
         f == fetches[j.fetch] IN
     /\ f.state \in {"answered", "failed"}
     /\ inflight' = Forgotten(j.fetch)
     /\ cached' = IF f.state = "answered" THEN [cached EXCEPT ![j.of] = "fresh"] ELSE cached
     /\ writes' = IF f.state = "answered" \/ cached[j.of] # "none"
                  THEN InstallWrites(j.of, j.id, j.filled) ELSE <<>>
  /\ Goes(c, "idle", NoJob)
  /\ UNCHANGED <<files, torn, fetches, requests, crashes>>

Expire(s) ==
  /\ cached[s] = "fresh" /\ Quiet
  /\ cached' = [cached EXCEPT ![s] = "stale"]
  /\ UNCHANGED <<files, writes, torn, fetches, inflight, pc, job, requests, crashes>>

UninstallConnector(c, id) ==
  /\ Busy(c, "idle") /\ Taken(id) /\ Requested
  /\ writes' = <<Write("connections", Without(connections, id)),
                 Write("rows", Summaries(Without(rows, id), rows))>>
  /\ UNCHANGED <<files, torn, cache, pc, job, crashes>>

-----------------------------------------------------------------------------
\* The form of connectors

\* get_mcp_config: secrets are masked.
Masked(e) == [e EXCEPT !.secret = IF @ = "none" THEN "none" ELSE "***"]
OpenConnectors(c) ==
  /\ Busy(c, "idle") /\ Requested
  /\ Goes(c, "connectors", [of |-> "form", list |-> [i \in DOMAIN connections |-> Masked(connections[i])]])
  /\ UNCHANGED <<files, writes, torn, cache, crashes>>

\* What the user may have changed before the form is saved.
Edited(list) ==
  {list}
  \cup {Without(list, x) : x \in Keys(list)}
  \cup {[list EXCEPT ![i].enabled = ~ @] : i \in DOMAIN list}
  \cup {Append(list, [id |-> x, conn |-> "manual", secret |-> "none", enabled |-> TRUE]) :
          x \in Ids \ Keys(list)}

\* A slip: the form is taken as it is.
AsSent(e) == e

\* update_mcp_config: a mask stands for the secret that is there now.
Unmasked(e) ==
  IF e.secret = "***" /\ e.id \in Keys(connections) /\ RowOf(connections, e.id).secret # "none"
  THEN [e EXCEPT !.secret = RowOf(connections, e.id).secret] ELSE e
SaveConnectors(c) ==
  /\ Busy(c, "connectors")
  /\ \E list \in Edited(job[c].list) :
       LET servers == [i \in DOMAIN list |-> Unmasked(list[i])]
           named == [i \in DOMAIN list |->
                      [id |-> list[i].id, enabled |-> list[i].enabled, origin |-> NoOne]] IN
       writes' = <<Write("connections", servers), Write("rows", Summaries(named, rows))>>
  /\ Goes(c, "idle", NoJob)
  /\ UNCHANGED <<files, torn, cache, requests, crashes>>

-----------------------------------------------------------------------------
\* Skills

\* A slip: an archive is unpacked over what is there.
UnpackOver(id, from) == <<Package(id, from)>>

\* validate_and_install_skill_zip: unpacked aside and moved in place, unless there is
\* something in place.
Unpack(id, from) == IF packages[id] # NoPackage THEN <<>> ELSE <<Package(id, from)>>

\* install_skill asks for the details, then for the archive.
AskSkill(c, k) ==
  /\ Busy(c, "idle") /\ Requested
  /\ Goes(c, "downloading", [of |-> k])
  /\ UNCHANGED <<files, writes, torn, cache, crashes>>

\* A package whose name is listed already is removed again.
InstallSkill(c) ==
  /\ Busy(c, "downloading")
  /\ LET k == job[c].of
         id == LocalId[k]
         unpacked == Unpack(id, k) IN
     writes' = IF unpacked = <<>> THEN <<>>
               ELSE unpacked \o
                    IF id \in Keys(skillRows) THEN <<Package(id, NoPackage)>>
                    ELSE <<Write("skillRows", Append(skillRows, SkillRow(id, TRUE, k)))>>
  /\ Goes(c, "idle", NoJob)
  /\ UNCHANGED <<files, torn, cache, requests, crashes>>

\* The hub does not answer, or its archive is refused.
InstallFails(c) ==
  /\ Busy(c, "downloading")
  /\ Goes(c, "idle", NoJob)
  /\ UNCHANGED <<files, writes, torn, cache, requests, crashes>>

\* import_project_skill: the same with an archive of the user's.
ImportSkill(c, id) ==
  /\ Busy(c, "idle") /\ packages[id] = NoPackage /\ Requested
  /\ writes' = Unpack(id, "own") \o
               <<Write("skillRows", Append(skillRows, SkillRow(id, TRUE, NoOne)))>>
  /\ UNCHANGED <<files, torn, cache, pc, job, crashes>>

UninstallSkill(c, id) ==
  /\ Busy(c, "idle") /\ Requested
  /\ packages[id] # NoPackage \/ id \in Keys(skillRows)
  /\ writes' = <<Package(id, NoPackage), Write("skillRows", Without(skillRows, id))>>
  /\ UNCHANGED <<files, torn, cache, pc, job, crashes>>

OpenSkills(c) ==
  /\ Busy(c, "idle") /\ Requested
  /\ Goes(c, "skills", [of |-> "form", list |-> skillRows])
  /\ UNCHANGED <<files, writes, torn, cache, crashes>>

EditedSkills(list) ==
  {list}
  \cup {Without(list, x) : x \in Keys(list)}
  \cup {Append(list, SkillRow(x, TRUE, NoOne)) : x \in Ids \ Keys(list)}

\* _write_data_skills: a package for every row of the form, and none for any other name.
Kept(list) == [i \in DOMAIN list |->
  Package(list[i].id, IF packages[list[i].id] = NoPackage THEN "own" ELSE packages[list[i].id])]
Orphans(list) == SetToSeq({x \in Ids : packages[x] # NoPackage /\ x \notin Keys(list)})
Removed(list) == [i \in DOMAIN Orphans(list) |-> Package(Orphans(list)[i], NoPackage)]

SaveSkills(c) ==
  /\ Busy(c, "skills")
  /\ \E list \in EditedSkills(job[c].list) :
       writes' = Kept(list) \o Removed(list) \o
                 <<Write("skillRows",
                     [i \in DOMAIN list |->
                        RetainOrigin([list[i] EXCEPT !.origin = NoOne], skillRows)])>>
  /\ Goes(c, "idle", NoJob)
  /\ UNCHANGED <<files, torn, cache, requests, crashes>>

\* A form with a name that is not allowed is refused where that name is met: the
\* packages of the rows before it have been written.
RefuseSkills(c) ==
  /\ Busy(c, "skills")
  /\ \E list \in EditedSkills(job[c].list), n \in 0..Cardinality(Ids) :
       n <= Len(list) /\ writes' = SubSeq(Kept(list), 1, n)
  /\ Goes(c, "idle", NoJob)
  /\ UNCHANGED <<files, torn, cache, requests, crashes>>

-----------------------------------------------------------------------------
Next ==
  \/ Perform
  \/ Crash
  \/ \E c \in Tabs, s \in Sources : AskConnector(c, s)
  \/ \E f \in DOMAIN fetches, how \in {"answered", "failed"} : FetchEnds(f, how)
  \/ \E s \in Sources : Expire(s)
  \/ \E c \in Tabs :
       \/ TakeAnswer(c)
       \/ OpenConnectors(c)
       \/ SaveConnectors(c)
       \/ InstallSkill(c)
       \/ InstallFails(c)
       \/ OpenSkills(c)
       \/ SaveSkills(c)
       \/ RefuseSkills(c)
  \/ \E c \in Tabs, x \in Ids :
       UninstallConnector(c, x) \/ ImportSkill(c, x) \/ UninstallSkill(c, x)
  \/ \E c \in Tabs, k \in Slugs : AskSkill(c, k)

Spec == Init /\ [][Next]_vars

-----------------------------------------------------------------------------
\* The market is never asked twice at a time about one entry, whoever failed, came late
\* or left (cache.py:39-54).
OneFetch ==
  \A f, g \in DOMAIN fetches :
    fetches[f].state = "running" /\ fetches[g].state = "running" /\ fetches[f].of = fetches[g].of
      => f = g

\* Between requests the files agree: a connector is listed exactly when it has a
\* connection, once, with the same switch, and a skill that is listed has its package.
\* That holds for every name no crash caught between two writes, whatever tabs install,
\* remove, import and save over each other.
FilesAgree ==
  Quiet =>
    \A x \in Ids \ torn :
      /\ x \in Keys(connections) <=> x \in Keys(rows)
      /\ Len(Entries(rows, x)) <= 1 /\ Len(Entries(skillRows, x)) <= 1
      /\ x \in Keys(rows) => RowOf(rows, x).enabled = RowOf(connections, x).enabled
      /\ x \in Keys(skillRows) => packages[x] # NoPackage

\* A form that was read with its secrets masked, and is saved after other tabs have saved
\* theirs, never puts the mask in the place of a secret that is still there.
SecretKept ==
  [][\A x \in Keys(connections) \cap Keys(connections') :
       RowOf(connections, x).secret = "key" => RowOf(connections', x).secret # "***"]_connections

\* Whatever is ticked, a run gets exactly that, each server allowed and none of them
\* connected to twice under two names, or it is refused (catalog.py, mcp_config.py).
GivenAsTicked ==
  Quiet =>
    \A ticked \in SUBSET Ids :
      LET r == SelectedRuntime(rows, connections, ticked) IN
      r.ok => /\ {e.id : e \in r.given} = ticked
              /\ \A e \in r.given : AllowedByPolicy(e) /\ RowOf(rows, e.id).enabled
              /\ \A e, g \in r.given : e.conn = g.conn => e = g
=============================================================================
