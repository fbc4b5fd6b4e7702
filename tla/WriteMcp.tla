------------------------------ MODULE WriteMcp ------------------------------
(***************************************************************************)
(* The MCP configuration of the harnesses: what a layer's registry.yaml    *)
(* may hold (registry.ts), what each dialect can express                   *)
(* (mcp-dialects.ts), and the stage that writes it (commands/write-mcp.ts).*)
(*                                                                         *)
(* A proxy is a record of its namespace and its mode; the scheme of its    *)
(* credential ("absent", "none", "bearer", "header", "prefixed", "basic"   *)
(* or "env") and where that comes from; the variables of the env scheme's  *)
(* map and of its own env ("none", each under the "same" name as in the    *)
(* process, or "renamed"); whether another field holds a ${VAR};           *)
(* whether its name has an underscore; and whether its shape is right.     *)
(***************************************************************************)
EXTENDS HomeFiles

Remote(p) == p.mode \in {"remote_http", "remote_sse"}
HasCredential(p) == p.scheme \notin {"absent", "none"}

(* loadRegistry and validateAuth: one bad proxy makes the file invalid.    *)
MutantAdmissible(p) ==
  /\ p.shape
  /\ p.scheme # "absent" => p.from # "literal" /\ (p.scheme = "env" => ~Remote(p))
Admissible(p) ==
  /\ p.shape
  /\ p.scheme # "absent" =>
       /\ p.from # "literal"
       /\ p.scheme = "env" => ~Remote(p)
       /\ p.scheme \in {"bearer", "header", "prefixed", "basic"} => Remote(p)

RegistryValid(proxies) ==
  /\ \A p \in proxies : Admissible(p)
  /\ \A p, q \in proxies : p.ns = q.ns => p = q

RegistriesLoad(company) == \A l \in company.layers : RegistryValid(company.proxies[l])

(* mergeRegistries over the layers: a team's entry replaces the company's. *)
Overridden(company, p, i) ==
  \E j \in DOMAIN LayerOrder : /\ j > i /\ LayerOrder[j] \in company.layers
                               /\ \E q \in company.proxies[LayerOrder[j]] : q.ns = p.ns
mergeRegistries(company) ==
  UNION {{p \in company.proxies[LayerOrder[i]] : ~Overridden(company, p, i)} :
           i \in {j \in DOMAIN LayerOrder : LayerOrder[j] \in company.layers}}

(* A credential from a file is for the hub only.                           *)
Usable(company) ==
  {p \in mergeRegistries(company) : ~(p.scheme # "absent" /\ p.from = "file")}

-----------------------------------------------------------------------------
(* mcp-dialects.ts. A credential goes into a file as the name of a         *)
(* variable: in a header, or in the environment of a stdio server.         *)
Headers(p) == HasCredential(p) /\ p.scheme # "env" /\ p.from = "env"
StdioEnv(p) == p.scheme = "env" /\ p.from = "env" /\ p.map # "none"
CarriesCredential(p) == IF Remote(p) THEN Headers(p) ELSE StdioEnv(p)

needsExpansion(p) == p.env # "none" \/ p.vars \/ (HasCredential(p) /\ p.from = "env")

codexSkips(p) ==
  \/ p.mode = "remote_sse"
  \/ /\ p.mode = "remote_http"
     /\ HasCredential(p) /\ p.scheme # "env"
     /\ p.from # "env" \/ p.scheme \in {"basic", "prefixed"}
  \/ /\ ~Remote(p)
     /\ p.env = "renamed" \/ (StdioEnv(p) /\ p.map = "renamed")

additionalSkips(dialect, p) ==
  \/ /\ HasCredential(p)
     /\ \/ p.from # "env"
        \/ (p.scheme = "env") = Remote(p)
        \/ p.scheme = "env" /\ p.map = "none"
  \/ dialect = "windsurf" /\ needsExpansion(p)

Skips(dialect, p) ==
  \/ dialect = "codex" /\ codexSkips(p)
  \/ dialect = "gemini" /\ p.underscore
  \/ dialect \in {"copilot", "cline"} /\ needsExpansion(p)
  \/ dialect = "junie" /\ (p.mode = "remote_sse" \/ needsExpansion(p))
  \/ dialect \in {"cursor", "devin", "windsurf", "kiro"} /\ additionalSkips(dialect, p)

renderEntry(p) == [by |-> "wagglebot", proxy |-> p, credential |-> CarriesCredential(p)]
Mine(v) == [by |-> "engineer", proxy |-> v, credential |-> FALSE]

Rendered(dialect, company) ==
  LET kept == {p \in Usable(company) : ~Skips(dialect, p)}
      Of(ns) == CHOOSE p \in kept : p.ns = ns
  IN  [ns \in {p.ns : p \in kept} |-> renderEntry(Of(ns))]

-----------------------------------------------------------------------------
McpPath(i) == Harnesses[i].mcp
Format(i, format) == Harnesses[i].format = format
Starts(i) == At("mcp", i) /\ Step("start") /\ Loads("mcp") /\ RegistriesLoad(run.company)
RenderedHere(i) == Rendered(Harnesses[i].dialect, run.company)

(* The registries are read once, before the first harness. An invalid one  *)
(* ends the stage for all of them, and the run.                            *)
RegistryFails ==
  /\ At("mcp", 1) /\ Step("start") /\ ~RegistriesLoad(run.company)
  /\ run' = IdleRun
  /\ UNCHANGED <<home, managed, backup>>

(* writeJsonTarget. A server of the engineer under a name that wagglebot   *)
(* does not own stays as it is.                                            *)
OwnedAt(p) == {k[2] : k \in {x \in managed.jsonKeys : x[1] = p}}

MutantManagedEntries(entries, doc, owned) == entries
ManagedEntries(entries, doc, owned) ==
  [ns \in {n \in DOMAIN entries : n \in owned \/ n \notin Names(doc)} |-> entries[ns]]

JsonSkipped(i, entries) ==
  \/ DOMAIN entries = {} /\ OwnedAt(McpPath(i)) = {} /\ ~(run.overwrite /\ home[McpPath(i)] # Absent)
  \/ JsonOf(McpPath(i)).form # "object"

WriteJsonTarget(i) ==
  /\ Starts(i) /\ Format(i, "json")
  /\ LET p == McpPath(i)
         entries == RenderedHere(i)
         mine == ManagedEntries(entries, JsonOf(p), OwnedAt(p))
         written == IF run.overwrite THEN entries ELSE mine
         doc == IF run.overwrite THEN [JsonOf(p) EXCEPT !.servers = entries]
                ELSE mergeManagedSection(JsonOf(p), mine, OwnedAt(p))
     IN  IF JsonSkipped(i, entries) THEN Write(NoChange, NextStage)
         ELSE Write(Only(p, doc), Local([Scratch EXCEPT !.step = "save", !.state = managed,
                                           !.produced = {<<p, ns>> : ns \in DOMAIN written}]))
  /\ UNCHANGED managed

SaveKeys(i) ==
  /\ At("mcp", i) /\ Step("save")
  /\ managed' = [run.local.state EXCEPT
       !.jsonKeys = {k \in @ : k[1] # McpPath(i)} \cup run.local.produced]
  /\ run' = NextStage
  /\ UNCHANGED <<home, backup>>

(* writeTomlTarget: what wagglebot owns is the block, and a table of the   *)
(* same name outside it is a conflict.                                     *)
definesTable(doc, ns) == \E k \in DOMAIN doc : doc[k] = <<"table", ns>>

Foreign(line) == line[1] \notin {"table", "begin", "end", "content"}
removeTomlCategory(doc) ==
  FlattenSeq([k \in DOMAIN doc |-> IF Foreign(doc[k]) THEN <<doc[k]>> ELSE <<>>])

TomlDoc(doc, kept) ==
  IF run.overwrite
    THEN removeTomlCategory(doc) \o (IF DOMAIN kept = {} THEN <<>> ELSE Block(kept))
    ELSE IF DOMAIN kept = {} THEN removeManagedBlock(doc) ELSE renderManagedBlock(doc, kept)

WriteTomlTarget(i) ==
  /\ Starts(i) /\ Format(i, "toml")
  /\ LET p == McpPath(i)
         doc == TextOf(p)
         entries == RenderedHere(i)
         kept == [ns \in {n \in DOMAIN entries :
                            run.overwrite \/ ~definesTable(outsideBlock(doc), n)} |-> entries[ns]]
         skipped == DOMAIN kept = {} /\ Positions(doc, "begin") = {} /\ ~run.overwrite
         fails == ~run.overwrite /\ Malformed(doc)
         same == TomlDoc(doc, kept) = doc
     IN  Write(IF skipped \/ fails \/ same THEN NoChange ELSE Only(p, TomlDoc(doc, kept)),
               NextStage)
  /\ UNCHANGED managed

(* The file cannot be read or written. The other harnesses go on.          *)
McpFails(i) ==
  /\ Starts(i)
  /\ run' = NextStage
  /\ UNCHANGED <<home, managed, backup>>

McpStep(i) == WriteJsonTarget(i) \/ SaveKeys(i) \/ WriteTomlTarget(i) \/ McpFails(i)

-----------------------------------------------------------------------------
(* Where the registry says that a proxy has a credential, an entry written *)
(* for it names the variable. An env scheme with an empty map names no     *)
(* destination, and is not held to this.                                   *)
CarriesIts(e) ==
  e.by = "wagglebot" /\ HasCredential(e.proxy) /\ ~(e.proxy.scheme = "env" /\ e.proxy.map = "none")
    => e.credential

WrittenBy(i) ==
  LET p == McpPath(i)
      doc == IF home[p] = Absent THEN <<>> ELSE home[p]
      blocks == {k \in DOMAIN doc : doc[k][1] = "content"}
  IN  IF Format(i, "json")
        THEN {JsonOf(p).servers[ns] : ns \in Names(JsonOf(p))}
        ELSE UNION {{doc[k][2][ns] : ns \in DOMAIN doc[k][2]} : k \in blocks}

(* No server is handed to a harness without its credential, in whatever    *)
(* dialect.                                                                *)
CredentialCarried == \A i \in DOMAIN Harnesses : \A e \in WrittenBy(i) : CarriesIts(e)
=============================================================================
