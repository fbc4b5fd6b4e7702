------------------------------ MODULE Provision ------------------------------
(***************************************************************************)
(* One workstation: `wagglebot update` and `connect` provision it from the *)
(* company repository (commands/provision-company.ts) stage after stage,   *)
(* each of which may fail without ending the run; `update --restore` puts  *)
(* the newest backup set back. Between runs, and between the steps of one, *)
(* the engineer edits files. A run may be killed anywhere, and be killed   *)
(* while it rewrites managed.json.                                         *)
(***************************************************************************)
EXTENDS InstallAgents, InstallSkills, WriteMcp

CONSTANTS
  Company,     \* the company layer
  Editions,    \* the states the company repository goes through
  RcFiles,     \* startup files of the shells
  Shell,       \* the content of their managed block
  Hook,        \* the hook in the templates
  Edits,       \* edition.subject -> {<<path, file>>}: what the engineer may write
  MaxRuns,     \* by subject, the runs there are
  Relevant,    \* by subject, the stages in which a run is disturbed at all
  MaxDisturbances  \* bound: crashes, and edits by the engineer

VARIABLES
  company,     \* the company repository
  before,      \* the files as wagglebot found them: history, for a property
  runs, crashes, edits

machineVars == <<homeVars, skillVars, company, before, runs, crashes, edits>>
counters == <<runs, crashes, edits>>

-----------------------------------------------------------------------------
(* resolveCompanyContext: without a readable catalog, or for a user who is *)
(* not in it, only the company layer applies.                              *)
LayersOf(edition) == IF edition.catalog = "ok" THEN edition.teams \cup {Company} ELSE {Company}
Context(edition) == edition @@ [layers |-> LayersOf(edition)]

(* skills.list names sources and pins, and a source has skills; a proxy    *)
(* has a credential of a known scheme and origin.                          *)
ASSUME CompanyLists ==
  \A edition \in Editions :
    /\ \A entry \in Entries(Context(edition)) :
         /\ entry \in Sources \X (STRING \cup {Sha})
         /\ Context(edition).upstream[entry[1]] \subseteq Skills
    /\ \A l \in Context(edition).layers : \A p \in Context(edition).proxies[l] :
         /\ p.ns \in STRING /\ p.from \in {"env", "file", "literal"}
         /\ p.scheme \in {"absent", "none", "bearer", "header", "prefixed", "basic", "env"}

(* The files by their form. No path is used for two of them.               *)
JsonPaths == ({Harnesses[i].hooks : i \in DOMAIN Harnesses} \ {Absent})
               \cup {McpPath(i) : i \in {j \in DOMAIN Harnesses : Format(j, "json")}}
TomlPaths == {McpPath(i) : i \in {j \in DOMAIN Harnesses : Format(j, "toml")}}
TextPaths == RcFiles \cup {Harnesses[i].instructions : i \in DOMAIN Harnesses}
AgentPaths == {AgentPath(i, o) : i \in {j \in DOMAIN Harnesses : HasAgents(j)},
                                 o \in Sources \cup Layers}
IsJson(p) == p \in JsonPaths
IsBlock(p) == p \in TextPaths \cup TomlPaths

ASSUME HarnessTable ==
  /\ Len(Harnesses) \in Nat /\ DOMAIN Harnesses = 1 .. Len(Harnesses)
  /\ \A i \in DOMAIN Harnesses : Format(i, "json") \/ Format(i, "toml")
  /\ JsonPaths \cap (TextPaths \cup TomlPaths) = {} /\ TextPaths \cap TomlPaths = {}
  /\ AgentPaths \cap (JsonPaths \cup TextPaths \cup TomlPaths) = {}

(* A file that can be at a path: lines of the five kinds, or JSON. What    *)
(* is in it of wagglebot's carries its credential.                         *)
Lines(doc) == {doc[k] : k \in DOMAIN doc}
TextFits(p, doc) ==
  /\ doc \in Seq(Lines(doc))
  /\ \A line \in Lines(doc) :
       /\ line[1] \in LineKinds
       /\ p \in TomlPaths /\ line[1] = "content" =>
            \A ns \in DOMAIN line[2] : CarriesIts(line[2][ns])
JsonFits(doc) ==
  /\ DOMAIN doc = {"form", "servers", "hooks"} /\ doc.form \in {"object", "commented", "corrupt"}
  /\ doc.hooks \in Seq(Lines(doc.hooks))
  /\ \A ns \in Names(doc) : CarriesIts(doc.servers[ns])
Fits(p, file) == (IsJson(p) => JsonFits(file)) /\ (IsBlock(p) => TextFits(p, file))

(* What the engineer begins with, and what he writes later, fits.          *)
MachineHas(files) ==
  /\ AgentPaths \cup TextPaths \cup TomlPaths \cup JsonPaths \subseteq DOMAIN files
  /\ \A p \in DOMAIN files : files[p] = Absent \/ Fits(p, files[p])

ASSUME EditsFit ==
  \A edition \in Editions : \A edit \in Edits[edition.subject] :
    edit[2] = Absent \/ Fits(edit[1], edit[2])

(* Between two runs. Nothing is explored after the last one.               *)
Between == ~InRun /\ runs < MaxRuns[company.subject]

StartRun(overwrite) ==
  /\ Between
  /\ runs' = runs + 1
  /\ run' = [IdleRun EXCEPT !.at = 1, !.overwrite = overwrite, !.company = Context(company)]
  /\ UNCHANGED <<home, managed, backup, skillVars, company, crashes, edits>>

(* "Instructions and hooks" of a harness (commands/sync-harnesses.ts). A   *)
(* target with broken markers, or one that is not JSON, fails alone.       *)
Instructions(edition) ==
  {<<l, edition.instructions[l]>> : l \in {m \in edition.layers : edition.instructions[m] # Absent}}

SyncInstructions(i) ==
  /\ At("sync", i) /\ Step("start")
  /\ LET p == Harnesses[i].instructions
         next == renderManagedBlock(IF run.overwrite THEN <<>> ELSE TextOf(p),
                                    Instructions(run.company))
         fails == ~run.overwrite /\ Malformed(TextOf(p))
     IN  Write(IF fails THEN NoChange ELSE Only(p, next), Local([Scratch EXCEPT !.step = "hooks"]))
  /\ UNCHANGED managed

SyncHooks(i) ==
  /\ At("sync", i) /\ Step("hooks")
  /\ LET p == Harnesses[i].hooks
         doc == IF run.overwrite THEN [JsonOf(p) EXCEPT !.hooks = <<<<"marked", Hook>>>>]
                ELSE [JsonOf(p) EXCEPT !.hooks = mergeHookEntries(@, <<"marked", Hook>>)]
         skipped == p = Absent \/ JsonOf(p).form # "object"
     IN  Write(IF skipped THEN NoChange ELSE Only(p, doc), NextStage)
  /\ UNCHANGED managed

(* "Shell environment" (commands/sync-shell.ts): one block per startup     *)
(* file. A missing file is created only for a shell the engineer uses.     *)
ShellStart ==
  /\ At("shell", 0) /\ Step("start")
  /\ run' = Local([Scratch EXCEPT !.step = "files", !.todo = RcFiles])
  /\ UNCHANGED <<home, managed, backup>>

ShellFile(p, createIfMissing) ==
  /\ At("shell", 0) /\ Step("files") /\ p \in run.local.todo
  /\ LET skipped == (home[p] = Absent /\ ~createIfMissing) \/ Malformed(TextOf(p))
     IN  Write(IF skipped THEN NoChange ELSE Only(p, renderManagedBlock(TextOf(p), Shell)),
               Local([run.local EXCEPT !.todo = @ \ {p}]))
  /\ UNCHANGED managed

ShellEnds ==
  /\ At("shell", 0) /\ Step("files") /\ run.local.todo = {}
  /\ run' = NextStage
  /\ UNCHANGED <<home, managed, backup>>

FileStep ==
  /\ \/ StageFails /\ (Stages[run.at][1] = "mcp" => RegistriesLoad(run.company))
     \/ \E i \in DOMAIN Harnesses : AgentsStep(i) \/ SyncInstructions(i) \/ SyncHooks(i) \/ McpStep(i)
     \/ ShellStart \/ ShellEnds
     \/ \E p \in RcFiles : \E create \in BOOLEAN : ShellFile(p, create)
     \/ RegistryFails
  /\ UNCHANGED skillVars

(* restoreHarnesses: the newest set goes back, or one file of it. The      *)
(* managed state stays as it is.                                           *)
RestoreBackups ==
  /\ Between /\ DOMAIN backup # {}
  /\ \E targets \in {DOMAIN backup} \cup {{p} : p \in DOMAIN backup} :
       home' = [p \in DOMAIN home |-> IF p \in targets THEN backup[p] ELSE home[p]]
  /\ UNCHANGED <<managed, backup, run, skillVars, company, counters>>

-----------------------------------------------------------------------------
(* saveState writes the file in place, so a crash can cut it short.        *)
Saving ==
  \/ Step("save")
  \/ /\ run.local.step \in {"clear", "stale", "add"}
     /\ run.local.todo = {} /\ run.local.names = {}

Disturbed == Between \/ (InRun /\ Stages[run.at][1] \in Relevant[company.subject])
Crash ==
  /\ InRun /\ Disturbed /\ crashes + edits < MaxDisturbances
  /\ run' = IdleRun
  /\ managed' \in {managed} \cup (IF Saving THEN {Torn} ELSE {})
  /\ crashes' = crashes + 1
  /\ UNCHANGED <<home, backup, skillVars, company, runs, edits>>

(* The engineer deletes a state file that no longer parses.                *)
RepairState ==
  /\ Between /\ managed = Torn
  /\ managed' = EmptyState
  /\ UNCHANGED <<home, backup, run, skillVars, company, counters>>

EditHome(p, file) ==
  /\ crashes + edits < MaxDisturbances /\ Disturbed
  /\ <<p, file>> \in Edits[company.subject] /\ home[p] # file
  /\ home' = [home EXCEPT ![p] = file]
  /\ edits' = edits + 1
  /\ UNCHANGED <<managed, backup, run, skillVars, company, runs, crashes>>

EditCompany(edition) ==
  /\ Between
  /\ edition \in Editions /\ edition # company /\ edition.subject = company.subject
  /\ company' = edition
  /\ UNCHANGED <<home, managed, backup, run, skillVars, counters>>

(* History: what a file was before the run changed it, with the engineer's *)
(* own changes up to then.                                                 *)
Recorded(edited) ==
  before' = IF ~InRun THEN home'
            ELSE [p \in DOMAIN home |->
                    IF p \in edited \ run.backed THEN home'[p] ELSE before[p]]

MachineInit(files, skills, lockFile) ==
  /\ home = files /\ before = files
  /\ managed = EmptyState /\ backup = NoChange /\ run = IdleRun
  /\ installed = skills /\ lock = lockFile
  /\ company \in Editions
  /\ runs = 0 /\ crashes = 0 /\ edits = 0

RunStep ==
  /\ InRun
  /\ FileStep \/ RemoveStep \/ \E i \in DOMAIN Harnesses : SkillsStep(i)
  /\ UNCHANGED <<company, counters>>

MachineNext ==
  \/ (RunStep \/ Crash \/ RestoreBackups \/ RepairState
        \/ \E overwrite \in BOOLEAN : StartRun(overwrite)
        \/ \E edition \in Editions : EditCompany(edition)) /\ Recorded({})
  \/ \E edit \in Edits[company.subject] : EditHome(edit[1], edit[2]) /\ Recorded({edit[1]})

(* The machine, from whatever files and skills an engineer begins with.    *)
MachineSpec(files, skills, lockFile) ==
  MachineInit(files, skills, lockFile) /\ [][MachineNext]_machineVars

-----------------------------------------------------------------------------
(* Files keep their form, the managed state names files and sources that   *)
(* exist, and every file a run has backed up is in the newest set.         *)
MachineTypeOK ==
  /\ \A p \in {q \in DOMAIN home : home[q] # Absent} :
       /\ IsBlock(p) => \A k \in DOMAIN home[p] : home[p][k][1] \in LineKinds
       /\ IsJson(p) => home[p].form \in {"object", "commented", "corrupt"}
  /\ managed # Torn =>
       /\ managed.agentFiles \subseteq DOMAIN home
       /\ managed.jsonKeys \subseteq {k \in DOMAIN home : IsJson(k)} \X STRING
       /\ managed.skills \subseteq Sources \X STRING \X Adapters
  /\ run.at \in 0 .. Len(Stages)
  /\ run.backed \subseteq DOMAIN backup

(* The backup set of a run is the way back from it: every file that the    *)
(* run has changed or removed is in the set as the engineer last had it,   *)
(* in whatever stages and however often the run wrote it. A run with       *)
(* --overwrite-local, which keeps no backups, is the exception, and a file *)
(* that the run itself created.                                            *)
BackupHoldsTheOriginal ==
  InRun /\ ~run.overwrite =>
    \A p \in DOMAIN home :
      before[p] # Absent =>
        /\ p \in run.backed => backup[p] = Content(before[p])
        /\ home[p] # before[p] => p \in run.backed

(* What the engineer has in a file that wagglebot also writes.             *)
ServersOfEngineer(p) ==
  {<<ns, home[p].servers[ns]>> : ns \in {n \in Names(home[p]) : home[p].servers[n].by = "engineer"}}

(* No step of a run takes anything of the engineer's out of a file: not    *)
(* the text around the managed block, not a hook, not an MCP server under  *)
(* a name wagglebot has not recorded as its own.                           *)
ForeignContentStays ==
  [][InRun /\ ~run.overwrite /\ home' # home /\ edits' = edits =>
       \A p \in {q \in DOMAIN home : home[q] # Absent} :
         /\ IsBlock(p) => outsideBlock(home'[p]) = outsideBlock(home[p])
         /\ IsJson(p) =>
              /\ MyHooks(home'[p]) = MyHooks(home[p])
              /\ \A s \in ServersOfEngineer(p) :
                   s \in ServersOfEngineer(p)' \/ <<p, s[1]>> \in managed.jsonKeys]_machineVars
=============================================================================
