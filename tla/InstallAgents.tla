---------------------------- MODULE InstallAgents ----------------------------
(***************************************************************************)
(* The "Custom agents" stage of one harness (commands/install-agents.ts):  *)
(* every source of agents.list is fetched with git, every layer has a      *)
(* directory of its own, and each gives at most one Markdown file here,    *)
(* <<harness, source or layer>>. What nobody produces any more is removed. *)
(***************************************************************************)
EXTENDS HomeFiles

AgentPath(i, origin) == <<Harnesses[i].name, origin>>
HasAgents(i) == Harnesses[i].agents
AgentPathsOf(i) == {p \in DOMAIN home : p \in {AgentPath(i, o) : o \in Sources \cup Layers}}

(* The sources and layers that apply, and the text each has to offer.      *)
ListedSources(company) == UNION {company.agents[l] : l \in company.layers}
Offered(company, origin) == company.texts[origin]

(* Without a directory of its own the harness is skipped.                  *)
AgentsSkipped(i) ==
  /\ At("agents", i) /\ Step("start") /\ Loads("agents")
  /\ ~HasAgents(i)
  /\ run' = NextStage
  /\ UNCHANGED <<home, managed, backup>>

(* Up to the first git command. --overwrite-local empties the directory    *)
(* and forgets its files at once.                                          *)
AgentsStart(i) ==
  /\ At("agents", i) /\ Step("start") /\ Loads("agents")
  /\ HasAgents(i)
  /\ LET cleared == IF run.overwrite THEN AgentPathsOf(i) ELSE {}
         state == [managed EXCEPT !.agentFiles = @ \ cleared]
     IN  /\ managed' = state
         /\ Write([p \in cleared |-> Absent],
                  Local([Scratch EXCEPT !.step = "fetch", !.state = state,
                           !.produced = state.agentFiles \ AgentPathsOf(i),
                           !.todo = ListedSources(run.company) \cup run.company.layers]))

(* installFile leaves alone what is not a regular file, and goes on owning *)
(* it if it did.                                                           *)
Produced(p, l) ==
  IF home[p] = Link /\ p \notin l.state.agentFiles THEN l ELSE [l EXCEPT !.produced = @ \cup {p}]

Installed(i, origin, l) ==
  LET p == AgentPath(i, origin)
      text == Offered(run.company, origin)
  IN  IF text = Absent THEN Write(NoChange, Local(l))
      ELSE Write(Only(p, IF home[p] = Link THEN Link ELSE text), Local(Produced(p, l)))

(* Git delivers a source, or a layer's directory is read, and its files    *)
(* are installed. Sources come before layers.                              *)
AgentsInstall(i, origin) ==
  /\ At("agents", i) /\ Step("fetch")
  /\ origin \in run.local.todo
  /\ origin \in Layers => run.local.todo \subseteq Layers
  /\ Installed(i, origin, [run.local EXCEPT !.todo = @ \ {origin}, !.synced = @ \cup {origin}])
  /\ UNCHANGED managed

(* git clone, fetch, pull or checkout fails.                               *)
AgentsFetchFails(i, source) ==
  /\ At("agents", i) /\ Step("fetch")
  /\ source \in run.local.todo \cap Sources
  /\ run' = Local([run.local EXCEPT !.todo = @ \ {source}, !.failed = @ \cup {source}])
  /\ UNCHANGED <<home, managed, backup>>

(* The files of the sources that failed count as produced.                 *)
MutantCarried(l) == {}
Carried(l) == {p \in l.state.agentFiles : p[2] \in l.failed}

(* The sweep removes every other file the loaded state names.              *)
AgentsSweep(i) ==
  /\ At("agents", i) /\ Step("fetch")
  /\ run.local.todo = {}
  /\ LET produced == run.local.produced \cup Carried(run.local)
     IN  Write([p \in run.local.state.agentFiles \ produced |-> Absent],
               Local([run.local EXCEPT !.step = "save", !.produced = produced]))
  /\ UNCHANGED managed

AgentsSave(i) ==
  /\ At("agents", i) /\ Step("save")
  /\ managed' = [run.local.state EXCEPT !.agentFiles = run.local.produced]
  /\ run' = NextStage
  /\ UNCHANGED <<home, backup>>

AgentsStep(i) ==
  \/ AgentsSkipped(i) \/ AgentsStart(i) \/ AgentsSweep(i) \/ AgentsSave(i)
  \/ \E origin \in Sources \cup Layers : AgentsInstall(i, origin) \/ AgentsFetchFails(i, origin)

-----------------------------------------------------------------------------
(* An installed agent file is removed only if its source or layer is not   *)
(* in the lists that apply any more, or was fetched in this run and no     *)
(* longer has it: a failure to fetch, in this run or in any run before,    *)
(* uninstalls nothing.                                                     *)
ListedAgentsStay ==
  [][\A i \in DOMAIN Harnesses : AgentsSweep(i) =>
       \A p \in DOMAIN home : home[p] # Absent /\ home'[p] = Absent =>
         /\ p \in AgentPathsOf(i)
         /\ p[2] \in ListedSources(run.company) \cup run.company.layers =>
              p[2] \in run.local.synced /\ Offered(run.company, p[2]) = Absent]_homeVars
=============================================================================
