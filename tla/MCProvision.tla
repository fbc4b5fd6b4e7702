----------------------------- MODULE MCProvision -----------------------------
(***************************************************************************)
(* Two harnesses for TLC, with all that differs between harnesses: Gemini  *)
(* has its hooks and its MCP servers in one settings file and takes custom *)
(* agents; Codex has a TOML file and neither. An initial state fixes the   *)
(* subject in which the company and the engineer change things, or the     *)
(* project mode, which shares no file with the rest.                       *)
(***************************************************************************)
EXTENDS Provision, ProjectUpdate

CONSTANT Subjects

Gemini == [name |-> "gemini", instructions |-> <<"gemini", "md">>, hooks |-> <<"gemini", "json">>,
           mcp |-> <<"gemini", "json">>, format |-> "json", dialect |-> "gemini", agents |-> TRUE]
Codex == [name |-> "codex", instructions |-> <<"codex", "md">>, hooks |-> Absent,
          mcp |-> <<"codex", "toml">>, format |-> "toml", dialect |-> "codex", agents |-> FALSE]
Table == <<Gemini, Codex>>
Zshenv == <<"home", "zshenv">>
RcOf == {Zshenv}
BothLayers == <<"company", "team">>

Nowhere(x) == [l \in {"company", "team"} |-> x]
Base(subject) ==
  [subject |-> subject, catalog |-> "ok", teams |-> {"team"}, malformed |-> {}, skillsBin |-> TRUE,
   agents |-> Nowhere({}), texts |-> [o \in {"tools", "company", "team"} |-> Absent],
   skills |-> Nowhere({}), upstream |-> [o \in {"tools"} |-> {"lint", "plan"}],
   instructions |-> [l \in {"company", "team"} |-> l], proxies |-> Nowhere({})]

AgentEditions ==
  LET listed == [Base("agents") EXCEPT !.agents["team"] = {"tools"},
                   !.texts["tools"] = "v1", !.texts["team"] = "v1"]
  IN  {listed, [listed EXCEPT !.catalog = "unreadable"],
       [listed EXCEPT !.texts["tools"] = Absent, !.texts["team"] = "v2"],
       [listed EXCEPT !.agents["team"] = {}, !.texts["team"] = Absent]}

SkillEditions ==
  LET listed == [Base("skills") EXCEPT !.skills["team"] = {<<"tools", "v1">>}]
  IN  {Base("skills"), listed, [listed EXCEPT !.skills["team"] = {<<"tools", "v2">>}],
       [listed EXCEPT !.upstream["tools"] = {"lint"}],
       [listed EXCEPT !.skills["team"] = {<<"tools", Sha>>}],
       [listed EXCEPT !.skillsBin = FALSE], [listed EXCEPT !.malformed = {"remove", "skills"}]}

Proxy(ns, mode, scheme) ==
  [ns |-> ns, mode |-> mode, scheme |-> scheme, from |-> "env", map |-> "same", env |-> "none",
   vars |-> FALSE, underscore |-> FALSE, shape |-> TRUE]

Bearer == Proxy("docs", "remote_http", "bearer")
Basic == Proxy("docs", "remote_http", "basic")
Sse == Proxy("feed", "remote_sse", "absent")
Local1 == Proxy("tool", "stdio_npx", "env")
Renamed == [Local1 EXCEPT !.map = "renamed"]
Underscore == [Local1 EXCEPT !.underscore = TRUE]
BadStdio == Proxy("tool", "stdio_cmd", "bearer")
FromFile == [Bearer EXCEPT !.from = "file"]

FileEditions ==
  LET With(c, t) == [Base("files") EXCEPT !.proxies["company"] = c, !.proxies["team"] = t]
  IN  {[With({}, {}) EXCEPT !.instructions["company"] = Absent], With({Bearer, Sse}, {Local1}), With({Bearer, Renamed}, {Basic}),
       With({FromFile, Underscore}, {}), With({BadStdio}, {})}

AllEditions == AgentEditions \cup SkillEditions \cup FileEditions

Text == <<<<"text", "mine">>>>
Cut == <<<<"text", "mine">>, <<"begin", "">>>>
Blocked == <<<<"text", "mine">>, <<"begin", "">>, <<"content", "old">>, <<"end", "">>, <<"text", "more">>>>
Tables == <<<<"text", "mine">>, <<"table", "docs">>>>
Json(servers, hooks) == [form |-> "object", servers |-> servers, hooks |-> hooks]
MyServers == [ns \in {"docs"} |-> Mine("own")]
MyJson == Json(MyServers, <<<<"mine", "h1">>, <<"both", "h2">>, <<"marked", "old">>, <<"mine", "h3">>>>)

HomeEdits ==
  [subject \in {"agents", "skills", "files", "project"} |->
     CASE subject = "agents" -> {<<"gemini", "tools">>} \X {Link, "mine", Absent}
       [] subject = "files" ->
            ({<<"gemini", "md">>} \X {Cut}) \cup ({<<"codex", "toml">>} \X {Cut})
              \cup ({<<"gemini", "json">>} \X {[MyJson EXCEPT !.form = "corrupt"], Absent})
       [] OTHER -> {}]

RunsOf == [subject \in {"agents", "skills", "files", "project"} |->
             IF subject = "agents" THEN 3 ELSE 2]
StagesOf ==
  [subject \in {"agents", "skills", "files", "project"} |->
     CASE subject = "agents" -> {"agents"}
       [] subject = "skills" -> {"remove", "skills"}
       [] OTHER -> {"sync", "shell", "mcp"}]

Paths == {<<"gemini", o>> : o \in {"tools", "company", "team"}}
           \cup {<<"gemini", "md">>, <<"gemini", "json">>, <<"codex", "md">>, <<"codex", "toml">>, Zshenv}

ProjectFiles == [f \in {"AGENTS.md", "CLAUDE.md", "memory.md"} |-> Missing]
ProjectDocs == {Missing, <<>>, Text, Cut, Blocked, SubSeq(Blocked, 2, 4)}

HomeOf(about) ==
  [p \in Paths |-> IF about # "files" THEN Absent
                    ELSE CASE p = <<"gemini", "json">> -> MyJson
                           [] p = <<"codex", "toml">> -> Tables
                           [] p \in {<<"gemini", "md">>, Zshenv} -> Text
                           [] OTHER -> Absent]

ASSUME BeginsWell == \A about \in Subjects : MachineHas(HomeOf(about))

VARIABLE subject

MCInit ==
  /\ subject \in Subjects
  /\ \E skills \in {{}, {<<"own", "gemini">>}} :
       /\ subject # "skills" => skills = {}
       /\ MachineInit(HomeOf(subject), skills, [n \in {x[1] : x \in skills} |-> "elsewhere"])
  /\ subject # "project" => company.subject = subject
  /\ subject = "project" => company = Base("skills")
  /\ ProjectInit(ProjectFiles)
  /\ subject # "project" => sources = ""

MCNext ==
  /\ UNCHANGED subject
  /\ \/ subject = "project" /\ ProjectNext /\ UNCHANGED machineVars
     \/ subject # "project" /\ MachineNext /\ UNCHANGED projectVars

MCSpec == MCInit /\ [][MCNext]_<<subject, machineVars, projectVars>>
=============================================================================
