------------------------------ MODULE HomeFiles ------------------------------
(***************************************************************************)
(* The files one `wagglebot update` writes in a home directory, and the    *)
(* three things that make this safe: managed blocks and merged JSON        *)
(* (managed-block.ts, managed-json.ts), the ownership recorded in          *)
(* ~/.wagglebot/managed.json (state.ts), and the backup set (backup.ts).   *)
(*                                                                         *)
(* A JSON file is a record of the MCP servers and the hooks in it, whose   *)
(* form is "object", "commented" (JSON with comments) or "corrupt"; the    *)
(* other files are block files. Absent stands for a missing file, Link for *)
(* a symbolic link where a regular file is expected.                       *)
(***************************************************************************)
EXTENDS ManagedBlock, SequencesExt, FiniteSets

CONSTANTS
  Harnesses,   \* the harness table, in its order (harness.ts)
  Sources,     \* the repositories that agents.list and skills.list name
  LayerOrder,  \* the company layer, then the teams' layers by name
  Absent, Link, Torn

VARIABLES
  home,        \* the files, by path
  managed,     \* managed.json; Torn when a crash cut its rewrite short
  backup,      \* the newest backup set, by path
  run          \* the command under way

homeVars == <<home, managed, backup, run>>

Layers == ToSet(LayerOrder)

TextOf(p) == IF home[p] = Absent THEN <<>> ELSE home[p]

-----------------------------------------------------------------------------
(* managed-json.ts. A hook is <<"mine", v>> or, with a wagglebot marker in *)
(* its command, <<"marked", v>>; an element that carries both is "both".   *)

EmptyJson == [form |-> "object", servers |-> [ns \in {} |-> Absent], hooks |-> <<>>]
JsonOf(p) == IF home[p] = Absent THEN EmptyJson ELSE home[p]

Names(doc) == DOMAIN doc.servers

(* mergeManagedSection: what is owned and no longer produced goes, what is *)
(* produced is set, the rest stays.                                        *)
mergeManagedSection(doc, entries, owned) ==
  LET kept == Names(doc) \ (owned \ DOMAIN entries) IN
  [doc EXCEPT !.servers = [ns \in kept \cup DOMAIN entries |->
                             IF ns \in DOMAIN entries THEN entries[ns] ELSE @[ns]]]

Marked(element) == element[1] # "mine"

(* mergeHooks for a fragment of one hook per event: the first marked       *)
(* element is replaced where it stands, the others are dropped, and the    *)
(* hooks of the engineer inside a marked element stay in front of it.      *)
mergeHookEntries(hooks, entry) ==
  LET marked == {i \in DOMAIN hooks : Marked(hooks[i])}
      Piece(i) ==
        (IF hooks[i][1] # "marked" THEN <<<<"mine", hooks[i][2]>>>> ELSE <<>>)
          \o (IF i \in marked /\ i = Least(marked) THEN <<entry>> ELSE <<>>)
  IN  FlattenSeq([i \in DOMAIN hooks |-> Piece(i)]) \o (IF marked = {} THEN <<entry>> ELSE <<>>)

MyHook(element) == IF element[1] # "marked" THEN <<element[2]>> ELSE <<>>
MyHooks(doc) == FlattenSeq([i \in DOMAIN doc.hooks |-> MyHook(doc.hooks[i])])

-----------------------------------------------------------------------------
(* state.ts: the agent files, <<path, server name>> keys and <<source,     *)
(* ref, adapter>> skills that wagglebot owns.                              *)

EmptyState == [agentFiles |-> {}, jsonKeys |-> {}, skills |-> {}]

-----------------------------------------------------------------------------
(* The stages of runCompanyProvision in their order.                       *)
PerHarness(kind) == [i \in DOMAIN Harnesses |-> <<kind, i>>]
Stages == <<<<"remove", 0>>>> \o PerHarness("skills") \o PerHarness("agents")
            \o PerHarness("sync") \o <<<<"shell", 0>>>> \o PerHarness("mcp")

(* The local variables of a stage: the state it loaded, what it has        *)
(* produced so far, what failed or was read, and what is left to do.       *)
Scratch == [step |-> "start", state |-> EmptyState, produced |-> {}, failed |-> {},
            synced |-> {}, todo |-> {}, names |-> {}]
IdleRun == [at |-> 0, overwrite |-> FALSE, company |-> Absent, backed |-> {}, local |-> Scratch]

InRun == run.at > 0
At(kind, i) == InRun /\ Stages[run.at] = <<kind, i>>
Step(step) == run.local.step = step

(* The run after a stage, and the run after a step of one.                 *)
MutantNextStage == IF run.at > Len(Stages) THEN IdleRun
                   ELSE [run EXCEPT !.at = @ + 1, !.local = Scratch]
NextStage == IF run.at = Len(Stages) THEN IdleRun
             ELSE [run EXCEPT !.at = @ + 1, !.local = Scratch]
Local(l) == [run EXCEPT !.local = l]

(* A copy follows a link.                                                  *)
Content(file) == IF file = Link THEN "linked" ELSE file

(* Each file is copied once into the backup set of the run, before its     *)
(* first change. A run with --overwrite-local keeps no backups.            *)
MutantCopied(paths) ==
  IF run.overwrite THEN {} ELSE {p \in paths : home[p] # Absent}
Copied(paths) ==
  IF run.overwrite THEN {} ELSE {p \in paths : home[p] # Absent /\ p \notin run.backed}

(* The step that leaves the files in `changes` as given there, after a     *)
(* backup of those that really change. The set exists from its first copy  *)
(* on, and is then the newest one.                                         *)
Write(changes, nextRun) ==
  LET changed == {p \in DOMAIN changes : home[p] # changes[p]}
      copied == Copied(changed)
      older == IF run.backed = {} THEN {} ELSE DOMAIN backup
  IN  /\ home' = [p \in DOMAIN home |-> IF p \in changed THEN changes[p] ELSE home[p]]
      /\ backup' = IF copied = {} THEN backup
                   ELSE [p \in copied \cup older |-> IF p \in copied THEN Content(home[p])
                                                    ELSE backup[p]]
      /\ run' = IF nextRun.at = 0 THEN nextRun ELSE [nextRun EXCEPT !.backed = @ \cup copied]

NoChange == [p \in {} |-> Absent]
Only(p, file) == [q \in {p} |-> file]

(* A stage that cannot load the managed state fails as a whole, and so     *)
(* does one with a malformed line in a list it reads.                      *)
Loads(kind) == managed # Torn /\ kind \notin run.company.malformed
StageFails ==
  /\ InRun /\ Stages[run.at][1] \in {"remove", "skills", "agents", "mcp"}
  /\ Step("start")
  /\ ~Loads(Stages[run.at][1])
  /\ run' = NextStage
  /\ UNCHANGED <<home, managed, backup>>
=============================================================================
