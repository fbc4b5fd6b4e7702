---------------------------- MODULE InstallSkills ----------------------------
(***************************************************************************)
(* The skills stages (commands/install-skills.ts, skill-lock.ts): one that *)
(* removes what no skills.list names, over all adapters, then one per      *)
(* harness that adds what they name. The skills CLI is a program of its    *)
(* own. It may fail, may report a removal that it did not do, and keeps in *)
(* its lock the source of every skill, which is all that links an          *)
(* installed skill to the list that asked for it.                          *)
(***************************************************************************)
EXTENDS HomeFiles

CONSTANTS
  Skills,      \* names of skills
  Sha          \* a pin that is a commit hash

VARIABLES
  installed,   \* <<skill, adapter>>, the skills CLI's own
  lock         \* skill -> source, for the skills it has in its lock file

skillVars == <<installed, lock>>

Adapter(i) == Harnesses[i].name
Adapters == {Adapter(i) : i \in DOMAIN Harnesses}

(* The list entries <<source, ref>> of the layers that apply.              *)
Entries(company) == UNION {company.skills[l] : l \in company.layers}
Listed(company) == {e[1] : e \in Entries(company)}

skillsOfSource(source) == {n \in DOMAIN lock : lock[n] = source}
Owners(owned, source) == {o[3] : o \in {x \in owned : x[1] = source}}

-----------------------------------------------------------------------------
(* The skills CLI.                                                         *)

(* The lock keeps a skill for as long as some adapter has it.              *)
Relock(skillsNow, lockNow) ==
  [n \in {m \in DOMAIN lockNow : \E a \in Adapters : <<m, a>> \in skillsNow} |-> lockNow[n]]

(* `skills remove`: it removes the skills from the adapters, or not, and   *)
(* says that it did, or not.                                               *)
Removal(names, adapters, succeeded) ==
  \E done, reported \in BOOLEAN :
    /\ installed' = IF done THEN installed \ (names \X adapters) ELSE installed
    /\ lock' = Relock(installed', lock)
    /\ succeeded = reported

(* `skills ls` afterwards must answer, and show none of them.              *)
MutantVerifiedRemoval(names, adapters, skillsNow) == TRUE
verifiedRemoval(names, adapters, skillsNow) == skillsNow \cap (names \X adapters) = {}

(* removeSkill, and `clear` for all skills: what the CLI says is checked.  *)
Removes(names, adapters, removed) ==
  \E reported, listing \in BOOLEAN :
    /\ Removal(names, adapters, reported)
    /\ removed = (reported /\ listing /\ verifiedRemoval(names, adapters, installed'))

-----------------------------------------------------------------------------
(* No entry and nothing owned, or no skills CLI, or a Node below its       *)
(* floor: the stage ends.                                                  *)
NothingToDo == Entries(run.company) = {} /\ managed.skills = {} /\ ~run.overwrite
SkillsStage(kind, i) == At(kind, i) /\ Step("start") /\ Loads(kind)

SkillsSkipped(kind, i) ==
  /\ SkillsStage(kind, i)
  /\ NothingToDo \/ ~run.company.skillsBin
  /\ run' = NextStage
  /\ UNCHANGED <<home, managed, backup, skillVars>>

SkillsStart(kind, i, step, todo) ==
  /\ SkillsStage(kind, i)
  /\ ~NothingToDo /\ run.company.skillsBin
  /\ run' = Local([Scratch EXCEPT !.step = step, !.state = managed,
                     !.produced = managed.skills, !.todo = todo])
  /\ UNCHANGED <<home, managed, backup, skillVars>>

(* The phase "remove". With --overwrite-local every skill goes, and so     *)
(* does all ownership: first for all adapters at once, and if that fails   *)
(* for each alone. Without, the sources that no list names any more.       *)
RemoveStart ==
  SkillsStart("remove", 0, IF run.overwrite THEN "clear" ELSE "stale",
              IF run.overwrite THEN {Adapters}
              ELSE {o[1] : o \in managed.skills} \ Listed(run.company))

Disowned(owned, adapters) == {o \in owned : o[3] \notin adapters}

Clear(adapters) ==
  /\ At("remove", 0) /\ Step("clear")
  /\ adapters \in run.local.todo
  /\ \E removed \in BOOLEAN :
       LET alone == IF removed \/ adapters # Adapters \/ Cardinality(Adapters) = 1 THEN {}
                    ELSE {{a} : a \in Adapters}
           state == [run.local.state EXCEPT !.skills = Disowned(@, adapters)]
           todo == (run.local.todo \ {adapters}) \cup alone
       IN  /\ Removes(Skills, adapters, removed)
           /\ managed' = IF removed THEN state ELSE managed
           /\ run' = Local([run.local EXCEPT !.todo = todo,
                              !.state = IF removed THEN state ELSE @,
                              !.produced = IF removed THEN state.skills ELSE @])
  /\ UNCHANGED <<home, backup>>

(* The skills of one stale source, from the lock. With no lock entry the   *)
(* listing must show no skill at all for its adapters.                     *)
PickStale(source) ==
  /\ At("remove", 0) /\ Step("stale") /\ run.local.names = {}
  /\ source \in run.local.todo
  /\ LET adapters == Owners(run.local.state.skills, source)
         names == skillsOfSource(source)
         dropped == {o \in run.local.produced : o[1] = source}
     IN  \/ /\ names # {}
            /\ run' = Local([run.local EXCEPT !.names = names, !.synced = {source}])
         \/ /\ names = {}
            /\ verifiedRemoval(Skills, adapters, installed)
            /\ run' = Local([run.local EXCEPT !.todo = @ \ {source}, !.produced = @ \ dropped])
         \/ /\ names = {}     \* the listing failed, or shows one
            /\ run' = Local([run.local EXCEPT !.todo = @ \ {source}])
  /\ UNCHANGED <<home, managed, backup, skillVars>>

(* One of them. The last one decides what becomes of the ownership.        *)
RemoveStale(source, name) ==
  /\ At("remove", 0) /\ Step("stale")
  /\ run.local.synced = {source} /\ name \in run.local.names
  /\ \E removed \in BOOLEAN :
       LET left == run.local.names \ {name}
           failed == IF removed THEN run.local.failed ELSE run.local.failed \cup {source}
           dropped == IF left = {} /\ source \notin failed
                      THEN {o \in run.local.produced : o[1] = source} ELSE {}
       IN  /\ Removes({name}, Owners(run.local.state.skills, source), removed)
           /\ run' = Local([run.local EXCEPT !.names = left, !.failed = failed,
                              !.produced = @ \ dropped,
                              !.synced = IF left = {} THEN {} ELSE @,
                              !.todo = IF left = {} THEN @ \ {source} ELSE @])
  /\ UNCHANGED <<home, managed, backup>>

-----------------------------------------------------------------------------
(* The phase "install" of one harness.                                     *)
InstallStart(i) == SkillsStart("skills", i, "add", Entries(run.company))

(* `skills add` fails, or writes the skills of the source and stamps them  *)
(* in the lock, or succeeds without a write. A pin that is a commit hash   *)
(* is not tried. The pins of a repository move to the new one.             *)
AddFails(i, entry) ==
  /\ At("skills", i) /\ Step("add") /\ run.local.names = {}
  /\ entry \in run.local.todo
  /\ run' = Local([run.local EXCEPT !.todo = @ \ {entry}])
  /\ UNCHANGED <<home, managed, backup, skillVars>>

Moved(owned, entry, adapter) ==
  {o \in owned : o[1] # entry[1] \/ o[3] # adapter} \cup {<<entry[1], entry[2], adapter>>}

(* staleSkills: known to the lock and not stamped, unless none was.        *)
staleSkills(known, stamped) == IF known \subseteq stamped \/ known \cap stamped = {} THEN {}
                               ELSE known \ stamped

Add(i, entry) ==
  /\ At("skills", i) /\ Step("add") /\ run.local.names = {}
  /\ entry \in run.local.todo /\ entry[2] # Sha
  /\ \E stamped \in {run.company.upstream[entry[1]], {}} :
       LET source == entry[1]
           known == skillsOfSource(source) \cup stamped
       IN  /\ installed' = installed \cup (stamped \X {Adapter(i)})
           /\ lock' = [n \in DOMAIN lock \cup stamped |-> IF n \in stamped THEN source ELSE lock[n]]
           /\ run' = Local([run.local EXCEPT !.todo = @ \ {entry},
                              !.produced = Moved(@, entry, Adapter(i)),
                              !.names = staleSkills(known, stamped)])
  /\ UNCHANGED <<home, managed, backup>>

(* A skill deleted upstream goes from every adapter.                       *)
RemoveDeleted(i, name) ==
  /\ At("skills", i) /\ Step("add")
  /\ name \in run.local.names
  /\ \E removed \in BOOLEAN : Removes({name}, Adapters, removed)
  /\ run' = Local([run.local EXCEPT !.names = @ \ {name}])
  /\ UNCHANGED <<home, managed, backup>>

(* Either phase ends with a save.                                          *)
SkillsSave(kind, i, step) ==
  /\ At(kind, i) /\ Step(step)
  /\ run.local.todo = {} /\ run.local.names = {}
  /\ managed' = [run.local.state EXCEPT !.skills = run.local.produced]
  /\ run' = NextStage
  /\ UNCHANGED <<home, backup, skillVars>>

RemoveStep == At("remove", 0) /\
  \/ SkillsSkipped("remove", 0) \/ RemoveStart
  \/ \E adapters \in {Adapters} \cup {{a} : a \in Adapters} : Clear(adapters)
  \/ \E source \in Sources : PickStale(source) \/ \E name \in Skills : RemoveStale(source, name)
  \/ \E step \in {"clear", "stale"} : SkillsSave("remove", 0, step)

SkillsStep(i) == At("skills", i) /\
  \/ SkillsSkipped("skills", i) \/ InstallStart(i)
  \/ \E entry \in Entries(run.company) : AddFails(i, entry) \/ Add(i, entry)
  \/ \E name \in Skills : RemoveDeleted(i, name)
  \/ SkillsSave("skills", i, "add")

-----------------------------------------------------------------------------
(* Wagglebot gives up a source for an adapter only when that adapter has   *)
(* no skill left that the lock attributes to it, whatever the skills CLI   *)
(* reports. (A run that dies between an addition and its save never came   *)
(* to own what it added: that is not given up, and not promised here.)     *)
OwnedUntilGone ==
  [][managed # Torn /\ managed' # Torn =>
       \A s \in Sources : \A a \in Owners(managed.skills, s) \ Owners(managed'.skills, s) :
         \A n \in skillsOfSource(s) : <<n, a>> \notin installed']_<<homeVars, skillVars>>
=============================================================================
