---------------------------- MODULE CompanyCache ----------------------------
(***************************************************************************)
(* The company cache under ~/.wagglebot (packages/cli/src/company-cache.ts)*)
(* and the commands that use it: `update --wagglebot` refreshes the cache, *)
(* activates the new revision, runs the pinned CLI as a child process and  *)
(* then settles the engineer's credential file, which moves from the       *)
(* revision directory of older releases to a stable path outside them      *)
(* (packages/cli/src/index.ts, commands/sync-shell.ts).                    *)
(*                                                                         *)
(* Each element of Commands is one process and its child; they share only  *)
(* the file system, and another process may run between any two of their   *)
(* system calls. The company's files are abstracted to the revision they   *)
(* belong to, and the shell startup files to the path from which their     *)
(* managed block loads the credentials.                                    *)
(***************************************************************************)
EXTENDS Integers, FiniteSets

CONSTANTS
  Commands,     \* processes that may run on the machine at the same time
  Revisions,    \* directory names; randomUUID never draws one twice
  Places,       \* directories of a revision that may hold credentials
  Root,         \* its root, which is where a cached shell stage looks
  Selected,     \* the configured company subdirectory, or Root
  MaxCrashes,   \* bound: processes killed
  NoRevision,   \* no directory, link or receipt
  NoLink        \* no credential file to settle

ASSUME CacheConstants ==
  /\ {Root, Selected} \subseteq Places
  /\ NoRevision \notin Revisions
  /\ NoLink \notin Revisions \X Places
  /\ MaxCrashes \in Nat

VARIABLES
  revisions,    \* the directories in company/revisions
  active,       \* the target of company/active
  next,         \* the target of company/active.next
  legacy,       \* the .env.credentials links of the engineer's file
  stable,       \* ~/.wagglebot/.env.credentials: "absent", "linked" to the
                \* legacy file, or a "separate" file
  shell,        \* the managed shell block loads the "legacy" or "stable" path
  receipt,      \* the contents of company-shell-ready
  pc,           \* the step each command is at
  previousRoot, \* what each refresh found active when it began
  revision,     \* the directory each refresh made
  commit,       \* the link each refresh settles at its end
  childCommit,  \* the link the command's child removes after its shell stage
  used,         \* names randomUUID has drawn
  replaced,     \* history: the active revision each command replaced
  overlapped,   \* history: a command started while another was under way
  crashes       \* processes killed so far

cacheVars == <<revisions, active, next>>
credentialVars == <<legacy, stable, shell, receipt>>
localVars == <<previousRoot, revision, commit, childCommit>>
historyVars == <<used, replaced, overlapped, crashes>>
vars == <<cacheVars, credentialVars, pc, localVars, historyVars>>

Refreshing == {"clone", "migrate", "link", "store", "next", "activate"}
InChild == {"run", "childLink", "block", "receipt", "childCommit"}
Steps == {"idle"} \cup Refreshing \cup InChild \cup {"settle", "rollback"}

MaybeRevision == Revisions \cup {NoRevision}
Link == Revisions \X Places

CacheTypeOK ==
  /\ revisions \subseteq Revisions
  /\ active \in MaybeRevision
  /\ next \in MaybeRevision
  /\ legacy \subseteq Link
  /\ stable \in {"absent", "linked", "separate"}
  /\ shell \in {"legacy", "stable"}
  /\ receipt \in MaybeRevision
  /\ pc \in [Commands -> Steps]
  /\ previousRoot \in [Commands -> MaybeRevision]
  /\ revision \in [Commands -> MaybeRevision]
  /\ commit \in [Commands -> Link \cup {NoLink}]
  /\ childCommit \in [Commands -> Link \cup {NoLink}]
  /\ used \subseteq Revisions
  /\ replaced \in [Commands -> MaybeRevision]
  /\ overlapped \in BOOLEAN
  /\ crashes \in 0 .. MaxCrashes

(* A machine without a cache, or one an older release left: its shell      *)
(* block loads the credentials of the active revision, and the engineer    *)
(* may have put a separate file at the stable path.                        *)
CacheInit ==
  /\ \E r \in Revisions, place \in {Root, Selected} :
        \/ /\ revisions = {} /\ active = NoRevision /\ used = {}
           /\ legacy = {} /\ stable = "absent"
        \/ /\ revisions = {r} /\ active = r /\ used = {r}
           /\ legacy = {<<r, place>>} /\ stable \in {"absent", "separate"}
  /\ next = NoRevision
  /\ shell = "legacy"
  /\ receipt = NoRevision
  /\ pc = [c \in Commands |-> "idle"]
  /\ previousRoot = [c \in Commands |-> NoRevision]
  /\ revision = [c \in Commands |-> NoRevision]
  /\ commit = [c \in Commands |-> NoLink]
  /\ childCommit = [c \in Commands |-> NoLink]
  /\ replaced = [c \in Commands |-> NoRevision]
  /\ overlapped = FALSE
  /\ crashes = 0

Goto(c, step) == pc' = [pc EXCEPT ![c] = step]
At(c, step) == pc[c] = step

Begin(c) ==
  /\ At(c, "idle")
  /\ overlapped' = (overlapped \/ \E d \in Commands \ {c} : ~At(d, "idle"))
  /\ UNCHANGED <<used, replaced, crashes>>

-----------------------------------------------------------------------------
(* migrateCachedCredentials: which credential file there is to move. The   *)
(* selected directory is looked at before the root.                        *)
LegacyFrom(place) ==
  LET found == IF <<active, place>> \in legacy THEN <<active, place>>
                                               ELSE <<active, Root>>
  IN IF found \in legacy THEN found ELSE NoLink

(* Mutant: the two files are not compared.                                *)
MutantWithoutLink(link) == legacy \ {link}

(* What migrateCachedCredentials returns removes the legacy path only if   *)
(* it and the stable path are the same file.                               *)
WithoutLink(link) == IF stable = "linked" THEN legacy \ {link} ELSE legacy

-----------------------------------------------------------------------------
(* refreshCompanyCache *)

(* An update starts: it notes what is active, and starts the clone.        *)
StartUpdate(c) ==
  /\ Begin(c)
  /\ previousRoot' = [previousRoot EXCEPT ![c] = active]
  /\ revision' = [revision EXCEPT ![c] = NoRevision]
  /\ commit' = [commit EXCEPT ![c] = NoLink]
  /\ childCommit' = [childCommit EXCEPT ![c] = NoLink]
  /\ Goto(c, "clone")
  /\ UNCHANGED <<cacheVars, credentialVars>>

(* The clone is complete and the candidate valid.                          *)
CloneValid(c) ==
  /\ At(c, "clone")
  /\ \E r \in Revisions \ used :
        /\ used' = used \cup {r}
        /\ revision' = [revision EXCEPT ![c] = r]
  /\ Goto(c, "migrate")
  /\ UNCHANGED <<cacheVars, credentialVars, previousRoot, commit, childCommit,
                 replaced, overlapped, crashes>>

(* Mutant: the credential file is left where it is.                       *)
MutantMigrate(c) ==
  /\ At(c, "migrate")
  /\ Goto(c, "store")
  /\ UNCHANGED <<cacheVars, credentialVars, localVars, historyVars>>

(* Looks for a credential file in the cache that is active now.            *)
Migrate(c) ==
  /\ At(c, "migrate")
  /\ LET link == IF previousRoot[c] = NoRevision THEN NoLink
                                                 ELSE LegacyFrom(Selected)
     IN /\ commit' = [commit EXCEPT ![c] = link]
        /\ Goto(c, IF link # NoLink /\ stable = "absent" THEN "link" ELSE "store")
  /\ UNCHANGED <<cacheVars, credentialVars, previousRoot, revision, childCommit,
                 historyVars>>

(* linkSync, which fails when the stable path has appeared meanwhile.      *)
LinkStable(c) ==
  /\ At(c, "link")
  /\ stable = "absent"
  /\ commit[c] \in legacy
  /\ stable' = "linked"
  /\ Goto(c, "store")
  /\ UNCHANGED <<cacheVars, legacy, shell, receipt, localVars, historyVars>>

(* Mutant: the previous revision is stored, not the new one.                 *)
MutantStore(c) ==
  /\ At(c, "store")
  /\ revisions' = revisions \cup {previousRoot[c]}
  /\ Goto(c, "next")
  /\ UNCHANGED <<active, next, credentialVars, localVars, historyVars>>

(* The candidate becomes a directory of company/revisions.                 *)
Store(c) ==
  /\ At(c, "store")
  /\ revisions' = revisions \cup {revision[c]}
  /\ Goto(c, "next")
  /\ UNCHANGED <<active, next, credentialVars, localVars, historyVars>>

(* symlinkSync, which fails when active.next exists.                       *)
LinkNext(c) ==
  /\ At(c, "next")
  /\ next = NoRevision
  /\ next' = revision[c]
  /\ Goto(c, "activate")
  /\ UNCHANGED <<revisions, active, credentialVars, localVars, historyVars>>

(* The atomic step: active.next is renamed over active.                    *)
Activate(c) ==
  /\ At(c, "activate")
  /\ next # NoRevision
  /\ active' = next
  /\ next' = NoRevision
  /\ replaced' = [replaced EXCEPT ![c] = active]
  /\ Goto(c, "run")
  /\ UNCHANGED <<revisions, credentialVars, localVars, used, overlapped, crashes>>

(* Mutant: active.next is removed whoever made it.                        *)
MutantRefreshFails(c) ==
  /\ pc[c] \in Refreshing
  /\ revisions' = revisions \ {revision[c]}
  /\ next' = NoRevision
  /\ commit' = [commit EXCEPT ![c] = NoLink]
  /\ Goto(c, IF previousRoot[c] = NoRevision THEN "idle" ELSE "run")
  /\ UNCHANGED <<active, credentialVars, previousRoot, revision, childCommit,
                 historyVars>>

(* Mutant: active.next is not removed.                                    *)
MutantKeepsNext(c) ==
  /\ pc[c] \in Refreshing
  /\ revisions' = revisions \ {revision[c]}
  /\ commit' = [commit EXCEPT ![c] = NoLink]
  /\ Goto(c, IF previousRoot[c] = NoRevision THEN "idle" ELSE "run")
  /\ UNCHANGED <<active, next, credentialVars, previousRoot, revision,
                 childCommit, historyVars>>

(* The clone, the validation or a file operation fails. The refresh        *)
(* removes what it made and goes on with the cache that was active, if     *)
(* there was one, without anything to settle.                              *)
RefreshFails(c) ==
  /\ pc[c] \in Refreshing
  /\ revisions' = revisions \ {revision[c]}
  /\ next' = IF At(c, "activate") THEN NoRevision ELSE next
  /\ commit' = [commit EXCEPT ![c] = NoLink]
  /\ Goto(c, IF previousRoot[c] = NoRevision THEN "idle" ELSE "run")
  /\ UNCHANGED <<active, credentialVars, previousRoot, revision, childCommit,
                 historyVars>>

-----------------------------------------------------------------------------
(* The child process: the pinned CLI and its shell stage *)

(* A cached command that does not refresh, such as sync-shell --wagglebot. *)
StartCached(c) ==
  /\ Begin(c)
  /\ active # NoRevision
  /\ revision' = [revision EXCEPT ![c] = NoRevision]
  /\ commit' = [commit EXCEPT ![c] = NoLink]
  /\ childCommit' = [childCommit EXCEPT ![c] = NoLink]
  /\ Goto(c, "run")
  /\ UNCHANGED <<cacheVars, credentialVars, previousRoot>>

(* The runtime is installed and the child reaches its shell stage, which   *)
(* looks for a credential file of its own to move.                         *)
ChildMigrate(c) ==
  /\ At(c, "run")
  /\ LET link == LegacyFrom(Root)
     IN /\ childCommit' = [childCommit EXCEPT ![c] = link]
        /\ Goto(c, IF link # NoLink /\ stable = "absent" THEN "childLink"
                                                         ELSE "block")
  /\ UNCHANGED <<cacheVars, credentialVars, previousRoot, revision, commit,
                 historyVars>>

ChildLinkStable(c) ==
  /\ At(c, "childLink")
  /\ stable = "absent"
  /\ childCommit[c] \in legacy
  /\ stable' = "linked"
  /\ Goto(c, "block")
  /\ UNCHANGED <<cacheVars, legacy, shell, receipt, localVars, historyVars>>

(* The managed block of the shell's startup file names the stable path.    *)
WriteShellBlock(c) ==
  /\ At(c, "block")
  /\ shell' = "stable"
  /\ Goto(c, "receipt")
  /\ UNCHANGED <<cacheVars, legacy, stable, receipt, localVars, historyVars>>

(* recordCachedShellReady, which resolves the active link once more.       *)
RecordShellReady(c) ==
  /\ At(c, "receipt")
  /\ receipt' = active
  /\ Goto(c, "childCommit")
  /\ UNCHANGED <<cacheVars, legacy, stable, shell, localVars, historyVars>>

ChildCommit(c) ==
  /\ At(c, "childCommit")
  /\ legacy' = WithoutLink(childCommit[c])
  /\ Goto(c, "settle")
  /\ UNCHANGED <<cacheVars, stable, shell, receipt, localVars, historyVars>>

(* The base validation, the installation of the runtime, the child or its  *)
(* shell stage fails, or the command has no shell stage.                   *)
RunFails(c) ==
  /\ pc[c] \in InChild
  /\ Goto(c, "settle")
  /\ UNCHANGED <<cacheVars, credentialVars, localVars, historyVars>>

-----------------------------------------------------------------------------
(* settleCredentials, after the child *)

SettleNothing(c) ==
  /\ At(c, "settle")
  /\ commit[c] = NoLink
  /\ Goto(c, "idle")
  /\ UNCHANGED <<cacheVars, credentialVars, localVars, historyVars>>

(* Mutant: the receipt is not consulted.                                  *)
MutantSettleReady(c) ==
  /\ At(c, "settle")
  /\ commit[c] # NoLink
  /\ legacy' = WithoutLink(commit[c])
  /\ Goto(c, "idle")
  /\ UNCHANGED <<cacheVars, stable, shell, receipt, localVars, historyVars>>

(* The receipt names the active revision: the shell stage succeeded.       *)
SettleReady(c) ==
  /\ At(c, "settle")
  /\ commit[c] # NoLink
  /\ receipt = active
  /\ legacy' = WithoutLink(commit[c])
  /\ Goto(c, "idle")
  /\ UNCHANGED <<cacheVars, stable, shell, receipt, localVars, historyVars>>

(* It does not: the refresh is to be undone, unless another command has    *)
(* changed the active cache.                                               *)
SettleFailed(c) ==
  /\ At(c, "settle")
  /\ commit[c] # NoLink
  /\ receipt # active
  /\ Goto(c, IF active = revision[c] THEN "rollback" ELSE "idle")
  /\ UNCHANGED <<cacheVars, credentialVars, localVars, historyVars>>

(* Mutant: the new revision stays active.                                 *)
MutantNoRollback(c) ==
  /\ At(c, "rollback")
  /\ Goto(c, "idle")
  /\ UNCHANGED <<cacheVars, credentialVars, localVars, historyVars>>

Rollback(c) ==
  /\ At(c, "rollback")
  /\ active' = previousRoot[c]
  /\ Goto(c, "idle")
  /\ UNCHANGED <<revisions, next, credentialVars, localVars, historyVars>>

-----------------------------------------------------------------------------
(* A command is killed with its child and leaves everything where it is. A *)
(* rollback whose file operations fail leaves the same state.              *)
Crash(c) ==
  /\ pc[c] # "idle"
  /\ crashes < MaxCrashes
  /\ crashes' = crashes + 1
  /\ Goto(c, "idle")
  /\ UNCHANGED <<cacheVars, credentialVars, localVars, used, replaced, overlapped>>

(* The parent is killed and its child goes on: nothing will be settled.    *)
ParentDies(c) ==
  /\ pc[c] \in InChild
  /\ commit[c] # NoLink
  /\ crashes < MaxCrashes
  /\ crashes' = crashes + 1
  /\ commit' = [commit EXCEPT ![c] = NoLink]
  /\ UNCHANGED <<cacheVars, credentialVars, pc, previousRoot, revision,
                 childCommit, used, replaced, overlapped>>

Refresh(c) ==
  \/ StartUpdate(c) \/ CloneValid(c) \/ Migrate(c) \/ LinkStable(c)
  \/ Store(c) \/ LinkNext(c) \/ Activate(c) \/ RefreshFails(c)

Run(c) ==
  \/ StartCached(c) \/ ChildMigrate(c) \/ ChildLinkStable(c)
  \/ WriteShellBlock(c) \/ RecordShellReady(c) \/ ChildCommit(c) \/ RunFails(c)

Settle(c) ==
  SettleNothing(c) \/ SettleReady(c) \/ SettleFailed(c) \/ Rollback(c)

CacheNext ==
  \E c \in Commands : Refresh(c) \/ Run(c) \/ Settle(c) \/ Crash(c) \/ ParentDies(c)

CacheSpec == CacheInit /\ [][CacheNext]_vars

-----------------------------------------------------------------------------
(* Properties *)

(* The active link never dangles: whatever concurrent updates, failures    *)
(* and crashes do, the revision it names is there. A failed refresh        *)
(* removes only what it made, and that is not active.                      *)
ActiveExists == active # NoRevision => active \in revisions

(* The legacy path is removed only after a shell stage succeeded and only  *)
(* when the same file is at the stable path, so nobody's credentials are   *)
(* ever deleted or disconnected by the removal.                            *)
LegacyRemovedOnlyWhenReplaced ==
  [][legacy' # legacy => shell = "stable" /\ stable = "linked"]_vars

(* An activation never strands the credential file: when the active        *)
(* revision does not hold it, the stable path exists for the shell stage   *)
(* to switch to, even if a command was killed half way.                    *)
HoldsCredentials(r) == \E place \in Places : <<r, place>> \in legacy

NeverStranded ==
  (\E r \in Revisions : HoldsCredentials(r))
    => stable # "absent" \/ HoldsCredentials(active)

Quiet == \A c \in Commands : pc[c] = "idle"

(* Unless a command was killed, active.next does not outlive the commands  *)
(* that use it: left behind, it would make every later refresh fail.       *)
NextReleased == Quiet /\ crashes = 0 => next = NoRevision

ShellLoads ==
  IF shell = "stable" THEN stable # "absent" ELSE HoldsCredentials(active)

HadCredentials == legacy # {} \/ stable # "absent"
AtRoot == legacy \subseteq Revisions \X {Root}

(* When commands do not overlap and are not killed, new shells can load    *)
(* the engineer's credentials after every one of them, failed or not, if   *)
(* the file of the older release is at the root of its revision.           *)
LoadsAfterSerialCommands ==
  Quiet /\ crashes = 0 /\ ~overlapped /\ AtRoot /\ HadCredentials => ShellLoads

(* docs/phase-1-command-migration.md:21: a refresh or a cached shell sync  *)
(* "prepares migration when the stable path is absent". So it should be    *)
(* wherever the file is, also in the configured subdirectory.              *)
LoadsAfterEveryCommand == Quiet /\ crashes = 0 /\ HadCredentials => ShellLoads

(* docs/phase-1-command-migration.md:24: if the shell configuration fails, *)
(* "Wagglebot restores the prior active cache". That is the one which the  *)
(* activation to be undone replaced.                                       *)
RestoresPriorCache ==
  [][\A c \in Commands : Rollback(c) => active' = replaced[c]]_vars
=============================================================================
