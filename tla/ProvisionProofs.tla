--------------------------- MODULE ProvisionProofs ---------------------------
(***************************************************************************)
(* Proofs about the machine `wagglebot update` provisions (Provision), for *)
(* any harnesses, sources, layers, skills, editions of the company         *)
(* repository, edits and crashes. In this order: the backup set of a run   *)
(* restores what was there; agents of a source that cannot be fetched stay *)
(* listed, and skills owned until they are gone; files and managed state   *)
(* keep their form; every server entry carries its credential; and what is *)
(* not wagglebot's stays in the files it shares with an engineer.          *)
(***************************************************************************)
EXTENDS ManagedFilesProofs

-----------------------------------------------------------------------------
(* The fields of a run.                                                    *)
RunShape(r) ==
  /\ r = [at |-> r.at, overwrite |-> r.overwrite, company |-> r.company,
          backed |-> r.backed, local |-> r.local]
  /\ r.overwrite \in BOOLEAN

(* What a step makes of the run: the same stage, the next one with fresh   *)
(* local variables, or the end.                                            *)
Continues(r) ==
  /\ RunShape(r)
  /\ r.at > 0 => /\ r.overwrite = run.overwrite /\ r.backed = run.backed
                 /\ r.company = run.company
  /\ \/ r.at = run.at
     \/ /\ r.local = Scratch
        /\ r = IdleRun \/ (r.at = run.at + 1 /\ run.at # Len(Stages))

(* All that a step of a run may do to the files: nothing, or a Write.      *)
FilesStep ==
  \/ Continues(run') /\ UNCHANGED <<home, backup>>
  \/ \E changes, next : Continues(next) /\ Write(changes, next)

(* The run goes on from stage to stage, and within one.                    *)
LEMMA RunContinues ==
  ASSUME RunShape(run)
  PROVE  /\ Continues(run) /\ Continues(IdleRun) /\ Continues(NextStage)
         /\ \A l : Continues(Local(l))
<1>1. Continues(run)
  BY DEF Continues
<1>2. Continues(IdleRun)
  BY DEF Continues, RunShape, IdleRun
<1>3. \A l : Continues(Local(l))
  BY DEF Continues, RunShape, Local
<1>4. Continues(NextStage)
  BY <1>2 DEF Continues, RunShape, NextStage
<1> QED
  BY <1>1, <1>2, <1>3, <1>4

(* A Write that goes on with the run is such a step.                       *)
LEMMA WriteIsFilesStep ==
  ASSUME RunShape(run), NEW changes, NEW next, Continues(next), Write(changes, next)
  PROVE  FilesStep
BY DEF FilesStep

(* The agents stage writes what it says.                                   *)
LEMMA AgentsWrite ==
  ASSUME RunShape(run), NEW i, AgentsStep(i)
  PROVE  FilesStep
<1> USE RunContinues, WriteIsFilesStep
<1>1. CASE AgentsSkipped(i)
  BY <1>1 DEF AgentsSkipped, FilesStep
<1>2. CASE AgentsStart(i)
  BY <1>2 DEF AgentsStart
<1>3. CASE AgentsSweep(i)
  BY <1>3 DEF AgentsSweep
<1>4. CASE AgentsSave(i)
  BY <1>4 DEF AgentsSave, FilesStep
<1>5. ASSUME NEW origin, AgentsInstall(i, origin)
      PROVE  FilesStep
  BY <1>5 DEF AgentsInstall, Installed
<1>6. ASSUME NEW source, AgentsFetchFails(i, source)
      PROVE  FilesStep
  BY <1>6 DEF AgentsFetchFails, FilesStep
<1> QED
  BY <1>1, <1>2, <1>3, <1>4, <1>5, <1>6 DEF AgentsStep

(* The skills stages write no file.                                        *)
LEMMA SkillsWrite ==
  ASSUME RunShape(run), RemoveStep \/ \E i \in DOMAIN Harnesses : SkillsStep(i)
  PROVE  FilesStep
<1> USE RunContinues DEF FilesStep
<1>1. ASSUME NEW kind, NEW i, SkillsSkipped(kind, i)
      PROVE  FilesStep
  BY <1>1 DEF SkillsSkipped
<1>2. ASSUME NEW kind, NEW i, NEW step, NEW todo, SkillsStart(kind, i, step, todo)
      PROVE  FilesStep
  BY <1>2 DEF SkillsStart
<1>3. ASSUME NEW kind, NEW i, NEW step, SkillsSave(kind, i, step)
      PROVE  FilesStep
  BY <1>3 DEF SkillsSave
<1>4. CASE RemoveStep
  <2>1. ASSUME NEW adapters, Clear(adapters)
        PROVE  FilesStep
    BY <2>1 DEF Clear
  <2>2. ASSUME NEW source, PickStale(source)
        PROVE  FilesStep
    BY <2>2 DEF PickStale
  <2>3. ASSUME NEW source, NEW name, RemoveStale(source, name)
        PROVE  FilesStep
    BY <2>3 DEF RemoveStale
  <2> QED
    BY <1>1, <1>2, <1>3, <1>4, <2>1, <2>2, <2>3 DEF RemoveStep, RemoveStart
<1>5. ASSUME NEW i, SkillsStep(i)
      PROVE  FilesStep
  <2>1. ASSUME NEW entry, AddFails(i, entry)
        PROVE  FilesStep
    BY <2>1 DEF AddFails
  <2>2. ASSUME NEW entry, Add(i, entry)
        PROVE  FilesStep
    BY <2>2 DEF Add
  <2>3. ASSUME NEW name, RemoveDeleted(i, name)
        PROVE  FilesStep
    BY <2>3 DEF RemoveDeleted
  <2> QED
    BY <1>1, <1>2, <1>3, <1>5, <2>1, <2>2, <2>3 DEF SkillsStep, InstallStart
<1> QED
  BY <1>4, <1>5

(* The MCP stage writes what it says.                                      *)
LEMMA McpWrite ==
  ASSUME RunShape(run), NEW i, McpStep(i)
  PROVE  FilesStep
<1> USE RunContinues, WriteIsFilesStep
<1>1. CASE WriteJsonTarget(i)
  BY <1>1 DEF WriteJsonTarget
<1>2. CASE SaveKeys(i)
  BY <1>2 DEF SaveKeys, FilesStep
<1>3. CASE WriteTomlTarget(i)
  BY <1>3 DEF WriteTomlTarget
<1>4. CASE McpFails(i)
  BY <1>4 DEF McpFails, FilesStep
<1> QED
  BY <1>1, <1>2, <1>3, <1>4 DEF McpStep

(* Every step of a run is one, whatever the stage.                         *)
LEMMA RunStepWrites ==
  ASSUME RunShape(run), RunStep
  PROVE  FilesStep
<1> USE RunContinues, WriteIsFilesStep
<1>1. CASE StageFails
  BY <1>1 DEF StageFails, FilesStep
<1>2. ASSUME NEW i, SyncInstructions(i)
      PROVE  FilesStep
  BY <1>2 DEF SyncInstructions
<1>3. ASSUME NEW i, SyncHooks(i)
      PROVE  FilesStep
  BY <1>3 DEF SyncHooks
<1>4. CASE ShellStart \/ ShellEnds \/ RegistryFails
  BY <1>4 DEF ShellStart, ShellEnds, RegistryFails, FilesStep
<1>5. ASSUME NEW p, NEW create, ShellFile(p, create)
      PROVE  FilesStep
  BY <1>5 DEF ShellFile
<1>6. FileStep => FilesStep
  BY <1>1, <1>2, <1>3, <1>4, <1>5, AgentsWrite, McpWrite DEF FileStep
<1> QED
  BY <1>6, SkillsWrite DEF RunStep
-----------------------------------------------------------------------------
(* What a run has backed up is in the newest set, which is its own from    *)
(* the first copy on: `older` in Write is right to keep all of it.         *)
BackedUp == InRun => run.backed \subseteq DOMAIN backup

BackupInv == RunShape(run) /\ BackedUp /\ BackupHoldsTheOriginal

(* A write copies a file before it changes it, once.                       *)
LEMMA WriteKeepsBackups ==
  ASSUME BackupInv, InRun, FilesStep, Recorded({})
  PROVE  BackupInv'
<1> USE DEF BackupInv
<1>1. ASSUME NEW p \in DOMAIN home
      PROVE  before'[p] = before[p]
  BY DEF Recorded
<1>2. CASE Continues(run') /\ UNCHANGED <<home, backup>>
  BY <1>1, <1>2 DEF Continues, RunShape, BackedUp, BackupHoldsTheOriginal, InRun
<1>3. ASSUME NEW changes, NEW next, Continues(next), Write(changes, next)
      PROVE  BackupInv'
  <2> DEFINE changed == {p \in DOMAIN changes : home[p] # changes[p]}
             copied == Copied(changed)
             older == IF run.backed = {} THEN {} ELSE DOMAIN backup
  <2>1. /\ home' = [p \in DOMAIN home |-> IF p \in changed THEN changes[p] ELSE home[p]]
        /\ backup' = IF copied = {} THEN backup
                     ELSE [p \in copied \cup older |-> IF p \in copied THEN Content(home[p])
                                                      ELSE backup[p]]
        /\ run' = IF next.at = 0 THEN next ELSE [next EXCEPT !.backed = @ \cup copied]
    BY <1>3 DEF Write
  <2>2. copied = IF run.overwrite THEN {}
                 ELSE {p \in changed : home[p] # Absent /\ p \notin run.backed}
    BY DEF Copied
  <2> HIDE DEF changed, copied, older
  <2>3. RunShape(run')
    BY <1>3, <2>1 DEF Continues, RunShape
  <2>4. SUFFICES ASSUME InRun'
                 PROVE  BackedUp' /\ BackupHoldsTheOriginal'
    BY <2>3 DEF BackedUp, BackupHoldsTheOriginal
  <2>5. next.at > 0
    BY <2>1, <2>4 DEF InRun
  <2>6. run'.backed = run.backed \cup copied /\ run'.overwrite = run.overwrite
    BY <1>3, <2>1, <2>5 DEF Continues, RunShape
  <2>7. \A p \in run.backed : p \in DOMAIN backup' /\ backup'[p] = backup[p]
    BY <2>1, <2>2 DEF older, BackedUp
  <2>8. \A p \in copied : p \in DOMAIN backup' /\ backup'[p] = Content(home[p])
    BY <2>1
  <2>9. BackedUp'
    BY <2>6, <2>7, <2>8 DEF BackedUp
  <2>10. ASSUME ~run'.overwrite, NEW p \in DOMAIN home', before'[p] # Absent
         PROVE  /\ p \in run'.backed => backup'[p] = Content(before'[p])
                /\ home'[p] # before'[p] => p \in run'.backed
    <3>1. p \in DOMAIN home /\ before'[p] = before[p] /\ ~run.overwrite
      BY <1>1, <2>1, <2>6, <2>10
    <3>2. /\ p \in run.backed => backup[p] = Content(before[p])
          /\ home[p] # before[p] => p \in run.backed
      BY <2>10, <3>1 DEF BackupHoldsTheOriginal
    <3>3. p \in copied => home[p] = before[p]
      BY <2>2, <3>2
    <3>4. home'[p] # home[p] => p \in changed
      BY <2>1, <3>1
    <3>5. p \in changed => home[p] = Absent \/ p \in run.backed \/ p \in copied
      BY <2>2, <3>1
    <3> QED
      BY <2>6, <2>7, <2>8, <2>10, <3>1, <3>2, <3>3, <3>4, <3>5
  <2> QED
    BY <2>9, <2>10 DEF BackupHoldsTheOriginal
<1> QED
  BY <1>2, <1>3 DEF FilesStep

(* Between two runs, what a file was before is what it is; an edit during  *)
(* a run moves what it was, unless the run has already saved that file.    *)
LEMMA BackupInvNext == BackupInv /\ [MachineNext]_machineVars => BackupInv'
<1> SUFFICES ASSUME BackupInv, [MachineNext]_machineVars
             PROVE  BackupInv'
  OBVIOUS
<1> USE DEF BackupInv
<1>1. CASE RunStep /\ Recorded({})
  BY <1>1, RunStepWrites, WriteKeepsBackups DEF RunStep
<1>2. CASE Crash
  BY <1>2 DEF Crash, IdleRun, RunShape, BackedUp, BackupHoldsTheOriginal, InRun
<1>3. CASE (RestoreBackups \/ RepairState \/ \E edition \in Editions : EditCompany(edition))
  <2>1. run' = run /\ ~InRun
    BY <1>3 DEF RestoreBackups, RepairState, EditCompany, Between
  <2> QED
    BY <2>1 DEF BackedUp, BackupHoldsTheOriginal, InRun
<1>4. ASSUME NEW overwrite \in BOOLEAN, StartRun(overwrite), Recorded({})
      PROVE  BackupInv'
  <2>1. ~InRun /\ home' = home /\ backup' = backup /\ run'.backed = {} /\ RunShape(run')
    BY <1>4 DEF StartRun, Between, IdleRun, RunShape
  <2>2. before' = home'
    BY <1>4, <2>1 DEF Recorded
  <2> QED
    BY <2>1, <2>2 DEF BackedUp, BackupHoldsTheOriginal
<1>5. ASSUME NEW p, NEW file, EditHome(p, file), Recorded({p})
      PROVE  BackupInv'
  <2>1. home' = [home EXCEPT ![p] = file] /\ UNCHANGED <<backup, run>>
    BY <1>5 DEF EditHome
  <2>2. SUFFICES ASSUME InRun, ~run.overwrite, NEW q \in DOMAIN home', before'[q] # Absent
                 PROVE  /\ q \in run.backed => backup[q] = Content(before'[q])
                        /\ home'[q] # before'[q] => q \in run.backed
    BY <2>1 DEF RunShape, BackedUp, BackupHoldsTheOriginal, InRun
  <2>3. q \in DOMAIN home
    BY <2>1
  <2>4. before'[q] = IF q \in {p} \ run.backed THEN home'[q] ELSE before[q]
    BY <1>5, <2>2, <2>3 DEF Recorded
  <2>5. q # p => home'[q] = home[q]
    BY <2>1, <2>3
  <2> QED
    BY <2>2, <2>3, <2>4, <2>5 DEF BackupHoldsTheOriginal
<1>6. CASE UNCHANGED machineVars
  BY <1>6 DEF machineVars, homeVars, RunShape, BackedUp, BackupHoldsTheOriginal, InRun
<1> QED
  BY <1>1, <1>2, <1>3, <1>4, <1>5, <1>6 DEF MachineNext

(* The backup set of a run is the way back from it, for any harnesses,     *)
(* lists, edits, crashes and whatever fails (backup.ts, every stage of     *)
(* provision-company.ts).                                                  *)
THEOREM BackupsAreTheWayBack ==
  ASSUME NEW files, NEW skills, NEW lockFile
  PROVE  MachineSpec(files, skills, lockFile) => []BackupHoldsTheOriginal
<1>1. MachineInit(files, skills, lockFile) => BackupInv
  BY DEF MachineInit, BackupInv, RunShape, BackedUp, BackupHoldsTheOriginal, InRun, IdleRun
<1>2. BackupInv => BackupHoldsTheOriginal
  BY DEF BackupInv
<1> QED
  BY <1>1, <1>2, BackupInvNext, PTL DEF MachineSpec

-----------------------------------------------------------------------------
(* What every step of the machine does to the run and to the set of paths. *)
RunGoesOn ==
  \/ run'.local = Scratch
  \/ run' = run
  \/ /\ RunStep
     /\ run'.at = run.at /\ run'.company = run.company /\ run'.overwrite = run.overwrite

StageEnds == run' = IdleRun \/ (run'.at = run.at + 1 /\ run.at # Len(Stages))

(* A step of the run stays in its stage, or ends it.                       *)
LEMMA RunStepGoesOn ==
  ASSUME RunShape(run), RunStep
  PROVE  /\ RunShape(run') /\ DOMAIN home' = DOMAIN home
         /\ run'.at = run.at \/ (run'.local = Scratch /\ StageEnds)
         /\ InRun' => run'.company = run.company /\ run'.overwrite = run.overwrite
<1>1. FilesStep
  BY RunStepWrites
<1>2. CASE Continues(run') /\ UNCHANGED <<home, backup>>
  BY <1>2 DEF Continues, InRun, StageEnds
<1>3. ASSUME NEW changes, NEW next, Continues(next), Write(changes, next)
      PROVE  /\ RunShape(run') /\ DOMAIN home' = DOMAIN home
             /\ run'.at = run.at \/ (run'.local = Scratch /\ StageEnds)
             /\ InRun' => run'.company = run.company /\ run'.overwrite = run.overwrite
  <2>1. DOMAIN home' = DOMAIN home
    BY <1>3 DEF Write
  <2>2. /\ RunShape(run')
        /\ run'.at = next.at /\ run'.local = next.local
        /\ run'.company = next.company /\ run'.overwrite = next.overwrite
    BY <1>3 DEF Write, Continues, RunShape
  <2>3. next = IdleRun => run' = IdleRun
    BY <1>3 DEF Write, IdleRun
  <2> QED
    BY <1>3, <2>1, <2>2, <2>3 DEF Continues, InRun, StageEnds
<1> QED
  BY <1>1, <1>2, <1>3 DEF FilesStep

(* So does every step, and only a step of the run works on local variables.*)
LEMMA MachineStep ==
  ASSUME RunShape(run), [MachineNext]_machineVars
  PROVE  RunShape(run') /\ DOMAIN home' = DOMAIN home /\ RunGoesOn
<1>1. CASE RunStep
  <2>1. InRun /\ run'.at = run.at => InRun'
    BY DEF InRun
  <2> QED
    BY <1>1, <2>1, RunStepGoesOn DEF RunStep, RunGoesOn
<1>2. CASE Crash
  BY <1>2 DEF Crash, IdleRun, RunShape, RunGoesOn
<1>3. CASE RestoreBackups
  BY <1>3 DEF RestoreBackups, RunGoesOn
<1>4. CASE RepairState
  BY <1>4 DEF RepairState, RunGoesOn
<1>5. ASSUME NEW edition, EditCompany(edition)
      PROVE  RunShape(run') /\ DOMAIN home' = DOMAIN home /\ RunGoesOn
  BY <1>5 DEF EditCompany, RunGoesOn
<1>6. ASSUME NEW overwrite \in BOOLEAN, StartRun(overwrite)
      PROVE  RunShape(run') /\ DOMAIN home' = DOMAIN home /\ RunGoesOn
  BY <1>6 DEF StartRun, IdleRun, RunShape, RunGoesOn
<1>7. ASSUME NEW p, NEW file, EditHome(p, file)
      PROVE  RunShape(run') /\ DOMAIN home' = DOMAIN home /\ RunGoesOn
  BY <1>7 DEF EditHome, RunGoesOn
<1>8. CASE UNCHANGED machineVars
  BY <1>8 DEF machineVars, homeVars, RunGoesOn
<1> QED
  BY <1>1, <1>2, <1>3, <1>4, <1>5, <1>6, <1>7, <1>8 DEF MachineNext

-----------------------------------------------------------------------------
(* The seven local variables of a stage.                                   *)
LocalShape(l) ==
  DOMAIN l = {"step", "state", "produced", "failed", "synced", "todo", "names"}

(* What the agents stage knows before its sweep: it keeps what it owns     *)
(* elsewhere, it has dealt with every source and layer that applies, or    *)
(* still has to, and what an origin it has read offers is produced.        *)
SweepKnows(i) ==
  LET l == run.local IN
  /\ LocalShape(l)
  /\ l.state.agentFiles \ AgentPathsOf(i) \subseteq l.produced
  /\ ListedSources(run.company) \cup run.company.layers \subseteq l.todo \cup l.synced \cup l.failed
  /\ \A o \in l.synced :
       Offered(run.company, o) # Absent /\ AgentPath(i, o) \in l.state.agentFiles
         => AgentPath(i, o) \in l.produced

SweepInv ==
  /\ RunShape(run)
  /\ \A i \in DOMAIN Harnesses : At("agents", i) /\ Step("fetch") => SweepKnows(i)

(* A step of another stage is not one of the agents stage.                 *)
LEMMA OtherStages ==
  ASSUME RunStep, \A i \in DOMAIN Harnesses : ~AgentsStep(i), NEW i, At("agents", i)
  PROVE  StageFails
<1>1. Stages[run.at] = <<"agents", i>>
  BY DEF At
<1>2. <<"agents", i>>[1] = "agents"
  OBVIOUS
<1>3. \A kind, j : At(kind, j) => kind = "agents"
  <2> SUFFICES ASSUME NEW kind, NEW j, At(kind, j)
               PROVE  kind = "agents"
    OBVIOUS
  <2>1. <<kind, j>> = <<"agents", i>>
    BY <1>1 DEF At
  <2> QED
    BY <2>1
<1>4. ~RemoveStep /\ \A j : ~SkillsStep(j)
  BY <1>3 DEF RemoveStep, SkillsStep
<1>5. \A j : ~SyncInstructions(j) /\ ~SyncHooks(j) /\ ~McpStep(j)
  BY <1>3 DEF SyncInstructions, SyncHooks, McpStep, WriteJsonTarget, SaveKeys,
              WriteTomlTarget, McpFails, Starts
<1>6. ~ShellStart /\ ~ShellEnds /\ ~RegistryFails /\ \A p, create : ~ShellFile(p, create)
  BY <1>3 DEF ShellStart, ShellEnds, RegistryFails, ShellFile
<1> QED
  BY <1>4, <1>5, <1>6 DEF RunStep, FileStep

(* The steps of the agents stage keep what it knows.                       *)
LEMMA SweepKnowsNext ==
  ASSUME SweepInv, NEW j \in DOMAIN Harnesses, AgentsStep(j), DOMAIN home' = DOMAIN home,
         run'.at = run.at, run'.company = run.company,
         NEW i \in DOMAIN Harnesses, At("agents", i)', Step("fetch")'
  PROVE  SweepKnows(i)'
<1>1. AgentPathsOf(i)' = AgentPathsOf(i) /\ AgentPathsOf(j)' = AgentPathsOf(j)
  BY DEF AgentPathsOf
<1>2. At("agents", i)
  BY DEF At, InRun
<1>3. \A k : At("agents", k) => k = i
  <2> SUFFICES ASSUME NEW k, At("agents", k)
               PROVE  k = i
    OBVIOUS
  <2>1. <<"agents", k>> = <<"agents", i>>
    BY <1>2 DEF At
  <2> QED
    BY <2>1
<1>4. Step("fetch") => SweepKnows(i)
  BY <1>2 DEF SweepInv
<1>5. CASE AgentsSkipped(j) \/ AgentsSave(j)
  <2>1. run' = NextStage
    BY <1>5 DEF AgentsSkipped, AgentsSave
  <2> QED
    BY <2>1 DEF NextStage, IdleRun, Scratch, Step, SweepInv, RunShape
<1>6. CASE AgentsStart(j)
  <2> DEFINE cleared == IF run.overwrite THEN AgentPathsOf(i) ELSE {}
             state == [managed EXCEPT !.agentFiles = @ \ cleared]
             local == [Scratch EXCEPT !.step = "fetch", !.state = state,
                         !.produced = state.agentFiles \ AgentPathsOf(i),
                         !.todo = ListedSources(run.company) \cup run.company.layers]
  <2>1. i = j
    BY <1>3, <1>6 DEF AgentsStart
  <2>2. Write([p \in cleared |-> Absent], Local(local))
    BY <1>6, <2>1 DEF AgentsStart
  <2> HIDE DEF state
  <2>3. run'.local = local
    BY <2>2 DEF Write, Local, SweepInv, RunShape
  <2>4. /\ LocalShape(local) /\ local.state = state
        /\ local.produced = state.agentFiles \ AgentPathsOf(i)
        /\ local.todo = ListedSources(run.company) \cup run.company.layers
        /\ local.synced = {}
    BY DEF Scratch, LocalShape
  <2> HIDE DEF local
  <2> QED
    BY <1>1, <2>3, <2>4 DEF SweepKnows
<1>7. CASE AgentsSweep(j)
  <2>1. LocalShape(run.local)
    BY <1>3, <1>4, <1>7 DEF AgentsSweep, SweepKnows
  <2>2. run'.local.step = "save"
    BY <1>7, <2>1 DEF AgentsSweep, Write, Local, SweepInv, RunShape, LocalShape
  <2> QED
    BY <2>2 DEF Step
<1>8. ASSUME NEW o, AgentsInstall(j, o)
      PROVE  SweepKnows(i)'
  <2> DEFINE l == [run.local EXCEPT !.todo = @ \ {o}, !.synced = @ \cup {o}]
  <2>1. i = j /\ SweepKnows(i) /\ Installed(i, o, l)
    BY <1>3, <1>4, <1>8 DEF AgentsInstall
  <2>2. /\ LocalShape(l) /\ l.state = run.local.state /\ l.failed = run.local.failed
        /\ l.produced = run.local.produced
        /\ l.todo = run.local.todo \ {o} /\ l.synced = run.local.synced \cup {o}
    BY <2>1 DEF SweepKnows, LocalShape
  <2> HIDE DEF l
  <2>3. CASE Offered(run.company, o) = Absent
    <3>1. run'.local = l
      BY <2>1, <2>3 DEF Installed, Write, Local, SweepInv, RunShape
    <3> QED
      BY <1>1, <2>1, <2>2, <2>3, <3>1 DEF SweepKnows
  <2>4. CASE Offered(run.company, o) # Absent
    <3>1. run'.local = Produced(AgentPath(i, o), l)
      BY <2>1, <2>4 DEF Installed, Write, Local, SweepInv, RunShape
    <3>2. CASE run'.local = l
      <4>1. AgentPath(i, o) \notin l.state.agentFiles \/ AgentPath(i, o) \in l.produced
        BY <2>2, <3>1, <3>2 DEF Produced, LocalShape
      <4> QED
        BY <1>1, <2>1, <2>2, <3>2, <4>1 DEF SweepKnows
    <3>3. CASE run'.local = [l EXCEPT !.produced = @ \cup {AgentPath(i, o)}]
      <4>1. /\ LocalShape(run'.local) /\ run'.local.state = l.state
            /\ run'.local.failed = l.failed /\ run'.local.todo = l.todo
            /\ run'.local.synced = l.synced
            /\ run'.local.produced = l.produced \cup {AgentPath(i, o)}
        BY <2>2, <3>3 DEF LocalShape
      <4> QED
        BY <1>1, <2>1, <2>2, <4>1 DEF SweepKnows
    <3> QED
      BY <3>1, <3>2, <3>3 DEF Produced
  <2> QED
    BY <2>3, <2>4
<1>9. ASSUME NEW source, AgentsFetchFails(j, source)
      PROVE  SweepKnows(i)'
  <2> DEFINE l == [run.local EXCEPT !.todo = @ \ {source}, !.failed = @ \cup {source}]
  <2>1. i = j /\ SweepKnows(i) /\ run'.local = l
    BY <1>3, <1>4, <1>9 DEF AgentsFetchFails, Local, SweepInv, RunShape
  <2>2. /\ LocalShape(l) /\ l.state = run.local.state /\ l.synced = run.local.synced
        /\ l.produced = run.local.produced
        /\ l.todo = run.local.todo \ {source} /\ l.failed = run.local.failed \cup {source}
    BY <2>1 DEF SweepKnows, LocalShape
  <2> HIDE DEF l
  <2> QED
    BY <1>1, <2>1, <2>2 DEF SweepKnows
<1> QED
  BY <1>5, <1>6, <1>7, <1>8, <1>9 DEF AgentsStep

(* Every step of the machine keeps it: only this stage fetches agents.     *)
LEMMA SweepInvNext == SweepInv /\ [MachineNext]_machineVars => SweepInv'
<1> SUFFICES ASSUME SweepInv, [MachineNext]_machineVars
             PROVE  SweepInv'
  OBVIOUS
<1>1. RunShape(run') /\ DOMAIN home' = DOMAIN home /\ RunGoesOn
  BY MachineStep DEF SweepInv
<1>2. SUFFICES ASSUME NEW i \in DOMAIN Harnesses, At("agents", i)', Step("fetch")'
               PROVE  SweepKnows(i)'
  BY <1>1 DEF SweepInv
<1>3. CASE run'.local = Scratch
  BY <1>2, <1>3 DEF Scratch, Step
<1>4. CASE run' = run
  BY <1>1, <1>2, <1>4 DEF SweepInv, SweepKnows, At, InRun, Step, AgentPathsOf
<1>5. CASE RunStep /\ run'.at = run.at /\ run'.company = run.company
  <2>1. At("agents", i)
    BY <1>2, <1>5 DEF At, InRun
  <2>2. StageFails => run'.local.step = "start"
    BY DEF StageFails, NextStage, IdleRun, Scratch, SweepInv, RunShape
  <2>3. PICK j \in DOMAIN Harnesses : AgentsStep(j)
    BY <1>2, <1>5, <2>1, <2>2, OtherStages DEF Step
  <2> QED
    BY <1>1, <1>2, <1>5, <2>3, SweepKnowsNext
<1> QED
  BY <1>1, <1>3, <1>4, <1>5 DEF RunGoesOn

(* An installed agent file goes only when no list that applies asks for it *)
(* or its origin was read and no longer has it, for any harnesses, lists   *)
(* and failures (the sweep in commands/install-agents.ts).                 *)
THEOREM FetchFailuresUninstallNothing ==
  ASSUME NEW files, NEW skills, NEW lockFile
  PROVE  MachineSpec(files, skills, lockFile) => ListedAgentsStay
<1>1. MachineInit(files, skills, lockFile) => SweepInv
  BY DEF MachineInit, SweepInv, RunShape, IdleRun, At, InRun
<1>2. ASSUME SweepInv, NEW i \in DOMAIN Harnesses, AgentsSweep(i),
             NEW p \in DOMAIN home, home[p] # Absent, home'[p] = Absent
      PROVE  /\ p \in AgentPathsOf(i)
             /\ p[2] \in ListedSources(run.company) \cup run.company.layers =>
                  p[2] \in run.local.synced /\ Offered(run.company, p[2]) = Absent
  <2> DEFINE l == run.local
             removed == l.state.agentFiles \ (l.produced \cup Carried(l))
  <2>1. SweepKnows(i) /\ l.todo = {}
    BY <1>2 DEF AgentsSweep, SweepInv
  <2>2. p \in removed
    BY <1>2 DEF AgentsSweep, Write
  <2>3. p \in AgentPathsOf(i)
    BY <2>1, <2>2 DEF SweepKnows
  <2>4. PICK o : p = AgentPath(i, o)
    BY <2>3 DEF AgentPathsOf
  <2>5. p[2] = o
    BY <2>4 DEF AgentPath
  <2>6. o \notin l.failed
    BY <2>2, <2>5 DEF Carried
  <2> QED
    BY <2>1, <2>2, <2>3, <2>4, <2>5, <2>6 DEF SweepKnows
<1>3. SweepInv /\ [MachineNext]_machineVars =>
        [\A i \in DOMAIN Harnesses : AgentsSweep(i) =>
           \A p \in DOMAIN home : home[p] # Absent /\ home'[p] = Absent =>
             /\ p \in AgentPathsOf(i)
             /\ p[2] \in ListedSources(run.company) \cup run.company.layers =>
                  p[2] \in run.local.synced /\ Offered(run.company, p[2]) = Absent]_homeVars
  BY <1>2
<1> QED
  BY <1>1, <1>3, SweepInvNext, PTL DEF MachineSpec, ListedAgentsStay

-----------------------------------------------------------------------------
(* The managed state a stage has loaded is the one on disk until it saves, *)
(* and a run is for one edition of the company repository.                 *)
StateShape(m) == DOMAIN m = {"agentFiles", "jsonKeys", "skills"}
Unloaded == Step("start") \/ Step("hooks") \/ Step("files")
Loaded ==
  /\ LocalShape(run.local) /\ StateShape(managed)
  /\ run.local.state = managed

ContextInv ==
  /\ RunShape(run)
  /\ company \in Editions
  /\ IF InRun THEN run.company \in {Context(edition) : edition \in Editions}
              ELSE run.local = Scratch
LoadInv == (managed # Torn => StateShape(managed)) /\ (Unloaded \/ Loaded)
StateInv == ContextInv /\ LoadInv

(* The local variables after a step, whether it writes a file or not.      *)
LEMMA LocalAfter ==
  ASSUME RunShape(run)
  PROVE  /\ \A l : Local(l).local = l /\ RunShape(Local(l))
         /\ NextStage.local = Scratch /\ RunShape(NextStage)
         /\ \A changes, next : RunShape(next) /\ Write(changes, next) => run'.local = next.local
<1>1. \A l : Local(l).local = l /\ RunShape(Local(l))
  BY DEF Local, RunShape
<1>2. NextStage.local = Scratch /\ RunShape(NextStage)
  BY DEF NextStage, IdleRun, RunShape
<1>3. ASSUME NEW changes, NEW next, RunShape(next), Write(changes, next)
      PROVE  run'.local = next.local
  BY <1>3 DEF Write, RunShape
<1> QED
  BY <1>1, <1>2, <1>3

(* What a step of the files' stages makes of the loaded state: such a      *)
(* stage changes nothing about the skills.                                 *)
SkillsKept ==
  managed # Torn => StateShape(managed') /\ managed'.skills = managed.skills

FilesKeepState ==
  /\ SkillsKept
  /\ managed' # Torn => StateShape(managed')
  /\ Unloaded' \/ ((Step("fetch") \/ Step("save")) /\ Loaded)'

(* The agents stage: it loads the state, and saves it with other files.    *)
LEMMA AgentsKeepState ==
  ASSUME StateInv, NEW i, AgentsStep(i)
  PROVE  FilesKeepState
<1> USE LocalAfter DEF FilesKeepState, SkillsKept, StateInv, ContextInv, LoadInv
<1>1. CASE AgentsSkipped(i)
  BY <1>1 DEF AgentsSkipped, Unloaded, Step, Scratch
<1>2. CASE AgentsStart(i)
  <2> DEFINE cleared == IF run.overwrite THEN AgentPathsOf(i) ELSE {}
             state == [managed EXCEPT !.agentFiles = @ \ cleared]
             local == [Scratch EXCEPT !.step = "fetch", !.state = state,
                         !.produced = state.agentFiles \ AgentPathsOf(i),
                         !.todo = ListedSources(run.company) \cup run.company.layers]
  <2>1. managed # Torn /\ managed' = state /\ Write([p \in cleared |-> Absent], Local(local))
    BY <1>2 DEF AgentsStart, Loads
  <2>2. StateShape(state) /\ state.skills = managed.skills
    BY <2>1 DEF StateShape
  <2> HIDE DEF state
  <2>3. LocalShape(local) /\ local.step = "fetch" /\ local.state = state
    BY DEF LocalShape, Scratch
  <2> HIDE DEF local
  <2> QED
    BY <2>1, <2>2, <2>3 DEF Step, Loaded
<1>3. CASE AgentsSweep(i)
  <2> DEFINE l == run.local
             produced == l.produced \cup Carried(l)
             local == [l EXCEPT !.step = "save", !.produced = produced]
  <2>1. /\ Step("fetch") /\ managed' = managed
        /\ Write([p \in l.state.agentFiles \ produced |-> Absent], Local(local))
    BY <1>3 DEF AgentsSweep
  <2>2. Loaded
    BY <2>1 DEF Unloaded, Step
  <2>3. LocalShape(local) /\ local.step = "save" /\ local.state = l.state
    BY <2>2 DEF Loaded, LocalShape
  <2> HIDE DEF local
  <2> QED
    BY <2>1, <2>2, <2>3 DEF Step, Loaded
<1>4. CASE AgentsSave(i)
  <2>1. Step("save") /\ run' = NextStage
        /\ managed' = [run.local.state EXCEPT !.agentFiles = run.local.produced]
    BY <1>4 DEF AgentsSave
  <2>2. Loaded
    BY <2>1 DEF Unloaded, Step
  <2>3. StateShape(managed') /\ managed'.skills = managed.skills
    BY <2>1, <2>2 DEF Loaded, StateShape
  <2>4. Unloaded'
    BY <2>1 DEF Unloaded, Step, Scratch
  <2> QED
    BY <2>2, <2>3, <2>4, <1>4 DEF AgentsSave
<1>5. ASSUME NEW o, AgentsInstall(i, o)
      PROVE  FilesKeepState
  <2> DEFINE l == [run.local EXCEPT !.todo = @ \ {o}, !.synced = @ \cup {o}]
  <2>1. Step("fetch") /\ managed' = managed /\ Installed(i, o, l)
    BY <1>5 DEF AgentsInstall
  <2>2. Loaded
    BY <2>1 DEF Unloaded, Step
  <2>3. LocalShape(l) /\ l.step = "fetch" /\ l.state = run.local.state
    BY <2>1, <2>2 DEF Loaded, LocalShape, Step
  <2> HIDE DEF l
  <2>4. \A p : LET q == Produced(p, l) IN
          LocalShape(q) /\ q.step = "fetch" /\ q.state = run.local.state
    BY <2>3 DEF Produced, LocalShape
  <2>5. run'.local = l \/ \E p : run'.local = Produced(p, l)
    BY <2>1 DEF Installed
  <2>6. LocalShape(run'.local) /\ run'.local.step = "fetch" /\ run'.local.state = run.local.state
    BY <2>3, <2>4, <2>5
  <2> QED
    BY <2>1, <2>2, <2>6 DEF Step, Loaded
<1>6. ASSUME NEW o, AgentsFetchFails(i, o)
      PROVE  FilesKeepState
  <2> DEFINE l == [run.local EXCEPT !.todo = @ \ {o}, !.failed = @ \cup {o}]
  <2>1. Step("fetch") /\ managed' = managed /\ run' = Local(l)
    BY <1>6 DEF AgentsFetchFails
  <2>2. Loaded
    BY <2>1 DEF Unloaded, Step
  <2>3. LocalShape(l) /\ l.step = "fetch" /\ l.state = run.local.state
    BY <2>1, <2>2 DEF Loaded, LocalShape, Step
  <2> HIDE DEF l
  <2> QED
    BY <2>1, <2>2, <2>3 DEF Step, Loaded
<1> QED
  BY <1>1, <1>2, <1>3, <1>4, <1>5, <1>6 DEF AgentsStep

(* The MCP stage, too.                                                     *)
LEMMA McpKeepsState ==
  ASSUME StateInv, NEW i, McpStep(i)
  PROVE  FilesKeepState
<1> USE LocalAfter DEF FilesKeepState, SkillsKept, StateInv, ContextInv, LoadInv
<1>1. CASE WriteJsonTarget(i)
  <2>1. managed # Torn /\ managed' = managed
    BY <1>1 DEF WriteJsonTarget, Starts, Loads
  <2>2. \/ \E changes : Write(changes, NextStage)
        \/ \E changes, keys : Write(changes, Local([Scratch EXCEPT !.step = "save",
                                    !.state = managed, !.produced = keys]))
    BY <1>1, Zenon DEF WriteJsonTarget
  <2>3. CASE \E changes : Write(changes, NextStage)
    BY <2>1, <2>3 DEF Unloaded, Step, Scratch
  <2>4. ASSUME NEW changes, NEW keys,
               Write(changes, Local([Scratch EXCEPT !.step = "save", !.state = managed,
                                       !.produced = keys]))
        PROVE  FilesKeepState
    <3> DEFINE local == [Scratch EXCEPT !.step = "save", !.state = managed, !.produced = keys]
    <3>1. LocalShape(local) /\ local.step = "save" /\ local.state = managed
      BY DEF LocalShape, Scratch
    <3>2. Write(changes, Local(local))
      BY <2>4
    <3> HIDE DEF local
    <3>3. run'.local = local
      BY <3>2
    <3> QED
      BY <2>1, <3>1, <3>3 DEF Step, Loaded
  <2> QED
    BY <2>2, <2>3, <2>4
<1>2. CASE SaveKeys(i)
  <2>1. /\ Step("save") /\ run' = NextStage
        /\ managed' = [run.local.state EXCEPT
             !.jsonKeys = {k \in @ : k[1] # McpPath(i)} \cup run.local.produced]
    BY <1>2 DEF SaveKeys
  <2>2. Loaded
    BY <2>1 DEF Unloaded, Step
  <2>3. StateShape(managed') /\ managed'.skills = managed.skills
    BY <2>1, <2>2 DEF Loaded, StateShape
  <2>4. Unloaded'
    BY <2>1 DEF Unloaded, Step, Scratch
  <2> QED
    BY <2>3, <2>4, <1>2 DEF SaveKeys, Starts, Loads
<1>3. CASE WriteTomlTarget(i)
  BY <1>3 DEF WriteTomlTarget, Unloaded, Step, Scratch
<1>4. CASE McpFails(i)
  BY <1>4 DEF McpFails, Unloaded, Step, Scratch
<1> QED
  BY <1>1, <1>2, <1>3, <1>4 DEF McpStep

(* Every step that works on files.                                         *)
LEMMA FileStepKeepsState ==
  ASSUME StateInv, FileStep
  PROVE  FilesKeepState /\ UNCHANGED skillVars
<1> SUFFICES FilesKeepState
  BY DEF FileStep
<1>1. StateInv => RunShape(run)
  BY DEF StateInv, ContextInv
<1>2. ASSUME managed' = managed, run'.local.step \in {"start", "hooks", "files"}
      PROVE  FilesKeepState
  BY <1>2 DEF FilesKeepState, SkillsKept, StateInv, LoadInv, Unloaded, Step
<1>3. ASSUME managed' = managed, run'.local = Scratch
      PROVE  FilesKeepState
  BY <1>2, <1>3 DEF Scratch
<1>4. CASE StageFails
  <2>1. run'.local = Scratch /\ managed' = managed
    BY <1>1, <1>4, LocalAfter DEF StageFails
  <2> QED
    BY <1>3, <2>1
<1>5. ASSUME NEW i, SyncInstructions(i)
      PROVE  FilesKeepState
  <2>1. run'.local = [Scratch EXCEPT !.step = "hooks"] /\ managed' = managed
    BY <1>1, <1>5, LocalAfter DEF SyncInstructions
  <2>2. run'.local.step = "hooks"
    BY <2>1 DEF Scratch
  <2> QED
    BY <1>2, <2>1, <2>2
<1>6. ASSUME NEW i, SyncHooks(i)
      PROVE  FilesKeepState
  <2>1. run'.local = Scratch /\ managed' = managed
    BY <1>1, <1>6, LocalAfter DEF SyncHooks
  <2> QED
    BY <1>3, <2>1
<1>7. CASE ShellStart
  <2>1. run'.local = [Scratch EXCEPT !.step = "files", !.todo = RcFiles]
    BY <1>1, <1>7, LocalAfter DEF ShellStart
  <2>2. run'.local.step = "files"
    BY <2>1 DEF Scratch
  <2> QED
    BY <1>2, <1>7, <2>2 DEF ShellStart
<1>8. CASE ShellEnds \/ RegistryFails
  <2>1. run'.local = Scratch /\ managed' = managed
    BY <1>1, <1>8, LocalAfter DEF ShellEnds, RegistryFails, IdleRun
  <2> QED
    BY <1>3, <2>1
<1>9. ASSUME NEW p, NEW create, ShellFile(p, create)
      PROVE  FilesKeepState
  <2>1. /\ managed' = managed /\ Step("files")
        /\ run'.local = [run.local EXCEPT !.todo = @ \ {p}]
    BY <1>1, <1>9, LocalAfter DEF ShellFile
  <2>2. run'.local.step = run.local.step
    BY <2>1
  <2> QED
    BY <1>2, <2>1, <2>2 DEF Step
<1> QED
  BY <1>4, <1>5, <1>6, <1>7, <1>8, <1>9, AgentsKeepState, McpKeepsState DEF FileStep

-----------------------------------------------------------------------------
(* What the skills stages know: nothing is lost while all skills are       *)
(* cleared, or new ones added; and what the removal of stale sources has   *)
(* given up is gone, and so is every skill whose removal has not failed.   *)
StaleKnows ==
  LET l == run.local IN
  /\ \A s : \A a \in Owners(managed.skills, s) \ Owners(l.produced, s) :
       \A n \in skillsOfSource(s) : <<n, a>> \notin installed
  /\ \A s \in l.synced : \A n \in skillsOfSource(s) \ l.names :
       s \in l.failed \/ \A a \in Owners(managed.skills, s) : <<n, a>> \notin installed

AddKnows ==
  /\ run.local.todo \subseteq Entries(run.company)
  /\ \A s : Owners(managed.skills, s) \subseteq Owners(run.local.produced, s)

OwnKnows ==
  /\ Step("clear") => run.local.produced = managed.skills
  /\ Step("stale") => StaleKnows
  /\ Step("add") => InRun /\ AddKnows

OwnInv == StateInv /\ DOMAIN lock \subseteq Skills /\ OwnKnows

(* What a step does for the property.                                      *)
GivesUpOnlyWhatIsGone ==
  managed # Torn /\ managed' # Torn =>
    \A s \in Sources : \A a \in Owners(managed.skills, s) \ Owners(managed'.skills, s) :
      \A n \in skillsOfSource(s) : <<n, a>> \notin installed'

(* A removal takes skills away and adds none; one that counts has been     *)
(* verified.                                                               *)
LEMMA RemovalOnlyRemoves ==
  ASSUME NEW names, NEW adapters, NEW removed, Removes(names, adapters, removed)
  PROVE  /\ installed' \subseteq installed /\ DOMAIN lock' \subseteq DOMAIN lock
         /\ \A s : skillsOfSource(s)' \subseteq skillsOfSource(s)
         /\ removed => \A n \in names, a \in adapters : <<n, a>> \notin installed'
<1>1. /\ installed' \subseteq installed /\ lock' = Relock(installed', lock)
  BY DEF Removes, Removal
<1>2. DOMAIN lock' \subseteq DOMAIN lock /\ \A n \in DOMAIN lock' : lock'[n] = lock[n]
  BY <1>1 DEF Relock
<1>3. removed => installed' \cap (names \X adapters) = {}
  BY DEF Removes, verifiedRemoval
<1> QED
  BY <1>1, <1>2, <1>3 DEF skillsOfSource

(* What stays owned by an adapter when a list of its skills changes.       *)
LEMMA OwnersOf ==
  ASSUME NEW owned, NEW s
  PROVE  /\ \A adapters : \A a \in Owners(owned, s) \ Owners(Disowned(owned, adapters), s) :
              a \in adapters
         /\ \A t : \A a \in Owners(owned, s) \ Owners(owned \ {o \in owned : o[1] = t}, s) : s = t
         /\ \A entry, a : Owners(owned, s) \subseteq Owners(Moved(owned, entry, a), s)
<1>1. \A adapters : \A a \in Owners(owned, s) \ Owners(Disowned(owned, adapters), s) :
        a \in adapters
  BY DEF Owners, Disowned
<1>2. \A t : \A a \in Owners(owned, s) \ Owners(owned \ {o \in owned : o[1] = t}, s) : s = t
  BY DEF Owners
<1>3. ASSUME NEW entry, NEW a, NEW b \in Owners(owned, s)
      PROVE  b \in Owners(Moved(owned, entry, a), s)
  <2>1. PICK o \in owned : o[1] = s /\ o[3] = b
    BY <1>3 DEF Owners
  <2>2. CASE o[1] # entry[1] \/ o[3] # a
    BY <2>1, <2>2 DEF Owners, Moved
  <2>3. CASE o[1] = entry[1] /\ o[3] = a
    <3> DEFINE moved == <<entry[1], entry[2], a>>
    <3>1. moved[1] = s /\ moved[3] = b /\ moved \in Moved(owned, entry, a)
      BY <2>1, <2>3 DEF Moved
    <3> QED
      BY <3>1 DEF Owners
  <2> QED
    BY <2>2, <2>3
<1> QED
  BY <1>1, <1>2, <1>3

(* A run is for one edition all along.                                     *)
LEMMA ContextInvNext == ContextInv /\ [MachineNext]_machineVars => ContextInv'
<1> SUFFICES ASSUME ContextInv, [MachineNext]_machineVars
             PROVE  ContextInv'
  OBVIOUS
<1> USE DEF ContextInv
<1>1. RunShape(run')
  BY MachineStep
<1>2. CASE RunStep
  <2>1. /\ InRun /\ company' = company /\ (run'.at = run.at \/ run'.local = Scratch)
        /\ InRun' => run'.company = run.company
    BY <1>2, RunStepGoesOn DEF RunStep
  <2>2. run'.at = run.at => InRun'
    BY <2>1 DEF InRun
  <2> QED
    BY <1>1, <2>1, <2>2
<1>3. CASE Crash
  BY <1>1, <1>3 DEF Crash, IdleRun, InRun
<1>4. CASE RestoreBackups \/ RepairState
  BY <1>1, <1>4 DEF RestoreBackups, RepairState, InRun
<1>5. ASSUME NEW edition \in Editions, EditCompany(edition)
      PROVE  ContextInv'
  BY <1>1, <1>5 DEF EditCompany, InRun
<1>6. ASSUME NEW overwrite, StartRun(overwrite)
      PROVE  ContextInv'
  BY <1>1, <1>6 DEF StartRun, IdleRun
<1>7. ASSUME NEW p, NEW file, EditHome(p, file)
      PROVE  ContextInv'
  BY <1>1, <1>7 DEF EditHome, InRun
<1>8. CASE UNCHANGED machineVars
  BY <1>1, <1>8 DEF machineVars, homeVars, InRun
<1> QED
  BY <1>2, <1>3, <1>4, <1>5, <1>6, <1>7, <1>8 DEF MachineNext

(* What a step must show to keep the invariant and the property.           *)
OwnAfter == LoadInv' /\ DOMAIN lock' \subseteq Skills /\ OwnKnows' /\ GivesUpOnlyWhatIsGone

(* It does when it neither loads nor gives up anything.                    *)
LEMMA NothingGivenUp ==
  ASSUME OwnInv, managed' # Torn => StateShape(managed'), DOMAIN lock' \subseteq DOMAIN lock,
         managed # Torn => managed'.skills = managed.skills,
         run'.local.step \in {"start", "hooks", "files"}
           \/ (run'.local.step \in {"fetch", "save"} /\ Loaded')
  PROVE  OwnAfter
<1>1. LoadInv' /\ OwnKnows'
  BY DEF LoadInv, Unloaded, Step, OwnKnows
<1> QED
  BY <1>1 DEF OwnAfter, OwnInv, GivesUpOnlyWhatIsGone

(* A stage of the skills is skipped, starts, or ends with a save.          *)
LEMMA SkillsSkippedKeeps ==
  ASSUME OwnInv, NEW kind, NEW i, SkillsSkipped(kind, i)
  PROVE  OwnAfter
<1>1. run'.local = Scratch /\ UNCHANGED <<managed, lock>>
  BY LocalAfter DEF SkillsSkipped, skillVars, OwnInv, StateInv, ContextInv
<1> QED
  BY <1>1, NothingGivenUp DEF Scratch, OwnInv, StateInv, LoadInv

(* A stage of the skills loads the managed state, and has given up nothing *)
(* yet.                                                                    *)
LEMMA SkillsStartKeeps ==
  ASSUME OwnInv, NEW kind, NEW i, NEW step \in {"clear", "stale", "add"}, NEW todo,
         SkillsStart(kind, i, step, todo),
         step = "add" => todo \subseteq Entries(run.company)
  PROVE  OwnAfter
<1> DEFINE local == [Scratch EXCEPT !.step = step, !.state = managed,
                       !.produced = managed.skills, !.todo = todo]
<1>1. /\ run' = Local(local) /\ UNCHANGED <<managed, lock, installed>>
      /\ managed # Torn /\ InRun
  BY DEF SkillsStart, SkillsStage, Loads, skillVars, At
<1>2. /\ LocalShape(local) /\ local.step = step /\ local.state = managed
      /\ local.produced = managed.skills /\ local.todo = todo /\ local.synced = {}
  BY DEF LocalShape, Scratch
<1>3. run'.local = local /\ run'.at = run.at /\ run'.company = run.company
  BY <1>1 DEF Local, OwnInv, StateInv, ContextInv, RunShape
<1> HIDE DEF local
<1>4. LoadInv'
  BY <1>1, <1>2, <1>3 DEF LoadInv, Loaded, OwnInv, StateInv
<1>5. OwnKnows'
  BY <1>1, <1>2, <1>3 DEF OwnKnows, StaleKnows, AddKnows, Step, InRun, skillsOfSource
<1> QED
  BY <1>1, <1>4, <1>5 DEF OwnAfter, OwnInv, GivesUpOnlyWhatIsGone

(* A stage of the skills saves what it has produced: what it gives up is   *)
(* gone.                                                                   *)
LEMMA SkillsSaveKeeps ==
  ASSUME OwnInv, NEW kind, NEW i, NEW step \in {"clear", "stale", "add"},
         SkillsSave(kind, i, step)
  PROVE  OwnAfter
<1>1. /\ Step(step) /\ run'.local = Scratch /\ UNCHANGED <<lock, installed>>
      /\ managed' = [run.local.state EXCEPT !.skills = run.local.produced]
  BY LocalAfter DEF SkillsSave, skillVars, OwnInv, StateInv, ContextInv
<1>2. Loaded
  BY <1>1 DEF OwnInv, StateInv, LoadInv, Unloaded, Step
<1>3. StateShape(managed') /\ managed'.skills = run.local.produced
  BY <1>1, <1>2 DEF Loaded, StateShape
<1>4. LoadInv' /\ OwnKnows'
  BY <1>1, <1>3 DEF LoadInv, OwnKnows, Unloaded, Step, Scratch
<1>5. GivesUpOnlyWhatIsGone
  <2>1. CASE step = "clear"
    BY <1>1, <1>3, <2>1 DEF OwnInv, OwnKnows, GivesUpOnlyWhatIsGone
  <2>2. CASE step = "stale"
    BY <1>1, <1>3, <2>2 DEF OwnInv, OwnKnows, StaleKnows, GivesUpOnlyWhatIsGone
  <2>3. CASE step = "add"
    BY <1>1, <1>3, <2>3 DEF OwnInv, OwnKnows, AddKnows, GivesUpOnlyWhatIsGone
  <2> QED
    BY <2>1, <2>2, <2>3
<1> QED
  BY <1>1, <1>4, <1>5 DEF OwnAfter, OwnInv

(* The steps that work on local variables keep what was loaded.            *)
LEMMA SkillsKeepLoaded ==
  ASSUME OwnInv, NEW l, run' = Local(l), LocalShape(l), l.step \in {"clear", "stale", "add"},
         l.state = managed', StateShape(managed')
  PROVE  LoadInv' /\ run'.local = l /\ run'.at = run.at /\ run'.company = run.company
<1>1. run'.local = l /\ run'.at = run.at /\ run'.company = run.company
  BY DEF Local, OwnInv, StateInv, ContextInv, RunShape
<1> QED
  BY <1>1 DEF LoadInv, Loaded

(* --overwrite-local: the adapters that lose their ownership are those     *)
(* that are seen to have no skill left.                                    *)
LEMMA ClearKeeps ==
  ASSUME OwnInv, NEW adapters, Clear(adapters)
  PROVE  OwnAfter
<1>1. PICK removed \in BOOLEAN :
        LET alone == IF removed \/ adapters # Adapters \/ Cardinality(Adapters) = 1 THEN {}
                     ELSE {{a} : a \in Adapters}
            state == [run.local.state EXCEPT !.skills = Disowned(@, adapters)]
            todo == (run.local.todo \ {adapters}) \cup alone
        IN  /\ Removes(Skills, adapters, removed)
            /\ managed' = IF removed THEN state ELSE managed
            /\ run' = Local([run.local EXCEPT !.todo = todo,
                               !.state = IF removed THEN state ELSE @,
                               !.produced = IF removed THEN state.skills ELSE @])
  BY DEF Clear
<1> DEFINE alone == IF removed \/ adapters # Adapters \/ Cardinality(Adapters) = 1 THEN {}
                    ELSE {{a} : a \in Adapters}
           state == [run.local.state EXCEPT !.skills = Disowned(@, adapters)]
           todo == (run.local.todo \ {adapters}) \cup alone
           local == [run.local EXCEPT !.todo = todo,
                       !.state = IF removed THEN state ELSE @,
                       !.produced = IF removed THEN state.skills ELSE @]
<1>2. /\ Removes(Skills, adapters, removed) /\ run' = Local(local)
      /\ managed' = IF removed THEN state ELSE managed
  BY <1>1
<1>3. Step("clear") /\ Loaded /\ run.local.produced = managed.skills
  BY DEF Clear, OwnInv, StateInv, LoadInv, OwnKnows, Unloaded, Step
<1>4. StateShape(state) /\ state.skills = Disowned(managed.skills, adapters)
  BY <1>3 DEF Loaded, StateShape
<1> HIDE DEF state, todo, alone
<1>5. /\ LocalShape(local) /\ local.step = "clear"
      /\ local.state = managed' /\ local.produced = managed'.skills
  BY <1>2, <1>3 DEF Loaded, LocalShape, Step
<1> HIDE DEF local
<1>6. run'.local = local
  BY <1>2, LocalAfter DEF OwnInv, StateInv, ContextInv
<1>7. StateShape(managed')
  BY <1>2, <1>3, <1>4 DEF Loaded
<1>8. LoadInv'
  BY <1>2, <1>5, <1>6, <1>7, SkillsKeepLoaded
<1>9. OwnKnows'
  BY <1>5, <1>6 DEF OwnKnows, Step
<1>10. GivesUpOnlyWhatIsGone
  <2> SUFFICES ASSUME NEW s, NEW a \in Owners(managed.skills, s) \ Owners(managed'.skills, s),
                      NEW n \in skillsOfSource(s)
               PROVE  <<n, a>> \notin installed'
    BY DEF GivesUpOnlyWhatIsGone
  <2>1. removed /\ a \in adapters
    BY <1>2, <1>4, OwnersOf
  <2>2. n \in Skills
    BY DEF OwnInv, skillsOfSource
  <2> QED
    BY <1>2, <2>1, <2>2, RemovalOnlyRemoves
<1>11. DOMAIN lock' \subseteq Skills
  BY <1>2, RemovalOnlyRemoves DEF OwnInv
<1> QED
  BY <1>8, <1>9, <1>10, <1>11 DEF OwnAfter

(* A source that is given up without a lock entry has no skill.            *)
LEMMA PickStaleKeeps ==
  ASSUME OwnInv, NEW source, PickStale(source)
  PROVE  OwnAfter
<1> DEFINE l == run.local
           names == skillsOfSource(source)
           dropped == {o \in l.produced : o[1] = source}
           picked == [l EXCEPT !.names = names, !.synced = {source}]
           given == [l EXCEPT !.todo = @ \ {source}, !.produced = @ \ dropped]
           left == [l EXCEPT !.todo = @ \ {source}]
<1>1. /\ UNCHANGED <<managed, installed, lock>>
      /\ \/ run' = Local(picked)
         \/ names = {} /\ run' = Local(given)
         \/ names = {} /\ run' = Local(left)
  BY DEF PickStale, skillVars
<1>2. Loaded /\ Step("stale") /\ StaleKnows
  BY DEF PickStale, OwnInv, StateInv, LoadInv, OwnKnows, Unloaded, Step
<1>3. LoadInv' /\ OwnKnows'
  <2>1. CASE run' = Local(picked)
    <3> HIDE DEF names
    <3>1. /\ LocalShape(picked) /\ picked.step = "stale" /\ picked.state = managed
          /\ picked.produced = l.produced /\ picked.names = names /\ picked.synced = {source}
      BY <1>2 DEF Loaded, LocalShape, Step
    <3> HIDE DEF picked
    <3>2. run'.local = picked
      BY <2>1, LocalAfter DEF OwnInv, StateInv, ContextInv
    <3>3. LoadInv'
      BY <1>1, <1>2, <2>1, <3>1, <3>2, SkillsKeepLoaded DEF Loaded
    <3>4. StaleKnows'
      BY <1>1, <1>2, <3>1, <3>2 DEF StaleKnows, skillsOfSource, names
    <3> QED
      BY <3>1, <3>2, <3>3, <3>4 DEF OwnKnows, Step
  <2>2. CASE names = {} /\ run' = Local(given)
    <3> HIDE DEF names, dropped
    <3>1. /\ LocalShape(given) /\ given.step = "stale" /\ given.state = managed
          /\ given.produced = l.produced \ dropped /\ given.names = l.names
          /\ given.synced = l.synced /\ given.failed = l.failed
      BY <1>2 DEF Loaded, LocalShape, Step
    <3> HIDE DEF given
    <3>2. run'.local = given
      BY <2>2, LocalAfter DEF OwnInv, StateInv, ContextInv
    <3>3. LoadInv'
      BY <1>1, <1>2, <2>2, <3>1, <3>2, SkillsKeepLoaded DEF Loaded
    <3>4. ASSUME NEW s, NEW a \in Owners(managed.skills, s) \ Owners(given.produced, s),
                 NEW n \in skillsOfSource(s)
          PROVE  <<n, a>> \notin installed
      <4>1. CASE a \in Owners(l.produced, s)
        <5>1. s = source
          BY <3>1, <3>4, <4>1 DEF dropped, Owners
        <5> QED
          BY <2>2, <3>4, <5>1 DEF names
      <4>2. CASE a \notin Owners(l.produced, s)
        BY <1>2, <3>4, <4>2 DEF StaleKnows
      <4> QED
        BY <4>1, <4>2
    <3>5. StaleKnows'
      BY <1>1, <1>2, <3>1, <3>2, <3>4 DEF StaleKnows, skillsOfSource
    <3> QED
      BY <3>1, <3>2, <3>3, <3>5 DEF OwnKnows, Step
  <2>3. CASE run' = Local(left)
    <3>1. /\ LocalShape(left) /\ left.step = "stale" /\ left.state = managed
          /\ left.produced = l.produced /\ left.names = l.names
          /\ left.synced = l.synced /\ left.failed = l.failed
      BY <1>2 DEF Loaded, LocalShape, Step
    <3> HIDE DEF left
    <3>2. run'.local = left
      BY <2>3, LocalAfter DEF OwnInv, StateInv, ContextInv
    <3>3. LoadInv'
      BY <1>1, <1>2, <2>3, <3>1, <3>2, SkillsKeepLoaded DEF Loaded
    <3>4. StaleKnows'
      BY <1>1, <1>2, <3>1, <3>2 DEF StaleKnows, skillsOfSource
    <3> QED
      BY <3>1, <3>2, <3>3, <3>4 DEF OwnKnows, Step
  <2> QED
    BY <1>1, <2>1, <2>2, <2>3
<1> QED
  BY <1>1, <1>3 DEF OwnAfter, OwnInv, GivesUpOnlyWhatIsGone

(* One whose skills are removed is given up when none has failed: each is  *)
(* then gone from every adapter that owned it.                             *)
LEMMA RemoveStaleKeeps ==
  ASSUME OwnInv, NEW source, NEW name, RemoveStale(source, name)
  PROVE  OwnAfter
<1>1. PICK removed \in BOOLEAN :
        LET left == run.local.names \ {name}
            failed == IF removed THEN run.local.failed ELSE run.local.failed \cup {source}
            dropped == IF left = {} /\ source \notin failed
                       THEN {o \in run.local.produced : o[1] = source} ELSE {}
        IN  /\ Removes({name}, Owners(run.local.state.skills, source), removed)
            /\ run' = Local([run.local EXCEPT !.names = left, !.failed = failed,
                               !.produced = @ \ dropped,
                               !.synced = IF left = {} THEN {} ELSE @,
                               !.todo = IF left = {} THEN @ \ {source} ELSE @])
  BY DEF RemoveStale
<1> DEFINE l == run.local
           left == l.names \ {name}
           failed == IF removed THEN l.failed ELSE l.failed \cup {source}
           dropped == IF left = {} /\ source \notin failed
                      THEN {o \in l.produced : o[1] = source} ELSE {}
           local == [l EXCEPT !.names = left, !.failed = failed, !.produced = @ \ dropped,
                       !.synced = IF left = {} THEN {} ELSE @,
                       !.todo = IF left = {} THEN @ \ {source} ELSE @]
<1>2. /\ Removes({name}, Owners(l.state.skills, source), removed) /\ run' = Local(local)
      /\ managed' = managed /\ l.synced = {source}
  BY <1>1 DEF RemoveStale
<1>3. Loaded /\ Step("stale") /\ StaleKnows
  BY DEF RemoveStale, OwnInv, StateInv, LoadInv, OwnKnows, Unloaded, Step
<1> HIDE DEF left, failed, dropped
<1>4. /\ LocalShape(local) /\ local.step = "stale" /\ local.state = managed
      /\ local.produced = l.produced \ dropped /\ local.names = left
      /\ local.synced \subseteq l.synced /\ local.failed = failed
  BY <1>3 DEF Loaded, LocalShape, Step
<1> HIDE DEF local
<1>5. run'.local = local
  BY <1>2, LocalAfter DEF OwnInv, StateInv, ContextInv
<1>6. LoadInv'
  BY <1>2, <1>3, <1>4, <1>5, SkillsKeepLoaded DEF Loaded
<1>7. /\ installed' \subseteq installed /\ DOMAIN lock' \subseteq DOMAIN lock
      /\ \A s : skillsOfSource(s)' \subseteq skillsOfSource(s)
      /\ removed => \A a \in Owners(managed.skills, source) : <<name, a>> \notin installed'
  BY <1>2, <1>3, RemovalOnlyRemoves DEF Loaded
<1>8. ASSUME NEW n \in skillsOfSource(source)' \ left, source \notin failed,
             NEW a \in Owners(managed.skills, source)
      PROVE  <<n, a>> \notin installed'
  <2>1. removed /\ failed = l.failed
    BY <1>8 DEF failed
  <2>2. CASE n = name
    BY <1>7, <1>8, <2>1, <2>2
  <2>3. CASE n # name
    BY <1>2, <1>3, <1>7, <1>8, <2>1, <2>3 DEF StaleKnows, left
  <2> QED
    BY <2>2, <2>3
<1>9. ASSUME NEW s, NEW a \in Owners(managed.skills, s) \ Owners(local.produced, s),
             NEW n \in skillsOfSource(s)'
      PROVE  <<n, a>> \notin installed'
  <2>1. CASE a \in Owners(l.produced, s)
    <3>1. dropped # {}
      BY <1>4, <1>9, <2>1 DEF Owners
    <3>2. /\ left = {} /\ source \notin failed
          /\ dropped = {o \in l.produced : o[1] = source}
      BY <3>1 DEF dropped
    <3>3. s = source
      BY <1>4, <1>9, <2>1, <3>2 DEF Owners
    <3> QED
      BY <1>8, <1>9, <3>2, <3>3
  <2>2. CASE a \notin Owners(l.produced, s)
    BY <1>3, <1>7, <1>9, <2>2 DEF StaleKnows
  <2> QED
    BY <2>1, <2>2
<1>10. StaleKnows'
  <2>1. ASSUME NEW s \in local.synced, NEW n \in skillsOfSource(s)' \ local.names,
               s \notin local.failed, NEW a \in Owners(managed.skills, s)
        PROVE  <<n, a>> \notin installed'
    <3>1. s = source
      BY <1>2, <1>4, <2>1
    <3> QED
      BY <1>4, <1>8, <2>1, <3>1 DEF skillsOfSource
  <2>2. \A s : \A n \in skillsOfSource(s)' : \A a \in Owners(managed.skills, s) \ Owners(local.produced, s) :
          <<n, a>> \notin installed'
    BY <1>9
  <2> QED
    BY <1>2, <1>5, <2>1, <2>2 DEF StaleKnows, skillsOfSource
<1>11. OwnKnows'
  BY <1>4, <1>5, <1>10 DEF OwnKnows, Step
<1> QED
  BY <1>2, <1>6, <1>7, <1>11 DEF OwnAfter, OwnInv, GivesUpOnlyWhatIsGone

(* Adding skills gives up none, whatever the skills CLI does.              *)
LEMMA AddingKeeps ==
  ASSUME OwnInv, Step("add"), NEW l, run' = Local(l), managed' = managed,
         LocalShape(l), l.step = "add", l.state = run.local.state,
         l.todo \subseteq run.local.todo,
         \A s : Owners(run.local.produced, s) \subseteq Owners(l.produced, s),
         DOMAIN lock' \subseteq Skills
  PROVE  OwnAfter
<1>1. Loaded /\ InRun /\ AddKnows
  BY DEF OwnInv, StateInv, LoadInv, OwnKnows, Unloaded, Step
<1>2. LoadInv' /\ run'.local = l /\ run'.at = run.at /\ run'.company = run.company
  BY <1>1, SkillsKeepLoaded DEF Loaded
<1>3. (InRun /\ AddKnows)'
  BY <1>1, <1>2 DEF AddKnows, InRun
<1>4. OwnKnows'
  BY <1>2, <1>3 DEF OwnKnows, Step
<1> QED
  BY <1>2, <1>4 DEF OwnAfter, GivesUpOnlyWhatIsGone

(* The three steps of the phase that installs.                             *)
LEMMA InstallingKeeps ==
  ASSUME OwnInv, NEW i,
         \/ \E entry : AddFails(i, entry) \/ Add(i, entry)
         \/ \E name : RemoveDeleted(i, name)
  PROVE  OwnAfter
<1> DEFINE l == run.local
<1>1. Step("add") /\ Loaded /\ AddKnows /\ InRun
  BY DEF AddFails, Add, RemoveDeleted, OwnInv, StateInv, LoadInv, OwnKnows, Unloaded, Step
<1>2. ASSUME NEW entry, AddFails(i, entry)
      PROVE  OwnAfter
  <2> DEFINE local == [l EXCEPT !.todo = @ \ {entry}]
  <2>1. run' = Local(local) /\ UNCHANGED <<managed, lock>>
    BY <1>2 DEF AddFails, skillVars
  <2>2. /\ LocalShape(local) /\ local.step = "add" /\ local.state = l.state
        /\ local.todo \subseteq l.todo /\ local.produced = l.produced
    BY <1>1 DEF Loaded, LocalShape, Step
  <2> HIDE DEF local
  <2> QED
    BY <1>1, <2>1, <2>2, AddingKeeps DEF OwnInv
<1>3. ASSUME NEW entry, Add(i, entry)
      PROVE  OwnAfter
  <2>1. PICK stamped \in {run.company.upstream[entry[1]], {}} :
          /\ lock' = [n \in DOMAIN lock \cup stamped |-> IF n \in stamped THEN entry[1] ELSE lock[n]]
          /\ run' = Local([l EXCEPT !.todo = @ \ {entry},
                             !.produced = Moved(@, entry, Adapter(i)),
                             !.names = staleSkills(skillsOfSource(entry[1]) \cup stamped, stamped)])
    BY <1>3 DEF Add
  <2> DEFINE local == [l EXCEPT !.todo = @ \ {entry},
                         !.produced = Moved(@, entry, Adapter(i)),
                         !.names = staleSkills(skillsOfSource(entry[1]) \cup stamped, stamped)]
  <2>2. run' = Local(local) /\ managed' = managed
    BY <1>3, <2>1 DEF Add
  <2>3. /\ LocalShape(local) /\ local.step = "add" /\ local.state = l.state
        /\ local.todo \subseteq l.todo /\ local.produced = Moved(l.produced, entry, Adapter(i))
    BY <1>1 DEF Loaded, LocalShape, Step
  <2> HIDE DEF local
  <2>4. \A s : Owners(l.produced, s) \subseteq Owners(local.produced, s)
    BY <2>3, OwnersOf
  <2>5. stamped \subseteq Skills
    <3>1. PICK edition \in Editions : run.company = Context(edition)
      BY <1>1 DEF OwnInv, StateInv, ContextInv
    <3>2. entry \in Entries(Context(edition))
      BY <1>1, <1>3, <3>1 DEF AddKnows, Add
    <3> QED
      BY <2>1, <3>1, <3>2, CompanyLists
  <2>6. DOMAIN lock' \subseteq Skills
    BY <2>1, <2>5 DEF OwnInv
  <2> QED
    BY <1>1, <2>2, <2>3, <2>4, <2>6, AddingKeeps
<1>4. ASSUME NEW name, RemoveDeleted(i, name)
      PROVE  OwnAfter
  <2> DEFINE local == [l EXCEPT !.names = @ \ {name}]
  <2>1. run' = Local(local) /\ managed' = managed
    BY <1>4 DEF RemoveDeleted
  <2>2. /\ LocalShape(local) /\ local.step = "add" /\ local.state = l.state
        /\ local.todo = l.todo /\ local.produced = l.produced
    BY <1>1 DEF Loaded, LocalShape, Step
  <2> HIDE DEF local
  <2>3. DOMAIN lock' \subseteq Skills
    BY <1>4, RemovalOnlyRemoves DEF RemoveDeleted, OwnInv
  <2> QED
    BY <1>1, <2>1, <2>2, <2>3, AddingKeeps
<1> QED
  BY <1>2, <1>3, <1>4

(* Every step of the machine.                                              *)
LEMMA OwnNext ==
  ASSUME OwnInv, [MachineNext]_machineVars
  PROVE  OwnAfter
<1>1. RunShape(run) /\ LoadInv /\ (managed # Torn => StateShape(managed))
  BY DEF OwnInv, StateInv, ContextInv, LoadInv
<1>2. CASE FileStep
  <2>1. FilesKeepState /\ UNCHANGED skillVars
    BY <1>2, FileStepKeepsState DEF OwnInv
  <2> QED
    BY <2>1, NothingGivenUp DEF FilesKeepState, SkillsKept, skillVars, Unloaded, Step
<1>3. CASE RemoveStep
  <2>1. ASSUME NEW adapters, Clear(adapters) PROVE OwnAfter
    BY <2>1, ClearKeeps
  <2>2. ASSUME NEW source, PickStale(source) PROVE OwnAfter
    BY <2>2, PickStaleKeeps
  <2>3. ASSUME NEW source, NEW name, RemoveStale(source, name) PROVE OwnAfter
    BY <2>3, RemoveStaleKeeps
  <2>4. CASE RemoveStart
    BY <2>4, SkillsStartKeeps DEF RemoveStart
  <2>5. ASSUME NEW step \in {"clear", "stale"}, SkillsSave("remove", 0, step) PROVE OwnAfter
    BY <2>5, SkillsSaveKeeps
  <2> QED
    BY <1>3, <2>1, <2>2, <2>3, <2>4, <2>5, SkillsSkippedKeeps DEF RemoveStep
<1>4. ASSUME NEW i, SkillsStep(i)
      PROVE  OwnAfter
  <2>1. CASE InstallStart(i)
    BY <2>1, SkillsStartKeeps DEF InstallStart
  <2> QED
    BY <1>4, <2>1, InstallingKeeps, SkillsSkippedKeeps, SkillsSaveKeeps DEF SkillsStep
<1>5. RunStep => OwnAfter
  BY <1>2, <1>3, <1>4 DEF RunStep
<1>6. CASE Crash
  <2>1. run'.local = Scratch /\ managed' \in {managed, Torn} /\ UNCHANGED skillVars
    BY <1>6 DEF Crash, IdleRun
  <2>2. (Step("start"))'
    BY <2>1 DEF Step, Scratch
  <2>3. LoadInv' /\ OwnKnows' /\ GivesUpOnlyWhatIsGone
    BY <1>1, <2>1, <2>2 DEF LoadInv, Unloaded, OwnKnows, Step, GivesUpOnlyWhatIsGone
  <2> QED
    BY <2>1, <2>3 DEF OwnAfter, OwnInv, skillVars
<1>7. CASE UNCHANGED <<managed, run, skillVars>>
  <2>1. UNCHANGED <<installed, lock>>
    BY <1>7 DEF skillVars
  <2>2. LoadInv'
    BY <1>1, <1>7 DEF LoadInv, Unloaded, Step, Loaded
  <2>3. OwnKnows'
    BY <1>7, <2>1 DEF OwnInv, OwnKnows, StaleKnows, AddKnows, Step, InRun, skillsOfSource
  <2> QED
    BY <1>7, <2>1, <2>2, <2>3 DEF OwnAfter, OwnInv, GivesUpOnlyWhatIsGone
<1>8. CASE RepairState
  <2>1. managed = Torn /\ managed' = EmptyState /\ UNCHANGED skillVars /\ run' = run /\ ~InRun
    BY <1>8 DEF RepairState, Between
  <2>2. StateShape(managed') /\ run'.local.step = "start"
    BY <2>1 DEF StateShape, EmptyState, OwnInv, StateInv, ContextInv, Scratch
  <2> QED
    BY <2>1, <2>2, NothingGivenUp DEF skillVars
<1>9. ASSUME NEW overwrite, StartRun(overwrite)
      PROVE  OwnAfter
  <2>1. run'.local = Scratch /\ UNCHANGED <<managed, skillVars>>
    BY <1>9 DEF StartRun, IdleRun
  <2> QED
    BY <1>1, <2>1, NothingGivenUp DEF Scratch, skillVars
<1> QED
  BY <1>5, <1>6, <1>7, <1>8, <1>9
  DEF MachineNext, RestoreBackups, EditCompany, EditHome, machineVars, homeVars

(* The skills CLI's lock is as good as its word only: an adapter loses a   *)
(* source when it has no skill left that the lock attributes to it, for    *)
(* any adapters, sources, lists, failures and false reports                *)
(* (install-skills.ts: clear, the stale sources and the save).             *)
THEOREM SkillsAreOwnedUntilGone ==
  ASSUME NEW files, NEW skills, NEW lockFile, DOMAIN lockFile \subseteq Skills
  PROVE  MachineSpec(files, skills, lockFile) => OwnedUntilGone
<1>1. MachineInit(files, skills, lockFile) => OwnInv
  <2> SUFFICES ASSUME MachineInit(files, skills, lockFile)
               PROVE  OwnInv
    OBVIOUS
  <2>1. run = IdleRun /\ managed = EmptyState /\ lock = lockFile /\ company \in Editions
    BY DEF MachineInit
  <2>2. Step("start") /\ ~InRun /\ RunShape(run) /\ run.local = Scratch /\ StateShape(managed)
    BY <2>1 DEF Step, IdleRun, Scratch, InRun, RunShape, StateShape, EmptyState
  <2>3. OwnKnows
    BY <2>2 DEF OwnKnows, Step
  <2> QED
    BY <2>1, <2>2, <2>3 DEF OwnInv, StateInv, ContextInv, LoadInv, Unloaded
<1>2. OwnInv /\ [MachineNext]_machineVars => OwnInv'
  BY ContextInvNext, OwnNext DEF OwnAfter, OwnInv, StateInv
<1>3. OwnInv /\ [MachineNext]_machineVars =>
        [managed # Torn /\ managed' # Torn =>
           \A s \in Sources : \A a \in Owners(managed.skills, s) \ Owners(managed'.skills, s) :
             \A n \in skillsOfSource(s) : <<n, a>> \notin installed']_<<homeVars, skillVars>>
  BY OwnNext DEF OwnAfter, GivesUpOnlyWhatIsGone
<1> QED
  BY <1>1, <1>2, <1>3, PTL DEF MachineSpec, OwnedUntilGone

-----------------------------------------------------------------------------
(* Where a run is, and that there is no backup set of none.                *)
AtInv ==
  /\ RunShape(run)
  /\ run.at \in 0 .. Len(Stages)
  /\ run.backed \subseteq DOMAIN backup
  /\ ~InRun => run.backed = {}

(* There is at least one stage.                                            *)
LEMMA StagesAreMany == Len(Stages) \in Nat \ {0}
<1> DEFINE S == {<<kind, i>> : kind \in {"remove", "skills", "agents", "sync", "shell", "mcp"},
                               i \in {0} \cup DOMAIN Harnesses}
           n == Len(Harnesses)
<1>1. ASSUME NEW kind \in {"skills", "agents", "sync", "mcp"}
      PROVE  PerHarness(kind) \in Seq(S) /\ Len(PerHarness(kind)) = n
  <2>1. DOMAIN PerHarness(kind) = 1 .. n /\ n \in Nat
    BY HarnessTable DEF PerHarness
  <2>2. PerHarness(kind) = [i \in 1 .. n |-> <<kind, i>>]
    BY HarnessTable DEF PerHarness
  <2>3. \A i \in 1 .. n : <<kind, i>> \in S
    BY HarnessTable
  <2> HIDE DEF S, n
  <2> QED
    BY <2>1, <2>2, <2>3
<1>2. /\ <<<<"remove", 0>>>> \in Seq(S) /\ Len(<<<<"remove", 0>>>>) = 1
      /\ <<<<"shell", 0>>>> \in Seq(S) /\ Len(<<<<"shell", 0>>>>) = 1
  <2>1. <<"remove", 0>> \in S /\ <<"shell", 0>> \in S
    OBVIOUS
  <2> HIDE DEF S
  <2> QED
    BY <2>1
<1>3. n \in Nat
  BY HarnessTable
<1> HIDE DEF S, n
<1>0. \A s, t \in Seq(S) : s \o t \in Seq(S) /\ Len(s \o t) = Len(s) + Len(t)
  BY ConcatProperties
<1> DEFINE a == <<<<"remove", 0>>>> \o PerHarness("skills")
           b == a \o PerHarness("agents")
           c == b \o PerHarness("sync")
           d == c \o <<<<"shell", 0>>>>
           e == d \o PerHarness("mcp")
<1>4. a \in Seq(S) /\ Len(a) = 1 + n
  BY <1>0, <1>1, <1>2
<1> HIDE DEF a
<1>5. b \in Seq(S) /\ Len(b) = 1 + n + n
  BY <1>0, <1>1, <1>3, <1>4
<1> HIDE DEF b
<1>6. c \in Seq(S) /\ Len(c) = 1 + n + n + n
  BY <1>0, <1>1, <1>3, <1>5
<1> HIDE DEF c
<1>7. d \in Seq(S) /\ Len(d) = 1 + n + n + n + 1
  BY <1>0, <1>2, <1>3, <1>6
<1> HIDE DEF d
<1>8. Len(e) = 1 + n + n + n + 1 + n
  BY <1>0, <1>1, <1>3, <1>7
<1> QED
  BY <1>3, <1>8 DEF Stages, a, b, c, d

(* A run goes from stage to stage.                                         *)
LEMMA AtInvNext == AtInv /\ [MachineNext]_machineVars => AtInv'
<1> SUFFICES ASSUME AtInv, [MachineNext]_machineVars
             PROVE  AtInv'
  OBVIOUS
<1> USE DEF AtInv
<1>1. RunShape(run')
  BY MachineStep
<1>2. Len(Stages) \in Nat \ {0}
  BY StagesAreMany
<1>3. IdleRun.at = 0 /\ IdleRun.backed = {}
  BY DEF IdleRun
<1>4. CASE RunStep
  <2>1. InRun /\ FilesStep /\ (run'.at = run.at \/ StageEnds)
    BY <1>4, RunStepGoesOn, RunStepWrites DEF RunStep
  <2>2. run'.at \in 0 .. Len(Stages) /\ (run'.at = 0 => run' = IdleRun)
    BY <1>2, <1>3, <2>1 DEF InRun, StageEnds
  <2>3. run'.backed \subseteq DOMAIN backup'
    <3>1. CASE Continues(run') /\ UNCHANGED <<home, backup>>
      BY <1>3, <2>2, <3>1 DEF Continues
    <3>2. ASSUME NEW changes, NEW next, Continues(next), Write(changes, next)
          PROVE  run'.backed \subseteq DOMAIN backup'
      <4> DEFINE changed == {p \in DOMAIN changes : home[p] # changes[p]}
                 copied == Copied(changed)
                 older == IF run.backed = {} THEN {} ELSE DOMAIN backup
      <4>1. /\ backup' = IF copied = {} THEN backup
                         ELSE [p \in copied \cup older |-> IF p \in copied THEN Content(home[p])
                                                          ELSE backup[p]]
            /\ run' = IF next.at = 0 THEN next ELSE [next EXCEPT !.backed = @ \cup copied]
        BY <3>2 DEF Write
      <4> HIDE DEF changed, copied, older
      <4>2. run.backed \cup copied \subseteq DOMAIN backup'
        BY <4>1 DEF older
      <4>3. CASE next.at = 0
        BY <1>3, <2>2, <4>1, <4>3
      <4>4. CASE next.at # 0
        <5>1. run'.at = next.at /\ run'.backed = next.backed \cup copied
          BY <3>2, <4>1, <4>4 DEF Continues, RunShape
        <5>2. next.backed = run.backed
          BY <2>2, <3>2, <4>4, <5>1 DEF Continues
        <5> QED
          BY <4>2, <5>1, <5>2
      <4> QED
        BY <4>3, <4>4
    <3> QED
      BY <2>1, <3>1, <3>2 DEF FilesStep
  <2> QED
    BY <1>1, <1>3, <2>2, <2>3 DEF InRun
<1>5. CASE Crash
  BY <1>1, <1>2, <1>3, <1>5 DEF Crash, InRun
<1>6. CASE RestoreBackups \/ RepairState
  BY <1>6 DEF RestoreBackups, RepairState, InRun
<1>7. ASSUME NEW edition, EditCompany(edition)
      PROVE  AtInv'
  BY <1>7 DEF EditCompany, InRun
<1>8. ASSUME NEW overwrite, StartRun(overwrite)
      PROVE  AtInv'
  <2>1. run'.at = 1 /\ run'.backed = {}
    BY <1>8 DEF StartRun, IdleRun
  <2> QED
    BY <1>1, <1>2, <2>1 DEF InRun
<1>9. ASSUME NEW p, NEW file, EditHome(p, file)
      PROVE  AtInv'
  BY <1>9 DEF EditHome, InRun
<1>10. CASE UNCHANGED machineVars
  BY <1>10 DEF machineVars, homeVars, InRun
<1> QED
  BY <1>4, <1>5, <1>6, <1>7, <1>8, <1>9, <1>10 DEF MachineNext

-----------------------------------------------------------------------------
(* What the managed state names: agent files, JSON files and sources that  *)
(* there are. What a stage has produced becomes part of it when it saves.  *)
ManagedTyped(m) ==
  /\ StateShape(m)
  /\ m.agentFiles \subseteq AgentPaths
  /\ m.jsonKeys \subseteq JsonPaths \X STRING
  /\ m.skills \subseteq Sources \X STRING \X Adapters

ProducedTyped ==
  /\ \A i \in DOMAIN Harnesses :
       /\ At("agents", i) /\ (Step("fetch") \/ Step("save")) =>
            HasAgents(i) /\ run.local.produced \subseteq AgentPaths
       /\ At("mcp", i) /\ Step("save") => run.local.produced \subseteq JsonPaths \X STRING
  /\ Step("clear") \/ Step("stale") \/ Step("add") =>
       run.local.produced \subseteq Sources \X STRING \X Adapters

StepTyped == (managed # Torn \/ ~Unloaded => ManagedTyped(managed)) /\ ProducedTyped

TypeInv == AtInv /\ StateInv /\ StepTyped

(* A run is in one stage.                                                  *)
LEMMA OneStage ==
  ASSUME NEW kind, NEW i, At(kind, i), NEW other, NEW j, At(other, j)
  PROVE  other = kind /\ j = i
<1>1. <<kind, i>> = <<other, j>>
  BY DEF At
<1> QED
  BY <1>1

(* What stays when a step works on local variables only.                   *)
LEMMA SameStage ==
  ASSUME RunShape(run), InRun, NEW l, run' = Local(l) \/ \E changes : Write(changes, Local(l))
  PROVE  /\ run'.local = l /\ run'.at = run.at /\ run'.company = run.company
         /\ \A kind, i : At(kind, i)' <=> At(kind, i)
<1>1. /\ Local(l).local = l /\ Local(l).at = run.at /\ Local(l).company = run.company
      /\ RunShape(Local(l))
  BY DEF Local, RunShape
<1>2. ASSUME NEW changes, Write(changes, Local(l))
      PROVE  run'.local = l /\ run'.at = run.at /\ run'.company = run.company
  BY <1>1, <1>2 DEF Write, RunShape
<1>3. run'.local = l /\ run'.at = run.at /\ run'.company = run.company
  BY <1>1, <1>2
<1> QED
  BY <1>3 DEF At, InRun

(* A step that leaves the state alone and produces nothing.                *)
LEMMA NothingProduced ==
  ASSUME StepTyped, managed' = managed, run'.local.step \in {"start", "hooks", "files"}
  PROVE  StepTyped'
BY DEF StepTyped, ProducedTyped, Unloaded, Step

(* The agents stage names the files of its harness.                        *)
LEMMA AgentsTyped ==
  ASSUME TypeInv, NEW i \in DOMAIN Harnesses, AgentsStep(i)
  PROVE  StepTyped'
<1> USE DEF TypeInv
<1>1. RunShape(run) /\ InRun /\ At("agents", i) /\ run.local.step \in {"start", "fetch", "save"}
  BY DEF AtInv, AgentsStep, AgentsSkipped, AgentsStart, AgentsSweep, AgentsSave,
         AgentsInstall, AgentsFetchFails, At, Step
<1>2. Step("fetch") \/ Step("save") =>
        /\ Loaded /\ HasAgents(i) /\ run.local.produced \subseteq AgentPaths
        /\ ManagedTyped(managed)
  BY <1>1 DEF StepTyped, ProducedTyped, StateInv, LoadInv, Unloaded, Step
<1>3. ASSUME NEW l, run' = Local(l) \/ \E changes : Write(changes, Local(l)),
             l.step \in {"fetch", "save"}, HasAgents(i), l.produced \subseteq AgentPaths,
             ManagedTyped(managed')
      PROVE  StepTyped'
  <2>1. /\ run'.local = l
        /\ \A kind, j : At(kind, j)' <=> At(kind, j)
    BY <1>1, <1>3, SameStage
  <2>2. ASSUME NEW kind, NEW j, At(kind, j)'
        PROVE  kind = "agents" /\ j = i
    BY <1>1, <2>1, <2>2, OneStage
  <2>3. ProducedTyped'
    BY <1>3, <2>1, <2>2 DEF ProducedTyped, Step, HasAgents
  <2> QED
    BY <1>3, <2>3 DEF StepTyped
<1>4. CASE AgentsSkipped(i)
  BY <1>1, <1>4, LocalAfter, NothingProduced DEF AgentsSkipped, Scratch
<1>5. CASE AgentsStart(i)
  <2> DEFINE cleared == IF run.overwrite THEN AgentPathsOf(i) ELSE {}
             state == [managed EXCEPT !.agentFiles = @ \ cleared]
             local == [Scratch EXCEPT !.step = "fetch", !.state = state,
                         !.produced = state.agentFiles \ AgentPathsOf(i),
                         !.todo = ListedSources(run.company) \cup run.company.layers]
  <2>1. /\ managed # Torn /\ managed' = state /\ HasAgents(i)
        /\ Write([p \in cleared |-> Absent], Local(local))
    BY <1>5 DEF AgentsStart, Loads
  <2>2. ManagedTyped(managed)
    BY <2>1 DEF StepTyped
  <2>3. ManagedTyped(state) /\ state.agentFiles \subseteq AgentPaths
    BY <2>2 DEF ManagedTyped, StateShape
  <2> HIDE DEF state
  <2>4. local.step = "fetch" /\ local.produced \subseteq AgentPaths
    BY <2>3 DEF Scratch
  <2> HIDE DEF local
  <2> QED
    BY <1>3, <2>1, <2>3, <2>4
<1>6. CASE AgentsSweep(i)
  <2> DEFINE l == run.local
             produced == l.produced \cup Carried(l)
             local == [l EXCEPT !.step = "save", !.produced = produced]
  <2>1. /\ Step("fetch") /\ managed' = managed
        /\ \E changes : Write(changes, Local(local))
    BY <1>6 DEF AgentsSweep
  <2>2. Loaded /\ HasAgents(i) /\ l.produced \subseteq AgentPaths /\ ManagedTyped(managed)
    BY <1>2, <2>1
  <2>3. produced \subseteq AgentPaths
    BY <2>2 DEF Loaded, Carried, ManagedTyped
  <2> HIDE DEF produced
  <2>4. local.step = "save" /\ local.produced = produced
    BY <2>2 DEF Loaded, LocalShape
  <2> HIDE DEF local
  <2> QED
    BY <1>3, <2>1, <2>2, <2>3, <2>4
<1>7. CASE AgentsSave(i)
  <2>1. Step("save") /\ run'.local = Scratch
        /\ managed' = [run.local.state EXCEPT !.agentFiles = run.local.produced]
    BY <1>1, <1>7, LocalAfter DEF AgentsSave
  <2>2. Loaded /\ run.local.produced \subseteq AgentPaths /\ ManagedTyped(managed)
    BY <1>2, <2>1
  <2>3. ManagedTyped(managed')
    BY <2>1, <2>2 DEF Loaded, ManagedTyped, StateShape
  <2> QED
    BY <2>1, <2>3 DEF StepTyped, ProducedTyped, Step, Scratch
<1>8. ASSUME NEW o \in Sources \cup Layers, AgentsInstall(i, o)
      PROVE  StepTyped'
  <2> DEFINE l == [run.local EXCEPT !.todo = @ \ {o}, !.synced = @ \cup {o}]
  <2>1. Step("fetch") /\ managed' = managed /\ Installed(i, o, l)
    BY <1>8 DEF AgentsInstall
  <2>2. Loaded /\ HasAgents(i) /\ run.local.produced \subseteq AgentPaths /\ ManagedTyped(managed)
    BY <1>2, <2>1
  <2>3. LocalShape(l) /\ l.step = "fetch" /\ l.produced = run.local.produced
    BY <2>1, <2>2 DEF Loaded, LocalShape, Step
  <2> HIDE DEF l
  <2>4. AgentPath(i, o) \in AgentPaths
    BY <2>2 DEF AgentPaths
  <2>5. LET q == Produced(AgentPath(i, o), l) IN
          q.step = "fetch" /\ q.produced \subseteq AgentPaths
    BY <2>2, <2>3, <2>4 DEF Produced, LocalShape
  <2>6. \/ \E changes : Write(changes, Local(l))
        \/ \E changes : Write(changes, Local(Produced(AgentPath(i, o), l)))
    BY <2>1 DEF Installed
  <2> QED
    BY <1>3, <2>1, <2>2, <2>3, <2>5, <2>6 DEF StepTyped
<1>9. ASSUME NEW o, AgentsFetchFails(i, o)
      PROVE  StepTyped'
  <2> DEFINE l == [run.local EXCEPT !.todo = @ \ {o}, !.failed = @ \cup {o}]
  <2>1. Step("fetch") /\ managed' = managed /\ run' = Local(l)
    BY <1>9 DEF AgentsFetchFails
  <2>2. Loaded /\ HasAgents(i) /\ run.local.produced \subseteq AgentPaths /\ ManagedTyped(managed)
    BY <1>2, <2>1
  <2>3. l.step = "fetch" /\ l.produced = run.local.produced
    BY <2>1, <2>2 DEF Loaded, LocalShape, Step
  <2> HIDE DEF l
  <2> QED
    BY <1>3, <2>1, <2>2, <2>3 DEF StepTyped
<1> QED
  BY <1>4, <1>5, <1>6, <1>7, <1>8, <1>9 DEF AgentsStep

-----------------------------------------------------------------------------
(* Every proxy that the registries let through has a dialect-independent   *)
(* entry which carries its credential, whatever the dialect.               *)
LEMMA RenderedIs ==
  ASSUME NEW edition \in Editions, NEW dialect
  PROVE  LET entries == Rendered(dialect, Context(edition)) IN
         /\ DOMAIN entries \subseteq STRING
         /\ RegistriesLoad(Context(edition)) =>
              \A ns \in DOMAIN entries : CarriesIts(entries[ns])
<1> DEFINE c == Context(edition)
           kept == {p \in Usable(c) : ~Skips(dialect, p)}
           Of(ns) == CHOOSE p \in kept : p.ns = ns
           entries == Rendered(dialect, c)
<1>1. entries = [ns \in {p.ns : p \in kept} |-> renderEntry(Of(ns))]
  BY DEF Rendered
<1>2. ASSUME NEW p \in Usable(c)
      PROVE  /\ ~(p.scheme # "absent" /\ p.from = "file")
             /\ \E l \in c.layers : p \in c.proxies[l]
  BY DEF Usable, mergeRegistries
<1>3. ASSUME NEW p \in Usable(c)
      PROVE  /\ p.ns \in STRING /\ p.from \in {"env", "file", "literal"}
             /\ p.scheme \in {"absent", "none", "bearer", "header", "prefixed", "basic", "env"}
             /\ RegistriesLoad(c) => Admissible(p)
  BY <1>2, CompanyLists DEF RegistriesLoad, RegistryValid
<1>4. ASSUME NEW p \in Usable(c), RegistriesLoad(c)
      PROVE  CarriesIts(renderEntry(p))
  <2> DEFINE e == renderEntry(p)
  <2>1. e.proxy = p /\ e.credential = CarriesCredential(p)
    BY DEF renderEntry
  <2>2. SUFFICES ASSUME HasCredential(p), ~(p.scheme = "env" /\ p.map = "none")
                 PROVE  CarriesCredential(p)
    BY <2>1 DEF CarriesIts
  <2>3. p.scheme # "absent" /\ p.from = "env"
    BY <1>2, <1>3, <1>4, <2>2 DEF HasCredential, Admissible
  <2>4. CASE p.scheme = "env"
    <3>1. ~Remote(p)
      BY <1>3, <1>4, <2>3, <2>4 DEF Admissible
    <3> QED
      BY <2>2, <2>3, <2>4, <3>1 DEF CarriesCredential, StdioEnv
  <2>5. CASE p.scheme # "env"
    <3>1. Remote(p)
      BY <1>3, <1>4, <2>2, <2>3, <2>5 DEF Admissible, HasCredential
    <3> QED
      BY <2>2, <2>3, <2>5, <3>1 DEF CarriesCredential, Headers
  <2> QED
    BY <2>4, <2>5
<1>5. DOMAIN entries \subseteq STRING
  BY <1>1, <1>3
<1>6. ASSUME NEW ns \in DOMAIN entries
      PROVE  Of(ns) \in Usable(c) /\ entries[ns] = renderEntry(Of(ns))
  BY <1>1, <1>6
<1> HIDE DEF entries, Of
<1>7. RegistriesLoad(c) => \A ns \in DOMAIN entries : CarriesIts(entries[ns])
  BY <1>4, <1>6
<1> QED
  BY <1>5, <1>7 DEF entries

(* A run has the lists of an edition.                                      *)
LEMMA RunHasEdition ==
  ASSUME StateInv, InRun
  PROVE  \E edition \in Editions : run.company = Context(edition)
BY DEF StateInv, ContextInv

(* The MCP stage names servers by their namespaces in its JSON file.       *)
LEMMA McpTyped ==
  ASSUME TypeInv, NEW i \in DOMAIN Harnesses, McpStep(i)
  PROVE  StepTyped'
<1> USE DEF TypeInv
<1>1. RunShape(run) /\ InRun /\ At("mcp", i)
  BY DEF AtInv, McpStep, WriteJsonTarget, SaveKeys, WriteTomlTarget, McpFails, Starts, At
<1>2. CASE WriteJsonTarget(i)
  <2> DEFINE p == McpPath(i)
             entries == RenderedHere(i)
             mine == ManagedEntries(entries, JsonOf(p), OwnedAt(p))
             written == IF run.overwrite THEN entries ELSE mine
             keys == {<<p, ns>> : ns \in DOMAIN written}
             local == [Scratch EXCEPT !.step = "save", !.state = managed, !.produced = keys]
  <2>1. managed # Torn /\ managed' = managed /\ p \in JsonPaths
    BY <1>2 DEF WriteJsonTarget, Starts, Loads, JsonPaths
  <2>2. \/ \E changes : Write(changes, NextStage)
        \/ \E changes : Write(changes, Local(local))
    BY <1>2, Zenon DEF WriteJsonTarget
  <2>3. CASE \E changes : Write(changes, NextStage)
    BY <1>1, <2>1, <2>3, LocalAfter, NothingProduced DEF Scratch
  <2>4. CASE \E changes : Write(changes, Local(local))
    <3>1. DOMAIN entries \subseteq STRING
      BY <1>1, RunHasEdition, RenderedIs DEF RenderedHere
    <3>2. DOMAIN mine \subseteq DOMAIN entries
      BY DEF ManagedEntries
    <3> HIDE DEF mine, entries, p
    <3>3. keys \subseteq JsonPaths \X STRING
      BY <2>1, <3>1, <3>2
    <3> HIDE DEF written, keys
    <3>4. local.step = "save" /\ local.produced = keys
      BY DEF Scratch
    <3> HIDE DEF local
    <3>5. /\ run'.local = local
          /\ \A kind, j : At(kind, j)' <=> At(kind, j)
      BY <1>1, <2>4, SameStage
    <3>6. \A kind, j : At(kind, j)' => kind = "mcp"
      BY <1>1, <3>5, OneStage
    <3>7. ProducedTyped'
      BY <3>3, <3>4, <3>5, <3>6 DEF ProducedTyped, Step
    <3> QED
      BY <2>1, <3>7 DEF StepTyped, ManagedTyped, StateShape
  <2> QED
    BY <2>2, <2>3, <2>4
<1>3. CASE SaveKeys(i)
  <2>1. /\ Step("save") /\ run'.local = Scratch
        /\ managed' = [run.local.state EXCEPT
             !.jsonKeys = {k \in @ : k[1] # McpPath(i)} \cup run.local.produced]
    BY <1>1, <1>3, LocalAfter DEF SaveKeys
  <2>2. Loaded /\ run.local.produced \subseteq JsonPaths \X STRING /\ ManagedTyped(managed)
    BY <1>1, <2>1 DEF StepTyped, ProducedTyped, StateInv, LoadInv, Unloaded, Step
  <2>3. ManagedTyped(managed')
    BY <2>1, <2>2 DEF Loaded, ManagedTyped, StateShape
  <2> QED
    BY <2>1, <2>3 DEF StepTyped, ProducedTyped, Step, Scratch
<1>4. CASE WriteTomlTarget(i)
  BY <1>1, <1>4, LocalAfter, NothingProduced DEF WriteTomlTarget, Scratch
<1>5. CASE McpFails(i)
  BY <1>1, <1>5, LocalAfter, NothingProduced DEF McpFails, Scratch
<1> QED
  BY <1>2, <1>3, <1>4, <1>5 DEF McpStep

(* So does every step that works on files.                                 *)
LEMMA FileStepTyped ==
  ASSUME TypeInv, FileStep
  PROVE  StepTyped'
<1>1. RunShape(run) /\ StepTyped
  BY DEF TypeInv, AtInv
<1>2. ASSUME NEW i, SyncInstructions(i)
      PROVE  StepTyped'
  <2>1. run'.local = [Scratch EXCEPT !.step = "hooks"] /\ managed' = managed
    BY <1>1, <1>2, LocalAfter DEF SyncInstructions
  <2>2. run'.local.step = "hooks"
    BY <2>1 DEF Scratch
  <2> QED
    BY <1>1, <2>1, <2>2, NothingProduced
<1>3. ASSUME managed' = managed, run'.local = Scratch
      PROVE  StepTyped'
  BY <1>1, <1>3, NothingProduced DEF Scratch
<1>4. CASE StageFails \/ ShellEnds \/ RegistryFails
  BY <1>1, <1>3, <1>4, LocalAfter DEF StageFails, ShellEnds, RegistryFails, IdleRun
<1>5. ASSUME NEW i, SyncHooks(i)
      PROVE  StepTyped'
  BY <1>1, <1>3, <1>5, LocalAfter DEF SyncHooks
<1>6. CASE ShellStart
  <2>1. run'.local = [Scratch EXCEPT !.step = "files", !.todo = RcFiles] /\ managed' = managed
    BY <1>1, <1>6, LocalAfter DEF ShellStart
  <2>2. run'.local.step = "files"
    BY <2>1 DEF Scratch
  <2> QED
    BY <1>1, <2>1, <2>2, NothingProduced
<1>7. ASSUME NEW p, NEW create, ShellFile(p, create)
      PROVE  StepTyped'
  <2>1. /\ managed' = managed /\ run.local.step = "files"
        /\ run'.local = [run.local EXCEPT !.todo = @ \ {p}]
    BY <1>1, <1>7, LocalAfter DEF ShellFile, Step
  <2>2. run'.local.step = run.local.step
    BY <2>1
  <2> QED
    BY <1>1, <2>1, <2>2, NothingProduced
<1> QED
  BY <1>2, <1>4, <1>5, <1>6, <1>7, AgentsTyped, McpTyped DEF FileStep

-----------------------------------------------------------------------------
(* The skills stages: what they own is of sources and adapters there are.  *)
LEMMA SkillsTyped ==
  ASSUME NEW l, RunShape(run), run' = Local(l), l.step \in {"clear", "stale", "add"},
         l.produced \subseteq Sources \X STRING \X Adapters, ManagedTyped(managed')
  PROVE  StepTyped'
<1>1. run'.local = l
  BY LocalAfter
<1> QED
  BY <1>1 DEF StepTyped, ProducedTyped, Step

(* The steps of both phases.                                               *)
LEMMA SkillsStepTyped ==
  ASSUME TypeInv, RunStep, ~FileStep
  PROVE  StepTyped'
<1> DEFINE l == run.local
           Owned == Sources \X STRING \X Adapters
<1>1. RunShape(run) /\ StepTyped /\ (managed # Torn => ManagedTyped(managed))
  BY DEF TypeInv, AtInv, StepTyped
<1>2. l.step \in {"clear", "stale", "add"} =>
        Loaded /\ ManagedTyped(managed) /\ l.produced \subseteq Owned
  BY <1>1 DEF TypeInv, StepTyped, ProducedTyped, StateInv, LoadInv, Unloaded, Step
<1>3. ASSUME NEW kind, NEW i, SkillsSkipped(kind, i)
      PROVE  StepTyped'
  BY <1>1, <1>3, LocalAfter, NothingProduced DEF SkillsSkipped, Scratch
<1>4. ASSUME NEW kind, NEW i, NEW step \in {"clear", "stale", "add"}, NEW todo,
             SkillsStart(kind, i, step, todo)
      PROVE  StepTyped'
  <2> DEFINE local == [Scratch EXCEPT !.step = step, !.state = managed,
                         !.produced = managed.skills, !.todo = todo]
  <2>1. run' = Local(local) /\ managed' = managed /\ ManagedTyped(managed)
    BY <1>1, <1>4 DEF SkillsStart, SkillsStage, Loads
  <2>2. local.step = step /\ local.produced = managed.skills
    BY DEF Scratch
  <2> HIDE DEF local
  <2> QED
    BY <1>1, <2>1, <2>2, SkillsTyped DEF ManagedTyped
<1>5. ASSUME NEW kind, NEW i, NEW step \in {"clear", "stale", "add"}, SkillsSave(kind, i, step)
      PROVE  StepTyped'
  <2>1. /\ l.step = step /\ run'.local = Scratch
        /\ managed' = [l.state EXCEPT !.skills = l.produced]
    BY <1>1, <1>5, LocalAfter DEF SkillsSave, Step
  <2>2. ManagedTyped(managed')
    BY <1>2, <2>1 DEF Loaded, ManagedTyped, StateShape
  <2> QED
    BY <2>1, <2>2 DEF StepTyped, ProducedTyped, Step, Scratch
<1>6. CASE RemoveStep
  <2>1. ASSUME NEW adapters, Clear(adapters)
        PROVE  StepTyped'
    <3>1. PICK removed \in BOOLEAN :
            LET alone == IF removed \/ adapters # Adapters \/ Cardinality(Adapters) = 1 THEN {}
                         ELSE {{a} : a \in Adapters}
                state == [l.state EXCEPT !.skills = Disowned(@, adapters)]
                todo == (l.todo \ {adapters}) \cup alone
            IN  /\ managed' = IF removed THEN state ELSE managed
                /\ run' = Local([l EXCEPT !.todo = todo,
                                   !.state = IF removed THEN state ELSE @,
                                   !.produced = IF removed THEN state.skills ELSE @])
      BY <2>1 DEF Clear
    <3> DEFINE alone == IF removed \/ adapters # Adapters \/ Cardinality(Adapters) = 1 THEN {}
                        ELSE {{a} : a \in Adapters}
               state == [l.state EXCEPT !.skills = Disowned(@, adapters)]
               todo == (l.todo \ {adapters}) \cup alone
               local == [l EXCEPT !.todo = todo,
                           !.state = IF removed THEN state ELSE @,
                           !.produced = IF removed THEN state.skills ELSE @]
    <3>2. run' = Local(local) /\ managed' = IF removed THEN state ELSE managed
      BY <3>1
    <3>3. Loaded /\ ManagedTyped(managed) /\ l.produced \subseteq Owned /\ l.step = "clear"
      BY <1>2, <2>1 DEF Clear, Step
    <3>4. ManagedTyped(state)
      BY <3>3 DEF Loaded, ManagedTyped, StateShape, Disowned
    <3> HIDE DEF state, todo, alone
    <3>5. local.step = "clear" /\ local.produced = IF removed THEN state.skills ELSE l.produced
      BY <3>3 DEF Loaded, LocalShape
    <3> HIDE DEF local
    <3>6. local.produced \subseteq Owned /\ ManagedTyped(managed')
      BY <3>2, <3>3, <3>4, <3>5 DEF ManagedTyped
    <3> QED
      BY <1>1, <3>2, <3>5, <3>6, SkillsTyped
  <2>2. ASSUME NEW source, PickStale(source)
        PROVE  StepTyped'
    <3> DEFINE names == skillsOfSource(source)
               dropped == {o \in l.produced : o[1] = source}
               picked == [l EXCEPT !.names = names, !.synced = {source}]
               given == [l EXCEPT !.todo = @ \ {source}, !.produced = @ \ dropped]
               left == [l EXCEPT !.todo = @ \ {source}]
    <3>1. managed' = managed /\ (run' = Local(picked) \/ run' = Local(given) \/ run' = Local(left))
      BY <2>2 DEF PickStale
    <3>2. Loaded /\ ManagedTyped(managed) /\ l.produced \subseteq Owned /\ l.step = "stale"
      BY <1>2, <2>2 DEF PickStale, Step
    <3> HIDE DEF names
    <3>3. /\ picked.step = "stale" /\ picked.produced = l.produced
          /\ given.step = "stale" /\ given.produced = l.produced \ dropped
          /\ left.step = "stale" /\ left.produced = l.produced
      BY <3>2 DEF Loaded, LocalShape
    <3> HIDE DEF picked, given, left
    <3>4. l.produced \ dropped \subseteq Owned
      BY <3>2
    <3> QED
      BY <1>1, <3>1, <3>2, <3>3, <3>4, SkillsTyped
  <2>3. ASSUME NEW source, NEW name, RemoveStale(source, name)
        PROVE  StepTyped'
    <3>1. PICK removed \in BOOLEAN :
            LET left == l.names \ {name}
                failed == IF removed THEN l.failed ELSE l.failed \cup {source}
                dropped == IF left = {} /\ source \notin failed
                           THEN {o \in l.produced : o[1] = source} ELSE {}
            IN  run' = Local([l EXCEPT !.names = left, !.failed = failed,
                                !.produced = @ \ dropped,
                                !.synced = IF left = {} THEN {} ELSE @,
                                !.todo = IF left = {} THEN @ \ {source} ELSE @])
      BY <2>3 DEF RemoveStale
    <3> DEFINE left == l.names \ {name}
               failed == IF removed THEN l.failed ELSE l.failed \cup {source}
               dropped == IF left = {} /\ source \notin failed
                          THEN {o \in l.produced : o[1] = source} ELSE {}
               local == [l EXCEPT !.names = left, !.failed = failed, !.produced = @ \ dropped,
                           !.synced = IF left = {} THEN {} ELSE @,
                           !.todo = IF left = {} THEN @ \ {source} ELSE @]
    <3>2. run' = Local(local) /\ managed' = managed
      BY <2>3, <3>1 DEF RemoveStale
    <3>3. Loaded /\ ManagedTyped(managed) /\ l.produced \subseteq Owned /\ l.step = "stale"
      BY <1>2, <2>3 DEF RemoveStale, Step
    <3> HIDE DEF left, failed, dropped
    <3>4. local.step = "stale" /\ local.produced = l.produced \ dropped
      BY <3>3 DEF Loaded, LocalShape
    <3> HIDE DEF local
    <3>5. local.produced \subseteq Owned
      BY <3>3, <3>4
    <3> QED
      BY <1>1, <3>2, <3>3, <3>4, <3>5, SkillsTyped
  <2>4. CASE RemoveStart
    BY <1>4, <2>4 DEF RemoveStart
  <2>5. ASSUME NEW step \in {"clear", "stale"}, SkillsSave("remove", 0, step)
        PROVE  StepTyped'
    BY <1>5, <2>5
  <2> QED
    BY <1>3, <1>6, <2>1, <2>2, <2>3, <2>4, <2>5 DEF RemoveStep
<1>7. ASSUME NEW i \in DOMAIN Harnesses, SkillsStep(i)
      PROVE  StepTyped'
  <2>1. CASE InstallStart(i)
    BY <1>4, <2>1 DEF InstallStart
  <2>2. ASSUME NEW local, run' = Local(local), managed' = managed, Step("add"),
               local.step = "add", local.produced \subseteq Owned
        PROVE  StepTyped'
    BY <1>1, <1>2, <2>2, SkillsTyped DEF Step
  <2>3. ASSUME NEW entry, AddFails(i, entry)
        PROVE  StepTyped'
    <3> DEFINE local == [l EXCEPT !.todo = @ \ {entry}]
    <3>1. run' = Local(local) /\ managed' = managed /\ Step("add")
      BY <2>3 DEF AddFails
    <3>2. local.step = "add" /\ local.produced \subseteq Owned
      BY <1>2, <3>1 DEF Loaded, LocalShape, Step
    <3> HIDE DEF local
    <3> QED
      BY <2>2, <3>1, <3>2
  <2>4. ASSUME NEW entry \in Entries(run.company), Add(i, entry)
        PROVE  StepTyped'
    <3>1. PICK stamped :
            run' = Local([l EXCEPT !.todo = @ \ {entry},
                            !.produced = Moved(@, entry, Adapter(i)),
                            !.names = staleSkills(skillsOfSource(entry[1]) \cup stamped, stamped)])
      BY <2>4 DEF Add
    <3> DEFINE local == [l EXCEPT !.todo = @ \ {entry},
                           !.produced = Moved(@, entry, Adapter(i)),
                           !.names = staleSkills(skillsOfSource(entry[1]) \cup stamped, stamped)]
    <3>2. run' = Local(local) /\ managed' = managed /\ Step("add") /\ InRun /\ entry[2] # Sha
      BY <2>4, <3>1 DEF Add, At
    <3>3. entry \in Sources \X (STRING \cup {Sha})
      BY <2>4, <3>2, RunHasEdition, CompanyLists DEF TypeInv
    <3>4. <<entry[1], entry[2], Adapter(i)>> \in Owned
      BY <3>2, <3>3 DEF Adapters
    <3>5. local.step = "add" /\ local.produced = Moved(l.produced, entry, Adapter(i))
      BY <1>2, <3>2 DEF Loaded, LocalShape, Step
    <3> HIDE DEF local
    <3>6. local.produced \subseteq Owned
      BY <1>2, <3>2, <3>4, <3>5 DEF Moved, Step
    <3> QED
      BY <2>2, <3>2, <3>5, <3>6
  <2>5. ASSUME NEW name, RemoveDeleted(i, name)
        PROVE  StepTyped'
    <3> DEFINE local == [l EXCEPT !.names = @ \ {name}]
    <3>1. run' = Local(local) /\ managed' = managed /\ Step("add")
      BY <2>5 DEF RemoveDeleted
    <3>2. local.step = "add" /\ local.produced \subseteq Owned
      BY <1>2, <3>1 DEF Loaded, LocalShape, Step
    <3> HIDE DEF local
    <3> QED
      BY <2>2, <3>1, <3>2
  <2> QED
    BY <1>3, <1>5, <1>7, <2>1, <2>3, <2>4, <2>5 DEF SkillsStep
<1> QED
  BY <1>6, <1>7 DEF RunStep

(* Every step of the machine keeps the types of the state.                 *)
LEMMA StepTypedNext ==
  ASSUME TypeInv, [MachineNext]_machineVars
  PROVE  StepTyped'
<1>1. StepTyped
  BY DEF TypeInv
<1>2. CASE RunStep
  BY <1>2, FileStepTyped, SkillsStepTyped
<1>3. CASE Crash
  <2>1. run'.local = Scratch /\ managed' \in {managed, Torn}
    BY <1>3 DEF Crash, IdleRun
  <2> QED
    BY <1>1, <2>1 DEF StepTyped, ProducedTyped, Unloaded, Step, Scratch
<1>4. CASE UNCHANGED <<managed, run>>
  BY <1>1, <1>4 DEF StepTyped, ProducedTyped, Unloaded, Step, At, InRun
<1>5. CASE RepairState
  <2>1. managed' = EmptyState /\ run' = run
    BY <1>5 DEF RepairState
  <2>2. ManagedTyped(managed')
    BY <2>1 DEF EmptyState, ManagedTyped, StateShape
  <2> QED
    BY <1>1, <2>1, <2>2 DEF StepTyped, ProducedTyped, Step, At, InRun
<1>6. ASSUME NEW overwrite, StartRun(overwrite)
      PROVE  StepTyped'
  <2>1. run'.local = Scratch /\ managed' = managed
    BY <1>6 DEF StartRun, IdleRun
  <2> QED
    BY <1>1, <2>1, NothingProduced DEF Scratch
<1> QED
  BY <1>2, <1>3, <1>4, <1>5, <1>6
  DEF MachineNext, RestoreBackups, EditCompany, EditHome, machineVars, homeVars

-----------------------------------------------------------------------------
(* The files, and the backup set, fit.                                     *)
KnownPaths == AgentPaths \cup TextPaths \cup TomlPaths \cup JsonPaths

FilesFit(once) ==
  /\ KnownPaths \subseteq DOMAIN home
  /\ \A p \in DOMAIN home : home[p] = Absent \/ FitsTo(once, p, home[p])
  /\ \A p \in DOMAIN home \cap DOMAIN backup : FitsTo(once, p, backup[p])

(* A symbolic link is neither lines nor JSON.                              *)
LinkIsNoDocument == \A p, file : TextFits(p, file) \/ JsonFits(file) => file # Link

(* A copy of a file that fits fits: it is the file.                        *)
LEMMA CopyFits ==
  ASSUME LinkIsNoDocument, NEW once, NEW p, NEW file, FitsTo(once, p, file)
  PROVE  FitsTo(once, p, Content(file))
<1>1. CASE IsBlock(p) \/ IsJson(p)
  <2>1. file # Link
    BY <1>1 DEF FitsTo, Fits, LinkIsNoDocument
  <2> QED
    BY <2>1 DEF Content
<1>2. CASE ~(IsBlock(p) \/ IsJson(p))
  BY <1>2 DEF FitsTo, Fits, IsBlock
<1> QED
  BY <1>1, <1>2

(* A Write of files that fit keeps the files and the backup set so.        *)
LEMMA WriteFits ==
  ASSUME LinkIsNoDocument, NEW once, FilesFit(once), NEW changes, NEW next, Write(changes, next),
         \A p \in DOMAIN changes \cap DOMAIN home :
           changes[p] = Absent \/ FitsTo(once, p, changes[p])
  PROVE  FilesFit(once)'
<1> DEFINE changed == {p \in DOMAIN changes : home[p] # changes[p]}
           copied == Copied(changed)
           older == IF run.backed = {} THEN {} ELSE DOMAIN backup
<1>1. /\ home' = [p \in DOMAIN home |-> IF p \in changed THEN changes[p] ELSE home[p]]
      /\ backup' = IF copied = {} THEN backup
                   ELSE [p \in copied \cup older |-> IF p \in copied THEN Content(home[p])
                                                    ELSE backup[p]]
  BY DEF Write
<1>2. \A p \in copied : home[p] # Absent
  BY DEF Copied
<1>3. changed \subseteq DOMAIN changes
  OBVIOUS
<1> HIDE DEF changed, copied, older
<1>4. DOMAIN home' = DOMAIN home
  BY <1>1
<1>5. ASSUME NEW p \in DOMAIN home
      PROVE  home'[p] = Absent \/ FitsTo(once, p, home'[p])
  BY <1>1, <1>3 DEF FilesFit
<1>6. ASSUME NEW p \in DOMAIN home, p \in DOMAIN backup'
      PROVE  FitsTo(once, p, backup'[p])
  <2>1. CASE p \in copied
    <3>1. backup'[p] = Content(home[p])
      BY <1>1, <2>1
    <3>2. FitsTo(once, p, home[p])
      BY <1>2, <2>1 DEF FilesFit
    <3> QED
      BY <3>1, <3>2, CopyFits
  <2>2. CASE p \notin copied
    BY <1>1, <1>6, <2>2 DEF FilesFit, older
  <2> QED
    BY <2>1, <2>2
<1> QED
  BY <1>4, <1>5, <1>6 DEF FilesFit

-----------------------------------------------------------------------------
(* What a step of a run without --overwrite-local leaves of a file that an *)
(* engineer has: everything around the block, the hooks, and the servers   *)
(* that wagglebot does not own.                                            *)
KeepsForeign(p, file) ==
  /\ IsBlock(p) => outsideBlock(file) = outsideBlock(home[p])
  /\ IsJson(p) =>
       /\ MyHooks(file) = MyHooks(home[p])
       /\ \A ns \in Names(home[p]) :
            home[p].servers[ns].by = "engineer" /\ <<p, ns>> \notin managed.jsonKeys =>
              ns \in Names(file) /\ file.servers[ns] = home[p].servers[ns]

(* The changes a step may make: to files that fit, with what is foreign    *)
(* kept.                                                                   *)
GoodFile(once, p, file) ==
  /\ file = Absent \/ FitsTo(once, p, file)
  /\ once /\ ~run.overwrite /\ home[p] # Absent => KeepsForeign(p, file)

GoodStep(once) ==
  \/ UNCHANGED <<home, backup>>
  \/ \E changes, next :
       /\ Write(changes, next)
       /\ \A p \in DOMAIN changes \cap DOMAIN home : GoodFile(once, p, changes[p])

(* Two ways to be one: no change, or one good file.                        *)
LEMMA OneGoodFile ==
  ASSUME NEW once, NEW next, NEW p, NEW file,
         Write(NoChange, next) \/ (Write(Only(p, file), next) /\ GoodFile(once, p, file))
  PROVE  GoodStep(once)
<1>1. CASE Write(NoChange, next)
  <2>1. DOMAIN NoChange = {}
    BY DEF NoChange
  <2> QED
    BY <1>1, <2>1 DEF GoodStep
<1>2. CASE Write(Only(p, file), next) /\ GoodFile(once, p, file)
  <2>1. DOMAIN Only(p, file) = {p} /\ Only(p, file)[p] = file
    BY DEF Only
  <2> QED
    BY <1>2, <2>1 DEF GoodStep
<1> QED
  BY <1>1, <1>2

(* What is not written by form is not typed by it.                         *)
LEMMA AgentFilesAreFree ==
  ASSUME NEW once, NEW p \in AgentPaths, NEW file
  PROVE  GoodFile(once, p, file)
<1>1. ~IsBlock(p) /\ ~IsJson(p) /\ p \notin TomlPaths
  BY HarnessTable DEF IsBlock, IsJson
<1> QED
  BY <1>1 DEF GoodFile, FitsTo, Fits, KeepsForeign

(* The text of a file with a block.                                        *)
LEMMA TextOfFits ==
  ASSUME NEW once, FilesFit(once), NEW p \in TextPaths \cup TomlPaths
  PROVE  /\ p \in DOMAIN home
         /\ TextOf(p) = <<>> \/ FitsTo(once, p, TextOf(p))
         /\ home[p] # Absent => TextOf(p) = home[p]
BY DEF FilesFit, KnownPaths, TextOf

(* A block rendered into a text file, the instructions or the shell.       *)
LEMMA RenderedIsGood ==
  ASSUME NEW once, FilesFit(once), NEW p \in TextPaths \cup TomlPaths, NEW doc,
         ~Malformed(doc), doc = TextOf(p) \/ (run.overwrite /\ doc = <<>>),
         NEW c, ContentFits(p, c)
  PROVE  GoodFile(once, p, renderManagedBlock(doc, c))
<1>1. doc = <<>> \/ FitsTo(once, p, doc)
  BY TextOfFits
<1>2. /\ FitsTo(once, p, renderManagedBlock(doc, c))
      /\ outsideBlock(renderManagedBlock(doc, c)) = outsideBlock(doc)
  BY <1>1, RenderFits
<1>3. ~IsJson(p)
  BY HarnessTable DEF IsJson
<1>4. ~run.overwrite /\ home[p] # Absent => doc = home[p]
  BY TextOfFits
<1> QED
  BY <1>2, <1>3, <1>4 DEF GoodFile, KeepsForeign

(* "Instructions" of a harness.                                            *)
LEMMA InstructionsAreGood ==
  ASSUME NEW once, FilesFit(once), NEW i \in DOMAIN Harnesses, SyncInstructions(i)
  PROVE  GoodStep(once)
<1> DEFINE p == Harnesses[i].instructions
           doc == IF run.overwrite THEN <<>> ELSE TextOf(p)
           next == renderManagedBlock(doc, Instructions(run.company))
           fails == ~run.overwrite /\ Malformed(TextOf(p))
<1>1. Write(IF fails THEN NoChange ELSE Only(p, next), Local([Scratch EXCEPT !.step = "hooks"]))
  BY DEF SyncInstructions
<1>2. p \in TextPaths
  BY DEF TextPaths
<1>3. ContentFits(p, Instructions(run.company))
  BY <1>2, HarnessTable DEF ContentFits
<1>4. ~fails => ~Malformed(doc)
  <2>1. ~Malformed(<<>>)
    BY DEF Malformed, HasBlock, Positions
  <2> QED
    BY <2>1
<1> HIDE DEF p
<1>5. ~fails => GoodFile(once, p, next)
  BY <1>2, <1>3, <1>4, RenderedIsGood
<1> HIDE DEF next, fails
<1> QED
  BY <1>1, <1>5, OneGoodFile

(* The block of a startup file of a shell.                                 *)
LEMMA ShellIsGood ==
  ASSUME NEW once, FilesFit(once), NEW p \in RcFiles, NEW create, ShellFile(p, create)
  PROVE  GoodStep(once)
<1> DEFINE doc == TextOf(p)
           next == renderManagedBlock(doc, Shell)
           skipped == (home[p] = Absent /\ ~create) \/ Malformed(doc)
<1>1. Write(IF skipped THEN NoChange ELSE Only(p, next),
            Local([run.local EXCEPT !.todo = @ \ {p}]))
  BY DEF ShellFile
<1>2. p \in TextPaths
  BY DEF TextPaths
<1>3. ContentFits(p, Shell)
  BY <1>2, HarnessTable DEF ContentFits
<1>4. ~skipped => GoodFile(once, p, next)
  <2> HIDE DEF doc
  <2> QED
    BY <1>2, <1>3, RenderedIsGood DEF doc
<1> HIDE DEF next, skipped
<1> QED
  BY <1>1, <1>4, OneGoodFile

-----------------------------------------------------------------------------
(* A JSON file at its path, or the empty one for it.                       *)
LEMMA JsonOfFits ==
  ASSUME NEW once, FilesFit(once), NEW p \in JsonPaths
  PROVE  /\ p \in DOMAIN home /\ ~IsBlock(p) /\ p \notin TomlPaths
         /\ JsonFits(JsonOf(p))
         /\ home[p] # Absent => JsonOf(p) = home[p]
<1>1. p \in DOMAIN home
  BY DEF FilesFit, KnownPaths
<1>2. ~IsBlock(p) /\ p \notin TomlPaths /\ IsJson(p)
  BY HarnessTable DEF IsBlock, IsJson
<1>3. JsonFits(EmptyJson)
  <2>1. <<>> \in Seq(Lines(<<>>))
    BY EmptySeq
  <2> QED
    BY <2>1 DEF JsonFits, EmptyJson, Names
<1>4. home[p] # Absent => JsonFits(home[p])
  BY <1>1, <1>2 DEF FilesFit, FitsTo, Fits
<1> QED
  BY <1>1, <1>2, <1>3, <1>4 DEF JsonOf

(* "Hooks" of a harness.                                                   *)
LEMMA HooksAreGood ==
  ASSUME NEW once, FilesFit(once), NEW i \in DOMAIN Harnesses, SyncHooks(i)
  PROVE  GoodStep(once)
<1> DEFINE p == Harnesses[i].hooks
           entry == <<"marked", Hook>>
           hooks == IF run.overwrite THEN <<entry>> ELSE mergeHookEntries(JsonOf(p).hooks, entry)
           doc == [JsonOf(p) EXCEPT !.hooks = hooks]
           skipped == p = Absent \/ JsonOf(p).form # "object"
<1>1. Write(IF skipped THEN NoChange ELSE Only(p, doc), NextStage)
  BY DEF SyncHooks
<1>2. CASE p = Absent
  BY <1>1, <1>2, OneGoodFile
<1>3. CASE p # Absent
  <2>1. p \in JsonPaths
    BY <1>3 DEF JsonPaths
  <2>2. IsJson(p)
    BY <2>1 DEF IsJson
  <2> HIDE DEF p
  <2>3. /\ p \in DOMAIN home /\ ~IsBlock(p) /\ p \notin TomlPaths
        /\ JsonFits(JsonOf(p))
        /\ home[p] # Absent => JsonOf(p) = home[p]
    BY <2>1, JsonOfFits
  <2> DEFINE old == JsonOf(p)
  <2>4. old.hooks \in Seq(Lines(old.hooks))
    BY <2>3 DEF JsonFits
  <2> HIDE DEF old
  <2>5. entry[1] = "marked" /\ <<entry>> \in Seq({entry})
    OBVIOUS
  <2> HIDE DEF entry
  <2>6. /\ \E T : mergeHookEntries(old.hooks, entry) \in Seq(T)
        /\ Mine1(mergeHookEntries(old.hooks, entry)) = Mine1(old.hooks)
    BY <2>4, <2>5, HooksMerge
  <2>7. /\ \E T : hooks \in Seq(T)
        /\ ~run.overwrite => Mine1(hooks) = Mine1(old.hooks)
    BY <2>5, <2>6 DEF old
  <2> HIDE DEF hooks
  <2>8. JsonFits(doc) /\ doc.servers = old.servers /\ doc.hooks = hooks
    BY <2>3, <2>7, JsonHooksFit DEF old
  <2> HIDE DEF doc
  <2>9. MyHooks(doc) = Mine1(hooks) /\ MyHooks(old) = Mine1(old.hooks)
    BY <2>8 DEF MyHooks, Mine1
  <2>10. FitsTo(once, p, doc)
    BY <2>3, <2>8 DEF FitsTo, Fits
  <2>11. ~run.overwrite /\ home[p] # Absent => KeepsForeign(p, doc)
    BY <2>3, <2>7, <2>8, <2>9 DEF KeepsForeign, Names, old
  <2>12. GoodFile(once, p, doc)
    BY <2>10, <2>11 DEF GoodFile
  <2> HIDE DEF skipped
  <2> QED
    BY <1>1, <2>12, OneGoodFile
<1> QED
  BY <1>2, <1>3

-----------------------------------------------------------------------------
(* The JSON file of the MCP stage: a server of the engineer stays unless   *)
(* its name is recorded as wagglebot's.                                    *)
LEMMA JsonTargetIsGood ==
  ASSUME NEW once, FilesFit(once), TypeInv, NEW i \in DOMAIN Harnesses, WriteJsonTarget(i)
  PROVE  GoodStep(once)
<1> DEFINE p == McpPath(i)
           old == JsonOf(p)
           entries == RenderedHere(i)
           owned == OwnedAt(p)
           mine == ManagedEntries(entries, old, owned)
           written == IF run.overwrite THEN entries ELSE mine
           doc == IF run.overwrite THEN [old EXCEPT !.servers = entries]
                  ELSE mergeManagedSection(old, mine, owned)
           keys == {<<p, ns>> : ns \in DOMAIN written}
<1>1. \/ Write(NoChange, NextStage)
      \/ Write(Only(p, doc), Local([Scratch EXCEPT !.step = "save", !.state = managed,
                                      !.produced = keys]))
  BY Zenon DEF WriteJsonTarget
<1>2. p \in JsonPaths /\ RegistriesLoad(run.company) /\ InRun
  BY DEF WriteJsonTarget, Starts, JsonPaths, At
<1>3. IsJson(p)
  BY <1>2 DEF IsJson
<1> HIDE DEF p
<1>4. /\ p \in DOMAIN home /\ ~IsBlock(p) /\ p \notin TomlPaths
      /\ JsonFits(old)
      /\ home[p] # Absent => old = home[p]
  BY <1>2, JsonOfFits
<1> HIDE DEF old
<1>5. \A ns \in DOMAIN entries : CarriesIts(entries[ns])
  BY <1>2, RunHasEdition, RenderedIs DEF RenderedHere, TypeInv
<1> HIDE DEF entries, owned
<1>6. /\ DOMAIN mine \subseteq DOMAIN entries
      /\ \A ns \in DOMAIN mine : mine[ns] = entries[ns] /\ (ns \in owned \/ ns \notin Names(old))
  BY DEF ManagedEntries
<1> HIDE DEF mine
<1> DEFINE kept == Names(old) \ (owned \ DOMAIN mine)
           merged == [ns \in kept \cup DOMAIN mine |->
                        IF ns \in DOMAIN mine THEN mine[ns] ELSE old.servers[ns]]
           servers == IF run.overwrite THEN entries ELSE merged
<1>7. doc = [old EXCEPT !.servers = servers]
  BY DEF mergeManagedSection
<1>8. ASSUME NEW ns \in DOMAIN servers
      PROVE  CarriesIts(servers[ns])
  <2>1. CASE run.overwrite
    BY <1>5, <1>8, <2>1
  <2>2. CASE ~run.overwrite
    <3>1. ns \in DOMAIN mine => servers[ns] = entries[ns] /\ ns \in DOMAIN entries
      BY <1>6, <2>2
    <3>2. ns \notin DOMAIN mine => servers[ns] = old.servers[ns] /\ ns \in Names(old)
      BY <1>8, <2>2
    <3> QED
      BY <1>4, <1>5, <3>1, <3>2 DEF JsonFits
  <2> QED
    BY <2>1, <2>2
<1>9. ASSUME ~run.overwrite, NEW ns \in Names(old), ns \notin owned
      PROVE  ns \in DOMAIN servers /\ servers[ns] = old.servers[ns]
  BY <1>6, <1>9
<1> HIDE DEF servers, doc
<1>10. JsonFits(doc) /\ doc.servers = servers /\ doc.hooks = old.hooks
  BY <1>4, <1>7, <1>8, JsonServersFit
<1>11. FitsTo(once, p, doc)
  BY <1>4, <1>10 DEF FitsTo, Fits
<1>12. \A ns : ns \in owned => <<p, ns>> \in managed.jsonKeys
  <2>1. managed # Torn
    BY DEF WriteJsonTarget, Starts, Loads
  <2>2. managed.jsonKeys \subseteq JsonPaths \X STRING
    BY <2>1 DEF TypeInv, StepTyped, ManagedTyped
  <2>3. ASSUME NEW ns \in owned
        PROVE  <<p, ns>> \in managed.jsonKeys
    <3>1. PICK k \in managed.jsonKeys : k[1] = p /\ k[2] = ns
      BY <2>3 DEF owned, OwnedAt
    <3>2. k = <<k[1], k[2]>>
      BY <2>2
    <3> QED
      BY <3>1, <3>2
  <2> QED
    BY <2>3
<1>13. ASSUME ~run.overwrite, home[p] # Absent
       PROVE  KeepsForeign(p, doc)
  <2>1. MyHooks(doc) = MyHooks(home[p])
    BY <1>4, <1>10, <1>13 DEF MyHooks
  <2>2. ASSUME NEW ns \in Names(home[p]), <<p, ns>> \notin managed.jsonKeys
        PROVE  ns \in Names(doc) /\ doc.servers[ns] = home[p].servers[ns]
    BY <1>4, <1>9, <1>10, <1>12, <1>13, <2>2 DEF Names
  <2> QED
    BY <1>4, <2>1, <2>2 DEF KeepsForeign
<1>14. GoodFile(once, p, doc)
  BY <1>11, <1>13 DEF GoodFile
<1> QED
  BY <1>1, <1>14, OneGoodFile

(* And the TOML file.                                                      *)
LEMMA TomlTargetIsGood ==
  ASSUME NEW once, FilesFit(once), TypeInv, NEW i \in DOMAIN Harnesses, WriteTomlTarget(i)
  PROVE  GoodStep(once)
<1> DEFINE p == McpPath(i)
           text == TextOf(p)
           entries == RenderedHere(i)
           kept == [ns \in {n \in DOMAIN entries :
                              run.overwrite \/ ~definesTable(outsideBlock(text), n)} |-> entries[ns]]
           skipped == DOMAIN kept = {} /\ Positions(text, "begin") = {} /\ ~run.overwrite
           fails == ~run.overwrite /\ Malformed(text)
           doc == TomlDoc(text, kept)
<1>1. Write(IF skipped \/ fails \/ doc = text THEN NoChange ELSE Only(p, doc), NextStage)
  BY DEF WriteTomlTarget
<1>2. p \in TomlPaths /\ RegistriesLoad(run.company) /\ InRun
  BY DEF WriteTomlTarget, Starts, TomlPaths, At
<1> HIDE DEF p
<1>3. \A ns \in DOMAIN entries : CarriesIts(entries[ns])
  BY <1>2, RunHasEdition, RenderedIs DEF RenderedHere, TypeInv
<1> HIDE DEF entries
<1>4. ContentFits(p, kept)
  BY <1>3 DEF ContentFits
<1> HIDE DEF kept
<1>5. /\ text = <<>> \/ FitsTo(once, p, text)
      /\ home[p] # Absent => text = home[p]
  BY <1>2, TextOfFits
<1>6. ~IsJson(p) /\ p \in TextPaths \cup TomlPaths
  BY <1>2, HarnessTable DEF IsJson
<1>7. CASE run.overwrite
  <2> DEFINE block == IF DOMAIN kept = {} THEN <<>> ELSE Block(kept)
  <2>1. doc = removeTomlCategory(text) \o block /\ block \in {<<>>, Block(kept)}
    BY <1>7 DEF TomlDoc
  <2> HIDE DEF block, text
  <2>2. FitsTo(once, p, removeTomlCategory(text) \o block)
    BY <1>2, <1>4, <1>5, <2>1, CategoryFits
  <2>3. GoodFile(once, p, doc)
    BY <1>7, <2>1, <2>2 DEF GoodFile
  <2> HIDE DEF doc, skipped, fails
  <2> QED
    BY <1>1, <2>3, OneGoodFile
<1>8. CASE ~run.overwrite /\ ~Malformed(text)
  <2>1. CASE DOMAIN kept = {}
    <3>1. doc = removeManagedBlock(text)
      BY <1>8, <2>1 DEF TomlDoc
    <3> HIDE DEF text, doc
    <3>2. /\ FitsTo(once, p, doc)
          /\ once /\ p \in TomlPaths => outsideBlock(doc) = outsideBlock(text)
      BY <1>5, <1>6, <1>8, <3>1, RemovalFits
    <3>3. GoodFile(once, p, doc)
      BY <1>2, <1>5, <1>6, <3>2 DEF GoodFile, KeepsForeign
    <3> HIDE DEF skipped, fails
    <3> QED
      BY <1>1, <3>3, OneGoodFile
  <2>2. CASE DOMAIN kept # {}
    <3>1. doc = renderManagedBlock(text, kept)
      BY <1>8, <2>2 DEF TomlDoc
    <3>2. GoodFile(once, p, doc)
      <4> HIDE DEF doc
      <4> QED
        BY <1>4, <1>6, <1>8, <3>1, RenderedIsGood
    <3> HIDE DEF skipped, fails, doc
    <3> QED
      BY <1>1, <3>2, OneGoodFile
  <2> QED
    BY <2>1, <2>2
<1>9. CASE fails
  <2> HIDE DEF doc, skipped
  <2> QED
    BY <1>1, <1>9, OneGoodFile
<1> QED
  BY <1>7, <1>8, <1>9

-----------------------------------------------------------------------------
(* The agents stage touches only agent files.                              *)
LEMMA AgentsAreGood ==
  ASSUME NEW once, TypeInv, NEW i \in DOMAIN Harnesses, AgentsStep(i)
  PROVE  GoodStep(once)
<1>1. ASSUME NEW changes, NEW next, Write(changes, next), DOMAIN changes \subseteq AgentPaths
      PROVE  GoodStep(once)
  <2>1. \A p \in DOMAIN changes \cap DOMAIN home : GoodFile(once, p, changes[p])
    BY <1>1, AgentFilesAreFree
  <2> QED
    BY <1>1, <2>1 DEF GoodStep
<1>2. CASE AgentsSkipped(i) \/ AgentsSave(i) \/ \E o : AgentsFetchFails(i, o)
  BY <1>2 DEF AgentsSkipped, AgentsSave, AgentsFetchFails, GoodStep
<1>3. CASE AgentsStart(i)
  <2> DEFINE cleared == IF run.overwrite THEN AgentPathsOf(i) ELSE {}
  <2>1. HasAgents(i) /\ \E next : Write([p \in cleared |-> Absent], next)
    BY <1>3 DEF AgentsStart
  <2>2. cleared \subseteq AgentPaths
    BY <2>1 DEF AgentPathsOf, AgentPaths
  <2> HIDE DEF cleared
  <2>3. DOMAIN [p \in cleared |-> Absent] \subseteq AgentPaths
    BY <2>2
  <2> QED
    BY <1>1, <2>1, <2>3
<1>4. CASE AgentsSweep(i)
  <2> DEFINE removed == run.local.state.agentFiles \ (run.local.produced \cup Carried(run.local))
  <2>1. Step("fetch") /\ \E next : Write([p \in removed |-> Absent], next)
    BY <1>4 DEF AgentsSweep
  <2>2. Loaded /\ ManagedTyped(managed)
    BY <2>1 DEF TypeInv, StepTyped, StateInv, LoadInv, Unloaded, Step
  <2>3. removed \subseteq AgentPaths
    BY <2>2 DEF Loaded, ManagedTyped
  <2> HIDE DEF removed
  <2>4. DOMAIN [p \in removed |-> Absent] \subseteq AgentPaths
    BY <2>3
  <2> QED
    BY <1>1, <2>1, <2>4
<1>5. ASSUME NEW o \in Sources \cup Layers, AgentsInstall(i, o)
      PROVE  GoodStep(once)
  <2>1. At("agents", i) /\ Step("fetch")
    BY <1>5 DEF AgentsInstall
  <2>2. AgentPath(i, o) \in AgentPaths
    BY <2>1 DEF TypeInv, StepTyped, ProducedTyped, AgentPaths
  <2>3. \E file, next : Write(NoChange, next) \/ Write(Only(AgentPath(i, o), file), next)
    BY <1>5 DEF AgentsInstall, Installed
  <2> QED
    BY <2>2, <2>3, AgentFilesAreFree, OneGoodFile
<1> QED
  BY <1>2, <1>3, <1>4, <1>5 DEF AgentsStep

(* Every step of a run is good to the files.                               *)
LEMMA RunStepIsGood ==
  ASSUME NEW once, FilesFit(once), TypeInv, RunStep
  PROVE  GoodStep(once)
<1>1. ASSUME NEW i \in DOMAIN Harnesses, McpStep(i)
      PROVE  GoodStep(once)
  <2>1. SaveKeys(i) \/ McpFails(i) => GoodStep(once)
    BY DEF SaveKeys, McpFails, GoodStep
  <2> QED
    BY <1>1, <2>1, JsonTargetIsGood, TomlTargetIsGood DEF McpStep
<1>2. StageFails \/ ShellStart \/ ShellEnds \/ RegistryFails => GoodStep(once)
  BY DEF StageFails, ShellStart, ShellEnds, RegistryFails, GoodStep
<1>3. FileStep => GoodStep(once)
  BY <1>1, <1>2, AgentsAreGood, InstructionsAreGood, HooksAreGood, ShellIsGood DEF FileStep
<1>4. RemoveStep => UNCHANGED <<home, backup>>
  BY DEF RemoveStep, SkillsSkipped, RemoveStart, SkillsStart, Clear, PickStale, RemoveStale,
         SkillsSave
<1>5. ASSUME NEW i, SkillsStep(i)
      PROVE  UNCHANGED <<home, backup>>
  BY <1>5 DEF SkillsStep, SkillsSkipped, InstallStart, SkillsStart, AddFails, Add,
              RemoveDeleted, SkillsSave
<1> QED
  BY <1>3, <1>4, <1>5 DEF RunStep, GoodStep

-----------------------------------------------------------------------------
(* What the engineer edits fits, and with `once` has one block at most.    *)
OneBlockInToml(once) ==
  once => \A edition \in Editions : \A edit \in Edits[edition.subject] :
            edit[1] \in TomlPaths /\ edit[2] # Absent => MarkersOnce(edit[2])

(* What every state of the machine satisfies, step after step.             *)
MachineInv(once) == OwnInv /\ AtInv /\ StepTyped /\ FilesFit(once) /\ edits \in Nat

(* Every step keeps the files and the backup set fit: those of a run write *)
(* files that fit, a restore puts back what was there, and an edit fits.   *)
LEMMA FilesFitNext ==
  ASSUME LinkIsNoDocument, NEW once, OneBlockInToml(once),
         MachineInv(once), [MachineNext]_machineVars
  PROVE  FilesFit(once)'
<1>1. FilesFit(once) /\ TypeInv
  BY DEF MachineInv, TypeInv, OwnInv
<1>2. CASE UNCHANGED <<home, backup>>
  BY <1>1, <1>2 DEF FilesFit
<1>3. CASE RunStep
  <2>1. GoodStep(once)
    BY <1>1, <1>3, RunStepIsGood
  <2> QED
    BY <1>1, <1>2, <2>1, WriteFits DEF GoodStep, GoodFile
<1>4. CASE RestoreBackups
  <2>1. PICK targets \in SUBSET DOMAIN backup :
          home' = [p \in DOMAIN home |-> IF p \in targets THEN backup[p] ELSE home[p]]
    BY <1>4 DEF RestoreBackups
  <2>2. backup' = backup
    BY <1>4 DEF RestoreBackups
  <2> QED
    BY <1>1, <2>1, <2>2 DEF FilesFit
<1>5. ASSUME NEW edit \in Edits[company.subject], EditHome(edit[1], edit[2])
      PROVE  FilesFit(once)'
  <2>1. /\ home' = [home EXCEPT ![edit[1]] = edit[2]] /\ backup' = backup
    BY <1>5 DEF EditHome
  <2>2. company \in Editions
    BY <1>1 DEF TypeInv, StateInv, ContextInv
  <2>3. edit[2] = Absent \/ FitsTo(once, edit[1], edit[2])
    BY <2>2, EditsFit DEF OneBlockInToml, FitsTo
  <2> QED
    BY <1>1, <2>1, <2>3 DEF FilesFit
<1> QED
  BY <1>2, <1>3, <1>4, <1>5
  DEF MachineNext, Crash, RepairState, StartRun, EditCompany, machineVars, homeVars

(* The invariant, in all.                                                  *)
LEMMA MachineInvNext ==
  ASSUME LinkIsNoDocument, NEW once, OneBlockInToml(once)
  PROVE  MachineInv(once) /\ [MachineNext]_machineVars => MachineInv(once)'
<1> SUFFICES ASSUME MachineInv(once), [MachineNext]_machineVars
             PROVE  MachineInv(once)'
  OBVIOUS
<1>1. OwnInv /\ AtInv /\ StepTyped /\ TypeInv
  BY DEF MachineInv, TypeInv, OwnInv
<1>2. OwnInv'
  BY <1>1, ContextInvNext, OwnNext DEF OwnAfter, OwnInv, StateInv
<1>3. AtInv' /\ StepTyped' /\ FilesFit(once)'
  BY <1>1, AtInvNext, StepTypedNext, FilesFitNext
<1>4. edits' \in Nat
  <2>1. edits' = edits \/ edits' = edits + 1
    <3>1. RunStep \/ RestoreBackups \/ RepairState => edits' = edits
      BY DEF RunStep, RestoreBackups, RepairState, counters
    <3>2. \A edition : EditCompany(edition) => edits' = edits
      BY DEF EditCompany, counters
    <3> QED
      BY <3>1, <3>2 DEF MachineNext, Crash, StartRun, EditHome, counters, machineVars
  <2> QED
    BY <2>1 DEF MachineInv
<1> QED
  BY <1>2, <1>3, <1>4 DEF MachineInv

(* The files of the start have one block at most.                          *)
FilesOnce(once, files) ==
  once => \A p \in TomlPaths : files[p] # Absent => MarkersOnce(files[p])

(* The invariant holds at the start, for files that fit.                   *)
LEMMA MachineInvInit ==
  ASSUME NEW files, MachineHas(files), NEW skills, NEW lockFile, DOMAIN lockFile \subseteq Skills,
         NEW once, FilesOnce(once, files), MachineInit(files, skills, lockFile)
  PROVE  MachineInv(once)
<1>1. /\ run = IdleRun /\ managed = EmptyState /\ lock = lockFile /\ company \in Editions
      /\ home = files /\ backup = NoChange /\ edits = 0
  BY DEF MachineInit
<1>2. /\ Step("start") /\ ~InRun /\ RunShape(run) /\ run.local = Scratch
      /\ StateShape(managed) /\ run.at = 0 /\ run.backed = {}
  BY <1>1 DEF Step, IdleRun, Scratch, InRun, RunShape, StateShape, EmptyState
<1>3. OwnKnows
  BY <1>2 DEF OwnKnows, Step
<1>4. OwnInv
  BY <1>1, <1>2, <1>3 DEF OwnInv, StateInv, ContextInv, LoadInv, Unloaded
<1>5. AtInv
  BY <1>2, StagesAreMany DEF AtInv
<1>6. ManagedTyped(managed)
  BY <1>1 DEF ManagedTyped, StateShape, EmptyState
<1>7. StepTyped
  BY <1>2, <1>6 DEF StepTyped, ProducedTyped, Step
<1>8. FilesFit(once)
  <2>1. DOMAIN backup = {}
    BY <1>1 DEF NoChange
  <2> QED
    BY <1>1, <2>1 DEF FilesFit, KnownPaths, MachineHas, FitsTo, FilesOnce
<1> QED
  BY <1>1, <1>4, <1>5, <1>7, <1>8 DEF MachineInv

-----------------------------------------------------------------------------
(* Files keep their form and the managed state names what there is.        *)
THEOREM MachineTypes ==
  ASSUME LinkIsNoDocument, NEW files, MachineHas(files), NEW skills, NEW lockFile,
         DOMAIN lockFile \subseteq Skills
  PROVE  MachineSpec(files, skills, lockFile) => []MachineTypeOK
<1>1. OneBlockInToml(FALSE) /\ FilesOnce(FALSE, files)
  BY DEF OneBlockInToml, FilesOnce
<1>2. MachineInit(files, skills, lockFile) => MachineInv(FALSE)
  BY <1>1, MachineInvInit
<1>3. MachineInv(FALSE) /\ [MachineNext]_machineVars => MachineInv(FALSE)'
  BY <1>1, MachineInvNext
<1>4. MachineInv(FALSE) => MachineTypeOK
  <2> SUFFICES ASSUME MachineInv(FALSE) PROVE MachineTypeOK
    OBVIOUS
  <2>1. ASSUME NEW p \in DOMAIN home, home[p] # Absent
        PROVE  /\ IsBlock(p) => \A k \in DOMAIN home[p] : home[p][k][1] \in LineKinds
               /\ IsJson(p) => home[p].form \in {"object", "commented", "corrupt"}
    <3>1. Fits(p, home[p])
      BY <2>1 DEF MachineInv, FilesFit, FitsTo
    <3>2. IsBlock(p) => \A k \in DOMAIN home[p] : home[p][k][1] \in LineKinds
      BY <3>1 DEF Fits, TextFits, Lines
    <3>3. IsJson(p) => home[p].form \in {"object", "commented", "corrupt"}
      BY <3>1 DEF Fits, JsonFits
    <3> QED
      BY <3>2, <3>3
  <2>2. ASSUME managed # Torn
        PROVE  /\ managed.agentFiles \subseteq DOMAIN home
               /\ managed.jsonKeys \subseteq {k \in DOMAIN home : IsJson(k)} \X STRING
               /\ managed.skills \subseteq Sources \X STRING \X Adapters
    <3>1. ManagedTyped(managed)
      BY <2>2 DEF MachineInv, StepTyped
    <3>2. KnownPaths \subseteq DOMAIN home
      BY DEF MachineInv, FilesFit
    <3>3. JsonPaths \subseteq {k \in DOMAIN home : IsJson(k)} /\ AgentPaths \subseteq DOMAIN home
      BY <3>2 DEF KnownPaths, IsJson
    <3>4. JsonPaths \X STRING \subseteq {k \in DOMAIN home : IsJson(k)} \X STRING
      BY <3>3
    <3> QED
      BY <3>1, <3>3, <3>4 DEF ManagedTyped
  <2>3. run.at \in 0 .. Len(Stages) /\ run.backed \subseteq DOMAIN backup
    BY DEF MachineInv, AtInv
  <2> QED
    BY <2>1, <2>2, <2>3 DEF MachineTypeOK
<1> QED
  BY <1>2, <1>3, <1>4, PTL DEF MachineSpec

(* In every file of every harness, a server entry that wagglebot wrote     *)
(* carries the credential of its server and no other: the merges of the    *)
(* MCP stage, the TOML and the text blocks, backups and restores never put *)
(* an entry on disk without it.                                            *)
THEOREM EveryServerHasItsCredential ==
  ASSUME LinkIsNoDocument, NEW files, MachineHas(files), NEW skills, NEW lockFile,
         DOMAIN lockFile \subseteq Skills
  PROVE  MachineSpec(files, skills, lockFile) => []CredentialCarried
<1>1. OneBlockInToml(FALSE) /\ FilesOnce(FALSE, files)
  BY DEF OneBlockInToml, FilesOnce
<1>2. MachineInit(files, skills, lockFile) => MachineInv(FALSE)
  BY <1>1, MachineInvInit
<1>3. MachineInv(FALSE) /\ [MachineNext]_machineVars => MachineInv(FALSE)'
  BY <1>1, MachineInvNext
<1>4. MachineInv(FALSE) => CredentialCarried
  <2> SUFFICES ASSUME FilesFit(FALSE), NEW i \in DOMAIN Harnesses, NEW e \in WrittenBy(i)
               PROVE  CarriesIts(e)
    BY DEF MachineInv, CredentialCarried
  <2> DEFINE p == McpPath(i)
  <2>1. CASE Format(i, "json")
    <3>1. p \in JsonPaths
      BY <2>1 DEF JsonPaths
    <3>2. JsonFits(JsonOf(p))
      BY <3>1, JsonOfFits
    <3>3. \E ns \in Names(JsonOf(p)) : e = JsonOf(p).servers[ns]
      BY <2>1 DEF WrittenBy
    <3> QED
      BY <3>2, <3>3 DEF JsonFits
  <2>2. CASE ~Format(i, "json")
    <3>1. p \in TomlPaths
      BY <2>2, HarnessTable DEF TomlPaths
    <3> DEFINE doc == IF home[p] = Absent THEN <<>> ELSE home[p]
    <3>2. PICK k \in DOMAIN doc : doc[k][1] = "content" /\ \E ns \in DOMAIN doc[k][2] : e = doc[k][2][ns]
      BY <2>2 DEF WrittenBy
    <3>3. home[p] # Absent /\ doc = home[p]
      BY <3>2
    <3>4. TextFits(p, doc)
      BY <3>1, <3>3, TextOfFits DEF FilesFit, KnownPaths, FitsTo, Fits, IsBlock
    <3>5. doc[k] \in Lines(doc)
      BY <3>2 DEF Lines
    <3> QED
      BY <3>1, <3>2, <3>4, <3>5 DEF TextFits
  <2> QED
    BY <2>1, <2>2
<1> QED
  BY <1>2, <1>3, <1>4, PTL DEF MachineSpec

(* A run without --overwrite-local leaves what it does not own in every    *)
(* file it changes: the text around the managed block, the hooks of the    *)
(* engineer, and the servers that no managed key names. TOML files start   *)
(* with one managed block at most, and the engineer adds no second: the    *)
(* merge of a file with two removes the first and leaves the markers of    *)
(* the other.                                                              *)
THEOREM WhatIsForeignStays ==
  ASSUME LinkIsNoDocument, OneBlockInToml(TRUE),
         NEW files, MachineHas(files), FilesOnce(TRUE, files),
         NEW skills, NEW lockFile, DOMAIN lockFile \subseteq Skills
  PROVE  MachineSpec(files, skills, lockFile) => ForeignContentStays
<1>1. MachineInit(files, skills, lockFile) => MachineInv(TRUE)
  BY MachineInvInit
<1>2. MachineInv(TRUE) /\ [MachineNext]_machineVars => MachineInv(TRUE)'
  BY MachineInvNext
<1>3. ASSUME MachineInv(TRUE), MachineNext, InRun, ~run.overwrite, home' # home, edits' = edits,
             NEW p \in DOMAIN home, home[p] # Absent
      PROVE  /\ IsBlock(p) => outsideBlock(home'[p]) = outsideBlock(home[p])
             /\ IsJson(p) =>
                  /\ MyHooks(home'[p]) = MyHooks(home[p])
                  /\ \A s \in ServersOfEngineer(p) :
                       s \in ServersOfEngineer(p)' \/ <<p, s[1]>> \in managed.jsonKeys
  <2>1. RunStep
    <3>1. \A q, file : ~EditHome(q, file)
      <4>1. edits \in Nat /\ ~(edits' = edits + 1)
        BY <1>3 DEF MachineInv
      <4> QED
        BY <4>1 DEF EditHome
    <3>2. ~RestoreBackups /\ ~Crash /\ ~RepairState
      BY <1>3 DEF RestoreBackups, Crash, RepairState, Between
    <3>3. ~(\E overwrite : StartRun(overwrite)) /\ ~\E edition : EditCompany(edition)
      BY <1>3 DEF StartRun, EditCompany, Between
    <3> QED
      BY <1>3, <3>1, <3>2, <3>3 DEF MachineNext
  <2>2. GoodStep(TRUE)
    BY <1>3, <2>1, RunStepIsGood DEF MachineInv, TypeInv, OwnInv
  <2>3. PICK changes, next : /\ Write(changes, next)
                             /\ \A q \in DOMAIN changes \cap DOMAIN home : GoodFile(TRUE, q, changes[q])
    BY <1>3, <2>2 DEF GoodStep
  <2>4. home'[p] = home[p] \/ KeepsForeign(p, home'[p])
    <3>1. home'[p] = home[p] \/ (p \in DOMAIN changes /\ home'[p] = changes[p])
      BY <2>3 DEF Write
    <3> QED
      BY <1>3, <2>3, <3>1 DEF GoodFile
  <2>5. IsBlock(p) => outsideBlock(home'[p]) = outsideBlock(home[p])
    BY <2>4 DEF KeepsForeign
  <2>6. IsJson(p) => MyHooks(home'[p]) = MyHooks(home[p])
    BY <2>4 DEF KeepsForeign
  <2>7. ASSUME IsJson(p), NEW s \in ServersOfEngineer(p), <<p, s[1]>> \notin managed.jsonKeys
        PROVE  s \in ServersOfEngineer(p)'
    <3>1. PICK ns \in Names(home[p]) : home[p].servers[ns].by = "engineer"
                                       /\ s = <<ns, home[p].servers[ns]>>
      BY <2>7 DEF ServersOfEngineer
    <3>2. ns \in Names(home'[p]) /\ home'[p].servers[ns] = home[p].servers[ns]
      BY <2>4, <2>7, <3>1 DEF KeepsForeign
    <3> QED
      BY <3>1, <3>2 DEF ServersOfEngineer, Names
  <2> QED
    BY <2>5, <2>6, <2>7
<1>4. MachineInv(TRUE) /\ [MachineNext]_machineVars =>
        [InRun /\ ~run.overwrite /\ home' # home /\ edits' = edits =>
           \A p \in {q \in DOMAIN home : home[q] # Absent} :
             /\ IsBlock(p) => outsideBlock(home'[p]) = outsideBlock(home[p])
             /\ IsJson(p) =>
                  /\ MyHooks(home'[p]) = MyHooks(home[p])
                  /\ \A s \in ServersOfEngineer(p) :
                       s \in ServersOfEngineer(p)' \/ <<p, s[1]>> \in managed.jsonKeys]_machineVars
  BY <1>3
<1> QED
  BY <1>1, <1>2, <1>4, PTL DEF MachineSpec, ForeignContentStays
==============================================================================
