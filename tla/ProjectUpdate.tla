---------------------------- MODULE ProjectUpdate ----------------------------
(***************************************************************************)
(* `wagglebot update` in project mode (commands/project-update.ts,         *)
(* project-init.ts, atomic-write.ts): the instruction sources of a         *)
(* repository become the managed block of every target file. A target's    *)
(* output is computed before the first one is written. Then each is        *)
(* written on its own, by a rename, and may fail on its own.               *)
(***************************************************************************)
EXTENDS ManagedBlock

CONSTANTS
  Targets,        \* paths of the target files, one for all its harnesses
  Imports,        \* those that import AGENTS.md instead of holding the text
  Limit,          \* the lines a target may have
  EnsuredFiles,   \* memory.md and changelog.md, made from a template
  Missing,
  ProjectEdits,   \* what the engineer may write in a target, or Missing
  SourceTexts,    \* the instruction sources, "" for none
  MaxProjectEdits

(* The lines of a repository's files. A target is not one of the two files *)
(* that are made from a template.                                          *)
Line == LineKinds \X STRING

ASSUME ProjectConstants ==
  /\ Targets \cap EnsuredFiles = {}
  /\ SourceTexts \subseteq STRING
  /\ Missing \notin Seq(Line)
  /\ ProjectEdits \subseteq Seq(Line) \cup {Missing}

(* What the provers have to be told.                                       *)
ASSUME LiteralsAreStrings == {"", "@AGENTS.md", "template"} \subseteq STRING

VARIABLES
  repo,           \* the files of the repository
  sources,        \* .agents/instructions/*.md
  phase,          \* "idle", "ensure", "preflight", "apply"
  plan,           \* target -> the file to write, or Missing to remove it
  outcome,        \* of the last run
  atStart,        \* the repository when that run began: history
  projectEdits

projectVars == <<repo, sources, phase, plan, outcome, atStart, projectEdits>>

TargetText(t) == IF repo[t] = Missing THEN <<>> ELSE repo[t]
TargetContent(t) == IF t \in Imports THEN "@AGENTS.md" ELSE sources

(* The output for a target, with the sources there are or without any. A   *)
(* file that held nothing but the block goes.                              *)
TargetOutput(t) ==
  IF sources # "" THEN renderManagedBlock(TargetText(t), TargetContent(t))
  ELSE LET rest == removeManagedBlock(TargetText(t))
       IN  IF rest = <<>> /\ HasBlock(TargetText(t)) THEN Missing
           ELSE IF repo[t] = Missing THEN Missing ELSE rest

Fails(t) ==
  \/ Malformed(TargetText(t))
  \/ sources # "" /\ Len(TargetOutput(t)) > Limit

MutantPreflightFails == \A t \in Targets : Fails(t)
PreflightFails == \E t \in Targets : Fails(t)

ProjectInit(files) ==
  /\ repo = files /\ atStart = files
  /\ sources \in SourceTexts
  /\ phase = "idle" /\ plan = <<>> /\ outcome = "none" /\ projectEdits = 0

ProjectStart ==
  /\ phase = "idle"
  /\ phase' = "ensure" /\ outcome' = "none" /\ atStart' = repo
  /\ UNCHANGED <<repo, sources, plan, projectEdits>>

(* The two files are made first, whatever becomes of the targets.          *)
Ensure(f) ==
  /\ phase = "ensure" /\ repo[f] = Missing
  /\ repo' = [repo EXCEPT ![f] = <<<<"text", "template">>>>]
  /\ UNCHANGED <<sources, phase, plan, outcome, atStart, projectEdits>>

Ends(how) == phase' = "idle" /\ plan' = <<>> /\ outcome' = how

Preflight ==
  /\ phase = "ensure" /\ \A f \in EnsuredFiles : repo[f] # Missing
  /\ LET changes == {t \in Targets : TargetOutput(t) # repo[t]}
     IN  \/ PreflightFails /\ Ends("aborted")
         \/ /\ ~PreflightFails
            /\ phase' = "apply" /\ plan' = [t \in changes |-> TargetOutput(t)] /\ outcome' = "ok"
  /\ UNCHANGED <<repo, sources, atStart, projectEdits>>

Planned(t) == [u \in DOMAIN plan \ {t} |-> plan[u]]

Apply(t) ==
  /\ phase = "apply" /\ t \in DOMAIN plan
  /\ \/ repo' = [repo EXCEPT ![t] = plan[t]] /\ UNCHANGED outcome
     \/ repo' = repo /\ outcome' = "failed"
  /\ plan' = Planned(t)
  /\ UNCHANGED <<sources, phase, atStart, projectEdits>>

ProjectEnds ==
  /\ phase = "apply" /\ DOMAIN plan = {}
  /\ Ends(outcome)
  /\ UNCHANGED <<repo, sources, atStart, projectEdits>>

(* Killed between two files. Each file is the old one or the new one.      *)
ProjectKilled ==
  /\ phase # "idle"
  /\ Ends("killed")
  /\ UNCHANGED <<repo, sources, atStart, projectEdits>>

(* The engineer, between two runs.                                         *)
EditProject ==
  /\ phase = "idle" /\ projectEdits < MaxProjectEdits
  /\ \/ /\ \E t \in Targets : \E file \in ProjectEdits : repo' = [repo EXCEPT ![t] = file]
        /\ UNCHANGED sources
     \/ sources' \in SourceTexts \ {sources} /\ UNCHANGED repo
  /\ outcome' = "none" /\ projectEdits' = projectEdits + 1
  /\ UNCHANGED <<phase, plan, atStart>>

ProjectNext ==
  \/ ProjectStart \/ Preflight \/ ProjectEnds \/ ProjectKilled \/ EditProject
  \/ \E f \in EnsuredFiles : Ensure(f)
  \/ \E t \in Targets : Apply(t)

(* A repository that begins with these files.                              *)
ProjectSpec(files) == ProjectInit(files) /\ [][ProjectNext]_projectVars

-----------------------------------------------------------------------------
(* What the file has of the engineer's, nothing for a missing file.        *)
OwnText(file) == IF file = Missing THEN <<>> ELSE outsideBlock(file)

InStep(t) ==
  IF sources = "" THEN repo[t] = Missing \/ ~HasBlock(repo[t])
  ELSE repo[t] # Missing /\ HasBlock(repo[t])
         /\ Block(TargetContent(t)) =
              SubSeq(repo[t], Least(Positions(repo[t], "begin")), Least(Positions(repo[t], "end")))

(* A run that aborts, for whichever target, has changed no target. One     *)
(* that succeeds leaves every target in step with the sources. And no run, *)
(* not even one that was killed or failed half way, takes the engineer's   *)
(* own text out of a file, or removes a file that has some.                *)
ProjectAllOrNothing ==
  /\ outcome = "aborted" => \A t \in Targets : repo[t] = atStart[t]
  /\ phase = "idle" /\ outcome = "ok" => \A t \in Targets : InStep(t)
  /\ phase # "idle" \/ outcome # "none" =>
       \A t \in Targets : OwnText(repo[t]) = OwnText(atStart[t])
=============================================================================
