---------------------------- MODULE PinnedRuntime ----------------------------
(***************************************************************************)
(* The installation of one pinned version of the CLI                       *)
(* (packages/cli/src/pinned-runtime.ts, ensurePinnedRuntime): npm fills a  *)
(* temporary directory, which then takes the place of the version's        *)
(* directory. An incomplete directory found there is moved aside first,    *)
(* moved back if the exchange fails, and deleted if it succeeds.           *)
(*                                                                         *)
(* Each of Installers is one process; any of them may run between two file *)
(* operations of another. A directory is its name and whether it is        *)
(* complete. renameSync never replaces a directory that has files in it.   *)
(***************************************************************************)
EXTENDS Integers, FiniteSets

CONSTANTS
  Installers,   \* processes that need this version
  Directories,  \* directories that may be made; random names differ
  MaxKills,     \* bound: processes killed
  NoDirectory   \* nothing at a path

ASSUME RuntimeConstants ==
  /\ NoDirectory \notin Directories
  /\ MaxKills \in Nat

VARIABLES
  versionDir,   \* the directory at runtime/<pin>
  complete,     \* the directories npm completed and nobody deleted; a failed
                \* candidate is deleted too, but nothing names it any more
  step,         \* where each process is
  candidate,    \* the directory npm filled for each process
  displaced,    \* the directory each process moved aside
  made,         \* directories made so far
  succeeded,    \* history: a process has been given the runtime
  kills       \* processes killed so far

runtimeVars == <<versionDir, complete, step, candidate, displaced, made,
                 succeeded, kills>>

MaybeDirectory == Directories \cup {NoDirectory}

(* Nothing is installed, or an interrupted or complete installation.       *)
RuntimeInit ==
  /\ versionDir \in MaybeDirectory
  /\ made = {versionDir} \ {NoDirectory}
  /\ complete \in SUBSET made
  /\ step = [i \in Installers |-> "idle"]
  /\ candidate = [i \in Installers |-> NoDirectory]
  /\ displaced = [i \in Installers |-> NoDirectory]
  /\ succeeded = FALSE
  /\ kills = 0

GoTo(i, s) == step' = [step EXCEPT ![i] = s]

(* A complete version is used as it is; otherwise npm starts.              *)
CheckComplete(i) ==
  /\ step[i] = "idle"
  /\ candidate' = [candidate EXCEPT ![i] = NoDirectory]
  /\ displaced' = [displaced EXCEPT ![i] = NoDirectory]
  /\ succeeded' = (succeeded \/ versionDir \in complete)
  /\ GoTo(i, IF versionDir \in complete THEN "idle" ELSE "install")
  /\ UNCHANGED <<versionDir, complete, made, kills>>

(* Mutant: what npm left is not inspected.                                *)
MutantInstall(i) ==
  /\ step[i] = "install"
  /\ \E d \in Directories \ made :
        /\ made' = made \cup {d}
        /\ candidate' = [candidate EXCEPT ![i] = d]
        /\ complete' \in {complete, complete \cup {d}}
  /\ GoTo(i, "look")
  /\ UNCHANGED <<versionDir, displaced, succeeded, kills>>

(* npm has filled a temporary directory. An incomplete one is removed.     *)
Install(i) ==
  /\ step[i] = "install"
  /\ \E d \in Directories \ made :
        /\ made' = made \cup {d}
        /\ candidate' = [candidate EXCEPT ![i] = d]
        /\ complete' = complete \cup {d}
  /\ GoTo(i, "look")
  /\ UNCHANGED <<versionDir, displaced, succeeded, kills>>

InstallFails(i) ==
  /\ step[i] = "install"
  /\ GoTo(i, "idle")
  /\ UNCHANGED <<versionDir, complete, candidate, displaced, made, succeeded,
                 kills>>

(* Whatever is at the version's path has to be moved aside.                *)
LookForVersion(i) ==
  /\ step[i] = "look"
  /\ GoTo(i, IF versionDir = NoDirectory THEN "rename" ELSE "displace")
  /\ UNCHANGED <<versionDir, complete, candidate, displaced, made, succeeded,
                 kills>>

(* renameSync fails when the directory is gone: the process gives up.      *)
Displace(i) ==
  /\ step[i] = "displace"
  /\ displaced' = [displaced EXCEPT ![i] = versionDir]
  /\ versionDir' = NoDirectory
  /\ GoTo(i, IF versionDir = NoDirectory THEN "idle" ELSE "rename")
  /\ UNCHANGED <<complete, candidate, made, succeeded, kills>>

(* The candidate takes the path if it is free.                             *)
RenameCandidate(i) ==
  /\ step[i] = "rename"
  /\ versionDir = NoDirectory
  /\ versionDir' = candidate[i]
  /\ succeeded' = TRUE
  /\ GoTo(i, IF displaced[i] = NoDirectory THEN "idle" ELSE "dispose")
  /\ UNCHANGED <<complete, candidate, displaced, made, kills>>

RenameRefused(i) ==
  /\ step[i] = "rename"
  /\ versionDir # NoDirectory
  /\ GoTo(i, IF displaced[i] = NoDirectory THEN "idle" ELSE "restore")
  /\ UNCHANGED <<versionDir, complete, candidate, displaced, made, succeeded,
                 kills>>

(* The displaced directory is moved back if its path is free again.        *)
RestoreDisplaced(i) ==
  /\ step[i] = "restore"
  /\ versionDir' = IF versionDir = NoDirectory THEN displaced[i] ELSE versionDir
  /\ GoTo(i, "idle")
  /\ UNCHANGED <<complete, candidate, displaced, made, succeeded, kills>>

Dispose(i) ==
  /\ step[i] = "dispose"
  /\ complete' = complete \ {displaced[i]}
  /\ GoTo(i, "idle")
  /\ UNCHANGED <<versionDir, candidate, displaced, made, succeeded, kills>>

(* A process is killed and leaves its directories behind.                  *)
Killed(i) ==
  /\ step[i] # "idle"
  /\ kills < MaxKills
  /\ kills' = kills + 1
  /\ GoTo(i, "idle")
  /\ UNCHANGED <<versionDir, complete, candidate, displaced, made, succeeded>>

RuntimeNext ==
  \E i \in Installers :
    \/ CheckComplete(i) \/ Install(i) \/ InstallFails(i) \/ LookForVersion(i)
    \/ Displace(i) \/ RenameCandidate(i) \/ RenameRefused(i)
    \/ RestoreDisplaced(i) \/ Dispose(i) \/ Killed(i)

RuntimeSpec == RuntimeInit /\ [][RuntimeNext]_runtimeVars

-----------------------------------------------------------------------------
(* Properties *)

(* Once a process has been given the runtime, and when no process is at    *)
(* work or has been killed, a complete runtime is at the version's path:   *)
(* no order of two installations loses it.                                 *)
InstalledRuntimeStays ==
  succeeded /\ kills = 0 /\ (\A i \in Installers : step[i] = "idle")
    => versionDir \in complete
=============================================================================
