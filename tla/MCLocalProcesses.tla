-------------------------- MODULE MCLocalProcesses --------------------------
(***************************************************************************)
(* Four parts of what runs on a workstation, for TLC: the company cache,   *)
(* the installation of a pinned runtime, component memory and the code     *)
(* graph pool. The first two are directories of their own under            *)
(* ~/.wagglebot (company/, runtime/), the two providers of a local brain   *)
(* share no state (local-brain.ts:31-40) and only read and write in a      *)
(* repository, so nothing is lost by having one of them in each behaviour. *)
(***************************************************************************)
EXTENDS CompanyCache, LocalMemory, CodeGraphPool, PinnedRuntime, TLC

CONSTANTS
  Parts,                  \* what this instance explores
  u1, u2, r1, r2, r3,     \* updates and revisions
  Decisions, Warnings, preferC, preferMoreC, preferCSharp,
  safe, other, secret, fence

OneCommand == {u1}
TwoCommands == {u1, u2}
ThreeRevisions == {r1, r2, r3}

CacheSymmetry == Permutations(TwoCommands) \cup Permutations(ThreeRevisions)

Preamble == <<<<"h1", "Memory">>>>
SectionText(s, lines) == <<<<"h2", s>>>> \o lines
Hint == <<"text", <<"hint", Nothing>>>>
Fence == <<"fence", <<"code", Nothing>>>>
Entry(t, b) == <<<<"h3", t>>, <<"text", <<b, 0>>>>>>

EmptyDoc == Preamble \o SectionText(Decisions, <<Hint>>) \o SectionText(Warnings, <<>>)
TwoEntries == Preamble \o SectionText(Decisions, Entry(preferC, safe) \o Entry(preferMoreC, other))
                   \o SectionText(Warnings, <<>>)
Fenced == Preamble \o SectionText(Decisions, <<Fence, <<"h2", Warnings>>, Fence>>)
               \o SectionText(Warnings, <<>>)
Broken == Preamble

AllSections == {Decisions, Warnings}
AllTitles == {preferC, preferMoreC, preferCSharp}
ReadTitles == [t \in AllTitles |-> IF t = preferCSharp THEN preferC ELSE t]
SimilarTitles == {<<preferC, preferMoreC>>, <<preferMoreC, preferC>>}
AllEdits == {TwoEntries, Fenced, Broken}
OnlyEmpty == {EmptyDoc}

VARIABLE part

cacheParts == <<cacheVars, credentialVars, pc, localVars, historyVars>>
allVars == <<part, cacheParts, memoryVars, poolVars, runtimeVars>>

(* The parts that a behaviour is not about stay in one initial state.      *)
PartsInit ==
  /\ part \in Parts
  /\ CacheInit /\ MemoryInit /\ PoolInit /\ RuntimeInit
  /\ part # "cache" => revisions = {}
  /\ part # "memory" => file = Nothing
  /\ part # "runtime" => versionDir = NoDirectory

PartsNext ==
  /\ UNCHANGED part
  /\ \/ part = "cache" /\ CacheNext /\ UNCHANGED <<memoryVars, poolVars, runtimeVars>>
     \/ part = "memory" /\ MemoryNext /\ UNCHANGED <<cacheParts, poolVars, runtimeVars>>
     \/ part = "code" /\ PoolNext /\ UNCHANGED <<cacheParts, memoryVars, runtimeVars>>
     \/ part = "runtime" /\ RuntimeNext /\ UNCHANGED <<cacheParts, memoryVars, poolVars>>

PartsSpec == PartsInit /\ [][PartsNext]_allVars
=============================================================================
