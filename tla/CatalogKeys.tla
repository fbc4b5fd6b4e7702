---------------------------- MODULE CatalogKeys ----------------------------
(***************************************************************************)
(* The public keys the auth service verifies signatures against            *)
(* (services/auth/src/catalog-keys.ts, createCatalogPublicKeyResolver) and *)
(* the timer that refreshes them (services/auth/src/index.ts).             *)
(*                                                                         *)
(* A refresh reads the whole catalog file, then awaits one ssh-keygen per  *)
(* user to fingerprint the key, and only then replaces the served map.     *)
(* setInterval starts a refresh whether or not the previous one has        *)
(* finished, so several may be between their read and their replacement.   *)
(***************************************************************************)
EXTENDS Integers, Sequences

CONSTANTS
  Users,          \* catalog user names
  Keys,           \* authorized keys
  NoKey,          \* "this user has no key in this map"
  Refreshers,     \* refresh() calls that may be in flight at the same time
  FirstCatalog,   \* the catalog file when the system starts
  MaxEdits,       \* bound: edits of the catalog file
  MaxFaults       \* bound: failed reads, failed spawns and process crashes

KeyMap == [Users -> Keys \cup {NoKey}]

NoKeys == [u \in Users |-> NoKey]

(* A catalog file: its user documents, and whether every one of them is    *)
(* well formed (known username, no duplicate, parsable key).               *)
Catalog == [wellFormed : BOOLEAN, keys : KeyMap]

ASSUME KeyAssumption == NoKey \notin Keys
ASSUME CatalogAssumption == FirstCatalog \in Catalog
ASSUME CatalogBounds == MaxEdits \in Nat /\ MaxFaults \in Nat

VARIABLES
  catalog,   \* the editions of the file, the last one being on disk
  keys,      \* the map resolve() reads
  ready,     \* isReady
  up,        \* the service listens: createServer has returned
  refresh,   \* the local state of each refresh() call
  served,    \* history: the edition keys was built from, 0 for none
  faults     \* history: faults so far, for the bound MaxFaults

resolverVars == <<catalog, keys, ready, up, refresh, served, faults>>

Latest == Len(catalog)

(* refresh() accepts a file with no malformed user and at least one user.  *)
Acceptable(e) == /\ catalog[e].wellFormed
                 /\ catalog[e].keys # NoKeys

Idle == [pc |-> "idle", edition |-> 0, candidate |-> NoKeys]

RefreshState == [pc : {"idle", "hashing"}, edition : Nat, candidate : KeyMap]

ResolverTypeOK ==
  /\ catalog \in Seq(Catalog)
  /\ Latest >= 1
  /\ keys \in KeyMap
  /\ ready \in BOOLEAN
  /\ up \in BOOLEAN
  /\ refresh \in [Refreshers -> RefreshState]
  /\ \A r \in Refreshers : refresh[r].pc = "hashing" => refresh[r].edition \in 1 .. Latest
  /\ served \in 0 .. Latest
  /\ faults \in 0 .. MaxFaults

ResolverInit ==
  /\ catalog = <<FirstCatalog>>
  /\ keys = NoKeys
  /\ ready = FALSE
  /\ up = FALSE
  /\ refresh = [r \in Refreshers |-> Idle]
  /\ served = 0
  /\ faults = 0

-----------------------------------------------------------------------------
(* An operator edits the catalog file: a rotated, added or removed key, or *)
(* a file refresh() will reject.                                           *)
EditCatalog ==
  /\ Latest <= MaxEdits
  /\ \E file \in Catalog :
       /\ file # catalog[Latest]
       /\ catalog' = Append(catalog, file)
  /\ UNCHANGED <<keys, ready, up, refresh, served, faults>>

(* createServer awaits one refresh before it listens and swallows its      *)
(* failure. Nothing else of the process runs meanwhile, so the read, the   *)
(* fingerprints and the replacement are one step.                          *)
BootAccepts ==
  /\ ~up
  /\ Acceptable(Latest)
  /\ up' = TRUE
  /\ ready' = TRUE
  /\ keys' = catalog[Latest].keys
  /\ served' = Latest
  /\ UNCHANGED <<catalog, refresh, faults>>

BootRejects ==
  /\ ~up
  /\ ~Acceptable(Latest)
  /\ up' = TRUE
  /\ ready' = FALSE
  /\ UNCHANGED <<catalog, keys, refresh, served, faults>>

BootFault ==
  /\ ~up
  /\ faults < MaxFaults
  /\ faults' = faults + 1
  /\ up' = TRUE
  /\ ready' = FALSE
  /\ UNCHANGED <<catalog, keys, refresh, served>>

(* Mutant of StartRefresh: counts editions from zero.                      *)
MutantStartRefresh(r) ==
  /\ up
  /\ refresh[r].pc = "idle"
  /\ refresh' = [refresh EXCEPT ![r] =
       [pc |-> "hashing", edition |-> Latest - 1, candidate |-> NoKeys]]
  /\ UNCHANGED <<catalog, keys, ready, up, served, faults>>

(* The timer fires and readFile returns the file as it is now.             *)
StartRefresh(r) ==
  /\ up
  /\ refresh[r].pc = "idle"
  /\ refresh' = [refresh EXCEPT ![r] =
       [pc |-> "hashing", edition |-> Latest, candidate |-> NoKeys]]
  /\ UNCHANGED <<catalog, keys, ready, up, served, faults>>

(* The users of r's file that are not fingerprinted yet.                   *)
Unhashed(r) ==
  {u \in Users : /\ catalog[refresh[r].edition].keys[u] # NoKey
                 /\ refresh[r].candidate[u] = NoKey}

(* Mutant of HashUser: fills the served map in place.                      *)
MutantHashUser(r) ==
  /\ refresh[r].pc = "hashing"
  /\ \E u \in Unhashed(r) :
       /\ refresh' = [refresh EXCEPT ![r].candidate[u] = catalog[refresh[r].edition].keys[u]]
       /\ keys' = [keys EXCEPT ![u] = catalog[refresh[r].edition].keys[u]]
  /\ UNCHANGED <<catalog, ready, up, served, faults>>

(* One await fingerprint(): the user joins the candidate, not the served map. *)
HashUser(r) ==
  /\ refresh[r].pc = "hashing"
  /\ \E u \in Unhashed(r) :
       refresh' = [refresh EXCEPT ![r].candidate[u] = catalog[refresh[r].edition].keys[u]]
  /\ UNCHANGED <<catalog, keys, ready, up, served, faults>>

(* Mutant of PublishKeys: a degraded service never says it has recovered.  *)
MutantPublishKeys(r) ==
  /\ refresh[r].pc = "hashing"
  /\ Acceptable(refresh[r].edition)
  /\ Unhashed(r) = {}
  /\ keys' = refresh[r].candidate
  /\ served' = refresh[r].edition
  /\ refresh' = [refresh EXCEPT ![r] = Idle]
  /\ UNCHANGED <<catalog, ready, up, faults>>

(* keys = candidate; isReady = true.                                       *)
PublishKeys(r) ==
  /\ refresh[r].pc = "hashing"
  /\ Acceptable(refresh[r].edition)
  /\ Unhashed(r) = {}
  /\ keys' = refresh[r].candidate
  /\ ready' = TRUE
  /\ served' = refresh[r].edition
  /\ refresh' = [refresh EXCEPT ![r] = Idle]
  /\ UNCHANGED <<catalog, up, faults>>

(* The catch block: the file is not acceptable. The old keys stay.         *)
RejectCatalog(r) ==
  /\ refresh[r].pc = "hashing"
  /\ ~Acceptable(refresh[r].edition)
  /\ ready' = FALSE
  /\ refresh' = [refresh EXCEPT ![r] = Idle]
  /\ UNCHANGED <<catalog, keys, up, served, faults>>

(* The same catch block, reached by a failing read or ssh-keygen.          *)
RefreshFault(r) ==
  /\ refresh[r].pc = "hashing"
  /\ faults < MaxFaults
  /\ faults' = faults + 1
  /\ ready' = FALSE
  /\ refresh' = [refresh EXCEPT ![r] = Idle]
  /\ UNCHANGED <<catalog, keys, up, served>>

(* The process dies with everything it held; Boot starts the next one.     *)
ResolverCrash ==
  /\ up
  /\ faults < MaxFaults
  /\ faults' = faults + 1
  /\ up' = FALSE
  /\ keys' = NoKeys
  /\ ready' = FALSE
  /\ served' = 0
  /\ refresh' = [r \in Refreshers |-> Idle]
  /\ UNCHANGED catalog

RefreshStep(r) == HashUser(r) \/ PublishKeys(r) \/ RejectCatalog(r)

(* Every step of the resolver that other parts of the process survive.     *)
ResolverStep ==
  \/ EditCatalog
  \/ BootAccepts
  \/ BootRejects
  \/ BootFault
  \/ \E r \in Refreshers : StartRefresh(r) \/ RefreshStep(r) \/ RefreshFault(r)

ResolverNext == ResolverStep \/ ResolverCrash

(* The event loop runs what is ready and the timer keeps firing; nobody    *)
(* has to edit the file, and faults are not owed to anyone.                *)
ResolverFairness ==
  /\ WF_resolverVars(BootAccepts)
  /\ WF_resolverVars(BootRejects)
  /\ \A r \in Refreshers : WF_resolverVars(StartRefresh(r))
                           /\ WF_resolverVars(RefreshStep(r))

ResolverSpec == ResolverInit /\ [][ResolverNext]_resolverVars /\ ResolverFairness

-----------------------------------------------------------------------------
(* The served map is always the whole content of one accepted edition of   *)
(* the file, never a mix of two editions nor a part of one, although it is *)
(* built user by user across awaits, refreshes overlap, and any of them    *)
(* may be rejected or fail half way: a user who could log in still can.    *)
KeysFromOneEdition ==
  IF served = 0 THEN keys = NoKeys
                ELSE Acceptable(served) /\ keys = catalog[served].keys

(* Once an edit is the last one and it is acceptable, the service ends up  *)
(* serving it and says it is ready, whatever overlapped before; if it is   *)
(* not acceptable, readiness ends up degraded.                             *)
KeysConverge ==
  <>[](/\ ready = Acceptable(Latest)
       /\ Acceptable(Latest) => served = Latest)

(* docs/api-reference.md:255, "Catalog changes affect new challenges after *)
(* the next accepted refresh": once an edition has been accepted, no older *)
(* edition is served again by the same process.                            *)
AcceptedChangeStays ==
  [][(up /\ up') => served' >= served]_resolverVars
=============================================================================
