----------------------------- MODULE RegistryHub -----------------------------
(***************************************************************************)
(* From the company repository to the proxies an engineer's hub runs: the  *)
(* registry service (services/registry), the hub's RegistryManager and its *)
(* TrustStore (services/mcp-hub), and `wagglebot mcp-hub approve`          *)
(* (packages/cli/src/commands/mcp-hub-approve.ts), which is another        *)
(* process. The hub asks the registry with a token of D26Client.           *)
(*                                                                         *)
(* A proxy is its namespace and its configuration; a fingerprint stands    *)
(* for the configuration it digests, a revision for the composed registry. *)
(***************************************************************************)
EXTENDS D26Client, Sequences

CONSTANTS
  User,         \* whose machine the hub runs on
  Namespaces, Configs,
  Editions,     \* what the company repository may say
  Registry,     \* the audience "wagglebot-registry"
  Hub,          \* the RegistryManager as a caller of get()
  Approvers,    \* processes of mcp-hub approve
  MaxEdits      \* bound: editions published

Registered == [Namespaces -> Configs \cup {None}]
NoProxies == [n \in Namespaces |-> None]

(* One edition: its files parse and agree with each other or not, its      *)
(* users, the layers that are the company and then the user's groups in    *)
(* order, and every other team's.                                          *)
Edition == [valid : BOOLEAN, users : SUBSET {User},
            layers : Seq(Registered), others : Seq(Registered)]

(* The client's minute (client.ts:53) outlasts the 30 seconds of a request *)
(* (registry-client.ts:73).                                                *)
ASSUME HubConstants ==
  /\ Editions \subseteq Edition
  /\ Reuse >= 1
  /\ Registry \in Audiences /\ Hub \in Callers
  /\ None \notin Configs /\ MaxEdits \in Nat

VARIABLES
  remote,     \* the hub's configuration has a configUrl
  company,    \* the editions of the company repository, the last on disk
  accepted,   \* the edition the registry serves, 0 for none
  localFile,  \* the registry file on the machine, as mcp-hub approve reads it
  hub,        \* the refresh() in flight
  snapshot,   \* the hub's filtered registry
  etag,       \* the revision the hub says it has
  records,    \* the trust records in the hub's memory
  trustFile,  \* registry.trust.json
  approver,   \* the approving processes
  confirmed   \* history: what an engineer typed "approve" for

hubVars == <<remote, company, accepted, localFile, hub, snapshot, etag, records, trustFile,
             approver, confirmed, clientVars>>
registryVars == <<remote, company, accepted, localFile>>
trustVars == <<trustFile, approver, confirmed>>
managerVars == <<hub, snapshot, etag>>

Latest == Len(company)

-----------------------------------------------------------------------------
(* The registry *)

(* The last layer that defines a namespace wins.                           *)
Merged(layers) ==
  [n \in Namespaces |->
     LET defining == {i \in 1 .. Len(layers) : layers[i][n] # None}
     IN  IF defining = {} THEN None
         ELSE layers[CHOOSE i \in defining : \A j \in defining : j <= i][n]]

(* Mutant: the groups of everybody.                                        *)
MutantComposeRegistry(e) == Merged(company[e].layers \o company[e].others)

composeRegistry(e) == Merged(company[e].layers)

(* Another edition is on the registry's disk.                              *)
PublishEdition ==
  /\ Latest <= MaxEdits
  /\ \E e \in Editions \ {company[Latest]} : company' = Append(company, e)
  /\ UNCHANGED <<remote, accepted, localFile, managerVars, records, trustVars, clientVars>>

(* RegistrySource.refresh() runs without an await: what the repository     *)
(* says replaces the snapshot, or it is rejected and the last one stays.   *)
RefreshSource ==
  /\ company[Latest].valid
  /\ accepted # Latest
  /\ accepted' = Latest
  /\ UNCHANGED <<remote, company, localFile, managerVars, records, trustVars, clientVars>>

(* GET /registry with a token, by status.                                  *)
Serves == accepted # 0 /\ User \in company[accepted].users

(* Mutant: the revision digests the source revision and not the proxies.   *)
MutantUnmodified == Serves /\ etag # None

Unmodified == Serves /\ etag = composeRegistry(accepted)

-----------------------------------------------------------------------------
(* The hub: RegistryManager *)

IdleHub == [pc |-> "idle", waited |-> FALSE, body |-> None]

MutantRequireApproval(n, config) == config # None /\ records[n] # None

requireApproval(n, config) == config # None /\ records[n] = config

Filtered(proxies) ==
  [n \in Namespaces |-> IF requireApproval(n, proxies[n]) THEN proxies[n] ELSE None]

(* refresh(): one at a time, by the timer or a caller.                     *)
StartRefresh ==
  /\ hub.pc = "idle"
  /\ IF remote THEN Get(Hub, Registry) ELSE UNCHANGED clientVars
  /\ hub' = [hub EXCEPT !.pc = IF remote THEN "token" ELSE "file"]
  /\ UNCHANGED <<registryVars, snapshot, etag, records, trustVars>>

TokenArrived ==
  /\ hub.pc = "token"
  /\ caller[Hub].pc = "served"
  /\ hub' = [hub EXCEPT !.pc = "request"]
  /\ UNCHANGED <<registryVars, snapshot, etag, records, trustVars, clientVars>>

(* Line 52: the refresh fails and everything it had stays.                 *)
FailedRefresh == hub' = IdleHub /\ UNCHANGED <<snapshot, etag>>

TokenRefused ==
  /\ hub.pc = "token"
  /\ caller[Hub].pc = "failed"
  /\ FailedRefresh
  /\ Return(Hub)
  /\ UNCHANGED <<registryVars, records, trustVars>>

(* The registry answers with a body, which is read in the 30 seconds the   *)
(* request has, or with 304, 401, 413 or 503.                              *)
RequestAnswered ==
  /\ hub.pc = "request"
  /\ Serves /\ ~Unmodified
  /\ hub' = [hub EXCEPT !.pc = "body", !.body = composeRegistry(accepted)]
  /\ UNCHANGED <<registryVars, snapshot, etag, records, trustVars, clientVars>>

Swap(proxies) ==
  /\ snapshot' = [revision |-> proxies, proxies |-> Filtered(proxies)]
  /\ hub' = IdleHub

BodyRead ==
  /\ hub.pc = "body"
  /\ etag' = hub.body
  /\ Swap(hub.body)
  /\ Return(Hub)
  /\ UNCHANGED <<registryVars, records, trustVars>>

(* 304 filters the snapshot at hand, which has been filtered before.       *)
NotModified ==
  /\ hub.pc = "request"
  /\ Unmodified
  /\ IF snapshot # None
       THEN /\ snapshot' = [snapshot EXCEPT !.proxies = Filtered(@)]
            /\ hub' = IdleHub /\ UNCHANGED etag
       ELSE FailedRefresh
  /\ Return(Hub)
  /\ UNCHANGED <<registryVars, records, trustVars>>

(* No snapshot for this user, an oversized one, or no answer in time.      *)
RequestFails ==
  /\ \/ hub.pc = "request" /\ (~Serves \/ faults < MaxFaults)
     \/ hub.pc = "body" /\ faults < MaxFaults
  /\ FailedRefresh
  /\ caller' = [caller EXCEPT ![Hub] = NoCall]
  /\ faults' = IF faults < MaxFaults THEN faults + 1 ELSE faults
  /\ UNCHANGED <<registryVars, records, trustVars, cache, inFlight, exchange>>

(* loadLocal(): the file on the machine is the registry.                   *)
LoadLocal ==
  /\ hub.pc = "file"
  /\ IF localFile = None THEN FailedRefresh
     ELSE Swap(localFile) /\ UNCHANGED etag
  /\ UNCHANGED <<registryVars, records, trustVars, clientVars>>

(* Mutant of LoadTrust: a missing file is no record store.                 *)
MutantLoadTrust ==
  /\ records' = trustFile
  /\ UNCHANGED <<registryVars, managerVars, trustVars, clientVars>>

(* TrustStore.load(): a missing file changes nothing in memory.            *)
LoadTrust ==
  /\ records' = IF trustFile = None THEN records ELSE trustFile
  /\ UNCHANGED <<registryVars, managerVars, trustVars, clientVars>>

(* 30 seconds. A request that has waited for as long has been given up,    *)
(* and what get() resolved to is used at once.                             *)
HubTick ==
  /\ hub.pc \in {"request", "body"} => ~hub.waited
  /\ hub.pc = "token" => Waiting(Hub)
  /\ hub' = [hub EXCEPT !.waited = hub.pc \in {"request", "body"}]
  /\ ClientTick
  /\ UNCHANGED <<registryVars, snapshot, etag, records, trustVars>>

(* The hub dies: its memory is gone, the trust file is not.                *)
HubCrash ==
  /\ faults < MaxFaults
  /\ faults' = faults + 1
  /\ ClientCrash
  /\ hub' = IdleHub /\ snapshot' = None /\ etag' = None /\ records' = NoProxies
  /\ UNCHANGED <<registryVars, trustVars>>

-----------------------------------------------------------------------------
(* wagglebot mcp-hub approve, and the engineer *)

Idle == [pc |-> "idle", namespace |-> None, config |-> None, records |-> None]

(* The engineer puts the registry as it now is on the machine.             *)
WriteLocalFile ==
  /\ localFile' = composeRegistry(Latest)
  /\ localFile' # localFile
  /\ UNCHANGED <<remote, company, accepted, managerVars, records, trustVars, clientVars>>

ShowProxy(p) ==
  /\ approver[p].pc = "idle"
  /\ localFile # None
  /\ \E n \in Namespaces :
       /\ localFile[n] # None
       /\ approver' = [approver EXCEPT ![p] =
            [pc |-> "shown", namespace |-> n, config |-> localFile[n], records |-> None]]
  /\ UNCHANGED <<registryVars, managerVars, records, trustFile, confirmed, clientVars>>

(* The engineer types "approve", and the store is loaded.                  *)
Confirm(p) ==
  /\ approver[p].pc = "shown"
  /\ confirmed' = confirmed \cup {<<approver[p].namespace, approver[p].config>>}
  /\ approver' = [approver EXCEPT ![p].pc = "loaded",
       ![p].records = IF trustFile = None THEN NoProxies ELSE trustFile]
  /\ UNCHANGED <<registryVars, managerVars, records, trustFile, clientVars>>

(* approve(): the loaded records and the new one replace the file. The     *)
(* proxy is the one that was shown, whatever the registry file says now.   *)
Approve(p) ==
  /\ approver[p].pc = "loaded"
  /\ trustFile' = [approver[p].records EXCEPT ![approver[p].namespace] = approver[p].config]
  /\ approver' = [approver EXCEPT ![p] = Idle]
  /\ UNCHANGED <<registryVars, managerVars, records, confirmed, clientVars>>

(* Another answer, or the process dies.                                    *)
GiveUp(p) ==
  /\ approver[p].pc # "idle"
  /\ approver' = [approver EXCEPT ![p] = Idle]
  /\ UNCHANGED <<registryVars, managerVars, records, trustFile, confirmed, clientVars>>

-----------------------------------------------------------------------------
(* The rest of the hub's process also calls its token client. An answer    *)
(* from the cache leaves no trace there.                                   *)
ClientStep ==
  /\ \/ \E c \in Callers \ {Hub}, a \in Audiences : GetJoins(c, a) \/ GetStarts(c, a)
     \/ \E a \in Audiences : cache[a] # None /\ Invalidate(a)
     \/ \E x \in Exchanges : ExchangeStep(x) \/ Refused(x) \/ ExchangeFails(x)
     \/ \E c \in Callers \ {Hub} : Return(c)
  /\ UNCHANGED <<registryVars, managerVars, records, trustVars>>

ManagerStep ==
  StartRefresh \/ TokenArrived \/ TokenRefused \/ RequestAnswered \/ BodyRead
  \/ NotModified \/ RequestFails \/ LoadLocal

ApproveStep(p) == ShowProxy(p) \/ Confirm(p) \/ Approve(p) \/ GiveUp(p)

HubInit ==
  /\ ClientInit
  /\ remote \in BOOLEAN
  /\ company \in {<<e>> : e \in Editions}
  /\ accepted = IF company[1].valid THEN 1 ELSE 0
  /\ localFile = None
  /\ hub = IdleHub /\ snapshot = None /\ etag = None
  /\ records = NoProxies /\ trustFile = None
  /\ approver = [p \in Approvers |-> Idle]
  /\ confirmed = {}

HubNext ==
  \/ PublishEdition \/ RefreshSource \/ WriteLocalFile
  \/ ManagerStep \/ ClientStep \/ HubTick \/ HubCrash
  \/ LoadTrust
  \/ \E p \in Approvers : ApproveStep(p)

(* Timers fire, the event loop runs what is ready, the auth service and    *)
(* the registry answer unless there is a fault, the request has a timeout. *)
HubFairness ==
  /\ WF_hubVars(RefreshSource)
  /\ WF_hubVars(ManagerStep)
  /\ \A x \in Exchanges : WF_hubVars(ExchangeStep(x) /\ UNCHANGED
                            <<registryVars, managerVars, records, trustVars>>)

HubSpec == HubInit /\ [][HubNext]_hubVars /\ HubFairness

-----------------------------------------------------------------------------
MaybeRegistered == Registered \cup {None}

HubTypeOK ==
  /\ ClientTypeOK
  /\ remote \in BOOLEAN
  /\ company \in Seq(Edition) /\ accepted \in 0 .. Latest
  /\ localFile \in MaybeRegistered /\ etag \in MaybeRegistered
  /\ hub \in [pc : {"idle", "token", "request", "body", "file"}, waited : BOOLEAN,
              body : MaybeRegistered]
  /\ snapshot = None \/ snapshot \in [revision : Registered, proxies : Registered]
  /\ records \in Registered /\ trustFile \in MaybeRegistered
  /\ approver \in [Approvers -> [pc : {"idle", "shown", "loaded"},
                                 namespace : Namespaces \cup {None},
                                 config : Configs \cup {None}, records : MaybeRegistered]]
  /\ confirmed \subseteq (Namespaces \X Configs)

(* The token the hub sends has not expired when the registry checks it, up *)
(* to the timeout of the request, although it came from a cache and other  *)
(* callers exchange, invalidate and age it meanwhile.                      *)
PresentedBeforeExpiry ==
  hub.pc = "request" => caller[Hub].pc = "served" /\ caller[Hub].token > 0

(* A configuration runs only if an engineer was shown that configuration   *)
(* and approved it, whatever the repository, the registry file, the trust  *)
(* file and several approving processes did in the meantime.               *)
OnlyConfirmedServed ==
  snapshot # None =>
    \A n \in Namespaces :
      snapshot.proxies[n] # None => <<n, snapshot.proxies[n]>> \in confirmed

(* The hub's registry is part of one accepted edition as this user may see *)
(* it, never a mix of two, and the revision it claims is the one it has.   *)
SnapshotIsOneEdition ==
  snapshot # None =>
    /\ \E e \in 1 .. Latest : /\ snapshot.revision = Merged(company[e].layers)
                              /\ remote => company[e].valid /\ User \in company[e].users
    /\ \A n \in Namespaces : snapshot.proxies[n] \in {None, snapshot.revision[n]}
    /\ remote => etag = snapshot.revision

(* When the repository is no longer edited and what it says is valid for   *)
(* this user, the hub ends up with that registry, after any failures.      *)
HubCatchesUp ==
  remote /\ <>[](company[Latest].valid /\ User \in company[Latest].users)
    => <>[](snapshot # None /\ snapshot.revision = Merged(company[Latest].layers))

(* docs/api-reference.md:408-410, new or changed entries "are skipped      *)
(* until `wagglebot mcp-hub approve <namespace>`": a refresh that succeeds *)
(* after the approval was loaded runs the approved configuration.          *)
ApprovedIsServed ==
  [][snapshot' # None /\ (snapshot' # snapshot \/ NotModified) =>
       \A n \in Namespaces :
         requireApproval(n, snapshot'.revision[n])
           => snapshot'.proxies[n] = snapshot'.revision[n]]_hubVars
=============================================================================
