# Wagglebot, specified and verified

TLA+ models of Wagglebot, TLC runs on small instances, and TLAPS proofs of the
properties that matter most. Line numbers refer to the sources under `src/`.

## 1. The system

Wagglebot gives every engineer of a company the same local AI-agent setup. It
is one CLI, a few packages and a few small services.

| Component | State it keeps | Operations | Talks to | What is hard about it | What makes it correct |
|---|---|---|---|---|---|
| Auth: key resolvers (`services/auth/src/catalog-keys.ts`, `index.ts`) | served key map or cache of GitHub keys, readiness | timed refresh, resolve | catalog file or GitHub, `ssh-keygen` | refreshes and fetches overlap and fail half way | served keys are one accepted edition, and the latest one in the end; a cached key is recent |
| Auth: challenge store (`challenge-store.ts`) | Map of outstanding challenges | issue, consumeAttempt, consumeSuccess, cleanup | the issuer | awaits before the lock, bounded cleanup, restarts | one use, capped attempts, expiry |
| Auth: issuer and HTTP (`issuer.ts`, `http.ts`, `ssh-verifier.ts`) | rate-limit Map, handlers in flight | challenge, session | store, resolver, clients | handlers interleave at every await | a session only for the right user, audience and key; every request answered |
| D26 client (`packages/d26-auth`) | token cache, exchanges in flight | get, invalidate | auth service, hub | single flight, retry, callers that share another's abort | one exchange per audience; no token is presented after it expired |
| Registry (`services/registry`) | accepted company snapshot, degraded flag | refresh, GET /registry | company checkout, hub | last known good, conditional requests | a principal sees exactly its teams' proxies |
| MCP hub (`services/mcp-hub`) | filtered snapshot, etag, trust file | refresh, approve (another process) | registry, D26 client | 304 answers, approvals between refreshes | only approved proxies run, approved proxies do run |
| Company cache (`packages/cli/src/company-cache.ts`) | revisions, `active` link, credential links, receipt | refresh, settle | git, pinned CLI | crashes and concurrent updates around renames | `active` always names a complete revision; credentials never lost |
| Pinned runtime (`pinned-runtime.ts`) | one directory per version | ensure, run | npm | two processes install one version | the version directory, once complete, stays usable |
| Provisioning (`commands/*.ts`) | managed state, harness files, backups | one stage after another | skills CLI, git, harness files | a stage fails in the middle, lists change between runs | only what Wagglebot owns is touched, and stale things go away |
| Project mode (`commands/project-update.ts`) | managed blocks in repository files | sync | the repository | preflight, then several writes | all or nothing on malformed input; idempotent |
| Local brain (`packages/local-brain`) | component memory, handle pool, index caches | propose, save, search, explore | files, git, CodeGraph | read-check-write across processes, writing what another function reads back, eviction during use | a save makes the change that was shown, and no other; a handle in use is not evicted early |
| Context engine, contracts, scanner, database migrations, scripts | none of their own | | | | |

How they interact: the CLI provisions a machine from the company cache and
writes the MCP configuration of every harness. The hub on that machine asks
the registry for its proxies, with a token the D26 client gets from the auth
service by signing a challenge with the engineer's SSH key; the auth service
and the registry both read the company catalog.

`PROJECT.json` lists every component with its status, and every hazard with
its line and the properties that cover it.

## 2. Plan

1. **Auth** (done): `CatalogKeys`, `ChallengeStore`, `AuthIssuer`, the abstract
   `SessionGrant`, and their proofs; `GithubKeys`. First because every service trusts it and
   because it has the most interleavings.
2. **Company cache and pinned runtime** (done): `CompanyCache` (concurrent
   updates, crashes, credential settlement), its proofs, and `PinnedRuntime`.
3. **Tokens, registry and hub** (done): `D26Client` and, on top of it,
   `RegistryHub`.
4. **Provisioning** (done): `ManagedBlock` and `HomeFiles` below the stages
   `InstallAgents`, `InstallSkills` and `WriteMcp`, which `Provision` composes;
   `ProjectUpdate`.
5. **Local brain** (done): `LocalMemory` and `CodeGraphPool`.

Every invariant and every action property of a passing run is proved (section
5); the three liveness properties stay with TLC. No module declares a RECURSIVE
operator, so none is out of the provers' reach. The library's `FlattenSeq` is a
recursive function; what it computes is derived from the least-number principle
of `LeastNumber`.

## 3. The modules

### CatalogKeys

`createCatalogPublicKeyResolver` and the timer of `index.ts`. `catalog` is the
history of the file's editions, the last being on disk. A refresh captures an
edition (`StartRefresh`, the `readFile`), hashes it user by user (`HashUser`,
one `await fingerprint`), then replaces the map (`PublishKeys`), is rejected
(`RejectCatalog`) or fails (`RefreshFault`). `keys`, `ready` are the closure's
variables, `served` is history: which edition `keys` came from. `Refreshers`
bounds how many refreshes overlap; `setInterval` itself sets no bound. The boot
refresh runs alone before the server listens, so it is one step. A refresh
rejects at the first bad document; as nothing it does before is visible,
`RejectCatalog` may happen at any point of the hashing.

### GithubKeys

`createGitHubPublicKeyResolver`, which `AUTH_KEY_SOURCE` puts in place of the
catalog. `cache` is its Map, `call` the `resolve()` calls in flight: a cached
key is returned at once (`ResolveCached`), otherwise each caller fetches the
page (`ResolveFetches`), reads it (`PageRead`) and, after `ssh-keygen`, caches
the key from then on (`KeyCached`), or fails (`ResolveFails`). `pages` is the
history of a user's page. `KeyIsRecent` needs an assumption the code does not
enforce for the fingerprint, which has no timeout: no call takes more than
`MaxDelay`. Within that time two overlapping calls can return the newer key
first and the older one after it, and cache the older; the key is then still
accepted for no more than `Lifetime + MaxDelay` after it was replaced, which
is what the property says. The exchange in `AuthIssuer` takes its key from
`CatalogKeys`.

### ChallengeStore

The bodies that `withLock` runs, each synchronous, hence each one operator:
`Insert`, `Admits`/`CountAttempt`, `Delete`, all after the bounded cleanup
`CleanedUp`. The cleanup walks a JavaScript Map in insertion order, so a record
carries its `order`.

### AuthIssuer

Extends both and adds the handlers. A session handler is a record whose `pc`
names the await it is suspended at: `attempt` (hashing the nonce), `resolve`,
`verify` (ssh-keygen), `consume` (the store's queue), `sign` (the JWT). Each
action runs the code from one await to the next. `IssueStart` takes the rate
limit and reads the clock, `IssueInsert` stores the challenge after its nonce
is hashed. A handler may present any challenge ever answered, by any user
name, with a right or wrong nonce and a signature of any key. `ExchangeFails`
is every other way to the catch block: unknown user, bad signature, abort,
timeout, failed spawn. `Crash` empties the Maps and kills the handlers; what
clients hold survives. `minted`, `tries`, `sessions`, `life` and the fields
`arrived` and `edition` are history that only properties read.

### SessionGrant

The promise without clock, store or handlers: a ticket is opened once, may be
lost at any time, and is granted at most once. `AuthIssuer` implements it
under the mapping `OpenTickets`/`GrantedTickets`: a ticket is open while an
`issue()` call, the store or a handler about to sign holds its challenge.

### CompanyCache

A cached command is a process and its child, `pc` being its next file
operation; `Commands` share only the file system. `Refresh` groups
`refreshCompanyCache` (`StartUpdate` to `Activate`, and `RefreshFails` for its
catch block from any step), `Run` the pinned child, of which the shell stage
matters here (`ChildMigrate` to `ChildCommit`, and `RunFails` for any failure
before its end), `Settle` the closure `settleCredentials`. `active`, `next`
and `receipt` are links and a file that hold a revision's name; `legacy` is
the set of directory entries of the engineer's old credential file, `stable`
what is at the new path, `shell` which of the two the managed block loads.
The error path's removals are one step: nobody else uses those paths, and a
crash between them leaves what a crash before them leaves. A revision's
content is abstracted away: a candidate either validates (`CloneValid`) or
fails. All commands configure the same subdirectory, `Selected`, so resolving
it in a validated revision cannot fail. `replaced` (what an activation replaced)
and `overlapped` (two commands have run at once) are history.

### PinnedRuntime

`ensurePinnedRuntime` for one version, one action per file operation. A
directory is its name and whether it is `complete`. `renameSync` of a
directory fails over a non-empty one (`RenameRefused`) and when its source is
gone (`Displace` into "idle").

### D26Client

`get`, `invalidate` and the exchange of `client.ts`. An exchange's `pc` names
the await it is suspended at: the challenge request, `ssh-keygen`, the session
request. Callers of `get()` for one audience wait on the same exchange and
settle together (`Settles`), also when it was aborted by the signal of the one
that began it (`ExchangeFails`). `Refused` is the 401 that is retried once from
the start. A token is the number of 30-second ticks it has left, so `Reuse = 2`
is the minute of line 53. The module has no specification of its own;
`RegistryHub` composes it.

### RegistryHub

Three programs and the company repository. `company` is the repository's
history of editions, `accepted` the one `RegistrySource` serves;
`RefreshSource` runs without an await. An edition is its verdict (`valid`), its
users, and the layers that apply to this user and to others. A revision is the
composed registry itself: the code's revision is a digest of exactly that. The
hub's `refresh()` is suspended at `token`, `request`, `body` or `file`;
`Swap` is the rest of `doRefresh`. `NotModified` returns the snapshot as it is
stored, that is, filtered. `records` is the trust store in the hub's memory,
`trustFile` the file, and each approving process has its own copy from
`Confirm` to `Approve`. The hub's own process loads the trust file whenever it
likes (`LoadTrust`): the repository has no hub entry point yet that fixes the
moment. `confirmed` is history: what an engineer was shown and approved.

### ManagedBlock and HomeFiles

A text file is a sequence of lines: the two markers, content, text, TOML
tables. `renderManagedBlock`, `removeManagedBlock` and `outsideBlock` are the
functions of those names. `HomeFiles` adds the merged JSON files (servers and
hooks), `managed.json` and the backup set, and what every stage does with them:
`Write` is the step that leaves files as given, after backing up those that
really change; a stage's local variables are `run.local`. Reading, changing and
writing one file is one step, as the code between is synchronous. `run.at` is
the stage, in the order of `provision-company.ts`; `StageFails` is a stage
that throws before it has done anything.

### InstallAgents, InstallSkills, WriteMcp

One module per stage with state of its own. `InstallAgents`: sources are
fetched one by one, each may fail, then the sweep, then the save.
`InstallSkills`: the phases of removal (all adapters) and installation (one
harness at a time) around the external skills CLI, whose result and whose
report are chosen independently (`Removal`), and which keeps a lock file.
`WriteMcp`: which proxies a registry admits, which of them each of the dialects
renders, and the merge into JSON and TOML files. Each writes the managed
state last, so that a crash leaves files without a record, never the reverse.

### Provision

Composes the stages with instructions, hooks and shell files, and adds what
happens around a run: the company repository changes, the catalog is
unreadable, the engineer edits files and repairs or restores, the run is
killed, perhaps while the state file is rewritten (`Torn`). `before` is history:
each file as the engineer last had it. `MachineSpec` is the specification of a
machine that begins with any files, skills and lock file.

What its constants may be is stated by form. `JsonPaths`, `TomlPaths`, `TextPaths`
and `AgentPaths` are the files that the harness table names, and no path has two
forms (`HarnessTable`). `Fits` says which file can be at a path: lines of the
five kinds, or JSON, in which what is wagglebot's carries its credential. A
machine begins with such files (`MachineHas`), and the engineer writes such files
(`EditsFit`). `CompanyLists` says what `skills.list` and a registry can name; the
schemas enforce it.

### ProjectUpdate

`runProjectUpdate` (the specification is `ProjectSpec`, of the files there are
at first): two files are made from templates (`Ensure`), then all
outputs are computed (`Preflight`), then each target is written by a rename
(`Apply`) and may fail alone. Killed anywhere. `atStart` is history. A target is
none of the two files (`ProjectConstants`): the paths come from fixed tables.

### LocalMemory

A document is a sequence of heading, fence and text lines. `parseMemory` counts
the fences before a heading; the functions of `proposal.ts` do not, as in the
code. What `renderEntry` writes is not always what the parser reads:
`AsRead` is a title without the `#` signs at its end (`parse.ts:49`, so that
"Prefer C#" is read as "Prefer C"), and a body in `Fencing` is a summary that
begins with ```` ``` ```` or `~~~`, whose line opens a code block
(`parse.ts:36`). `ReadsBack` says of a proposal that neither is the case. The
lines of an entry under its heading count as one; entries that are split into
several chunks are left out.

A call holds its proposal; `save()` is suspended once, at `readFile`
(`SaveRead`, then `SaveWrite` or `SaveRefused`). `SaveWrite` writes what
`Rebuilt` derives from the text that was read, not what the proposal holds, as
in the code. `brain init` looks for the file and then writes it. `EditFile` is
everybody else. `MemorySpec` is the specification of a file that is not there
or holds any document at first. `MemoryConstants` asks only that what is edited
in is a sequence of lines.

### CodeGraphPool

The Map of open projects in its order of use. A call is suspended while
CodeGraph opens a handle, while its watcher starts, and while it answers.
Handles are numbered in the order in which CodeGraph returned them, and one
stays `open` until the pool closes it. `since` is history: for a call that waits for its
answer, the other projects used since its handle was the most recent of the pool. A
call whose project is still in the pool when it comes to `#remember`, because another call
opened it too, keeps that entry's place in the Map (`KeepsPlace`); `since` then
promises it nothing.

### MCLocalProcesses

`CompanyCache`, `PinnedRuntime`, `LocalMemory` and `CodeGraphPool` run on one workstation
and share no state, so one instance explores them side by side: the variable `part`
chooses which of the four a behaviour is about.

## 4. The runs

| Run | Instance | Shows |
|---|---|---|
| `catalog_keys` | 2 users, 2 keys, 2 overlapping refreshes, 2 edits, 1 fault or crash | served keys are always one whole accepted edition; they settle on the latest one |
| `catalog_keys_overlap` | 2 overlapping refreshes (expected violation) | an accepted change can be undone by a slower refresh that read an older file |
| `auth_exchange` | 2 audiences, a known user and a stranger, clock 0..2, rate limit 2 with a table of 2, a crash; 2 exchanges over 2 challenges, or the rate limiter alone over 5, or 2 GitHub resolves with a page that changes: one of the three per behaviour | types, single use, matching sessions, the attempt cap, the rate bound, expiry and refinement of `SessionGrant`; no cached GitHub key outlives its lifetime |
| `auth_answers` | 2 exchanges, 1 challenge, key rotation, a crash | the session's key was accepted and is no older than the exchange; every exchange is answered |
| `cache_subdirectory` | 1 command, a subdirectory (expected violation) | a cached shell sync misses a credential file outside the root |
| `cache_rollback` | 2 commands, 3 revisions (expected violation) | a rollback undoes another command's finished update |
| `hub` | remote and local hub, 2 configurations of one namespace, 3 kinds of edition, 1 more edition, 1 approver, another caller, 1 fault or crash | only confirmed proxies of one edition; tokens alive when presented; one exchange per audience; the hub catches up |
| `hub_304` | as above (expected violation) | an approved proxy stays out after a 304 |
| `provision` | 2 harnesses, 2 layers, 1 source, and one of four subjects per behaviour: agents, skills, files, project | the engineer's content and originals survive; ownership follows what is installed; credentials reach the file; project mode is all or nothing |
| `local_processes` | 2 cached commands, 3 revisions, credentials in the root or the subdirectory, a kill; 1 memory writer over 3 documents and a template, 3 titles, 3 bodies, 2 days; 2 calls, 3 projects, pool of 2; 2 installers, 4 directories, a kill; one of the four per behaviour | `active` never dangles, credentials are not lost or stranded, `active.next` is released, shells load the credentials after commands that do not overlap; titles stay unique, one entry changes, what was shown can be saved; the pool is sound and evicts by recency; two installations never lose the runtime |
| `memory_writers` | 2 writers, 1 document (expected violation) | a save overwrites what another process wrote after the save had read the file |
| `code_writers` | as above (expected violation) | one project has two open handles |

Bounds. `MaxEdits`, `MaxFaults`, `MaxTime` and the set `Ids` bound the service
runs. Two exchanges, two challenges and two refreshes are what a race needs. The rate
limiter gets five challenges, in the behaviours of `MCAuthExchange` that have no exchange,
which no rate limit reads: with a limit of two, a window can be opened at 0 and filled at 1,
and the next one opened and filled at 2, so that the ticks 1 and 2 see three challenges, which is the
bound of `RateBound` and is reached (one less is refuted); the fifth is what a
window one too long would add. Ids are numbers drawn in order, which loses nothing and
needs no symmetry. One `issue()` waits at a time, since each inserts a challenge of its
own, and the two challenges the exchanges race for are of different pairs while one
rate window lasts. A GitHub key expires two ticks after it was cached and a call lasts
at most one, so three ticks reach every age; the Map is per user and one user
enough. Two
attempts make the cap reachable by two exchanges of one challenge; a clock of
two ticks beyond issue passes through before, at and after expiry, and lets a
rate window open, fill, expire and open again. Where `auth_exchange` exchanges, no more than
`CleanupLimit` challenges are in the store at a time, as in a service with fewer
than a thousand live ones; there expiry is exact. `catalog_keys_overlap` only
takes a second refresh in flight.
Two commands and three revisions (that of the older release and one for each
command, or two for one of them) let one update start before, and finish
after, another. Three processes in `PinnedRuntime` can lose a complete runtime (one
moves an old directory back while another has moved the new one aside);
nothing in the repository promises more, so the passing run states it for two.

`hub`: one namespace with two configurations is enough for every approval,
change and override; two exchanges let the manager and another caller exchange
at once; a life of three ticks against a reuse limit of two makes a token age
from fresh to unusable while it is waited for; an edition that is invalid and
one for which a team's entry overrides the company's are both reached.

`provision`: the stages meet in the managed state, of which each writes its own
field, and in Gemini's settings file, which two stages write. So a behaviour
varies one subject at a time, and the disturbance (one crash or one edit) falls
on the stages of that subject (`Relevant`). Three runs for agents let a file be
installed, survive a failed fetch and then be swept; two are enough for the
others, since what a run does depends on the previous one only through the
files and the state. Gemini and Codex differ in every respect in which
harnesses differ: JSON or TOML, hooks or none, agents or none. A limit of
four lines is one below what the largest target would have.

`local_processes`: the four parts share no state (see the module's comment).
In memory, two titles that are similar, one that is read as another, a secret, a summary that opens
a code block, a fenced heading and a document that does not parse reach every outcome of a
proposal; a day passes between proposing and saving. Eight lines are what two entries added to the
template need. `local_processes` has one writer: a writer reads the file as a whole, so
the edits stand for the others, and `TitlesStayUnique` and
`OneEntryChanges` compare with the text that the save has read. What happens to a change made
after that is the question of `memory_writers`. Three handles and three projects overflow a pool of two
while two calls open at once.

`CHECK_DEADLOCK FALSE` is set where the system comes to rest or a bound is used
up: the auth runs (clock, ids), `hub` (faults, editions), `provision`
(nothing is explored after the last run), `local_processes` (revisions, a closed pool, an
installed runtime). `catalog_keys` checks deadlock. Symmetry is over handlers and audiences
(auth service) and over commands and revisions (cache), only in runs without liveness.

Fairness. `ResolverFairness`: the event loop runs ready continuations, the
interval keeps firing and `ssh-keygen -lf` on one line of input ends (the code
sets no timer on it; a process that hung would hang that refresh, and at boot
the service). `AuthFairness`: every await of a session handler settles, since
hashing, the queue and signing always do, and verification is killed after
five seconds or on abort (`ssh-verifier.ts` 67-69). `HubFairness`: the
registry's and the hub's timers fire, a ready continuation runs, the auth service and
the registry answer unless a (bounded) fault happens, and the hub's request has
a timeout. The hub's timer is there unless the configuration sets `configRefreshSeconds` to 0, which
disables it: `HubCatchesUp` is about a hub that has it. Nothing is owed by
clients, operators or faults.

`CompanyCache`, `PinnedRuntime`, `Provision`, `ProjectUpdate`, `LocalMemory` and
`CodeGraphPool` have no liveness properties: nothing in the code retries, so a command or
call that fails waits for the engineer, and whether a call of the pool ends is up to
CodeGraph alone.

Findings. `PROJECT.json` quotes the documents that the six expected violations
contradict: `catalog_keys_overlap` and `hub_304` (`docs/api-reference.md`), `cache_subdirectory`
and `cache_rollback` (`docs/phase-1-command-migration.md`), `memory_writers` (the plan
of the local brain) and `code_writers` (its design). Other disagreements, seen in the
models without a run of their own:

- `docs/api-reference.md:188`, "The challenge expires after 60 seconds": expiry
  is only enforced by `cleanupExpired`, which stops after 1000 deletions
  (`challenge-store.ts:102`). `TakenBeforeExpiry` fails with `CleanupLimit = 1`
  and two challenges; the theorem therefore assumes `FewExpired`.
- `pinned-runtime.test.ts:82`, "replaces an incomplete installed version only
  after npm creates a complete runtime": a complete one that another process
  installed meanwhile is displaced as well (`pinned-runtime.ts:95`).
- `docs/api-reference.md:162-163`, "10 requests per username and audience per 60
  seconds": the window is fixed (`issuer.ts:129`), and nine requests at its end followed by
  ten at the start of the next are all admitted within seconds. `RateBound` states what
  the code gives: one less than twice the limit, 19 in any 60 seconds.
- `docs/superpowers/plans/2026-09-11-local-repository-brain.md:849`, "Duplicate, conflicting [...]
  input cannot enter `.agents/memory.md`", and line 638 of the design: an entry
  "Prefer C#" is written as `### Prefer C#` and read as "Prefer C" (`parse.ts:49`), so
  that proposing it again finds neither that title nor a similar one and adds a second
  entry. A summary that begins with ```` ``` ```` or `~~~` passes `proposal.ts:83-91` and opens
  a code block when it is rendered; the parser does not see the entries after it any more, and accepts
  the document as long as it finds one chunk. In both cases `TitlesStayUnique` or `OneEntryChanges`
  is false; both are stated for entries that read back (`ReadsBack`).
- `project-update.ts:76`: a failing preflight leaves "every file unchanged", and
  its error says "No file changed.", although memory and changelog files were
  created before it.
- The local brain's design lets a failing CodeGraph handle be closed and
  opened once more (line 562); `explore()` closes and retries nothing. A handle whose
  index or watcher failed, or that was still opening when everything was closed,
  stays open.
- Headings inside a fence are skipped by the parser and seen by the functions that insert and
  replace entries; `TitlesStayUnique` and `OneEntryChanges` are stated for documents without such headings
  (`Plain`). A replacement that changes the title can be
  proposed but never saved, and a proposal saved on a later day is refused.
- An `env` scheme with an empty map is a valid registry entry, and three dialects
  render it without its credential; `CredentialCarried` does not hold it to more.
- After a crash between a written MCP file and the saved state, the entry is
  the engineer's for all later runs. Restoring a backup does not
  restore the managed state.
- When the catalog cannot be read, only the company layer applies, and what the
  teams had listed is uninstalled.

Every property of a passing run has a mutant: an operator next to the one it
mutates, named `Mutant...`, with a plausible bug that makes TLC refute the
property.

## 5. The proofs

Each theorem holds for every value of the constants that the named ASSUMEs of
the modules allow: any users, keys, handlers, commands, callers, editions,
processes, documents and bounds. TLC evaluates those ASSUMEs in every run, and
checks the same properties on the instances of section 4. The argument is the
same everywhere: an inductive invariant stronger than the property, one step of
the proof for each action.

`KeyResolverProofs`, about the two sources of keys: `ResolverTypeOK` and
`KeysFromOneEdition`, as a candidate holds only keys of the edition its refresh
has read, so that one with nothing left to hash is that edition; and
`KeyIsRecent`. `OnlyKeySince` follows a key from the page that was read to the
cache and to the caller: each of the three bounds the time since it was its
user's only key, and the bounds add up to `Lifetime + MaxDelay`.

`AuthIssuerProofs`, about the composed service:

- `AuthTypeOK`, with `StageOK`: what a handler already knows at each await; and
  `KeysFromOneEdition` once more, as the resolver is part of it.
- `SingleUse`, from `OneHolder`: a challenge is held by the store, by one
  handler about to sign, or by one session, never by two of them. `SingleUse`
  alone is not inductive, since two handlers past `consume` would break it.
- `SessionMatchesChallenge`, from `TicketsMatch`: every copy of a challenge
  agrees with what it was drawn for.
- `AttemptCap`, from `TriesCounted`: the store's counter is the true number.
- `RateBound`, from `WindowsCounted`: what a window has admitted is at most its
  counter, and without the challenge that opened it one less. When the next window
  opens, that challenge is too old to count, so what the time since still
  sees of the window before is less than the limit; so it is for a pair whose window
  has run out. Sets of admitted challenges are counted with the library's facts about
  cardinalities.
- `TakenBeforeExpiry`, if never more than `CleanupLimit` stored challenges are
  expired (`FewExpired`): then one cleanup deletes them all, which needs that a
  bounded set of numbers has a greatest element.
- `SessionKeysWereAccepted`: the key behind a session was its user's in an
  accepted edition. `SessionKeyCurrent` adds that this edition is no older than
  the exchange, if refreshes do not overlap (`OneRefresh`); the run
  `catalog_keys_overlap` shows that it needs this.
- `ImplementsSessionGrant`: every step opens, grants or loses tickets or
  stutters. The proof replaces tickets by ids (`TicketsByIds`), which is
  sound because holders match.

`CompanyCacheProofs`:

- `CacheTypeOK`.
- `ActiveExists`. Alone it is not inductive, because a failing refresh deletes
  a directory and a rollback activates an old one. `MakingIsPrivate` says that
  nothing refers to a revision while it is being made, `NextIsOwn` that the
  next rename activates the command's own revision, and `RootsExist` that
  every root noted for a rollback still exists.
- `LegacyRemovedOnlyWhenReplaced`, from `ReceiptMeansStable` (a receipt is
  written after the shell block) and `SettlesAnActiveCache` (so the receipt
  that settling compares with `active` is a real one).
- `NeverStranded`, from `LegacyIsActive`: as long as nothing is at the stable
  path, credentials are in the active revision, and no refresh is past the point
  where it must have linked them.
- `NextReleased`, from `NextIsAwaited`: without a kill, whoever made the link is
  about to rename it.
- `LoadsAfterSerialCommands`. That commands did not overlap, that none was killed and that
  the file was at the root is part of the property, not of the theorem, which is about
  every behaviour. `Restorable` says what a command noted for its rollback,
  `CanLoad` where the credentials are at each step of the one that is busy (`OneBusy`).
  Without the root it is false, as `cache_subdirectory` shows.

`RegistryHubProofs`, about client, registry and hub together:

- `HubTypeOK`.
- `OneExchangeAtATime`: who waits, waits on an exchange for his audience.
- `PresentedBeforeExpiry`, from `TokensAreLive`: a token that `get()` hands out
  has the reuse margin left, of which at most one wait is used up before it is
  checked.
- `OnlyConfirmedServed`, from `RecordsAreConfirmed`: the records in memory, in the
  trust file and in every approver's copy were confirmed. Alone it would not
  survive a load of the trust file.
- `SnapshotIsOneEdition`, from `CarriesOneEdition`: so is the answer being read
  and the file on the machine.

`LocalProcessesProofs`:

- `PoolSound`. A handle whose watcher starts is open and in no other call's
  hands (`WatchedIsOwn`), so that the pool takes in no handle twice. That the
  pool stays within its limit when it evicts is the part a list makes hard; its
  lemmas say what moving, removing and appending do to a sequence without
  duplicates.
- `EvictedAfterOthers`, from `SinceInv`: what is nearer to the end of the pool than the
  handle of a waiting call was used since. A use moves one entry to the end and keeps the
  order of the others (`TouchedKeepsOrder`); an eviction takes the first of a full pool, so
  that `MaxOpen - 1` distinct projects are behind it (`EvictedIsOldest`).
- `InstalledRuntimeStays` for two installers (`TwoInstallers`), from
  `TakenByTheOther`: an installer whose rename is refused has been overtaken by
  the other, which has nothing left to do but to clean up. Three installers
  violate it even without a kill: an incomplete directory that one has moved
  aside comes back after another has moved the complete one aside.
- `MemoryTypeOK` of `LocalMemory`, from `MemoryInv`: a proposal is for a document
  that the parser accepts and that has its section. This theorem assumes
  `ProposalsAreSome`, that `Nothing` is no proposal.
- `FreshProposalsAreSaved`, from `WasBuilt`: a proposal that is held is what
  `buildProposal` made of some fact on its base. If the base and the day are the same, an
  addition is rebuilt from the same fact, and a replacement from the one entry of its title, which
  is the one that was replaced because the text is the same (`FreshIsRebuilt`). It
  assumes `TargetsAreSome`, that `Nothing` is no replacement target.
- `TitlesStayUnique` and `OneEntryChanges`, for entries that read back (`ReadsBack`) in
  documents without quoted headings (`Plain`). Both splices of `proposal.ts` replace lines
  `a .. b` by one entry (`RebuiltIs`). In a document without headings inside
  fences the fences before `a`, and before what follows `b`, are even in number,
  so every heading outside the splice is one before exactly when it is one
  after (`HeadingsStay`, `HeadingsMove`), with the same text below it
  (`BodiesStay`) and in the same section (`SectionsStay`). What is left is that the
  entry is the only one of its title (`SoleTitle`), which `buildProposal` looked up.

`ManagedFilesProofs`, about any document and the runs in a repository:

- Rendering the managed block leaves one block with what it was given and every line
  around it (`RenderKeepsTheRest`), removing leaves the same lines
  (`RemovalKeepsTheRest`). They rest on where the first marker of each kind is
  in a concatenation (`MarkersAround`).
- What joining a list of lists gives (`FlattenSeqIs`, `JoinsAre`), and from it that the
  merge of hooks keeps those of the engineer in their order (`HooksMerge`).
- Rendering, removing, the TOML category and both JSON merges make files that fit
  their path from files that do (`RenderFits`, `RemovalFits`, `CategoryFits`, `JsonHooksFit`,
  `JsonServersFit`).
- `ProjectAllOrNothing`, from `PlanIsRight`: what is planned but not yet written
  keeps the engineer's text and is in step with the sources, and what is not
  planned is in step already. The hypothesis is that a file has one managed block at
  most, at first and after each edit (`Documents`, `OneBlockEach`), as in all that wagglebot
  writes: `removeManagedBlock` strips the first block only, so that of two pasted
  ones the second would stay.

`ProvisionProofs`, about the machine as a whole. Each step of every stage is shown
to leave the files alone or to be one `Write` (`RunStepWrites`), so an argument
about files is made once per kind of file and not once per step.

- `BackupHoldsTheOriginal`, from `BackedUp`: what a run has noted as backed up
  is in the newest set.
- `ListedAgentsStay`: the sweep goes by what the run could fetch.
- `OwnedUntilGone`, from `OwnInv`: through removal, installation, failures and
  false reports, what the stage would save still names every source with a
  skill that the lock attributes to it. The lock file has skills only at first.
- `MachineTypeOK` and `CredentialCarried`, from `MachineInv`, the conjunction of
  `OwnInv`, of which stage has which local variables (`AtInv`), of what a stage
  is about to save (`StepTyped`) and of the form of every file, on disk and in the
  backup set (`FilesFit`). `CredentialCarried` alone is not inductive: a merge keeps
  entries it finds, and a restore puts back what was found earlier.
- `ForeignContentStays`, from the same invariant with at most one marker of each
  kind in every TOML file, which also has to hold at the start and for what the
  engineer writes (`FilesOnce`, `OneBlockInToml`): the merge of a file with two blocks
  removes the first and leaves the markers of the other, which then read as the
  engineer's.

The last three assume `MachineHas` of the files at the start, and that a symbolic link is
neither lines nor JSON (`LinkIsNoDocument`).

`LeastNumber` has the principle those proofs use where they need a least or
greatest number: the library's induction theorems take an operator, which the
provers cannot instantiate, but its theorem about minimal elements of
well-founded relations is about sets.

The assumptions on the constants are those of the code's own constants: limits
and windows are at least one, a life is longer than the reuse margin and that
margin longer than one wait (60 against 30 seconds, `HubConstants`), and a
"nothing" is none of the values it stands beside. `LiteralsAreStrings` only states that three string literals are in STRING,
which the provers have no rule for.

Only model-checked:

- `KeysConverge`, `EveryExchangeAnswered`, `HubCatchesUp`:
  liveness under fairness is out of the prover's reach.
- The expected violations, by nature.

Assumed throughout: `randomBytes` never repeats an id, a signature verifies
exactly under the key that made it, a digest stands for what it digests, the
clock does not go back, `randomUUID` never repeats a name, and a file operation
either happens or fails.

## 6. Not modelled

Parsing, encodings, wording, file modes and logging, except where a property
depends on them. Also left out:

- the start of the services (configuration, key loading);
- the verification of a session token's signature and claims: no state;
- `wagglebot skills update`, which rewrites pins in the company repository, the
  update of the company checkout and of the CLI itself, and the stage commands
  run alone (the same functions as in the whole run);
- two updates of one home directory at once, and write failures inside the
  stages for instructions, hooks and shell files;
- the loss of the skills CLI's lock file;
- the harness table, argument parsing, help and reporting: tables without state;
- ranking, git evidence and the path policy of the local brain, and the context
  engine on top: read-only queries;
- the proxies themselves: the hub has no code that starts them yet;
- schemas, the secret scanner, the database migrations and the scripts.
