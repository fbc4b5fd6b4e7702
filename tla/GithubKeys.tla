----------------------------- MODULE GithubKeys -----------------------------
(***************************************************************************)
(* The optional key source of the auth service, services/auth/src/         *)
(* catalog-keys.ts, createGitHubPublicKeyResolver: a cache in front of     *)
(* https://<host>/<username>.keys. Calls of resolve() interleave at the    *)
(* fetch and at the await of ssh-keygen, and do not know of each other.    *)
(***************************************************************************)
EXTENDS Integers, Sequences

CONSTANTS
  Accounts,        \* users with a page of keys
  AuthorizedKeys,
  Resolvers,       \* resolve() calls that may be in flight at once
  NoAnswer,        \* nothing was returned yet
  Lifetime,        \* GITHUB_CACHE_MS, in ticks
  MaxDelay,        \* the longest a call takes, in ticks: two seconds for the
                   \* fetch and what ssh-keygen needs, which has no timeout
  MaxClock,        \* bound: the last instant of the clock
  MaxPages         \* bound: changes of an account's page

ASSUME GithubConstants ==
  /\ Lifetime \in Nat \ {0} /\ MaxDelay \in Nat /\ MaxClock \in Nat /\ MaxPages \in Nat

VARIABLES
  clock,
  pages,           \* every page an account has had: its keys, and since when
  cache,           \* the Map of cached keys
  call,            \* the local state of each resolve() in flight
  githubReady,     \* isReady
  returned         \* history: the key last returned, for whom and when

githubVars == <<clock, pages, cache, call, githubReady, returned>>

(* The keys the host serves for an account now.                            *)
Published(a) == pages[a][Len(pages[a])].keys

Nothing == [x \in {} |-> NoAnswer]

GithubInit ==
  /\ clock = 0
  /\ \E first \in [Accounts -> SUBSET AuthorizedKeys] :
       pages = [a \in Accounts |-> <<[keys |-> first[a], since |-> 0]>>]
  /\ cache = Nothing
  /\ call = Nothing
  /\ githubReady = FALSE
  /\ returned = NoAnswer

-----------------------------------------------------------------------------
(* Mutant of Fresh: an entry is still good at the instant it expires.      *)
MutantFresh(a) == a \in DOMAIN cache /\ cache[a].expires >= clock

Fresh(a) == a \in DOMAIN cache /\ cache[a].expires > clock

Returns(a, key) == returned' = [account |-> a, key |-> key, at |-> clock]

Settled(r) == call' = [q \in DOMAIN call \ {r} |-> call[q]]

(* A cached key that has not expired is returned at once.                  *)
ResolveCached(r, a) ==
  /\ r \notin DOMAIN call
  /\ Fresh(a)
  /\ Returns(a, cache[a].key)
  /\ UNCHANGED <<clock, pages, cache, call, githubReady>>

(* Otherwise every caller fetches the page itself.                         *)
ResolveFetches(r, a) ==
  /\ r \notin DOMAIN call
  /\ ~Fresh(a)
  /\ call' = [q \in DOMAIN call \cup {r} |->
       IF q # r THEN call[q] ELSE [pc |-> "fetch", account |-> a, since |-> clock]]
  /\ UNCHANGED <<clock, pages, cache, githubReady, returned>>

(* The host answers with the page of this instant, which must list exactly *)
(* one key; up to the await of fingerprint().                              *)
PageRead(r) ==
  /\ r \in DOMAIN call /\ call[r].pc = "fetch"
  /\ \E key \in Published(call[r].account) :
       /\ Published(call[r].account) = {key}
       /\ call' = [call EXCEPT ![r] = [pc |-> "hash", account |-> @.account,
                                        since |-> @.since, key |-> key]]
  /\ UNCHANGED <<clock, pages, cache, githubReady, returned>>

(* The key is cached from now on, over whatever another call has cached.   *)
KeyCached(r) ==
  /\ r \in DOMAIN call /\ call[r].pc = "hash"
  /\ LET a == call[r].account IN
       /\ cache' = [b \in DOMAIN cache \cup {a} |->
            IF b # a THEN cache[b] ELSE [key |-> call[r].key, expires |-> clock + Lifetime]]
       /\ Returns(a, call[r].key)
  /\ githubReady' = TRUE
  /\ Settled(r)
  /\ UNCHANGED <<clock, pages>>

(* The catch block: a timeout, a redirect, no key or several, an abort, a  *)
(* failed ssh-keygen. The cache keeps what it has.                         *)
ResolveFails(r) ==
  /\ r \in DOMAIN call
  /\ githubReady' = FALSE
  /\ Settled(r)
  /\ UNCHANGED <<clock, pages, cache, returned>>

-----------------------------------------------------------------------------
(* A user adds, removes or rotates keys.                                   *)
PageChanges(a) ==
  /\ Len(pages[a]) <= MaxPages
  /\ \E keys \in SUBSET AuthorizedKeys \ {Published(a)} :
       pages' = [pages EXCEPT ![a] = Append(@, [keys |-> keys, since |-> clock])]
  /\ UNCHANGED <<clock, cache, call, githubReady, returned>>

(* No call outlasts MaxDelay ticks.                                        *)
ClockTicks ==
  /\ clock < MaxClock
  /\ \A r \in DOMAIN call : clock < call[r].since + MaxDelay
  /\ clock' = clock + 1
  /\ UNCHANGED <<pages, cache, call, githubReady, returned>>

GithubCrash ==
  /\ cache' = Nothing
  /\ call' = Nothing
  /\ githubReady' = FALSE
  /\ UNCHANGED <<clock, pages, returned>>

GithubNext ==
  \/ \E r \in Resolvers :
       \/ \E a \in Accounts : ResolveCached(r, a) \/ ResolveFetches(r, a)
       \/ PageRead(r) \/ KeyCached(r) \/ ResolveFails(r)
  \/ \E a \in Accounts : PageChanges(a)
  \/ ClockTicks
  \/ GithubCrash

GithubSpec == GithubInit /\ [][GithubNext]_githubVars

-----------------------------------------------------------------------------
(* docs/api-reference.md:256, "optional pinned-host GitHub key response is *)
(* cached for 15 minutes": a key the service accepts was its user's only   *)
(* key at some instant less than the cache's lifetime and one call ago,    *)
(* although an entry's time runs from the end of a call, not from its      *)
(* read, and overlapping calls put older pages over newer ones.            *)
KeyIsRecent ==
  returned # NoAnswer =>
    LET history == pages[returned.account] IN
      \E i \in 1 .. Len(history) :
        /\ history[i].keys = {returned.key}
        /\ i < Len(history) => history[i + 1].since > returned.at - (Lifetime + MaxDelay)
=============================================================================
