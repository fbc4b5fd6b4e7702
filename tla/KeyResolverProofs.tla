-------------------------- MODULE KeyResolverProofs --------------------------
(***************************************************************************)
(* The two sources of keys. The served key map of the catalog resolver is  *)
(* one whole accepted edition of the catalog file, for any users, keys,    *)
(* number of overlapping refreshes and faults. The age of a key the GitHub *)
(* resolver answers with is bounded, for any accounts, keys, overlapping   *)
(* calls and page changes, any lifetime and any duration of a call.        *)
(***************************************************************************)
EXTENDS CatalogKeys, GithubKeys, TLAPS

(* What makes KeysFromOneEdition inductive: a candidate under construction *)
(* holds only keys of the edition its refresh has read.                    *)
CandidatesFromOneEdition ==
  \A r \in Refreshers : refresh[r].pc = "hashing" =>
    \A u \in Users :
      refresh[r].candidate[u] \in {NoKey, catalog[refresh[r].edition].keys[u]}

ResolverInv ==
  /\ ResolverTypeOK
  /\ CandidatesFromOneEdition
  /\ KeysFromOneEdition

(* The editions are numbered from 1, and each maps users to keys.          *)
LEMMA EditionTypes ==
  ASSUME ResolverTypeOK
  PROVE  /\ Latest \in Nat
         /\ Latest \in 1 .. Latest
         /\ \A e \in 1 .. Latest : catalog[e].keys \in KeyMap
<1>1. catalog \in Seq(Catalog) /\ Latest >= 1
  BY DEF ResolverTypeOK
<1>2. Latest \in Nat
  BY <1>1 DEF Latest
<1>3. Latest \in 1 .. Latest
  BY <1>1, <1>2
<1>4. ASSUME NEW e \in 1 .. Latest
      PROVE  catalog[e] \in Catalog
  BY <1>1, <1>4 DEF Latest
<1>5. \A file \in Catalog : file.keys \in KeyMap
  BY DEF Catalog
<1> QED
  BY <1>2, <1>3, <1>4, <1>5

(* A fault is counted only below its bound.                                *)
LEMMA FaultCount ==
  ASSUME faults \in 0 .. MaxFaults, faults < MaxFaults
  PROVE  faults + 1 \in 0 .. MaxFaults
  BY CatalogBounds

(* The initial state satisfies the invariant.                              *)
LEMMA ResolverInvInit == ResolverInit => ResolverInv
<1> SUFFICES ASSUME ResolverInit
             PROVE  ResolverInv
  OBVIOUS
<1> USE DEF ResolverInit, KeyMap, NoKeys, Idle, RefreshState
<1>1. ResolverTypeOK
  <2>1. catalog \in Seq(Catalog) /\ Latest = 1
    BY CatalogAssumption DEF Latest
  <2>2. faults \in 0 .. MaxFaults
    BY CatalogBounds
  <2>3. keys \in KeyMap /\ refresh \in [Refreshers -> RefreshState]
    OBVIOUS
  <2>4. \A r \in Refreshers : refresh[r].pc # "hashing"
    OBVIOUS
  <2>5. ready \in BOOLEAN /\ up \in BOOLEAN
    OBVIOUS
  <2>6. served \in 0 .. Latest /\ Latest >= 1
    BY <2>1
  <2> HIDE DEF ResolverInit, KeyMap, NoKeys, Idle, RefreshState
  <2> QED
    BY <2>1, <2>2, <2>3, <2>4, <2>5, <2>6 DEF ResolverTypeOK
<1>2. CandidatesFromOneEdition
  BY DEF CandidatesFromOneEdition
<1>3. KeysFromOneEdition
  BY DEF KeysFromOneEdition
<1> QED
  BY <1>1, <1>2, <1>3 DEF ResolverInv

(* Editions already in the file's history never change.                    *)
LEMMA EditKeepsEditions ==
  ASSUME ResolverTypeOK, EditCatalog
  PROVE  /\ catalog' \in Seq(Catalog)
         /\ Latest' = Latest + 1
         /\ \A e \in 1 .. Latest : catalog'[e] = catalog[e]
<1>1. PICK file \in Catalog : catalog' = Append(catalog, file)
  BY DEF EditCatalog
<1> QED
  BY <1>1 DEF ResolverTypeOK, Latest

(* Every step preserves the invariant.                                     *)
LEMMA ResolverInvNext == ResolverInv /\ [ResolverNext]_resolverVars => ResolverInv'
<1> SUFFICES ASSUME ResolverInv, [ResolverNext]_resolverVars
             PROVE  ResolverInv'
  OBVIOUS
<1> USE DEF ResolverInv
<1>1. CASE EditCatalog
  <2>1. /\ catalog' \in Seq(Catalog)
        /\ Latest' = Latest + 1
        /\ \A e \in 1 .. Latest : catalog'[e] = catalog[e]
    BY <1>1, EditKeepsEditions
  <2>2. UNCHANGED <<keys, ready, up, refresh, served, faults>>
    BY <1>1 DEF EditCatalog
  <2>3. Latest \in Nat
    BY DEF ResolverTypeOK, Latest
  <2>4. ResolverTypeOK'
    BY <2>1, <2>2, <2>3 DEF ResolverTypeOK, Latest
  <2>5. CandidatesFromOneEdition'
    <3> SUFFICES ASSUME NEW r \in Refreshers, refresh[r].pc = "hashing", NEW u \in Users
                 PROVE  refresh[r].candidate[u] \in {NoKey, catalog'[refresh[r].edition].keys[u]}
      BY <2>2 DEF CandidatesFromOneEdition
    <3>1. refresh[r].edition \in 1 .. Latest
      BY DEF ResolverTypeOK
    <3> QED
      BY <2>1, <3>1 DEF CandidatesFromOneEdition
  <2>6. KeysFromOneEdition'
    <3>1. served # 0 => catalog'[served] = catalog[served]
      BY <2>1, <2>3 DEF ResolverTypeOK
    <3> QED
      BY <2>2, <3>1 DEF KeysFromOneEdition, Acceptable
  <2> QED
    BY <2>4, <2>5, <2>6
<1>2. CASE BootAccepts
  <2>1. Latest \in 1 .. Latest /\ catalog[Latest].keys \in KeyMap
    BY EditionTypes
  <2>2. ResolverTypeOK'
    BY <1>2, <2>1 DEF BootAccepts, ResolverTypeOK, Latest
  <2>3. CandidatesFromOneEdition'
    BY <1>2 DEF BootAccepts, CandidatesFromOneEdition
  <2>4. KeysFromOneEdition'
    BY <1>2, <2>1 DEF BootAccepts, KeysFromOneEdition, Acceptable, Latest
  <2> QED
    BY <2>2, <2>3, <2>4
<1>3. CASE BootRejects \/ BootFault
  <2>1. UNCHANGED <<catalog, keys, refresh, served>>
    BY <1>3 DEF BootRejects, BootFault
  <2>2. up' \in BOOLEAN /\ ready' \in BOOLEAN
    BY <1>3 DEF BootRejects, BootFault
  <2>0. faults' \in 0 .. MaxFaults
    BY <1>3, FaultCount DEF BootRejects, BootFault, ResolverTypeOK
  <2>3. ResolverTypeOK'
    BY <2>0, <2>1, <2>2 DEF ResolverTypeOK, Latest
  <2>4. CandidatesFromOneEdition' /\ KeysFromOneEdition'
    BY <2>1 DEF CandidatesFromOneEdition, KeysFromOneEdition, Acceptable
  <2> QED
    BY <2>3, <2>4
<1>4. ASSUME NEW r \in Refreshers, StartRefresh(r)
      PROVE  ResolverInv'
  <2>1. Latest \in Nat /\ Latest \in 1 .. Latest
    BY DEF ResolverTypeOK, Latest
  <2>2. ResolverTypeOK'
    BY <1>4, <2>1 DEF StartRefresh, ResolverTypeOK, Latest, RefreshState, KeyMap, NoKeys
  <2>3. CandidatesFromOneEdition'
    BY <1>4 DEF StartRefresh, CandidatesFromOneEdition, NoKeys, ResolverTypeOK
  <2>4. KeysFromOneEdition'
    BY <1>4 DEF StartRefresh, KeysFromOneEdition, Acceptable
  <2> QED
    BY <2>2, <2>3, <2>4
<1>5. ASSUME NEW r \in Refreshers, HashUser(r)
      PROVE  ResolverInv'
  <2>1. PICK u \in Unhashed(r) :
          refresh' = [refresh EXCEPT ![r].candidate[u] = catalog[refresh[r].edition].keys[u]]
    BY <1>5 DEF HashUser
  <2>2. /\ UNCHANGED <<catalog, keys, ready, up, served, faults>>
        /\ refresh[r].pc = "hashing"
    BY <1>5 DEF HashUser
  <2>3. u \in Users /\ refresh[r].edition \in 1 .. Latest
    BY <2>2 DEF Unhashed, ResolverTypeOK
  <2>4. catalog[refresh[r].edition].keys[u] \in Keys \cup {NoKey}
    BY <2>3, EditionTypes DEF KeyMap
  <2>5. ResolverTypeOK'
    BY <2>1, <2>2, <2>3, <2>4 DEF ResolverTypeOK, Latest, RefreshState, KeyMap
  <2>6. CandidatesFromOneEdition'
    BY <2>1, <2>2, <2>3
    DEF CandidatesFromOneEdition, ResolverTypeOK, RefreshState, KeyMap
  <2>7. KeysFromOneEdition'
    BY <2>2 DEF KeysFromOneEdition, Acceptable
  <2> QED
    BY <2>5, <2>6, <2>7
<1>6. ASSUME NEW r \in Refreshers, PublishKeys(r)
      PROVE  ResolverInv'
  <2> DEFINE e == refresh[r].edition
  <2>1. e \in 1 .. Latest /\ refresh[r].candidate \in KeyMap /\ catalog[e].keys \in KeyMap
    BY <1>6, EditionTypes DEF PublishKeys, ResolverTypeOK, RefreshState
  <2>2. refresh[r].candidate = catalog[e].keys
    <3>1. ASSUME NEW u \in Users
          PROVE  refresh[r].candidate[u] = catalog[e].keys[u]
      BY <1>6 DEF PublishKeys, Unhashed, CandidatesFromOneEdition
    <3> QED
      BY <2>1, <3>1 DEF KeyMap
  <2>3. /\ UNCHANGED <<catalog, up, faults>>
        /\ keys' = catalog[e].keys
        /\ served' = e
        /\ ready' = TRUE
        /\ refresh' = [refresh EXCEPT ![r] = Idle]
        /\ Acceptable(e)
    BY <1>6, <2>2 DEF PublishKeys
  <2>4. ResolverTypeOK'
    BY <2>1, <2>3 DEF ResolverTypeOK, Latest, Idle, RefreshState, NoKeys, KeyMap
  <2>5. CandidatesFromOneEdition'
    BY <2>3 DEF CandidatesFromOneEdition, Idle, ResolverTypeOK
  <2>6. KeysFromOneEdition'
    BY <2>1, <2>3 DEF KeysFromOneEdition, Acceptable
  <2> QED
    BY <2>4, <2>5, <2>6
<1>7. ASSUME NEW r \in Refreshers, RejectCatalog(r) \/ RefreshFault(r)
      PROVE  ResolverInv'
  <2>1. /\ UNCHANGED <<catalog, keys, up, served>>
        /\ refresh' = [refresh EXCEPT ![r] = Idle]
    BY <1>7 DEF RejectCatalog, RefreshFault
  <2>2. ready' \in BOOLEAN
    BY <1>7 DEF RejectCatalog, RefreshFault
  <2>0. faults' \in 0 .. MaxFaults
    BY <1>7, FaultCount DEF RejectCatalog, RefreshFault, ResolverTypeOK
  <2>3. ResolverTypeOK'
    BY <2>0, <2>1, <2>2 DEF ResolverTypeOK, Latest, Idle, RefreshState, NoKeys, KeyMap
  <2>4. CandidatesFromOneEdition'
    BY <2>1 DEF CandidatesFromOneEdition, Idle, ResolverTypeOK
  <2>5. KeysFromOneEdition'
    BY <2>1 DEF KeysFromOneEdition, Acceptable
  <2> QED
    BY <2>3, <2>4, <2>5
<1>8. CASE ResolverCrash
  <2>0. faults' \in 0 .. MaxFaults
    BY <1>8, FaultCount DEF ResolverCrash, ResolverTypeOK
  <2>1. keys' \in KeyMap /\ refresh' \in [Refreshers -> RefreshState]
    BY <1>8 DEF ResolverCrash, Idle, RefreshState, NoKeys, KeyMap
  <2>2. /\ ready' \in BOOLEAN /\ up' \in BOOLEAN /\ served' = 0
        /\ \A r \in Refreshers : refresh'[r].pc # "hashing"
        /\ catalog' = catalog
    BY <1>8 DEF ResolverCrash, Idle
  <2>3. ResolverTypeOK'
    BY <2>0, <2>1, <2>2 DEF ResolverTypeOK, Latest
  <2>4. CandidatesFromOneEdition' /\ KeysFromOneEdition'
    BY <1>8 DEF ResolverCrash, CandidatesFromOneEdition, KeysFromOneEdition, Idle, NoKeys
  <2> QED
    BY <2>3, <2>4
<1>9. CASE UNCHANGED resolverVars
  <2>1. UNCHANGED <<catalog, keys, ready, up, refresh, served, faults>>
    BY <1>9 DEF resolverVars
  <2> QED
    BY <2>1
    DEF ResolverTypeOK, CandidatesFromOneEdition, KeysFromOneEdition, Acceptable, Latest
<1> QED
  BY <1>1, <1>2, <1>3, <1>4, <1>5, <1>6, <1>7, <1>8, <1>9
  DEF ResolverNext, ResolverStep, RefreshStep

(* The state of the resolver keeps its types.                              *)
THEOREM ResolverTypeCorrect == ResolverSpec => []ResolverTypeOK
<1>1. ResolverInv => ResolverTypeOK
  BY DEF ResolverInv
<1> QED
  BY <1>1, ResolverInvInit, ResolverInvNext, PTL DEF ResolverSpec

(* However many refreshes overlap and wherever they are rejected or fail,  *)
(* resolve() reads the whole content of one accepted edition of the file.  *)
THEOREM ServedKeysAreOneEdition == ResolverSpec => []KeysFromOneEdition
<1>1. ResolverInv => KeysFromOneEdition
  BY DEF ResolverInv
<1> QED
  BY <1>1, ResolverInvInit, ResolverInvNext, PTL DEF ResolverSpec

-----------------------------------------------------------------------------
(* Now the GitHub resolver: what its state consists of.                    *)
Page == [keys : SUBSET AuthorizedKeys, since : Nat]
CachedKey == [key : AuthorizedKeys, expires : Nat]
Fetching == [pc : {"fetch"}, account : Accounts, since : Nat]
Hashing == [pc : {"hash"}, account : Accounts, since : Nat, key : AuthorizedKeys]

GithubTypeOK ==
  /\ clock \in Nat
  /\ pages \in [Accounts -> Seq(Page)]
  /\ \A a \in Accounts : Len(pages[a]) >= 1
  /\ DOMAIN cache \subseteq Accounts
  /\ \A a \in DOMAIN cache : cache[a] \in CachedKey
  /\ \A r \in DOMAIN call : call[r] \in Fetching \cup Hashing
  /\ returned # NoAnswer => returned \in [account : Accounts, key : AuthorizedKeys, at : Nat]

(* The key was the only one of a page at some instant not before t.        *)
OnlyKeyIn(history, key, t) ==
  \E i \in 1 .. Len(history) :
    /\ history[i].keys = {key}
    /\ i < Len(history) => history[i + 1].since >= t

OnlyKeySince(a, key, t) == OnlyKeyIn(pages[a], key, t)

(* What makes KeyIsRecent inductive: the age of a key is known while its   *)
(* call waits for ssh-keygen, and then as long as it is in the cache.      *)
CallsAreTimely ==
  \A r \in DOMAIN call : call[r].since <= clock /\ clock <= call[r].since + MaxDelay

HashedKeysAreRecent ==
  \A r \in DOMAIN call :
    call[r].pc = "hash" => OnlyKeySince(call[r].account, call[r].key, call[r].since)

CachedKeysAreRecent ==
  \A a \in DOMAIN cache :
    /\ cache[a].expires <= clock + Lifetime
    /\ OnlyKeySince(a, cache[a].key, cache[a].expires - (Lifetime + MaxDelay))

ReturnedKeyIsRecent ==
  returned # NoAnswer =>
    /\ returned.at <= clock
    /\ OnlyKeySince(returned.account, returned.key, returned.at + 1 - (Lifetime + MaxDelay))

GithubInv ==
  /\ GithubTypeOK
  /\ CallsAreTimely
  /\ HashedKeysAreRecent
  /\ CachedKeysAreRecent
  /\ ReturnedKeyIsRecent

-----------------------------------------------------------------------------
(* What was true not before t was true not before any earlier instant.     *)
LEMMA EarlierBound ==
  ASSUME GithubTypeOK, NEW a \in Accounts, NEW key, NEW t \in Int, NEW u \in Int, u <= t,
         OnlyKeySince(a, key, t)
  PROVE  OnlyKeySince(a, key, u)
<1>1. PICK i \in 1 .. Len(pages[a]) :
        pages[a][i].keys = {key} /\ (i < Len(pages[a]) => pages[a][i + 1].since >= t)
  BY DEF OnlyKeySince, OnlyKeyIn
<1>2. pages[a] \in Seq(Page)
  BY DEF GithubTypeOK
<1>3. i < Len(pages[a]) => pages[a][i + 1] \in Page
  BY <1>2
<1>4. i < Len(pages[a]) => pages[a][i + 1].since >= u
  BY <1>1, <1>3 DEF Page
<1> QED
  BY <1>1, <1>4 DEF OnlyKeySince, OnlyKeyIn

(* The page of this instant has been there until now.                      *)
LEMMA PublishedNow ==
  ASSUME GithubTypeOK, NEW a \in Accounts, NEW key, Published(a) = {key}, NEW t
  PROVE  OnlyKeySince(a, key, t)
<1>1. pages[a] \in Seq(Page)
  BY DEF GithubTypeOK
<1>2. Len(pages[a]) \in 1 .. Len(pages[a]) /\ ~(Len(pages[a]) < Len(pages[a]))
  BY <1>1 DEF GithubTypeOK
<1> QED
  BY <1>2 DEF OnlyKeySince, OnlyKeyIn, Published

(* A page that changes now is added to the account's history, and leaves   *)
(* what it says of the past.                                               *)
LEMMA HistoryGrows ==
  ASSUME GithubTypeOK, NEW b \in Accounts, PageChanges(b)
  PROVE  /\ GithubTypeOK'
         /\ \A a \in Accounts, key \in AuthorizedKeys, t \in Int :
              t <= clock /\ OnlyKeySince(a, key, t) => OnlyKeySince(a, key, t)'
<1>1. PICK published \in SUBSET AuthorizedKeys :
        pages' = [pages EXCEPT ![b] = Append(@, [keys |-> published, since |-> clock])]
  BY DEF PageChanges
<1>2. [keys |-> published, since |-> clock] \in Page
  BY DEF Page, GithubTypeOK
<1>3. pages' \in [Accounts -> Seq(Page)]
  BY <1>1, <1>2 DEF GithubTypeOK
<1>4. \A a \in Accounts : Len(pages'[a]) >= 1
  <2> SUFFICES ASSUME NEW a \in Accounts
               PROVE  Len(pages'[a]) >= 1
    OBVIOUS
  <2>1. pages[a] \in Seq(Page) /\ Len(pages[a]) >= 1
    BY DEF GithubTypeOK
  <2>2. pages'[a] = IF a = b THEN Append(pages[a], [keys |-> published, since |-> clock]) ELSE pages[a]
    BY <1>1 DEF GithubTypeOK
  <2> QED
    BY <2>1, <2>2
<1>5. GithubTypeOK'
  BY <1>3, <1>4 DEF GithubTypeOK, PageChanges
<1>6. ASSUME NEW a \in Accounts, NEW key \in AuthorizedKeys, NEW t \in Int, t <= clock, OnlyKeySince(a, key, t)
      PROVE  OnlyKeySince(a, key, t)'
  <2>1. PICK i \in 1 .. Len(pages[a]) :
          pages[a][i].keys = {key} /\ (i < Len(pages[a]) => pages[a][i + 1].since >= t)
    BY <1>6 DEF OnlyKeySince, OnlyKeyIn
  <2>2. pages[a] \in Seq(Page)
    BY DEF GithubTypeOK
  <2>3. CASE a # b
    <3>1. pages'[a] = pages[a]
      BY <1>1, <2>3 DEF GithubTypeOK
    <3> QED
      BY <2>1, <3>1 DEF OnlyKeySince, OnlyKeyIn
  <2>4. CASE a = b
    <3>1. pages'[a] = Append(pages[a], [keys |-> published, since |-> clock])
      BY <1>1, <2>4 DEF GithubTypeOK
    <3>2. /\ Len(pages'[a]) = Len(pages[a]) + 1
          /\ \A j \in 1 .. Len(pages[a]) : pages'[a][j] = pages[a][j]
          /\ pages'[a][Len(pages[a]) + 1] = [keys |-> published, since |-> clock]
      BY <2>2, <3>1
    <3>3. i \in 1 .. Len(pages'[a]) /\ pages'[a][i].keys = {key}
      BY <2>1, <2>2, <3>2
    <3>4. pages'[a][i + 1].since >= t
      <4>1. CASE i < Len(pages[a])
        <5>1. i + 1 \in 1 .. Len(pages[a])
          BY <2>1, <2>2, <4>1
        <5> QED
          BY <2>1, <3>2, <4>1, <5>1
      <4>2. CASE i = Len(pages[a])
        BY <1>6, <3>2, <4>2 DEF GithubTypeOK
      <4> QED
        BY <2>1, <2>2, <4>1, <4>2
    <3> QED
      BY <3>3, <3>4 DEF OnlyKeySince, OnlyKeyIn
  <2> QED
    BY <2>3, <2>4
<1> QED
  BY <1>5, <1>6

-----------------------------------------------------------------------------
(* No key has been fetched yet.                                            *)
LEMMA GithubInvInit == GithubInit => GithubInv
<1> SUFFICES ASSUME GithubInit
             PROVE  GithubInv
  OBVIOUS
<1>1. PICK first \in [Accounts -> SUBSET AuthorizedKeys] :
        pages = [a \in Accounts |-> <<[keys |-> first[a], since |-> 0]>>]
  BY DEF GithubInit
<1>2. \A a \in Accounts : [keys |-> first[a], since |-> 0] \in Page
  BY <1>1 DEF Page
<1>3. pages \in [Accounts -> Seq(Page)]
  BY <1>1, <1>2
<1>4. GithubTypeOK
  BY <1>1, <1>3 DEF GithubInit, GithubTypeOK, Nothing
<1> QED
  BY <1>4 DEF GithubInit, GithubInv, Nothing, CallsAreTimely, HashedKeysAreRecent,
              CachedKeysAreRecent, ReturnedKeyIsRecent

(* Every step keeps the ages known.                                        *)
LEMMA GithubInvNext == GithubInv /\ [GithubNext]_githubVars => GithubInv'
<1> SUFFICES ASSUME GithubInv, [GithubNext]_githubVars
             PROVE  GithubInv'
  OBVIOUS
<1>0. /\ Lifetime \in Nat \ {0} /\ MaxDelay \in Nat
      /\ clock \in Nat
      /\ GithubTypeOK
  BY GithubConstants DEF GithubInv, GithubTypeOK
<1>1. ASSUME NEW r \in Resolvers, NEW a \in Accounts, ResolveCached(r, a)
      PROVE  GithubInv'
  <2>1. /\ a \in DOMAIN cache /\ cache[a] \in CachedKey /\ cache[a].expires > clock
        /\ returned' = [account |-> a, key |-> cache[a].key, at |-> clock]
        /\ UNCHANGED <<clock, pages, cache, call>>
    BY <1>0, <1>1 DEF ResolveCached, Fresh, Returns, GithubTypeOK
  <2>2. returned' \in [account : Accounts, key : AuthorizedKeys, at : Nat]
    BY <1>0, <2>1 DEF CachedKey
  <2>3. GithubTypeOK'
    BY <1>0, <2>1, <2>2 DEF GithubTypeOK
  <2>4. OnlyKeySince(a, cache[a].key, cache[a].expires - (Lifetime + MaxDelay))
    BY <2>1 DEF GithubInv, CachedKeysAreRecent
  <2>5. /\ cache[a].expires - (Lifetime + MaxDelay) \in Int
        /\ clock + 1 - (Lifetime + MaxDelay) \in Int
        /\ clock + 1 - (Lifetime + MaxDelay) <= cache[a].expires - (Lifetime + MaxDelay)
    BY <1>0, <2>1 DEF CachedKey
  <2>6. OnlyKeySince(a, cache[a].key, clock + 1 - (Lifetime + MaxDelay))
    BY <1>0, <2>4, <2>5, EarlierBound
  <2>7. ReturnedKeyIsRecent'
    BY <1>0, <2>1, <2>6 DEF ReturnedKeyIsRecent, OnlyKeySince
  <2>8. CallsAreTimely' /\ HashedKeysAreRecent' /\ CachedKeysAreRecent'
    BY <2>1 DEF GithubInv, CallsAreTimely, HashedKeysAreRecent, CachedKeysAreRecent, OnlyKeySince
  <2> QED
    BY <2>3, <2>7, <2>8 DEF GithubInv
<1>2. ASSUME NEW r \in Resolvers, NEW a \in Accounts, ResolveFetches(r, a)
      PROVE  GithubInv'
  <2>1. /\ DOMAIN call' = DOMAIN call \cup {r} /\ r \notin DOMAIN call
        /\ \A q \in DOMAIN call : call'[q] = call[q]
        /\ call'[r] = [pc |-> "fetch", account |-> a, since |-> clock]
        /\ UNCHANGED <<clock, pages, cache, returned>>
    BY <1>2 DEF ResolveFetches
  <2>2. call'[r] \in Fetching
    BY <1>0, <2>1 DEF Fetching
  <2>3. GithubTypeOK'
    BY <1>0, <2>1, <2>2 DEF GithubTypeOK
  <2>4. CallsAreTimely'
    BY <1>0, <2>1 DEF GithubInv, CallsAreTimely
  <2>5. HashedKeysAreRecent'
    BY <2>1 DEF GithubInv, HashedKeysAreRecent, OnlyKeySince
  <2>6. CachedKeysAreRecent' /\ ReturnedKeyIsRecent'
    BY <2>1 DEF GithubInv, CachedKeysAreRecent, ReturnedKeyIsRecent, OnlyKeySince
  <2> QED
    BY <2>3, <2>4, <2>5, <2>6 DEF GithubInv
<1>3. ASSUME NEW r \in Resolvers, PageRead(r)
      PROVE  GithubInv'
  <2>1. r \in DOMAIN call /\ call[r] \in Fetching
    BY <1>0, <1>3 DEF PageRead, GithubTypeOK, Hashing
  <2> DEFINE a == call[r].account
  <2>2. PICK key \in Published(a) :
          /\ Published(a) = {key}
          /\ call' = [call EXCEPT ![r] = [pc |-> "hash", account |-> @.account,
                                           since |-> @.since, key |-> key]]
    BY <1>3 DEF PageRead
  <2>3. /\ call'[r] = [pc |-> "hash", account |-> a, since |-> call[r].since, key |-> key]
        /\ DOMAIN call' = DOMAIN call
        /\ \A q \in DOMAIN call : q # r => call'[q] = call[q]
        /\ UNCHANGED <<clock, pages, cache, returned>>
    BY <1>3, <2>1, <2>2 DEF PageRead
  <2>4. a \in Accounts /\ call[r].since \in Nat
    BY <2>1 DEF Fetching
  <2>5. key \in AuthorizedKeys
    <3>1. pages[a] \in Seq(Page) /\ Len(pages[a]) >= 1
      BY <1>0, <2>4 DEF GithubTypeOK
    <3>2. pages[a][Len(pages[a])] \in Page
      BY <3>1
    <3> QED
      BY <2>2, <3>2 DEF Published, Page
  <2>6. call'[r] \in Hashing
    BY <2>3, <2>4, <2>5 DEF Hashing
  <2>7. GithubTypeOK'
    BY <1>0, <2>3, <2>6 DEF GithubTypeOK
  <2>8. OnlyKeySince(a, key, call[r].since)
    BY <1>0, <2>2, <2>4, <2>5, PublishedNow
  <2>9. CallsAreTimely' /\ HashedKeysAreRecent'
    BY <2>3, <2>8 DEF GithubInv, CallsAreTimely, HashedKeysAreRecent, OnlyKeySince
  <2>10. CachedKeysAreRecent' /\ ReturnedKeyIsRecent'
    BY <2>3 DEF GithubInv, CachedKeysAreRecent, ReturnedKeyIsRecent, OnlyKeySince
  <2> QED
    BY <2>7, <2>9, <2>10 DEF GithubInv
<1>4. ASSUME NEW r \in Resolvers, KeyCached(r)
      PROVE  GithubInv'
  <2> DEFINE a == call[r].account
             key == call[r].key
  <2>1. r \in DOMAIN call /\ call[r] \in Hashing /\ call[r].pc = "hash"
    BY <1>0, <1>4 DEF KeyCached, GithubTypeOK, Fetching
  <2>2. /\ DOMAIN cache' = DOMAIN cache \cup {a}
        /\ cache'[a] = [key |-> key, expires |-> clock + Lifetime]
        /\ \A b \in DOMAIN cache : b # a => cache'[b] = cache[b]
        /\ returned' = [account |-> a, key |-> key, at |-> clock]
        /\ DOMAIN call' = DOMAIN call \ {r}
        /\ \A q \in DOMAIN call' : call'[q] = call[q]
        /\ UNCHANGED <<clock, pages>>
    BY <1>4 DEF KeyCached, Returns, Settled
  <2>3. a \in Accounts /\ key \in AuthorizedKeys /\ call[r].since \in Nat
    BY <2>1 DEF Hashing
  <2>4. /\ cache'[a] \in CachedKey
        /\ returned' \in [account : Accounts, key : AuthorizedKeys, at : Nat]
    BY <1>0, <2>2, <2>3 DEF CachedKey
  <2>5. GithubTypeOK'
    BY <1>0, <2>2, <2>3, <2>4 DEF GithubTypeOK
  <2>6. OnlyKeySince(a, key, call[r].since) /\ clock <= call[r].since + MaxDelay
    BY <2>1 DEF GithubInv, HashedKeysAreRecent, CallsAreTimely
  <2>7. OnlyKeySince(a, key, clock + Lifetime - (Lifetime + MaxDelay))
    BY <1>0, <2>3, <2>6, EarlierBound
  <2>8. OnlyKeySince(a, key, clock + 1 - (Lifetime + MaxDelay))
    BY <1>0, <2>3, <2>6, EarlierBound
  <2>9. CallsAreTimely'
    BY <2>2 DEF GithubInv, CallsAreTimely
  <2>10. HashedKeysAreRecent'
    BY <2>2 DEF GithubInv, HashedKeysAreRecent, OnlyKeySince
  <2>11. CachedKeysAreRecent'
    <3> SUFFICES ASSUME NEW b \in DOMAIN cache'
                 PROVE  /\ cache'[b].expires <= clock' + Lifetime
                        /\ OnlyKeySince(b, cache[b].key, cache[b].expires - (Lifetime + MaxDelay))'
      BY DEF CachedKeysAreRecent
    <3>1. CASE b = a
      BY <1>0, <2>2, <2>7, <3>1 DEF OnlyKeySince
    <3>2. CASE b # a
      BY <2>2, <3>2 DEF GithubInv, CachedKeysAreRecent, OnlyKeySince
    <3> QED
      BY <3>1, <3>2
  <2>12. ReturnedKeyIsRecent'
    BY <1>0, <2>2, <2>8 DEF ReturnedKeyIsRecent, OnlyKeySince
  <2> QED
    BY <2>5, <2>9, <2>10, <2>11, <2>12 DEF GithubInv
<1>5. ASSUME NEW r \in Resolvers, ResolveFails(r)
      PROVE  GithubInv'
  <2>1. /\ DOMAIN call' = DOMAIN call \ {r}
        /\ \A q \in DOMAIN call' : call'[q] = call[q]
        /\ UNCHANGED <<clock, pages, cache, returned>>
    BY <1>5 DEF ResolveFails, Settled
  <2>2. GithubTypeOK'
    BY <1>0, <2>1 DEF GithubTypeOK
  <2>3. CallsAreTimely' /\ HashedKeysAreRecent'
    BY <2>1 DEF GithubInv, CallsAreTimely, HashedKeysAreRecent, OnlyKeySince
  <2>4. CachedKeysAreRecent' /\ ReturnedKeyIsRecent'
    BY <2>1 DEF GithubInv, CachedKeysAreRecent, ReturnedKeyIsRecent, OnlyKeySince
  <2> QED
    BY <2>2, <2>3, <2>4 DEF GithubInv
<1>6. ASSUME NEW b \in Accounts, PageChanges(b)
      PROVE  GithubInv'
  <2>1. UNCHANGED <<clock, cache, call, returned>>
    BY <1>6 DEF PageChanges
  <2>2. GithubTypeOK'
    BY <1>0, <1>6, HistoryGrows
  <2>3. \A a \in Accounts, key \in AuthorizedKeys, t \in Int :
          t <= clock /\ OnlyKeySince(a, key, t) => OnlyKeySince(a, key, t)'
    BY <1>0, <1>6, HistoryGrows
  <2>4. CallsAreTimely'
    BY <2>1 DEF GithubInv, CallsAreTimely
  <2>5. HashedKeysAreRecent'
    <3> SUFFICES ASSUME NEW r \in DOMAIN call, call[r].pc = "hash"
                 PROVE  OnlyKeySince(call[r].account, call[r].key, call[r].since)'
      BY <2>1 DEF HashedKeysAreRecent
    <3>1. call[r] \in Fetching \cup Hashing
      BY <1>0 DEF GithubTypeOK
    <3>2. /\ call[r].account \in Accounts
          /\ call[r].key \in AuthorizedKeys /\ call[r].since \in Int
      BY <3>1 DEF Fetching, Hashing
    <3>3. /\ OnlyKeySince(call[r].account, call[r].key, call[r].since)
          /\ call[r].since <= clock
      BY DEF GithubInv, HashedKeysAreRecent, CallsAreTimely
    <3> QED
      BY <2>1, <2>3, <3>2, <3>3 DEF OnlyKeySince
  <2>6. CachedKeysAreRecent'
    <3> SUFFICES ASSUME NEW a \in DOMAIN cache
                 PROVE  /\ cache[a].expires <= clock + Lifetime
                        /\ OnlyKeySince(a, cache[a].key, cache[a].expires - (Lifetime + MaxDelay))'
      BY <2>1 DEF CachedKeysAreRecent
    <3>1. a \in Accounts /\ cache[a] \in CachedKey
      BY <1>0 DEF GithubTypeOK
    <3>2. /\ cache[a].expires <= clock + Lifetime
          /\ OnlyKeySince(a, cache[a].key, cache[a].expires - (Lifetime + MaxDelay))
      BY DEF GithubInv, CachedKeysAreRecent
    <3>3. /\ cache[a].expires - (Lifetime + MaxDelay) \in Int
          /\ cache[a].expires - (Lifetime + MaxDelay) <= clock
      BY <1>0, <3>1, <3>2 DEF CachedKey
    <3> QED
      BY <2>1, <2>3, <3>1, <3>2, <3>3 DEF OnlyKeySince, CachedKey
  <2>7. ReturnedKeyIsRecent'
    <3> SUFFICES ASSUME returned # NoAnswer
                 PROVE  /\ returned.at <= clock
                        /\ OnlyKeySince(returned.account, returned.key,
                                         returned.at + 1 - (Lifetime + MaxDelay))'
      BY <2>1 DEF ReturnedKeyIsRecent
    <3>1. returned \in [account : Accounts, key : AuthorizedKeys, at : Nat]
      BY <1>0 DEF GithubTypeOK
    <3>2. /\ returned.at <= clock
          /\ OnlyKeySince(returned.account, returned.key, returned.at + 1 - (Lifetime + MaxDelay))
      BY DEF GithubInv, ReturnedKeyIsRecent
    <3>3. /\ returned.account \in Accounts /\ returned.key \in AuthorizedKeys
          /\ returned.at + 1 - (Lifetime + MaxDelay) \in Int
          /\ returned.at + 1 - (Lifetime + MaxDelay) <= clock
      BY <1>0, <3>1, <3>2
    <3> QED
      BY <2>1, <2>3, <3>2, <3>3 DEF OnlyKeySince
  <2> QED
    BY <2>2, <2>4, <2>5, <2>6, <2>7 DEF GithubInv
<1>7. ASSUME ClockTicks
      PROVE  GithubInv'
  <2>1. /\ clock' = clock + 1
        /\ \A r \in DOMAIN call : clock < call[r].since + MaxDelay
        /\ UNCHANGED <<pages, cache, call, returned>>
    BY <1>7 DEF ClockTicks
  <2>2. GithubTypeOK'
    BY <1>0, <2>1 DEF GithubTypeOK
  <2>3. CallsAreTimely'
    <3> SUFFICES ASSUME NEW r \in DOMAIN call
                 PROVE  call[r].since <= clock + 1 /\ clock + 1 <= call[r].since + MaxDelay
      BY <2>1 DEF CallsAreTimely
    <3>1. call[r] \in Fetching \cup Hashing
      BY <1>0 DEF GithubTypeOK
    <3>2. call[r].since \in Nat
      BY <3>1 DEF Fetching, Hashing
    <3>3. call[r].since <= clock /\ clock < call[r].since + MaxDelay
      BY <2>1 DEF GithubInv, CallsAreTimely
    <3> QED
      BY <1>0, <3>2, <3>3
  <2>4. HashedKeysAreRecent'
    BY <2>1 DEF GithubInv, HashedKeysAreRecent, OnlyKeySince
  <2>5. CachedKeysAreRecent'
    <3> SUFFICES ASSUME NEW a \in DOMAIN cache
                 PROVE  /\ cache[a].expires <= clock + 1 + Lifetime
                        /\ OnlyKeySince(a, cache[a].key, cache[a].expires - (Lifetime + MaxDelay))'
      BY <2>1 DEF CachedKeysAreRecent
    <3>1. cache[a] \in CachedKey
      BY <1>0 DEF GithubTypeOK
    <3>2. /\ cache[a].expires <= clock + Lifetime
          /\ OnlyKeySince(a, cache[a].key, cache[a].expires - (Lifetime + MaxDelay))
      BY DEF GithubInv, CachedKeysAreRecent
    <3>3. cache[a].expires <= clock + 1 + Lifetime
      BY <1>0, <3>1, <3>2 DEF CachedKey
    <3> QED
      BY <2>1, <3>2, <3>3 DEF OnlyKeySince
  <2>6. ReturnedKeyIsRecent'
    <3>1. returned # NoAnswer => returned.at <= clock + 1
      BY <1>0 DEF GithubTypeOK, GithubInv, ReturnedKeyIsRecent
    <3> QED
      BY <2>1, <3>1 DEF GithubInv, ReturnedKeyIsRecent, OnlyKeySince
  <2> QED
    BY <2>2, <2>3, <2>4, <2>5, <2>6 DEF GithubInv
<1>8. ASSUME GithubCrash
      PROVE  GithubInv'
  <2>1. /\ DOMAIN cache' = {} /\ DOMAIN call' = {}
        /\ UNCHANGED <<clock, pages, returned>>
    BY <1>8 DEF GithubCrash, Nothing
  <2>2. GithubTypeOK'
    BY <1>0, <2>1 DEF GithubTypeOK
  <2>3. CallsAreTimely' /\ HashedKeysAreRecent' /\ CachedKeysAreRecent'
    BY <2>1 DEF CallsAreTimely, HashedKeysAreRecent, CachedKeysAreRecent
  <2>4. ReturnedKeyIsRecent'
    BY <2>1 DEF GithubInv, ReturnedKeyIsRecent, OnlyKeySince
  <2> QED
    BY <2>2, <2>3, <2>4 DEF GithubInv
<1>9. ASSUME UNCHANGED githubVars
      PROVE  GithubInv'
  BY <1>9 DEF githubVars, GithubInv, GithubTypeOK, CallsAreTimely, HashedKeysAreRecent,
              CachedKeysAreRecent, ReturnedKeyIsRecent, OnlyKeySince
<1> QED
  BY <1>1, <1>2, <1>3, <1>4, <1>5, <1>6, <1>7, <1>8, <1>9 DEF GithubNext

(* The invariant bounds the age of the key last returned.                  *)
LEMMA GithubInvRecent == GithubInv => KeyIsRecent
<1> SUFFICES ASSUME GithubInv, returned # NoAnswer
             PROVE  \E i \in 1 .. Len(pages[returned.account]) :
                      /\ pages[returned.account][i].keys = {returned.key}
                      /\ i < Len(pages[returned.account])
                           => pages[returned.account][i + 1].since > returned.at - (Lifetime + MaxDelay)
  BY DEF KeyIsRecent
<1>1. /\ Lifetime \in Nat /\ MaxDelay \in Nat
      /\ pages[returned.account] \in Seq(Page)
      /\ returned.at \in Nat
  BY GithubConstants DEF GithubInv, GithubTypeOK
<1>2. PICK i \in 1 .. Len(pages[returned.account]) :
        /\ pages[returned.account][i].keys = {returned.key}
        /\ i < Len(pages[returned.account])
             => pages[returned.account][i + 1].since >= returned.at + 1 - (Lifetime + MaxDelay)
  BY DEF GithubInv, ReturnedKeyIsRecent, OnlyKeySince, OnlyKeyIn
<1>3. i < Len(pages[returned.account]) => pages[returned.account][i + 1] \in Page
  BY <1>1
<1>4. i < Len(pages[returned.account])
        => pages[returned.account][i + 1].since > returned.at - (Lifetime + MaxDelay)
  BY <1>1, <1>2, <1>3 DEF Page
<1> QED
  BY <1>2, <1>4

(* A key the GitHub source answers with was its account's only key at some *)
(* instant less than the cache's lifetime and one call ago, whatever calls *)
(* overlap, whatever page each of them read and whatever the crashes.      *)
THEOREM CachedKeysAreRecentlyPublished == GithubSpec => []KeyIsRecent
<1>1. GithubInit => GithubInv
  BY GithubInvInit
<1>2. GithubInv /\ [GithubNext]_githubVars => GithubInv'
  BY GithubInvNext
<1>3. GithubInv => KeyIsRecent
  BY GithubInvRecent
<1> QED
  BY <1>1, <1>2, <1>3, PTL DEF GithubSpec
=============================================================================
