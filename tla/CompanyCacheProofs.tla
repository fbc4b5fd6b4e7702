------------------------- MODULE CompanyCacheProofs -------------------------
(***************************************************************************)
(* Proofs about the company cache, for any number of concurrent commands,  *)
(* revisions and crashes: the active link never dangles, active.next is    *)
(* released, and the engineer's credentials are neither stranded by an     *)
(* activation nor removed before they have been replaced. While commands   *)
(* do not overlap, new shells can load the credentials after every one.    *)
(*                                                                         *)
(* A refresh that fails removes the revision it made. The invariant says   *)
(* why that is safe: while a command is still making its revision, nothing *)
(* else refers to it. Not the active link, no command's previous root, no  *)
(* other command, and active.next only once the command has put it there.  *)
(***************************************************************************)
EXTENDS CompanyCache, TLAPS

Making(c) == pc[c] \in {"migrate", "link", "store", "next", "activate"}

(* Whatever is referred to was drawn by randomUUID, so a new name is fresh. *)
NamesAreUsed ==
  /\ active \in used \cup {NoRevision}
  /\ \A c \in Commands : /\ previousRoot[c] \in used \cup {NoRevision}
                         /\ revision[c] \in used \cup {NoRevision}

(* A revision in the making belongs to one command alone.                   *)
MakingIsPrivate ==
  /\ \A c \in Commands : At(c, "clone") => revision[c] = NoRevision
  /\ \A c \in Commands : Making(c) =>
        /\ revision[c] # NoRevision
        /\ revision[c] # active
        /\ \A d \in Commands : /\ previousRoot[d] # revision[c]
                               /\ d # c => revision[d] # revision[c]

(* The link that the next rename puts in place.                             *)
NextIsOwn ==
  \A c \in Commands :
    /\ At(c, "next") \/ At(c, "activate") => revision[c] \in revisions
    /\ At(c, "activate") => next = revision[c]

(* Everything a rename or a rollback can make active exists.                *)
RootsExist ==
  /\ active # NoRevision => active \in revisions
  /\ \A c \in Commands :
        previousRoot[c] # NoRevision => previousRoot[c] \in revisions

(* A receipt is written after the shell block.                              *)
ReceiptMeansStable ==
  /\ receipt # NoRevision => shell = "stable"
  /\ \A c \in Commands :
        At(c, "receipt") \/ At(c, "childCommit") => shell = "stable"

(* There is something to settle only where there was an active cache.       *)
SettlesAnActiveCache ==
  \A c \in Commands :
    /\ commit[c] # NoLink => previousRoot[c] # NoRevision /\ active # NoRevision
    /\ At(c, "rollback") => commit[c] # NoLink

CacheInv ==
  /\ CacheTypeOK
  /\ NamesAreUsed
  /\ MakingIsPrivate
  /\ NextIsOwn
  /\ RootsExist
  /\ ReceiptMeansStable
  /\ SettlesAnActiveCache

-----------------------------------------------------------------------------
(* migrateCachedCredentials returns a link only when a cache is active.     *)
LEMMA LegacyFromLink ==
  ASSUME CacheTypeOK, NEW place \in {Root, Selected}
  PROVE  /\ LegacyFrom(place) \in Link \cup {NoLink}
         /\ LegacyFrom(place) # NoLink => active # NoRevision
<1>1. legacy \subseteq Link /\ NoRevision \notin Revisions
  BY CacheConstants DEF CacheTypeOK
<1>2. ASSUME NEW at \in Places, <<active, at>> \in legacy
      PROVE  active # NoRevision
  BY <1>1, <1>2 DEF Link
<1>3. place \in Places /\ Root \in Places
  BY CacheConstants
<1>4. QED
  BY <1>1, <1>2, <1>3 DEF LegacyFrom

(* The invariant holds on every machine the commands start from.            *)
LEMMA CacheInitInv == CacheInit => CacheInv
<1>1. SUFFICES ASSUME CacheInit PROVE CacheInv
  OBVIOUS
<1>2. CacheTypeOK
  <2>1. overlapped \in BOOLEAN
    BY <1>1 DEF CacheInit
  <2> QED
    BY <1>1, <2>1, CacheConstants DEF CacheInit, CacheTypeOK, Link, MaybeRevision, Steps
<1>3. NamesAreUsed /\ RootsExist
  BY <1>1, CacheConstants DEF CacheInit, NamesAreUsed, RootsExist
<1>4. MakingIsPrivate /\ NextIsOwn /\ ReceiptMeansStable /\ SettlesAnActiveCache
  BY <1>1 DEF CacheInit, MakingIsPrivate, NextIsOwn, ReceiptMeansStable,
              SettlesAnActiveCache, Making, At
<1>5. QED
  BY <1>2, <1>3, <1>4 DEF CacheInv

-----------------------------------------------------------------------------
(* Types are preserved. *)
LEMMA CacheTypeStep == CacheInv /\ [CacheNext]_vars => CacheTypeOK'
<1> SUFFICES ASSUME CacheInv, [CacheNext]_vars PROVE CacheTypeOK'
  OBVIOUS
<1>0. ASSUME NEW c \in Commands, Begin(c) PROVE overlapped' \in BOOLEAN
  BY <1>0 DEF Begin
<1> USE CacheConstants
    DEF CacheInv, cacheVars, credentialVars, localVars, historyVars,
        Goto, At,
        CacheTypeOK, MaybeRevision, Steps, Refreshing, InChild
<1>1. ASSUME NEW c \in Commands, Refresh(c) PROVE CacheTypeOK'
  <2>1. CASE StartUpdate(c)
    <3>1. overlapped' \in BOOLEAN
      BY <1>0, <2>1 DEF StartUpdate
    <3> QED
      BY <2>1, <3>1 DEF StartUpdate, Begin
  <2>2. CASE CloneValid(c)
    BY <2>2 DEF CloneValid
  <2>3. CASE Migrate(c)
    <3>1. LegacyFrom(Selected) \in Link \cup {NoLink}
      BY LegacyFromLink
    <3>2. commit' \in [Commands -> Link \cup {NoLink}]
      BY <2>3, <3>1 DEF Migrate
    <3>3. pc' \in [Commands -> Steps]
      BY <2>3 DEF Migrate
    <3>4. QED
      BY <2>3, <3>2, <3>3 DEF Migrate
  <2>4. CASE LinkStable(c)
    BY <2>4 DEF LinkStable
  <2>5. CASE Store(c)
    <3>1. revision[c] \in Revisions
      BY <2>5 DEF Store, MakingIsPrivate, Making
    <3>2. QED
      BY <2>5, <3>1 DEF Store
  <2>6. CASE LinkNext(c)
    BY <2>6 DEF LinkNext
  <2>7. CASE Activate(c)
    BY <2>7 DEF Activate
  <2>8. CASE RefreshFails(c)
    BY <2>8 DEF RefreshFails
  <2>9. QED
    BY <1>1, <2>1, <2>2, <2>3, <2>4, <2>5, <2>6, <2>7, <2>8 DEF Refresh
<1>2. ASSUME NEW c \in Commands, Run(c) PROVE CacheTypeOK'
  <2>1. CASE StartCached(c)
    <3>1. overlapped' \in BOOLEAN
      BY <1>0, <2>1 DEF StartCached
    <3> QED
      BY <2>1, <3>1 DEF StartCached, Begin
  <2>2. CASE ChildMigrate(c)
    <3>1. LegacyFrom(Root) \in Link \cup {NoLink}
      BY LegacyFromLink
    <3>2. childCommit' \in [Commands -> Link \cup {NoLink}]
      BY <2>2, <3>1 DEF ChildMigrate
    <3>3. pc' \in [Commands -> Steps]
      BY <2>2 DEF ChildMigrate
    <3>4. QED
      BY <2>2, <3>2, <3>3 DEF ChildMigrate
  <2>3. CASE ChildLinkStable(c)
    BY <2>3 DEF ChildLinkStable
  <2>4. CASE WriteShellBlock(c)
    BY <2>4 DEF WriteShellBlock
  <2>5. CASE RecordShellReady(c)
    BY <2>5 DEF RecordShellReady
  <2>6. CASE ChildCommit(c)
    BY <2>6 DEF ChildCommit, WithoutLink
  <2>7. CASE RunFails(c)
    BY <2>7 DEF RunFails
  <2>8. QED
    BY <1>2, <2>1, <2>2, <2>3, <2>4, <2>5, <2>6, <2>7 DEF Run
<1>3. ASSUME NEW c \in Commands, Settle(c) PROVE CacheTypeOK'
  <2>1. CASE SettleNothing(c)
    BY <2>1 DEF SettleNothing
  <2>2. CASE SettleReady(c)
    BY <2>2 DEF SettleReady, WithoutLink
  <2>3. CASE SettleFailed(c)
    BY <2>3 DEF SettleFailed
  <2>4. CASE Rollback(c)
    BY <2>4 DEF Rollback
  <2>5. QED
    BY <1>3, <2>1, <2>2, <2>3, <2>4 DEF Settle
<1>4. ASSUME NEW c \in Commands, Crash(c) PROVE CacheTypeOK'
  BY <1>4 DEF Crash
<1>5. ASSUME NEW c \in Commands, ParentDies(c) PROVE CacheTypeOK'
  BY <1>5 DEF ParentDies
<1>6. CASE UNCHANGED vars
  BY <1>6 DEF vars
<1>7. QED
  BY <1>1, <1>2, <1>3, <1>4, <1>5, <1>6 DEF CacheNext

-----------------------------------------------------------------------------
(* No name is drawn twice. *)
LEMMA NamesStep == CacheInv /\ [CacheNext]_vars => NamesAreUsed'
<1> SUFFICES ASSUME CacheInv, [CacheNext]_vars PROVE NamesAreUsed'
  OBVIOUS
<1> USE CacheConstants
    DEF CacheInv, cacheVars, credentialVars, localVars, historyVars,
        Goto, At,
        CacheTypeOK, NamesAreUsed
<1>1. ASSUME NEW c \in Commands, Refresh(c) PROVE NamesAreUsed'
  <2>1. CASE StartUpdate(c)
    BY <2>1 DEF StartUpdate, Begin
  <2>2. CASE CloneValid(c)
    BY <2>2 DEF CloneValid
  <2>3. CASE Migrate(c)
    BY <2>3 DEF Migrate
  <2>4. CASE LinkStable(c)
    BY <2>4 DEF LinkStable
  <2>5. CASE Store(c)
    BY <2>5 DEF Store
  <2>6. CASE LinkNext(c)
    BY <2>6 DEF LinkNext
  <2>7. CASE Activate(c)
    BY <2>7 DEF Activate, NextIsOwn
  <2>8. CASE RefreshFails(c)
    BY <2>8 DEF RefreshFails
  <2>9. QED
    BY <1>1, <2>1, <2>2, <2>3, <2>4, <2>5, <2>6, <2>7, <2>8 DEF Refresh
<1>2. ASSUME NEW c \in Commands, Run(c) PROVE NamesAreUsed'
  <2>1. CASE StartCached(c)
    BY <2>1 DEF StartCached, Begin
  <2>2. CASE ChildMigrate(c)
    BY <2>2 DEF ChildMigrate
  <2>3. CASE ChildLinkStable(c)
    BY <2>3 DEF ChildLinkStable
  <2>4. CASE WriteShellBlock(c)
    BY <2>4 DEF WriteShellBlock
  <2>5. CASE RecordShellReady(c)
    BY <2>5 DEF RecordShellReady
  <2>6. CASE ChildCommit(c)
    BY <2>6 DEF ChildCommit
  <2>7. CASE RunFails(c)
    BY <2>7 DEF RunFails
  <2>8. QED
    BY <1>2, <2>1, <2>2, <2>3, <2>4, <2>5, <2>6, <2>7 DEF Run
<1>3. ASSUME NEW c \in Commands, Settle(c) PROVE NamesAreUsed'
  <2>1. CASE SettleNothing(c)
    BY <2>1 DEF SettleNothing
  <2>2. CASE SettleReady(c)
    BY <2>2 DEF SettleReady
  <2>3. CASE SettleFailed(c)
    BY <2>3 DEF SettleFailed
  <2>4. CASE Rollback(c)
    BY <2>4 DEF Rollback
  <2>5. QED
    BY <1>3, <2>1, <2>2, <2>3, <2>4 DEF Settle
<1>4. ASSUME NEW c \in Commands, Crash(c) PROVE NamesAreUsed'
  BY <1>4 DEF Crash
<1>5. ASSUME NEW c \in Commands, ParentDies(c) PROVE NamesAreUsed'
  BY <1>5 DEF ParentDies
<1>6. CASE UNCHANGED vars
  BY <1>6 DEF vars
<1>7. QED
  BY <1>1, <1>2, <1>3, <1>4, <1>5, <1>6 DEF CacheNext

-----------------------------------------------------------------------------
(* A revision in the making stays private. *)
LEMMA PrivateStep == CacheInv /\ [CacheNext]_vars => MakingIsPrivate'
<1> SUFFICES ASSUME CacheInv, [CacheNext]_vars PROVE MakingIsPrivate'
  OBVIOUS
<1> USE CacheConstants
    DEF CacheInv, cacheVars, credentialVars, localVars, historyVars,
        Goto, At,
        CacheTypeOK, MakingIsPrivate, Making
<1>1. ASSUME NEW c \in Commands, Refresh(c) PROVE MakingIsPrivate'
  <2>1. CASE StartUpdate(c)
    BY <2>1 DEF StartUpdate, Begin
  <2>2. CASE CloneValid(c)
    BY <2>2 DEF CloneValid, NamesAreUsed
  <2>3. CASE Migrate(c)
    BY <2>3 DEF Migrate
  <2>4. CASE LinkStable(c)
    BY <2>4 DEF LinkStable
  <2>5. CASE Store(c)
    BY <2>5 DEF Store
  <2>6. CASE LinkNext(c)
    BY <2>6 DEF LinkNext
  <2>7. CASE Activate(c)
    BY <2>7 DEF Activate, NextIsOwn
  <2>8. CASE RefreshFails(c)
    BY <2>8 DEF RefreshFails
  <2>9. QED
    BY <1>1, <2>1, <2>2, <2>3, <2>4, <2>5, <2>6, <2>7, <2>8 DEF Refresh
<1>2. ASSUME NEW c \in Commands, Run(c) PROVE MakingIsPrivate'
  <2>1. CASE StartCached(c)
    BY <2>1 DEF StartCached, Begin
  <2>2. CASE ChildMigrate(c)
    BY <2>2 DEF ChildMigrate
  <2>3. CASE ChildLinkStable(c)
    BY <2>3 DEF ChildLinkStable
  <2>4. CASE WriteShellBlock(c)
    BY <2>4 DEF WriteShellBlock
  <2>5. CASE RecordShellReady(c)
    BY <2>5 DEF RecordShellReady
  <2>6. CASE ChildCommit(c)
    BY <2>6 DEF ChildCommit
  <2>7. CASE RunFails(c)
    BY <2>7 DEF RunFails
  <2>8. QED
    BY <1>2, <2>1, <2>2, <2>3, <2>4, <2>5, <2>6, <2>7 DEF Run
<1>3. ASSUME NEW c \in Commands, Settle(c) PROVE MakingIsPrivate'
  <2>1. CASE SettleNothing(c)
    BY <2>1 DEF SettleNothing
  <2>2. CASE SettleReady(c)
    BY <2>2 DEF SettleReady
  <2>3. CASE SettleFailed(c)
    BY <2>3 DEF SettleFailed
  <2>4. CASE Rollback(c)
    BY <2>4 DEF Rollback, NextIsOwn
  <2>5. QED
    BY <1>3, <2>1, <2>2, <2>3, <2>4 DEF Settle
<1>4. ASSUME NEW c \in Commands, Crash(c) PROVE MakingIsPrivate'
  BY <1>4 DEF Crash
<1>5. ASSUME NEW c \in Commands, ParentDies(c) PROVE MakingIsPrivate'
  BY <1>5 DEF ParentDies
<1>6. CASE UNCHANGED vars
  BY <1>6 DEF vars
<1>7. QED
  BY <1>1, <1>2, <1>3, <1>4, <1>5, <1>6 DEF CacheNext

-----------------------------------------------------------------------------
(* The next rename activates the command's own revision. *)
LEMMA NextStep == CacheInv /\ [CacheNext]_vars => NextIsOwn'
<1> SUFFICES ASSUME CacheInv, [CacheNext]_vars PROVE NextIsOwn'
  OBVIOUS
<1> USE CacheConstants
    DEF CacheInv, cacheVars, credentialVars, localVars, historyVars,
        Goto, At,
        CacheTypeOK, NextIsOwn
<1>1. ASSUME NEW c \in Commands, Refresh(c) PROVE NextIsOwn'
  <2>1. CASE StartUpdate(c)
    BY <2>1 DEF StartUpdate, Begin
  <2>2. CASE CloneValid(c)
    BY <2>2 DEF CloneValid
  <2>3. CASE Migrate(c)
    BY <2>3 DEF Migrate
  <2>4. CASE LinkStable(c)
    BY <2>4 DEF LinkStable
  <2>5. CASE Store(c)
    BY <2>5 DEF Store
  <2>6. CASE LinkNext(c)
    BY <2>6 DEF LinkNext
  <2>7. CASE Activate(c)
    BY <2>7 DEF Activate, MakingIsPrivate, Making
  <2>8. CASE RefreshFails(c)
    BY <2>8 DEF RefreshFails, MakingIsPrivate, Making, Refreshing
  <2>9. QED
    BY <1>1, <2>1, <2>2, <2>3, <2>4, <2>5, <2>6, <2>7, <2>8 DEF Refresh
<1>2. ASSUME NEW c \in Commands, Run(c) PROVE NextIsOwn'
  <2>1. CASE StartCached(c)
    BY <2>1 DEF StartCached, Begin
  <2>2. CASE ChildMigrate(c)
    BY <2>2 DEF ChildMigrate
  <2>3. CASE ChildLinkStable(c)
    BY <2>3 DEF ChildLinkStable
  <2>4. CASE WriteShellBlock(c)
    BY <2>4 DEF WriteShellBlock
  <2>5. CASE RecordShellReady(c)
    BY <2>5 DEF RecordShellReady
  <2>6. CASE ChildCommit(c)
    BY <2>6 DEF ChildCommit
  <2>7. CASE RunFails(c)
    BY <2>7 DEF RunFails
  <2>8. QED
    BY <1>2, <2>1, <2>2, <2>3, <2>4, <2>5, <2>6, <2>7 DEF Run
<1>3. ASSUME NEW c \in Commands, Settle(c) PROVE NextIsOwn'
  <2>1. CASE SettleNothing(c)
    BY <2>1 DEF SettleNothing
  <2>2. CASE SettleReady(c)
    BY <2>2 DEF SettleReady
  <2>3. CASE SettleFailed(c)
    BY <2>3 DEF SettleFailed
  <2>4. CASE Rollback(c)
    BY <2>4 DEF Rollback
  <2>5. QED
    BY <1>3, <2>1, <2>2, <2>3, <2>4 DEF Settle
<1>4. ASSUME NEW c \in Commands, Crash(c) PROVE NextIsOwn'
  BY <1>4 DEF Crash
<1>5. ASSUME NEW c \in Commands, ParentDies(c) PROVE NextIsOwn'
  BY <1>5 DEF ParentDies
<1>6. CASE UNCHANGED vars
  BY <1>6 DEF vars
<1>7. QED
  BY <1>1, <1>2, <1>3, <1>4, <1>5, <1>6 DEF CacheNext

-----------------------------------------------------------------------------
(* What can become active exists. *)
LEMMA RootsStep == CacheInv /\ [CacheNext]_vars => RootsExist'
<1> SUFFICES ASSUME CacheInv, [CacheNext]_vars PROVE RootsExist'
  OBVIOUS
<1> USE CacheConstants
    DEF CacheInv, cacheVars, credentialVars, localVars, historyVars,
        Goto, At,
        CacheTypeOK, RootsExist
<1>1. ASSUME NEW c \in Commands, Refresh(c) PROVE RootsExist'
  <2>1. CASE StartUpdate(c)
    BY <2>1 DEF StartUpdate, Begin
  <2>2. CASE CloneValid(c)
    BY <2>2 DEF CloneValid
  <2>3. CASE Migrate(c)
    BY <2>3 DEF Migrate
  <2>4. CASE LinkStable(c)
    BY <2>4 DEF LinkStable
  <2>5. CASE Store(c)
    BY <2>5 DEF Store
  <2>6. CASE LinkNext(c)
    BY <2>6 DEF LinkNext
  <2>7. CASE Activate(c)
    BY <2>7 DEF Activate, NextIsOwn
  <2>8. CASE RefreshFails(c)
    BY <2>8 DEF RefreshFails, MakingIsPrivate, Making, Refreshing
  <2>9. QED
    BY <1>1, <2>1, <2>2, <2>3, <2>4, <2>5, <2>6, <2>7, <2>8 DEF Refresh
<1>2. ASSUME NEW c \in Commands, Run(c) PROVE RootsExist'
  <2>1. CASE StartCached(c)
    BY <2>1 DEF StartCached, Begin
  <2>2. CASE ChildMigrate(c)
    BY <2>2 DEF ChildMigrate
  <2>3. CASE ChildLinkStable(c)
    BY <2>3 DEF ChildLinkStable
  <2>4. CASE WriteShellBlock(c)
    BY <2>4 DEF WriteShellBlock
  <2>5. CASE RecordShellReady(c)
    BY <2>5 DEF RecordShellReady
  <2>6. CASE ChildCommit(c)
    BY <2>6 DEF ChildCommit
  <2>7. CASE RunFails(c)
    BY <2>7 DEF RunFails
  <2>8. QED
    BY <1>2, <2>1, <2>2, <2>3, <2>4, <2>5, <2>6, <2>7 DEF Run
<1>3. ASSUME NEW c \in Commands, Settle(c) PROVE RootsExist'
  <2>1. CASE SettleNothing(c)
    BY <2>1 DEF SettleNothing
  <2>2. CASE SettleReady(c)
    BY <2>2 DEF SettleReady
  <2>3. CASE SettleFailed(c)
    BY <2>3 DEF SettleFailed
  <2>4. CASE Rollback(c)
    BY <2>4 DEF Rollback
  <2>5. QED
    BY <1>3, <2>1, <2>2, <2>3, <2>4 DEF Settle
<1>4. ASSUME NEW c \in Commands, Crash(c) PROVE RootsExist'
  BY <1>4 DEF Crash
<1>5. ASSUME NEW c \in Commands, ParentDies(c) PROVE RootsExist'
  BY <1>5 DEF ParentDies
<1>6. CASE UNCHANGED vars
  BY <1>6 DEF vars
<1>7. QED
  BY <1>1, <1>2, <1>3, <1>4, <1>5, <1>6 DEF CacheNext

-----------------------------------------------------------------------------
(* Receipts come after shell blocks. *)
LEMMA ReceiptStep == CacheInv /\ [CacheNext]_vars => ReceiptMeansStable'
<1> SUFFICES ASSUME CacheInv, [CacheNext]_vars PROVE ReceiptMeansStable'
  OBVIOUS
<1> USE CacheConstants
    DEF CacheInv, cacheVars, credentialVars, localVars, historyVars,
        Goto, At,
        CacheTypeOK, ReceiptMeansStable
<1>1. ASSUME NEW c \in Commands, Refresh(c) PROVE ReceiptMeansStable'
  <2>1. CASE StartUpdate(c)
    BY <2>1 DEF StartUpdate, Begin
  <2>2. CASE CloneValid(c)
    BY <2>2 DEF CloneValid
  <2>3. CASE Migrate(c)
    BY <2>3 DEF Migrate
  <2>4. CASE LinkStable(c)
    BY <2>4 DEF LinkStable
  <2>5. CASE Store(c)
    BY <2>5 DEF Store
  <2>6. CASE LinkNext(c)
    BY <2>6 DEF LinkNext
  <2>7. CASE Activate(c)
    BY <2>7 DEF Activate
  <2>8. CASE RefreshFails(c)
    BY <2>8 DEF RefreshFails
  <2>9. QED
    BY <1>1, <2>1, <2>2, <2>3, <2>4, <2>5, <2>6, <2>7, <2>8 DEF Refresh
<1>2. ASSUME NEW c \in Commands, Run(c) PROVE ReceiptMeansStable'
  <2>1. CASE StartCached(c)
    BY <2>1 DEF StartCached, Begin
  <2>2. CASE ChildMigrate(c)
    BY <2>2 DEF ChildMigrate
  <2>3. CASE ChildLinkStable(c)
    BY <2>3 DEF ChildLinkStable
  <2>4. CASE WriteShellBlock(c)
    BY <2>4 DEF WriteShellBlock
  <2>5. CASE RecordShellReady(c)
    BY <2>5 DEF RecordShellReady
  <2>6. CASE ChildCommit(c)
    BY <2>6 DEF ChildCommit
  <2>7. CASE RunFails(c)
    BY <2>7 DEF RunFails
  <2>8. QED
    BY <1>2, <2>1, <2>2, <2>3, <2>4, <2>5, <2>6, <2>7 DEF Run
<1>3. ASSUME NEW c \in Commands, Settle(c) PROVE ReceiptMeansStable'
  <2>1. CASE SettleNothing(c)
    BY <2>1 DEF SettleNothing
  <2>2. CASE SettleReady(c)
    BY <2>2 DEF SettleReady
  <2>3. CASE SettleFailed(c)
    BY <2>3 DEF SettleFailed
  <2>4. CASE Rollback(c)
    BY <2>4 DEF Rollback
  <2>5. QED
    BY <1>3, <2>1, <2>2, <2>3, <2>4 DEF Settle
<1>4. ASSUME NEW c \in Commands, Crash(c) PROVE ReceiptMeansStable'
  BY <1>4 DEF Crash
<1>5. ASSUME NEW c \in Commands, ParentDies(c) PROVE ReceiptMeansStable'
  BY <1>5 DEF ParentDies
<1>6. CASE UNCHANGED vars
  BY <1>6 DEF vars
<1>7. QED
  BY <1>1, <1>2, <1>3, <1>4, <1>5, <1>6 DEF CacheNext

-----------------------------------------------------------------------------
(* Only an active cache is settled. *)
LEMMA SettlesStep == CacheInv /\ [CacheNext]_vars => SettlesAnActiveCache'
<1> SUFFICES ASSUME CacheInv, [CacheNext]_vars PROVE SettlesAnActiveCache'
  OBVIOUS
<1> USE CacheConstants
    DEF CacheInv, cacheVars, credentialVars, localVars, historyVars,
        Goto, At,
        CacheTypeOK, SettlesAnActiveCache
<1>1. ASSUME NEW c \in Commands, Refresh(c) PROVE SettlesAnActiveCache'
  <2>1. CASE StartUpdate(c)
    BY <2>1 DEF StartUpdate, Begin
  <2>2. CASE CloneValid(c)
    BY <2>2 DEF CloneValid
  <2>3. CASE Migrate(c)
    <3>1. LegacyFrom(Selected) # NoLink => active # NoRevision
      BY LegacyFromLink
    <3>2. QED
      BY <2>3, <3>1 DEF Migrate
  <2>4. CASE LinkStable(c)
    BY <2>4 DEF LinkStable
  <2>5. CASE Store(c)
    BY <2>5 DEF Store
  <2>6. CASE LinkNext(c)
    BY <2>6 DEF LinkNext
  <2>7. CASE Activate(c)
    BY <2>7 DEF Activate
  <2>8. CASE RefreshFails(c)
    BY <2>8 DEF RefreshFails
  <2>9. QED
    BY <1>1, <2>1, <2>2, <2>3, <2>4, <2>5, <2>6, <2>7, <2>8 DEF Refresh
<1>2. ASSUME NEW c \in Commands, Run(c) PROVE SettlesAnActiveCache'
  <2>1. CASE StartCached(c)
    BY <2>1 DEF StartCached, Begin
  <2>2. CASE ChildMigrate(c)
    BY <2>2 DEF ChildMigrate
  <2>3. CASE ChildLinkStable(c)
    BY <2>3 DEF ChildLinkStable
  <2>4. CASE WriteShellBlock(c)
    BY <2>4 DEF WriteShellBlock
  <2>5. CASE RecordShellReady(c)
    BY <2>5 DEF RecordShellReady
  <2>6. CASE ChildCommit(c)
    BY <2>6 DEF ChildCommit
  <2>7. CASE RunFails(c)
    BY <2>7 DEF RunFails
  <2>8. QED
    BY <1>2, <2>1, <2>2, <2>3, <2>4, <2>5, <2>6, <2>7 DEF Run
<1>3. ASSUME NEW c \in Commands, Settle(c) PROVE SettlesAnActiveCache'
  <2>1. CASE SettleNothing(c)
    BY <2>1 DEF SettleNothing
  <2>2. CASE SettleReady(c)
    BY <2>2 DEF SettleReady
  <2>3. CASE SettleFailed(c)
    BY <2>3 DEF SettleFailed
  <2>4. CASE Rollback(c)
    BY <2>4 DEF Rollback
  <2>5. QED
    BY <1>3, <2>1, <2>2, <2>3, <2>4 DEF Settle
<1>4. ASSUME NEW c \in Commands, Crash(c) PROVE SettlesAnActiveCache'
  BY <1>4 DEF Crash
<1>5. ASSUME NEW c \in Commands, ParentDies(c) PROVE SettlesAnActiveCache'
    BY <1>5 DEF ParentDies, InChild
<1>6. CASE UNCHANGED vars
  BY <1>6 DEF vars
<1>7. QED
  BY <1>1, <1>2, <1>3, <1>4, <1>5, <1>6 DEF CacheNext

-----------------------------------------------------------------------------
(* Every reachable state satisfies the invariant.                           *)
LEMMA CacheInvariant == CacheSpec => []CacheInv
<1>1. CacheInit => CacheInv
  BY CacheInitInv
<1>2. CacheInv /\ [CacheNext]_vars => CacheInv'
  BY CacheTypeStep, NamesStep, PrivateStep, NextStep, RootsStep, ReceiptStep,
     SettlesStep DEF CacheInv
<1>3. QED
  BY <1>1, <1>2, PTL DEF CacheSpec

(* The variables keep their types, for any commands and revisions.          *)
THEOREM CacheTypeCorrect == CacheSpec => []CacheTypeOK
<1>1. CacheInv => CacheTypeOK
  BY DEF CacheInv
<1>2. QED
  BY <1>1, CacheInvariant, PTL

(* However many updates run at once, fail or are killed, company/active     *)
(* names a revision that is there.                                          *)
THEOREM ActiveNeverDangles == CacheSpec => []ActiveExists
<1>1. CacheInv => ActiveExists
  BY DEF CacheInv, RootsExist, ActiveExists
<1>2. QED
  BY <1>1, CacheInvariant, PTL

(* The steps that remove the legacy path are those of a confirmed switch.   *)
LEMMA RemovedOnlyWhenReplaced ==
  ASSUME CacheInv, [CacheNext]_vars
  PROVE  [legacy' # legacy => shell = "stable" /\ stable = "linked"]_vars
<1>1. SUFFICES ASSUME legacy' # legacy
               PROVE  shell = "stable" /\ stable = "linked"
  OBVIOUS
<1> USE DEF cacheVars, credentialVars, localVars, historyVars
<1>2. PICK c \in Commands : ChildCommit(c) \/ SettleReady(c)
  BY <1>1, <1>1 DEF CacheNext, vars, Refresh, Run, Settle, StartUpdate,
     CloneValid, Migrate, LinkStable, Store, LinkNext, Activate,
     RefreshFails, StartCached, ChildMigrate, ChildLinkStable,
     WriteShellBlock, RecordShellReady, RunFails, SettleNothing,
     SettleFailed, Rollback, Crash, ParentDies
<1>3. stable = "linked"
  BY <1>1, <1>2 DEF ChildCommit, SettleReady, WithoutLink
<1>4. CASE ChildCommit(c)
  BY <1>1, <1>3, <1>4 DEF ChildCommit, CacheInv, ReceiptMeansStable, At
<1>5. CASE SettleReady(c)
  BY <1>1, <1>3, <1>5 DEF SettleReady, CacheInv, ReceiptMeansStable,
     SettlesAnActiveCache, At
<1>6. QED
  BY <1>2, <1>4, <1>5

(* A legacy credential path is removed only after some shell stage has      *)
(* switched to the stable path, and only when that is the same file.        *)
THEOREM CredentialsAreNotLost == CacheSpec => LegacyRemovedOnlyWhenReplaced
BY RemovedOnlyWhenReplaced, CacheInvariant, PTL DEF CacheSpec, LegacyRemovedOnlyWhenReplaced

-----------------------------------------------------------------------------
(* Where the credentials are.                                               *)

(* A refresh that has looked for credentials and is about to activate.      *)
Storing(c) == pc[c] \in {"store", "next", "activate"}

(* As long as there is nothing at the stable path, the credentials are in   *)
(* the active revision, and no refresh is past the point where it must have *)
(* linked them: what it noted then is still to be linked, or never will be. *)
LegacyIsActive ==
  /\ \A r \in Revisions, place \in Places :
        <<r, place>> \in legacy => place \in {Root, Selected}
  /\ stable = "absent" =>
       /\ \A r \in Revisions, place \in Places : <<r, place>> \in legacy => r = active
       /\ legacy # {} => \A c \in Commands :
            /\ At(c, "clone") \/ At(c, "migrate") => previousRoot[c] # NoRevision
            /\ ~Storing(c)
            /\ commit[c] # NoLink => At(c, "idle") \/ At(c, "link")

(* migrateCachedCredentials finds the file when the active revision has it. *)
LEMMA LegacyIsFound ==
  ASSUME CacheInv, LegacyIsActive, stable = "absent", legacy # {}
  PROVE  LegacyFrom(Selected) # NoLink /\ active # NoRevision
<1>1. legacy \subseteq Revisions \X Places
  BY DEF CacheInv, CacheTypeOK, Link
<1>2. PICK link \in legacy : link \in Revisions \X Places
  BY <1>1
<1>3. PICK r \in Revisions, place \in Places : <<r, place>> \in legacy
  BY <1>2
<1>4. place \in {Root, Selected} /\ r = active
  BY <1>3 DEF LegacyIsActive
<1> QED
  BY <1>1, <1>3, <1>4, CacheConstants DEF LegacyFrom

(* A step adds no legacy path, and changes the stable one only from absent  *)
(* to a link to a legacy one.                                               *)
LEMMA CredentialsOnlyMove ==
  [CacheNext]_vars => /\ legacy' \subseteq legacy
                      /\ stable' = "absent" => stable = "absent"
                      /\ stable' # stable => legacy # {}
<1> USE DEF cacheVars, credentialVars, localVars, historyVars, WithoutLink
<1> QED
  BY DEF CacheNext, vars, Refresh, Run, Settle, StartUpdate, CloneValid, Migrate, LinkStable,
     Store, LinkNext, Activate, RefreshFails, StartCached, ChildMigrate, ChildLinkStable,
     WriteShellBlock, RecordShellReady, ChildCommit, RunFails, SettleNothing, SettleReady,
     SettleFailed, Rollback, Crash, ParentDies

(* No activation strands the credentials. *)
LEMMA LegacyIsActiveNext == CacheInv /\ LegacyIsActive /\ [CacheNext]_vars => LegacyIsActive'
<1> SUFFICES ASSUME CacheInv, LegacyIsActive, [CacheNext]_vars PROVE LegacyIsActive'
  OBVIOUS
<1>0. \A r \in Revisions, place \in Places :
        <<r, place>> \in legacy' => place \in {Root, Selected}
  BY CredentialsOnlyMove DEF LegacyIsActive
<1>1. SUFFICES ASSUME stable' = "absent", legacy' # {}
               PROVE  /\ active' = active
                      /\ \A c \in Commands :
                           /\ At(c, "clone")' \/ At(c, "migrate")' => previousRoot'[c] # NoRevision
                           /\ ~Storing(c)'
                           /\ commit'[c] # NoLink => At(c, "idle")' \/ At(c, "link")'
  <2>1. CASE stable' = "absent" /\ legacy' # {}
    BY <1>0, <1>1, <2>1, CredentialsOnlyMove DEF LegacyIsActive
  <2>2. CASE ~(stable' = "absent" /\ legacy' # {})
    BY <1>0, <2>2 DEF LegacyIsActive
  <2> QED
    BY <2>1, <2>2
<1>2. /\ stable = "absent" /\ legacy # {}
      /\ LegacyFrom(Selected) # NoLink /\ active # NoRevision
  BY <1>1, CredentialsOnlyMove, LegacyIsFound
<1>3. \A c \in Commands :
        /\ At(c, "clone") \/ At(c, "migrate") => previousRoot[c] # NoRevision
        /\ ~Storing(c)
        /\ commit[c] # NoLink => At(c, "idle") \/ At(c, "link")
        /\ At(c, "rollback") => commit[c] # NoLink
  BY <1>2 DEF LegacyIsActive, CacheInv, SettlesAnActiveCache
<1>4. /\ pc \in [Commands -> Steps] /\ previousRoot \in [Commands -> MaybeRevision]
      /\ commit \in [Commands -> Link \cup {NoLink}]
  BY DEF CacheInv, CacheTypeOK
<1> USE DEF cacheVars, credentialVars, localVars, historyVars, Goto, At, Storing, Refreshing,
            InChild
<1>5. ASSUME NEW c \in Commands, Refresh(c)
      PROVE  /\ active' = active
             /\ \A d \in Commands :
                  /\ At(d, "clone")' \/ At(d, "migrate")' => previousRoot'[d] # NoRevision
                  /\ ~Storing(d)'
                  /\ commit'[d] # NoLink => At(d, "idle")' \/ At(d, "link")'
  <2>1. CASE StartUpdate(c)
    BY <1>2, <1>3, <1>4, <2>1 DEF StartUpdate, Begin
  <2>2. CASE CloneValid(c)
    BY <1>3, <1>4, <2>2 DEF CloneValid
  <2>3. CASE Migrate(c)
    BY <1>2, <1>3, <1>4, <2>3 DEF Migrate
  <2>4. CASE LinkStable(c)
    BY <1>1, <2>4 DEF LinkStable
  <2>5. CASE Store(c) \/ LinkNext(c) \/ Activate(c)
    BY <1>3, <2>5 DEF Store, LinkNext, Activate
  <2>6. CASE RefreshFails(c)
    BY <1>3, <1>4, <2>6 DEF RefreshFails
  <2> QED
    BY <1>5, <2>1, <2>2, <2>3, <2>4, <2>5, <2>6 DEF Refresh
<1>6. ASSUME NEW c \in Commands, Run(c) \/ Settle(c) \/ Crash(c) \/ ParentDies(c)
      PROVE  /\ active' = active
             /\ \A d \in Commands :
                  /\ At(d, "clone")' \/ At(d, "migrate")' => previousRoot'[d] # NoRevision
                  /\ ~Storing(d)'
                  /\ commit'[d] # NoLink => At(d, "idle")' \/ At(d, "link")'
  <2>1. CASE Run(c)
    BY <1>3, <1>4, <2>1 DEF Run, StartCached, ChildMigrate, ChildLinkStable, WriteShellBlock,
       RecordShellReady, ChildCommit, RunFails
  <2>2. CASE Settle(c)
    BY <1>3, <1>4, <2>2 DEF Settle, SettleNothing, SettleReady, SettleFailed, Rollback
  <2>3. CASE Crash(c) \/ ParentDies(c)
    BY <1>3, <1>4, <2>3 DEF Crash, ParentDies
  <2> QED
    BY <1>6, <2>1, <2>2, <2>3
<1>7. CASE UNCHANGED vars
  BY <1>3, <1>7 DEF vars
<1> QED
  BY <1>5, <1>6, <1>7 DEF CacheNext

(* In every state the credentials are where a switch will find them.        *)
LEMMA LegacyInvariant == CacheSpec => []LegacyIsActive
<1>1. CacheInit => LegacyIsActive
  <2> SUFFICES ASSUME CacheInit PROVE LegacyIsActive
    OBVIOUS
  <2>1. \/ legacy = {} 
        \/ \E r \in Revisions, place \in {Root, Selected} : active = r /\ legacy = {<<r, place>>}
    BY DEF CacheInit
  <2>2. \A c \in Commands : At(c, "idle")
    BY DEF CacheInit, At
  <2> QED
    BY <2>1, <2>2 DEF LegacyIsActive, At, Storing
<1> QED
  BY <1>1, LegacyIsActiveNext, CacheInvariant, PTL DEF CacheSpec

(* A command that activates a revision without the credentials has put them *)
(* at the stable path before, whatever the others do and whoever is killed. *)
THEOREM CredentialsAreNeverStranded == CacheSpec => []NeverStranded
<1>1. LegacyIsActive => NeverStranded
  BY DEF LegacyIsActive, NeverStranded, HoldsCredentials
<1> QED
  BY <1>1, LegacyInvariant, PTL

-----------------------------------------------------------------------------
(* Who still has to remove active.next.                                     *)

(* Nobody was killed: whoever made active.next is about to rename it.       *)
NextIsAwaited ==
  crashes = 0 /\ next # NoRevision => \E c \in Commands : At(c, "activate")

(* The rename and the failure that clear the link are the only ways on.     *)
LEMMA NextIsAwaitedNext == CacheInv /\ NextIsAwaited /\ [CacheNext]_vars => NextIsAwaited'
<1> SUFFICES ASSUME CacheInv, NextIsAwaited, [CacheNext]_vars PROVE NextIsAwaited'
  OBVIOUS
<1> USE DEF cacheVars, credentialVars, localVars, historyVars, Goto, At
<1>1. pc \in [Commands -> Steps] /\ crashes \in Nat
  BY CacheConstants DEF CacheInv, CacheTypeOK
<1>2. ASSUME NEW c \in Commands, Activate(c) \/ (RefreshFails(c) /\ At(c, "activate"))
      PROVE  NextIsAwaited'
  BY <1>2 DEF Activate, RefreshFails, NextIsAwaited
<1>3. ASSUME NEW c \in Commands, Crash(c) \/ ParentDies(c)
      PROVE  NextIsAwaited'
  BY <1>1, <1>3 DEF Crash, ParentDies, NextIsAwaited
<1>4. ASSUME NEW c \in Commands, LinkNext(c)
      PROVE  NextIsAwaited'
  BY <1>1, <1>4 DEF LinkNext, NextIsAwaited
<1>5. ASSUME next' = next, crashes' = crashes, NEW c \in Commands, ~At(c, "activate"),
             \A d \in Commands : d # c => pc'[d] = pc[d]
      PROVE  NextIsAwaited'
  BY <1>5 DEF NextIsAwaited
<1>6. ASSUME NEW c \in Commands, Refresh(c)
      PROVE  NextIsAwaited'
  <2>1. CASE RefreshFails(c) /\ ~At(c, "activate")
    BY <1>1, <1>5, <2>1 DEF RefreshFails
  <2>2. CASE StartUpdate(c) \/ CloneValid(c) \/ Migrate(c) \/ LinkStable(c) \/ Store(c)
    <3>1. next' = next /\ crashes' = crashes /\ ~At(c, "activate")
      BY <2>2 DEF StartUpdate, Begin, CloneValid, Migrate, LinkStable, Store
    <3>2. \A d \in Commands : d # c => pc'[d] = pc[d]
      BY <1>1, <2>2 DEF StartUpdate, CloneValid, Migrate, LinkStable, Store
    <3> QED
      BY <1>5, <3>1, <3>2
  <2> QED
    BY <1>2, <1>4, <1>6, <2>1, <2>2 DEF Refresh
<1>7. ASSUME NEW c \in Commands, Run(c) \/ Settle(c)
      PROVE  NextIsAwaited'
  <2> USE DEF Begin, Run, Settle, StartCached, ChildMigrate, ChildLinkStable, WriteShellBlock,
              RecordShellReady, ChildCommit, RunFails, SettleNothing, SettleReady, SettleFailed,
              Rollback, InChild
  <2>1. next' = next /\ crashes' = crashes /\ ~At(c, "activate")
    BY <1>7
  <2>2. \A d \in Commands : d # c => pc'[d] = pc[d]
    BY <1>1, <1>7
  <2> QED
    BY <1>5, <2>1, <2>2
<1>8. CASE UNCHANGED vars
  BY <1>8 DEF vars, NextIsAwaited
<1> QED
  BY <1>3, <1>6, <1>7, <1>8 DEF CacheNext

(* Unless a command was killed, active.next is gone when all are done: two  *)
(* refreshes cannot leave it to each other.                                 *)
THEOREM NextIsReleased == CacheSpec => []NextReleased
<1>1. CacheInit => NextIsAwaited
  BY DEF CacheInit, NextIsAwaited
<1>2. NextIsAwaited => NextReleased
  BY DEF NextIsAwaited, NextReleased, Quiet, At
<1> QED
  BY <1>1, <1>2, NextIsAwaitedNext, CacheInvariant, PTL DEF CacheSpec

-----------------------------------------------------------------------------
(* Commands that do not overlap.                                            *)

(* Whatever one command does, it is alone.                                  *)
OneBusy ==
  ~overlapped =>
    \A c, d \in Commands : ~At(c, "idle") /\ ~At(d, "idle") => c = d

StepOf(c) == Refresh(c) \/ Run(c) \/ Settle(c) \/ Crash(c) \/ ParentDies(c)

(* While commands do not overlap, those that take no step are idle.         *)
LEMMA OthersAreIdle ==
  ASSUME CacheInv, OneBusy, NEW c \in Commands, StepOf(c), ~overlapped'
  PROVE  /\ ~overlapped
         /\ \A d \in Commands : d # c => At(d, "idle") /\ At(d, "idle")'
<1> USE DEF cacheVars, credentialVars, localVars, historyVars, Goto, At
<1>1. pc \in [Commands -> Steps]
  BY DEF CacheInv, CacheTypeOK
<1>2. \/ Begin(c)
      \/ overlapped' = overlapped /\ pc[c] # "idle"
  BY DEF StepOf, Refresh, StartUpdate, CloneValid, Migrate, LinkStable, Store, LinkNext,
     Activate, RefreshFails, Run, StartCached, ChildMigrate, ChildLinkStable,
     WriteShellBlock, RecordShellReady, ChildCommit, RunFails, Settle, SettleNothing,
     SettleReady, SettleFailed, Rollback, Crash, ParentDies, Refreshing, InChild
<1>3. \A d \in Commands : d # c => pc'[d] = pc[d]
  BY <1>1 DEF StepOf, Refresh, StartUpdate, CloneValid, Migrate, LinkStable, Store, LinkNext,
     Activate, RefreshFails, Run, StartCached, ChildMigrate, ChildLinkStable,
     WriteShellBlock, RecordShellReady, ChildCommit, RunFails, Settle, SettleNothing,
     SettleReady, SettleFailed, Rollback, Crash, ParentDies
<1>4. CASE Begin(c)
  BY <1>3, <1>4 DEF Begin
<1>5. CASE overlapped' = overlapped /\ pc[c] # "idle"
  BY <1>3, <1>5 DEF OneBusy
<1> QED
  BY <1>2, <1>4, <1>5

(* A command that starts while another is under way is noticed.             *)
LEMMA OneBusyNext == CacheInv /\ OneBusy /\ [CacheNext]_vars => OneBusy'
<1> SUFFICES ASSUME CacheInv, OneBusy, [CacheNext]_vars PROVE OneBusy'
  OBVIOUS
<1>1. CASE UNCHANGED vars
  BY <1>1 DEF vars, historyVars, OneBusy, At
<1>2. ASSUME NEW c \in Commands, StepOf(c) PROVE OneBusy'
  <2> SUFFICES ASSUME ~overlapped' PROVE OneBusy'
    BY DEF OneBusy
  <2>1. \A d \in Commands : d # c => At(d, "idle")'
    BY <1>2, OthersAreIdle
  <2> QED
    BY <2>1 DEF OneBusy
<1> QED
  BY <1>1, <1>2 DEF CacheNext, StepOf

(* From the activation, or the failure of the refresh, to the end.          *)
Settling(c) == pc[c] \in InChild \cup {"settle", "rollback"}

(* What is active when a command begins is still active when it activates,  *)
(* and a rollback finds the command's own revision.                         *)
Restorable ==
  ~overlapped =>
    \A c \in Commands :
      /\ pc[c] \in Refreshing => previousRoot[c] = active
      /\ At(c, "rollback") => active = revision[c]

(* Each step of a command that is alone keeps what it is to restore.        *)
LEMMA RestorableNext ==
  CacheInv /\ OneBusy /\ Restorable /\ [CacheNext]_vars => Restorable'
<1> SUFFICES ASSUME CacheInv, OneBusy, Restorable, [CacheNext]_vars, ~overlapped'
             PROVE  Restorable'
  BY DEF Restorable
<1> USE DEF cacheVars, credentialVars, localVars, historyVars, Goto, At
<1>1. CASE UNCHANGED vars
  BY <1>1 DEF vars, Restorable
<1>2. SUFFICES ASSUME NEW c \in Commands, StepOf(c) PROVE Restorable'
  BY <1>1 DEF CacheNext, StepOf
<1>3. ~overlapped /\ \A d \in Commands : d # c => pc'[d] = "idle"
  BY <1>2, OthersAreIdle
<1>4. SUFFICES /\ pc'[c] \in Refreshing => previousRoot'[c] = active'
               /\ pc'[c] = "rollback" => active' = revision'[c]
  BY <1>3 DEF Restorable, Refreshing
<1>5. /\ pc \in [Commands -> Steps] /\ previousRoot \in [Commands -> MaybeRevision]
      /\ revision \in [Commands -> MaybeRevision]
  BY DEF CacheInv, CacheTypeOK
<1>6. /\ pc[c] \in Refreshing => previousRoot[c] = active
      /\ pc[c] = "rollback" => active = revision[c]
  BY <1>3 DEF Restorable
<1> USE DEF Refreshing, InChild
<1>7. CASE Refresh(c)
  BY <1>5, <1>6, <1>7 DEF Refresh, StartUpdate, CloneValid, Migrate, LinkStable, Store,
     LinkNext, Activate, RefreshFails
<1>8. CASE Run(c)
  BY <1>5, <1>6, <1>8 DEF Run, StartCached, ChildMigrate, ChildLinkStable, WriteShellBlock,
     RecordShellReady, ChildCommit, RunFails
<1>9. CASE Settle(c) \/ Crash(c) \/ ParentDies(c)
  BY <1>5, <1>6, <1>9 DEF Settle, SettleNothing, SettleReady, SettleFailed, Rollback, Crash,
     ParentDies
<1> QED
  BY <1>2, <1>7, <1>8, <1>9 DEF StepOf

(* While new shells still load the legacy path of the active revision, the  *)
(* engineer's file is there, or the command under way has a rollback to     *)
(* make; before they load the stable path, something is there.              *)
CanLoad ==
  HadCredentials /\ AtRoot =>
    /\ shell = "stable" \/ (\E c \in Commands : At(c, "block")) => stable # "absent"
    /\ shell = "legacy" /\ crashes = 0 /\ ~overlapped =>
         /\ \A c \in Commands :
              pc[c] \in {"link", "store", "next", "activate"} => commit[c] # NoLink
         /\ IF \E c \in Commands : Settling(c) /\ commit[c] # NoLink
            THEN \A c \in Commands : Settling(c) /\ commit[c] # NoLink =>
                   active = revision[c] /\ HoldsCredentials(previousRoot[c])
            ELSE HoldsCredentials(active)

(* At the root, migrateCachedCredentials finds the file wherever it begins. *)
LEMMA FoundAtRoot ==
  ASSUME CacheInv, AtRoot, HoldsCredentials(active), NEW place \in Places
  PROVE  LegacyFrom(place) # NoLink /\ active # NoRevision
<1>1. PICK at \in Places : <<active, at>> \in legacy
  BY DEF HoldsCredentials
<1>2. active \in Revisions /\ at = Root
  BY <1>1 DEF AtRoot
<1>3. \A link \in legacy : link # NoLink
  BY CacheConstants DEF CacheInv, CacheTypeOK, Link
<1> QED
  BY <1>1, <1>2, <1>3, CacheConstants DEF LegacyFrom

(* New shells never go back to the legacy path, and until they leave it     *)
(* nothing is removed there.                                                *)
LEMMA ShellsOnlyAdvance ==
  ASSUME CacheInv, [CacheNext]_vars
  PROVE  /\ shell = "stable" => shell' = "stable"
         /\ shell' = "legacy" => shell = "legacy" /\ legacy' = legacy
<1>1. shell' # shell => shell' = "stable"
  BY DEF CacheNext, vars, cacheVars, credentialVars, localVars, historyVars, Refresh,
     StartUpdate, CloneValid, Migrate, LinkStable, Store, LinkNext, Activate, RefreshFails,
     Run, StartCached, ChildMigrate, ChildLinkStable, WriteShellBlock, RecordShellReady,
     ChildCommit, RunFails, Settle, SettleNothing, SettleReady, SettleFailed, Rollback,
     Crash, ParentDies
<1>2. shell = "legacy" => legacy' = legacy
  BY RemovedOnlyWhenReplaced DEF vars, credentialVars
<1> QED
  BY <1>1, <1>2

(* Each step keeps the credentials within reach of new shells.              *)
LEMMA CanLoadNext ==
  CacheInv /\ LegacyIsActive /\ OneBusy /\ Restorable /\ CanLoad /\ [CacheNext]_vars
    => CanLoad'
<1> SUFFICES ASSUME CacheInv, LegacyIsActive, OneBusy, Restorable, CanLoad, [CacheNext]_vars,
                    HadCredentials', AtRoot'
             PROVE  CanLoad'
  BY DEF CanLoad
<1> USE DEF cacheVars, credentialVars, localVars, historyVars, Goto, At
<1>1. HadCredentials
  <2>1. legacy' \subseteq legacy /\ (stable' # stable => legacy # {})
    BY CredentialsOnlyMove
  <2> QED
    BY <2>1 DEF HadCredentials
<1>2. /\ pc \in [Commands -> Steps] /\ previousRoot \in [Commands -> MaybeRevision]
      /\ revision \in [Commands -> MaybeRevision] /\ commit \in [Commands -> Link \cup {NoLink}]
      /\ crashes \in Nat /\ shell \in {"legacy", "stable"} /\ Root \in Places
      /\ Selected \in Places
  BY CacheConstants DEF CacheInv, CacheTypeOK
<1>3. /\ shell = "stable" => shell' = "stable"
      /\ shell' = "legacy" => shell = "legacy" /\ legacy' = legacy
  BY ShellsOnlyAdvance
<1>4. stable # "absent" => stable' # "absent"
  BY CredentialsOnlyMove
<1>5. CASE ~AtRoot
  <2>1. legacy' # legacy
    BY <1>5 DEF AtRoot
  <2>2. shell = "stable" /\ stable # "absent"
    BY <2>1, RemovedOnlyWhenReplaced DEF vars
  <2> QED
    BY <1>3, <1>4, <2>2 DEF CanLoad
<1>6. CASE UNCHANGED vars
  BY <1>1, <1>5, <1>6 DEF vars, CanLoad, Settling, HoldsCredentials, HadCredentials, AtRoot
<1>7. SUFFICES ASSUME AtRoot, NEW c \in Commands, StepOf(c) PROVE CanLoad'
  BY <1>5, <1>6 DEF CacheNext, StepOf
<1>8. ASSUME shell' = "stable" \/ \E d \in Commands : pc'[d] = "block"
      PROVE  stable' # "absent"
  <2>1. SUFFICES ASSUME stable = "absent" PROVE stable' # "absent"
    BY <1>4
  <2>2. HoldsCredentials(active)
    BY <1>1, <2>1, <1>7 DEF HadCredentials, LegacyIsActive, HoldsCredentials, CacheInv,
       CacheTypeOK, Link
  <2>3. LegacyFrom(Root) # NoLink
    BY <1>2, <1>7, <2>2, FoundAtRoot
  <2>4. shell # "stable" /\ \A d \in Commands : pc[d] # "block"
    BY <1>1, <1>7, <2>1 DEF CanLoad
  <2> QED
    BY <1>2, <1>7, <1>8, <2>1, <2>3, <2>4
    DEF StepOf, Refresh, StartUpdate, CloneValid, Migrate, LinkStable, Store,
       LinkNext, Activate, RefreshFails, Run, StartCached, ChildMigrate, ChildLinkStable,
       WriteShellBlock, RecordShellReady, ChildCommit, RunFails, Settle, SettleNothing,
       SettleReady, SettleFailed, Rollback, Crash, ParentDies
<1> DEFINE Reach(r) == \E place \in Places : <<r, place>> \in legacy
           Linked == pc[c] \in {"link", "store", "next", "activate"} => commit[c] # NoLink
           Undoing == pc[c] \in InChild \cup {"settle", "rollback"} /\ commit[c] # NoLink
           Kept == IF Undoing THEN active = revision[c] /\ Reach(previousRoot[c])
                              ELSE Reach(active)
<1>9. ASSUME shell' = "legacy", crashes' = 0, ~overlapped'
      PROVE  /\ Linked' /\ Kept'
             /\ \A d \in Commands : d # c => pc'[d] = "idle"
  <2>1. ~overlapped /\ \A d \in Commands : d # c => pc[d] = "idle" /\ pc'[d] = "idle"
    BY <1>7, <1>9, OthersAreIdle
  <2>2. crashes = 0 /\ ~Crash(c) /\ ~ParentDies(c)
    BY <1>2, <1>7, <1>9 DEF StepOf, Begin, Refresh, StartUpdate, CloneValid, Migrate,
       LinkStable, Store, LinkNext, Activate, RefreshFails, Run, StartCached, ChildMigrate,
       ChildLinkStable, WriteShellBlock, RecordShellReady, ChildCommit, RunFails, Settle,
       SettleNothing, SettleReady, SettleFailed, Rollback, Crash, ParentDies
  <2>3. /\ shell = "legacy" /\ legacy' = legacy /\ receipt = NoRevision
        /\ pc[c] # "receipt" /\ pc[c] # "childCommit"
    BY <1>3, <1>9 DEF CacheInv, ReceiptMeansStable
  <2>4. Linked /\ Kept
    <3>1. /\ pc[c] \in {"link", "store", "next", "activate"} => commit[c] # NoLink
          /\ IF \E d \in Commands : Settling(d) /\ commit[d] # NoLink
             THEN \A d \in Commands : Settling(d) /\ commit[d] # NoLink =>
                    active = revision[d] /\ HoldsCredentials(previousRoot[d])
             ELSE HoldsCredentials(active)
      BY <1>1, <1>7, <2>1, <2>2, <2>3 DEF CanLoad
    <3>2. \A d \in Commands : Settling(d) => d = c
      BY <2>1 DEF Settling, InChild
    <3> QED
      BY <3>1, <3>2 DEF Settling, HoldsCredentials
  <2>5. /\ pc[c] \in Refreshing => previousRoot[c] = active
        /\ pc[c] = "rollback" => active = revision[c]
    BY <2>1 DEF Restorable
  <2>6. /\ commit[c] # NoLink => active # NoRevision
        /\ pc[c] = "rollback" => commit[c] # NoLink
        /\ pc[c] = "activate" => next = revision[c]
    BY DEF CacheInv, SettlesAnActiveCache, NextIsOwn
  <2>7. Reach(active) => LegacyFrom(Selected) # NoLink /\ active # NoRevision
    BY <1>2, <1>7, FoundAtRoot DEF HoldsCredentials
  <2>8. /\ Reach(active)' <=> Reach(active')
        /\ Reach(previousRoot[c])' <=> Reach(previousRoot'[c])
    BY <2>3
  <2>9. Linked' /\ (IF Undoing' THEN active' = revision'[c] /\ Reach(previousRoot'[c])
                                ELSE Reach(active'))
    <3> USE DEF Refreshing, InChild
    <3> HIDE DEF Reach
    <3>1. CASE Refresh(c)
      <4>1. CASE StartUpdate(c)
        BY <1>2, <2>4, <4>1 DEF StartUpdate, Begin
      <4>2. CASE CloneValid(c)
        BY <1>2, <2>4, <4>2 DEF CloneValid
      <4>3. CASE Migrate(c)
        BY <1>2, <2>4, <2>5, <2>7, <4>3 DEF Migrate
      <4>4. CASE LinkStable(c)
        BY <1>2, <2>4, <4>4 DEF LinkStable
      <4>5. CASE Store(c)
        BY <1>2, <2>4, <4>5 DEF Store
      <4>6. CASE LinkNext(c)
        BY <1>2, <2>4, <4>6 DEF LinkNext
      <4>7. CASE Activate(c)
        BY <1>2, <2>4, <2>5, <2>6, <4>7 DEF Activate
      <4>8. CASE RefreshFails(c)
        BY <1>2, <2>4, <4>8 DEF RefreshFails
      <4> QED
        BY <3>1, <4>1, <4>2, <4>3, <4>4, <4>5, <4>6, <4>7, <4>8 DEF Refresh
    <3>2. CASE Run(c)
      <4>1. CASE StartCached(c)
        BY <1>2, <2>4, <4>1 DEF StartCached, Begin
      <4>2. CASE ChildMigrate(c)
        BY <1>2, <2>4, <4>2 DEF ChildMigrate
      <4>3. CASE ChildLinkStable(c) \/ RunFails(c)
        BY <1>2, <2>4, <4>3 DEF ChildLinkStable, RunFails
      <4>4. ~WriteShellBlock(c) /\ ~RecordShellReady(c) /\ ~ChildCommit(c)
        BY <1>9, <2>3 DEF WriteShellBlock, RecordShellReady, ChildCommit
      <4> QED
        BY <3>2, <4>1, <4>2, <4>3, <4>4 DEF Run
    <3>3. CASE Settle(c)
      <4>1. CASE SettleNothing(c)
        BY <1>2, <2>4, <4>1 DEF SettleNothing
      <4>2. ~SettleReady(c)
        BY <2>3, <2>6 DEF SettleReady
      <4>3. CASE SettleFailed(c)
        BY <1>2, <2>4, <4>3 DEF SettleFailed
      <4>4. CASE Rollback(c)
        BY <1>2, <2>4, <2>6, <4>4 DEF Rollback
      <4> QED
        BY <3>3, <4>1, <4>2, <4>3, <4>4 DEF Settle
    <3> QED
      BY <1>7, <2>2, <3>1, <3>2, <3>3 DEF StepOf
  <2> QED
    BY <2>1, <2>8, <2>9
<1>10. ASSUME shell' = "legacy", crashes' = 0, ~overlapped'
       PROVE  /\ \A d \in Commands :
                   pc'[d] \in {"link", "store", "next", "activate"} => commit'[d] # NoLink
              /\ IF \E d \in Commands : Settling(d)' /\ commit'[d] # NoLink
                 THEN \A d \in Commands : Settling(d)' /\ commit'[d] # NoLink =>
                        active' = revision'[d] /\ HoldsCredentials(previousRoot[d])'
                 ELSE HoldsCredentials(active)'
  <2>1. Linked' /\ Kept' /\ \A d \in Commands : d # c => pc'[d] = "idle"
    BY <1>9, <1>10
  <2>2. \A d \in Commands : Settling(d)' => d = c
    BY <2>1 DEF Settling, InChild
  <2> QED
    BY <2>1, <2>2 DEF Settling, HoldsCredentials
<1> QED
  BY <1>8, <1>10 DEF CanLoad

(* When commands neither overlap nor are killed, then after every one of    *)
(* them, failed or not, new shells can load the engineer's credentials, if  *)
(* the older release left them at the root of the company's repository      *)
(* (cache_subdirectory shows what a subdirectory changes).                  *)
THEOREM ShellsCanAlwaysLoad == CacheSpec => []LoadsAfterSerialCommands
<1>1. CacheInit => CanLoad /\ OneBusy /\ Restorable
  <2> SUFFICES ASSUME CacheInit PROVE CanLoad /\ OneBusy /\ Restorable
    OBVIOUS
  <2>1. shell = "legacy" /\ \A c \in Commands : pc[c] = "idle"
    BY DEF CacheInit
  <2>2. HadCredentials => HoldsCredentials(active)
    BY CacheConstants DEF CacheInit, HadCredentials, HoldsCredentials
  <2> QED
    BY <2>1, <2>2 DEF CanLoad, OneBusy, Restorable, At, Settling, InChild, Refreshing
<1>2. CanLoad /\ CacheInv => LoadsAfterSerialCommands
  BY DEF LoadsAfterSerialCommands, CanLoad, CacheInv, CacheTypeOK, ShellLoads, Quiet,
         Settling, InChild
<1>3. CacheInv /\ LegacyIsActive /\ OneBusy /\ Restorable /\ CanLoad /\ [CacheNext]_vars
        => CanLoad' /\ OneBusy' /\ Restorable'
  BY CanLoadNext, OneBusyNext, RestorableNext
<1> QED
  BY <1>1, <1>2, <1>3, LegacyInvariant, CacheInvariant, PTL DEF CacheSpec
=============================================================================
