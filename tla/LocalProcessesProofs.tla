------------------------ MODULE LocalProcessesProofs ------------------------
(***************************************************************************)
(* Three parts of what runs on a workstation: the code graph pool, the     *)
(* installation of a pinned runtime, and component memory.                 *)
(***************************************************************************)
EXTENDS LocalMemory, CodeGraphPool, PinnedRuntime, LeastNumber, SequenceTheorems,
        FiniteSetTheorems, FunctionTheorems

-----------------------------------------------------------------------------
(* The code graph pool                                                     *)

PoolEntry == [root : Roots, handle : Handles]
QueryRecord == [pc : {"idle", "opening", "watching", "querying"},
                kind : {"explore", "initialize"}, root : Roots \cup {NoRoot},
                handle : Handles \cup {NoHandle}]

OnePerRoot(s) == \A i, j \in 1 .. Len(s) : s[i].root = s[j].root => i = j
AllOpen(s) ==
  \A i \in 1 .. Len(s) : handles[s[i].handle] = [root |-> s[i].root, open |-> TRUE]

Pool(s) == s \in Seq(PoolEntry) /\ Len(s) <= MaxOpen /\ OnePerRoot(s) /\ AllOpen(s)
PooledHandles == {pool[i].handle : i \in 1 .. Len(pool)}

CallTypes ==
  /\ query \in [Calls -> QueryRecord]
  /\ \A c \in Calls : query[c].pc # "idle" => query[c].root \in Roots

(* What makes PoolSound inductive: the handle of a call that waits for its *)
(* watcher is open and its own, in no other call's hands and not pooled.   *)
WatchedIsOwn ==
  \A c \in Calls : query[c].pc = "watching" =>
    /\ query[c].handle \in Handles \ PooledHandles
    /\ handles[query[c].handle] = [root |-> query[c].root, open |-> TRUE]
    /\ \A d \in Calls : query[d].pc = "watching" /\ query[d].handle = query[c].handle => d = c

HeldHandles ==
  \A c \in Calls : query[c].handle # NoHandle =>
    /\ query[c].handle \in Handles /\ query[c].root \in Roots
    /\ handles[query[c].handle].root = query[c].root

CallInv == CallTypes /\ WatchedIsOwn /\ HeldHandles

PoolInv ==
  /\ handles \in [Handles -> [root : Roots \cup {NoRoot}, open : BOOLEAN]]
  /\ Pool(pool)
  /\ CallInv

(* A project that was used last is moved to the end, and that is all.      *)
LEMMA TouchedIs ==
  ASSUME pool \in Seq(PoolEntry), OnePerRoot(pool), NEW root \in Pooled
  PROVE  /\ Touched(root) \in Seq(PoolEntry)
         /\ Len(Touched(root)) = Len(pool)
         /\ HandleOf(root) \in 1 .. Len(pool) /\ pool[HandleOf(root)].root = root
         /\ \A j \in 1 .. Len(pool) : \E k \in 1 .. Len(pool) : Touched(root)[j] = pool[k]
         /\ OnePerRoot(Touched(root))
         /\ Touched(root)[Len(pool)].root = root
         /\ \A j, k \in 1 .. Len(pool) : j < k /\ k # Len(pool) =>
              \E m, n \in 1 .. Len(pool) :
                m < n /\ Touched(root)[j] = pool[m] /\ Touched(root)[k] = pool[n]
<1> DEFINE i == HandleOf(root)
           before == SubSeq(pool, 1, i - 1)
           after == SubSeq(pool, i + 1, Len(pool))
           front == before \o after
           last == <<pool[i]>>
           to == [j \in 1 .. Len(pool) |->
                    IF j < i THEN j ELSE IF j < Len(pool) THEN j + 1 ELSE i]
<1>1. i \in 1 .. Len(pool) /\ pool[i].root = root
  <2>1. \E k \in DOMAIN pool : pool[k].root = root
    BY DEF Pooled
  <2>2. i \in DOMAIN pool /\ pool[i].root = root
    BY <2>1 DEF HandleOf
  <2> QED
    BY <2>2
<1> HIDE DEF i
<1>2. Len(pool) \in Nat /\ i \in Nat
  BY <1>1
<1>3. /\ before \in Seq(PoolEntry) /\ Len(before) = i - 1
      /\ \A j \in 1 .. i - 1 : before[j] = pool[j]
  BY <1>1, <1>2
<1>4. /\ after \in Seq(PoolEntry) /\ Len(after) = Len(pool) - i
      /\ \A j \in 1 .. Len(pool) - i : after[j] = pool[j + i]
  BY <1>1, <1>2
<1>5. last \in Seq(PoolEntry) /\ Len(last) = 1 /\ last[1] = pool[i]
  BY <1>1
<1>6. Touched(root) = front \o last
  BY DEF Touched, i
<1> HIDE DEF before, after, last, to
<1>7. /\ Touched(root) \in Seq(PoolEntry)
      /\ Len(Touched(root)) = Len(pool)
      /\ \A j \in 1 .. Len(pool) : Touched(root)[j] = pool[to[j]]
  <2>1. /\ front \in Seq(PoolEntry)
        /\ Len(front) = Len(pool) - 1
        /\ \A j \in 1 .. Len(pool) - 1 :
             front[j] = IF j <= i - 1 THEN before[j] ELSE after[j - (i - 1)]
    <3>1. Len(before) + Len(after) = Len(pool) - 1
      BY <1>2, <1>3, <1>4
    <3> QED
      BY <1>3, <1>4, <3>1, ConcatProperties
  <2> HIDE DEF front
  <2>2. /\ Touched(root) \in Seq(PoolEntry)
        /\ Len(Touched(root)) = Len(pool)
        /\ \A j \in 1 .. Len(pool) : Touched(root)[j] =
             IF j <= Len(pool) - 1 THEN front[j]
             ELSE last[j - (Len(pool) - 1)]
    <3>1. Len(front) + Len(last) = Len(pool)
      BY <1>2, <1>5, <2>1
    <3> QED
      <4>1. /\ front \o last \in Seq(PoolEntry)
            /\ Len(front \o last) = Len(front) + Len(last)
            /\ \A j \in 1 .. Len(front) + Len(last) : (front \o last)[j] =
                 IF j <= Len(front) THEN front[j] ELSE last[j - Len(front)]
        BY <1>5, <2>1, ConcatProperties
      <4>2. Len(front) = Len(pool) - 1
        BY <2>1
      <4> QED
        BY <1>6, <3>1, <4>1, <4>2
  <2>3. SUFFICES ASSUME NEW j \in 1 .. Len(pool)
                 PROVE  Touched(root)[j] = pool[to[j]]
    BY <2>2
  <2>4. CASE j < i
    <3>1. j \in 1 .. Len(pool) - 1 /\ j <= i - 1 /\ j \in 1 .. i - 1
      BY <1>1, <1>2, <2>4
    <3>2. Touched(root)[j] = before[j]
      <4>1. Touched(root)[j] = front[j]
        BY <1>2, <2>2, <2>3, <3>1
      <4>2. front[j] = before[j]
        BY <2>1, <3>1
      <4> QED
        BY <4>1, <4>2
    <3>3. to[j] = j
      BY <2>4 DEF to
    <3> QED
      BY <1>3, <3>1, <3>2, <3>3
  <2>5. CASE j >= i /\ j < Len(pool)
    <3>1. /\ j \in 1 .. Len(pool) - 1 /\ ~(j <= i - 1)
          /\ j - (i - 1) \in 1 .. Len(pool) - i
      BY <1>1, <1>2, <2>5
    <3>2. Touched(root)[j] = after[j - (i - 1)]
      <4>1. Touched(root)[j] = front[j]
        BY <1>2, <2>2, <2>3, <3>1
      <4>2. front[j] = after[j - (i - 1)]
        BY <2>1, <3>1
      <4> QED
        BY <4>1, <4>2
    <3>3. to[j] = j + 1 /\ j - (i - 1) + i = j + 1
      BY <1>2, <2>5 DEF to
    <3>4. after[j - (i - 1)] = pool[j - (i - 1) + i]
      BY <1>4, <3>1
    <3> QED
      BY <3>2, <3>3, <3>4
  <2>6. CASE j = Len(pool)
    <3>1. ~(j <= Len(pool) - 1) /\ j - (Len(pool) - 1) = 1 /\ ~(j < i)
      BY <1>1, <1>2, <2>6
    <3>2. to[j] = i
      BY <2>6, <3>1 DEF to
    <3> QED
      BY <1>5, <2>2, <3>1, <3>2
  <2> QED
    BY <1>2, <2>4, <2>5, <2>6
<1>8. /\ \A j \in 1 .. Len(pool) : to[j] \in 1 .. Len(pool)
      /\ \A j, k \in 1 .. Len(pool) : to[j] = to[k] => j = k
  BY <1>1, <1>2 DEF to
<1>9. OnePerRoot(Touched(root))
  <2>1. SUFFICES ASSUME NEW j \in 1 .. Len(pool), NEW k \in 1 .. Len(pool),
                        Touched(root)[j].root = Touched(root)[k].root
                 PROVE  j = k
    BY <1>7 DEF OnePerRoot
  <2>2. pool[to[j]].root = pool[to[k]].root
    BY <1>7, <2>1
  <2>3. to[j] \in 1 .. Len(pool) /\ to[k] \in 1 .. Len(pool)
    BY <1>8
  <2>4. to[j] = to[k]
    BY <2>2, <2>3 DEF OnePerRoot
  <2> QED
    BY <1>8, <2>4
<1>10. Touched(root)[Len(pool)].root = root
  <2>1. Len(pool) \in 1 .. Len(pool) /\ to[Len(pool)] = i
    BY <1>1, <1>2 DEF to
  <2> QED
    BY <1>1, <1>7, <2>1
<1>11. ASSUME NEW j \in 1 .. Len(pool), NEW k \in 1 .. Len(pool), j < k, k # Len(pool)
       PROVE  to[j] < to[k]
  BY <1>1, <1>2, <1>11 DEF to
<1> QED
  BY <1>1, <1>7, <1>8, <1>9, <1>10, <1>11 DEF i

(* The entries are the same.                                               *)
LEMMA TouchedIsPermuted ==
  ASSUME pool \in Seq(PoolEntry), OnePerRoot(pool), NEW root \in Pooled
  PROVE  /\ Touched(root) \in Seq(PoolEntry)
         /\ Len(Touched(root)) = Len(pool)
         /\ HandleOf(root) \in 1 .. Len(pool) /\ pool[HandleOf(root)].root = root
         /\ \A j \in 1 .. Len(pool) : \E k \in 1 .. Len(pool) : Touched(root)[j] = pool[k]
         /\ OnePerRoot(Touched(root))
BY TouchedIs, Zenon

(* All but the last are in the order they were in.                         *)
LEMMA TouchedKeepsOrder ==
  ASSUME pool \in Seq(PoolEntry), OnePerRoot(pool), NEW root \in Pooled
  PROVE  /\ Touched(root)[Len(pool)].root = root
         /\ \A j, k \in 1 .. Len(pool) : j < k /\ k # Len(pool) =>
              \E m, n \in 1 .. Len(pool) :
                m < n /\ Touched(root)[j] = pool[m] /\ Touched(root)[k] = pool[n]
BY TouchedIs, Zenon

(* Using a project of the pool again leaves the pool what it has to be.    *)
LEMMA TouchKeepsThePool ==
  ASSUME PoolInv, NEW root \in Pooled, pool' = Touched(root), handles' = handles
  PROVE  Pool(pool)' /\ PooledHandles' \subseteq PooledHandles
<1>1. /\ pool' \in Seq(PoolEntry) /\ Len(pool') = Len(pool) /\ OnePerRoot(pool')
      /\ \A j \in 1 .. Len(pool) : \E k \in 1 .. Len(pool) : pool'[j] = pool[k]
  BY TouchedIsPermuted DEF PoolInv, Pool
<1>2. AllOpen(pool)'
  BY <1>1 DEF PoolInv, Pool, AllOpen
<1>3. PooledHandles' \subseteq PooledHandles
  BY <1>1 DEF PooledHandles
<1> QED
  BY <1>1, <1>2, <1>3 DEF PoolInv, Pool, OnePerRoot

(* A call that is not about to pool its handle may hold any of its root.   *)
LEMMA CallMayHold ==
  ASSUME PoolInv, handles' = handles, PooledHandles' \subseteq PooledHandles,
         NEW c \in Calls, NEW q \in QueryRecord, query' = [query EXCEPT ![c] = q],
         q.pc # "watching", q.pc # "idle" => q.root \in Roots,
         q.handle # NoHandle => /\ q.handle \in Handles /\ q.root \in Roots
                                /\ handles[q.handle].root = q.root
  PROVE  CallInv'
<1>1. \A d \in Calls : query'[d] = IF d = c THEN q ELSE query[d]
  BY DEF PoolInv, CallInv, CallTypes
<1>2. CallTypes'
  BY <1>1 DEF PoolInv, CallInv, CallTypes
<1>3. WatchedIsOwn'
  BY <1>1 DEF PoolInv, CallInv, WatchedIsOwn
<1>4. HeldHandles'
  BY <1>1 DEF PoolInv, CallInv, HeldHandles
<1> QED
  BY <1>2, <1>3, <1>4 DEF CallInv

(* A call without a query holds nothing.                                   *)
LEMMA IdleIsQuery ==
  IdleQuery \in QueryRecord /\ IdleQuery.pc = "idle" /\ IdleQuery.handle = NoHandle
BY DEF IdleQuery, QueryRecord

(* What an entry of the pool is.                                           *)
LEMMA EntryIsOpen ==
  ASSUME PoolInv, NEW i \in 1 .. Len(pool)
  PROVE  /\ pool[i].root \in Roots /\ pool[i].handle \in Handles \cap PooledHandles
         /\ handles[pool[i].handle] = [root |-> pool[i].root, open |-> TRUE]
         /\ handles[pool[i].handle].root = pool[i].root
<1>1. pool \in Seq(PoolEntry)
  BY DEF PoolInv, Pool
<1>2. pool[i] \in PoolEntry
  BY <1>1
<1>3. handles[pool[i].handle] = [root |-> pool[i].root, open |-> TRUE]
  BY DEF PoolInv, Pool, AllOpen
<1>4. handles[pool[i].handle].root = pool[i].root
  BY <1>3
<1> QED
  BY <1>2, <1>3, <1>4 DEF PoolEntry, PooledHandles

(* A call that opens a project holds no handle yet.                        *)
LEMMA StartIsSafe ==
  ASSUME PoolInv, NEW c \in Calls, NEW root \in Roots, NEW kind \in {"explore", "initialize"},
         Start(c, kind, root)
  PROVE  PoolInv'
<1> DEFINE q == [pc |-> "opening", kind |-> kind, root |-> root, handle |-> NoHandle]
<1>1. q \in QueryRecord
  BY DEF QueryRecord
<1>2. CallInv'
  BY <1>1, CallMayHold DEF Start, PooledHandles
<1> QED
  BY <1>2 DEF Start, PoolInv, Pool, AllOpen

(* A call for a project of the pool holds the handle the pool has for it.  *)
LEMMA StartPooledIsSafe ==
  ASSUME PoolInv, NEW c \in Calls, NEW root \in Roots, StartPooled(c, root)
  PROVE  PoolInv'
<1> DEFINE h == pool[HandleOf(root)].handle
           q == [pc |-> "querying", kind |-> "explore", root |-> root, handle |-> h]
<1>1. /\ root \in Pooled /\ pool' = Touched(root)
      /\ handles' = handles /\ query' = [query EXCEPT ![c] = q]
  BY DEF StartPooled
<1>2. Pool(pool)' /\ PooledHandles' \subseteq PooledHandles
  BY <1>1, TouchKeepsThePool
<1>3. HandleOf(root) \in 1 .. Len(pool) /\ pool[HandleOf(root)].root = root
  BY <1>1, TouchedIsPermuted DEF PoolInv, Pool
<1>4. h \in Handles /\ handles[h].root = root
  BY <1>3, EntryIsOpen
<1>5. q \in QueryRecord
  BY <1>4 DEF QueryRecord
<1>6. CallInv'
  BY <1>1, <1>2, <1>4, <1>5, CallMayHold
<1> QED
  BY <1>1, <1>2, <1>6 DEF PoolInv

(* A new handle is nobody's yet: no root has been recorded for it.         *)
LEMMA OpenedIsSafe ==
  ASSUME PoolInv, NEW c \in Calls, NEW h \in Handles, Opened(c, h)
  PROVE  PoolInv'
<1>1. h \in Int /\ h \notin 1 .. h - 1
  BY PoolConstants DEF Handles
<1>2. handles[h].root \notin Roots
  BY <1>1, PoolConstants DEF Opened
<1> DEFINE q == [query[c] EXCEPT !.pc = "watching", !.handle = h]
<1>3. /\ query[c] \in QueryRecord /\ query[c].root \in Roots
      /\ query' = [query EXCEPT ![c] = q]
  BY DEF Opened, PoolInv, CallInv, CallTypes
<1>31. /\ q \in QueryRecord
       /\ q.pc = "watching" /\ q.handle = h /\ q.root = query[c].root
  BY <1>3 DEF QueryRecord
<1> HIDE DEF q
<1>32. /\ query' \in [Calls -> QueryRecord]
       /\ \A d \in Calls : query'[d] = IF d = c THEN q ELSE query[d]
  BY <1>3, <1>31 DEF PoolInv, CallInv, CallTypes
<1>4. /\ pool' = pool /\ handles' \in [Handles -> [root : Roots \cup {NoRoot}, open : BOOLEAN]]
      /\ \A g \in Handles : handles'[g] = IF g = h THEN [root |-> query[c].root, open |-> TRUE]
                                          ELSE handles[g]
  BY <1>3 DEF Opened, PoolInv
<1>5. \A i \in 1 .. Len(pool) : pool[i].handle \in Handles /\ pool[i].root \in Roots
  BY EntryIsOpen
<1>6. h \notin PooledHandles
  BY <1>2, EntryIsOpen DEF PooledHandles
<1>7. Pool(pool)'
  <2>1. \A i \in 1 .. Len(pool) : handles'[pool[i].handle] = handles[pool[i].handle]
    BY <1>4, <1>5, <1>6 DEF PooledHandles
  <2> QED
    BY <1>4, <2>1 DEF PoolInv, Pool, AllOpen
<1>8. CallTypes'
  BY <1>3, <1>31, <1>32 DEF PoolInv, CallInv, CallTypes
<1>9. WatchedIsOwn'
  <2>1. \A d \in Calls : query[d].pc = "watching" => /\ query[d].root \in Roots
                                                     /\ query[d].handle # h
    <3>1. ASSUME NEW d \in Calls, query[d].pc = "watching"
          PROVE  query[d].root \in Roots /\ query[d].handle # h
      <4>1. query[d].root \in Roots
        BY <3>1 DEF PoolInv, CallInv, CallTypes
      <4>2. handles[query[d].handle] = [root |-> query[d].root, open |-> TRUE]
        BY <3>1 DEF PoolInv, CallInv, WatchedIsOwn
      <4>3. handles[query[d].handle].root = query[d].root
        BY <4>2
      <4> QED
        BY <1>2, <4>1, <4>3
    <3> QED
      BY <3>1
  <2>2. ASSUME NEW d \in Calls, query'[d].pc = "watching"
        PROVE  /\ query'[d].handle \in Handles \ PooledHandles'
               /\ handles'[query'[d].handle] = [root |-> query'[d].root, open |-> TRUE]
               /\ query'[d].handle = h <=> d = c
    <3>1. CASE d = c
      <4>1. query'[d] = q /\ handles'[h] = [root |-> query[c].root, open |-> TRUE]
        BY <1>32, <1>4, <3>1
      <4> QED
        BY <1>31, <1>4, <1>6, <3>1, <4>1 DEF PooledHandles
    <3>2. CASE d # c
      <4>1. query'[d] = query[d] /\ query[d].pc = "watching"
        BY <1>32, <2>2, <3>2
      <4>2. /\ query[d].handle \in Handles \ PooledHandles
            /\ handles[query[d].handle] = [root |-> query[d].root, open |-> TRUE]
        BY <4>1 DEF PoolInv, CallInv, WatchedIsOwn
      <4>3. query[d].handle # h
        BY <2>1, <4>1
      <4>4. handles'[query[d].handle] = handles[query[d].handle]
        BY <1>4, <4>2, <4>3
      <4> QED
        BY <1>4, <3>2, <4>1, <4>2, <4>3, <4>4 DEF PooledHandles
    <3> QED
      BY <3>1, <3>2
  <2>3. ASSUME NEW d \in Calls, NEW e \in Calls, d # c, e # c,
               query'[d].pc = "watching", query'[e].pc = "watching",
               query'[d].handle = query'[e].handle
        PROVE  d = e
    <3>1. query'[d] = query[d] /\ query'[e] = query[e]
      BY <1>32, <2>3
    <3> QED
      BY <2>3, <3>1 DEF PoolInv, CallInv, WatchedIsOwn
  <2> QED
    BY <2>2, <2>3 DEF WatchedIsOwn
<1>10. HeldHandles'
  <2>1. \A d \in Calls : query[d].handle # NoHandle => query[d].handle # h
    BY <1>2 DEF PoolInv, CallInv, HeldHandles
  <2> QED
    BY <1>3, <1>31, <1>32, <1>4, <2>1 DEF PoolInv, CallInv, HeldHandles
<1> QED
  BY <1>4, <1>7, <1>8, <1>9, <1>10 DEF PoolInv, CallInv

(* What is left after making room: entries of the pool, one of them gone   *)
(* and evicted only when the pool was full.                                *)
LEMMA RoomIsMade ==
  ASSUME PoolInv
  PROVE  /\ Kept \in Seq(PoolEntry) /\ Len(Kept) + 1 <= MaxOpen /\ OnePerRoot(Kept)
         /\ Evicted \subseteq PooledHandles
         /\ \A j \in 1 .. Len(Kept) : /\ \E k \in 1 .. Len(pool) : Kept[j] = pool[k]
                                      /\ Kept[j].handle \notin Evicted
         /\ \A j, k \in 1 .. Len(Kept) : j < k =>
              \E m, n \in 1 .. Len(pool) : m < n /\ Kept[j] = pool[m] /\ Kept[k] = pool[n]
         /\ \A h \in Evicted : Len(pool) = MaxOpen /\ h = pool[1].handle
<1>1. CASE Len(pool) < MaxOpen
  <2>1. Kept = pool /\ Evicted = {}
    BY <1>1 DEF Kept, Evicted, PoolInv, Pool
  <2> QED
    BY <1>1, <2>1, PoolConstants DEF PoolInv, Pool
<1>2. CASE Len(pool) >= MaxOpen
  <2>1. pool \in Seq(PoolEntry) /\ pool # <<>> /\ Len(pool) = MaxOpen /\ MaxOpen >= 1
    BY <1>2, PoolConstants DEF PoolInv, Pool
  <2>2. Kept = Tail(pool)
    BY <2>1 DEF Kept
  <2>3. /\ Kept \in Seq(PoolEntry) /\ Len(Kept) = Len(pool) - 1
        /\ \A j \in 1 .. Len(Kept) : Kept[j] = pool[j + 1]
    BY <2>1, <2>2, HeadTailProperties
  <2>4. Evicted = {pool[1].handle}
    BY <2>1, <2>3 DEF Evicted
  <2>5. \A j \in 1 .. Len(Kept) : j + 1 \in 1 .. Len(pool) /\ j + 1 # 1
    BY <2>1, <2>3
  <2>6. ASSUME NEW j \in 1 .. Len(Kept)
        PROVE  Kept[j].handle # pool[1].handle
    <3>1. pool[j + 1].root # pool[1].root
      BY <2>1, <2>5 DEF PoolInv, Pool, OnePerRoot
    <3>2. \A k \in 1 .. Len(pool) : handles[pool[k].handle].root = pool[k].root
      BY EntryIsOpen
    <3>3. 1 \in 1 .. Len(pool) /\ j + 1 \in 1 .. Len(pool)
      BY <2>1, <2>5
    <3> QED
      BY <2>3, <3>1, <3>2, <3>3
  <2>7. OnePerRoot(Kept)
    BY <2>1, <2>3, <2>5 DEF PoolInv, Pool, OnePerRoot
  <2> QED
    BY <2>1, <2>3, <2>4, <2>5, <2>6, <2>7 DEF PooledHandles
<1> QED
  BY <1>1, <1>2, PoolConstants DEF PoolInv, Pool

(* An entry that may be added to the pool, and what it becomes then.       *)
LEMMA RememberKeepsThePool ==
  ASSUME PoolInv, NEW e \in PoolEntry, e.handle \notin PooledHandles,
         handles[e.handle] = [root |-> e.root, open |-> TRUE],
         pool' = Remembered(e), handles' = Closing(Evicted)
  PROVE  /\ Pool(pool)'
         /\ PooledHandles' \subseteq PooledHandles \cup {e.handle}
<1>1. /\ Kept \in Seq(PoolEntry) /\ Len(Kept) + 1 <= MaxOpen /\ OnePerRoot(Kept)
      /\ Evicted \subseteq PooledHandles
      /\ \A j \in 1 .. Len(Kept) : /\ \E k \in 1 .. Len(pool) : Kept[j] = pool[k]
                                   /\ Kept[j].handle \notin Evicted
  BY RoomIsMade
<1>2. DOMAIN Kept = 1 .. Len(Kept) /\ Len(Kept) \in Nat
  BY <1>1
<1> DEFINE In(x) == x = e \/ \E j \in 1 .. Len(Kept) : x = Kept[j]
<1>3. /\ pool' \in Seq(PoolEntry) /\ Len(pool') <= MaxOpen /\ OnePerRoot(pool')
      /\ \A j \in 1 .. Len(pool') : In(pool'[j])
  <2>1. CASE \E i \in DOMAIN Kept : Kept[i].root = e.root
    <3>1. pool' = [i \in 1 .. Len(Kept) |-> IF Kept[i].root = e.root THEN e ELSE Kept[i]]
      BY <1>2, <2>1, Zenon DEF Remembered, KeepsPlace
    <3>2. pool' \in Seq(PoolEntry) /\ Len(pool') = Len(Kept)
      BY <1>1, <1>2, <3>1
    <3>3. \A i \in 1 .. Len(Kept) : In(pool'[i]) /\ pool'[i].root = Kept[i].root
      BY <3>1
    <3> HIDE DEF In
    <3>4. OnePerRoot(pool')
      BY <1>1, <3>2, <3>3 DEF OnePerRoot
    <3>5. Len(pool') <= MaxOpen
      <4>1. MaxOpen \in Nat
        BY PoolConstants
      <4> QED
        BY <1>1, <1>2, <3>2, <4>1
    <3>6. \A j \in 1 .. Len(pool') : In(pool'[j])
      BY <3>2, <3>3
    <3> QED
      BY <3>2, <3>4, <3>5, <3>6, Zenon
  <2>2. CASE ~ \E i \in DOMAIN Kept : Kept[i].root = e.root
    <3>1. pool' = Append(Kept, e)
      BY <2>2 DEF Remembered, KeepsPlace
    <3>2. /\ pool' \in Seq(PoolEntry) /\ Len(pool') = Len(Kept) + 1
          /\ \A i \in 1 .. Len(Kept) : pool'[i] = Kept[i]
          /\ pool'[Len(Kept) + 1] = e
      BY <1>1, <3>1, AppendProperties
    <3>3. \A i \in 1 .. Len(pool') : i \in 1 .. Len(Kept) \/ i = Len(Kept) + 1
      BY <1>2, <3>2
    <3>4. \A i \in 1 .. Len(Kept) : pool'[i].root # pool'[Len(Kept) + 1].root
      BY <1>2, <2>2, <3>2
    <3>5. ASSUME NEW i \in 1 .. Len(pool'), NEW k \in 1 .. Len(pool'),
                 pool'[i].root = pool'[k].root
          PROVE  i = k
      <4>1. i \notin 1 .. Len(Kept) => i = Len(Kept) + 1
        BY <3>3
      <4>2. k \notin 1 .. Len(Kept) => k = Len(Kept) + 1
        BY <3>3
      <4>3. CASE i \in 1 .. Len(Kept) /\ k \in 1 .. Len(Kept)
        BY <1>1, <3>2, <3>5, <4>3, Zenon DEF OnePerRoot
      <4>4. CASE ~(i \in 1 .. Len(Kept) /\ k \in 1 .. Len(Kept))
        BY <3>4, <3>5, <4>1, <4>2, <4>4, Zenon
      <4> QED
        BY <4>3, <4>4
    <3>6. Len(pool') <= MaxOpen
      BY <1>1, <3>2
    <3>7. \A j \in 1 .. Len(pool') : In(pool'[j])
      BY <3>2, <3>3
    <3>8. OnePerRoot(pool')
      BY <3>5, Zenon DEF OnePerRoot
    <3> QED
      BY <3>2, <3>6, <3>7, <3>8, Zenon
  <2> QED
    BY <2>1, <2>2
<1>4. \A g \in Handles \ Evicted : handles'[g] = handles[g]
  BY DEF Closing
<1>5. ASSUME NEW j \in 1 .. Len(pool')
      PROVE  /\ pool'[j].handle \in PooledHandles \cup {e.handle}
             /\ handles'[pool'[j].handle] = [root |-> pool'[j].root, open |-> TRUE]
  <2>1. CASE pool'[j] = e
    <3>1. e.handle \in Handles \ Evicted
      BY <1>1 DEF PoolEntry
    <3> QED
      BY <1>4, <2>1, <3>1
  <2>2. CASE \E k \in 1 .. Len(Kept) : pool'[j] = Kept[k]
    <3>1. PICK k \in 1 .. Len(Kept) : pool'[j] = Kept[k]
      BY <2>2
    <3>2. PICK i \in 1 .. Len(pool) : Kept[k] = pool[i]
      BY <1>1
    <3>3. /\ pool'[j] = pool[i] /\ pool[i].handle \in (Handles \cap PooledHandles) \ Evicted
          /\ handles[pool[i].handle] = [root |-> pool[i].root, open |-> TRUE]
      BY <1>1, <3>1, <3>2, EntryIsOpen
    <3> QED
      BY <1>4, <3>3
  <2> QED
    BY <1>3, <2>1, <2>2
<1> QED
  BY <1>3, <1>5 DEF Pool, AllOpen, PooledHandles

(* What a call waited for enters the pool, and the oldest entry leaves it. *)
LEMMA RememberIsSafe ==
  ASSUME PoolInv, NEW c \in Calls, Remember(c)
  PROVE  PoolInv'
<1> DEFINE e == [root |-> query[c].root, handle |-> query[c].handle]
           q == IF query[c].kind = "explore" THEN [query[c] EXCEPT !.pc = "querying"]
                ELSE IdleQuery
<1>1. /\ query[c].pc = "watching" /\ pool' = Remembered(e) /\ handles' = Closing(Evicted)
      /\ query' = [query EXCEPT ![c] = q]
  BY DEF Remember
<1>2. /\ query[c] \in QueryRecord /\ query[c].root \in Roots
      /\ query[c].handle \in Handles \ PooledHandles
      /\ handles[query[c].handle] = [root |-> query[c].root, open |-> TRUE]
  BY <1>1 DEF PoolInv, CallInv, CallTypes, WatchedIsOwn
<1>3. /\ e \in PoolEntry /\ e.handle \notin PooledHandles
      /\ handles[e.handle] = [root |-> e.root, open |-> TRUE]
  BY <1>2 DEF PoolEntry
<1>4. Pool(pool)' /\ PooledHandles' \subseteq PooledHandles \cup {query[c].handle}
  BY <1>1, <1>3, RememberKeepsThePool
<1>5. /\ handles' \in [Handles -> [root : Roots \cup {NoRoot}, open : BOOLEAN]]
      /\ \A g \in Handles : handles'[g].root = handles[g].root
      /\ \A g \in Handles \ PooledHandles : handles'[g] = handles[g]
  <2>1. handles \in [Handles -> [root : Roots \cup {NoRoot}, open : BOOLEAN]]
    BY DEF PoolInv
  <2>2. Evicted \subseteq PooledHandles
    BY RoomIsMade, Zenon
  <2>3. handles' = [g \in Handles |-> IF g \in Evicted THEN [handles[g] EXCEPT !.open = FALSE]
                                                     ELSE handles[g]]
    BY <1>1, Zenon DEF Closing
  <2> QED
    BY <2>1, <2>2, <2>3
<1>6. /\ q \in QueryRecord /\ q.pc # "watching"
      /\ q.pc # "idle" => q.root \in Roots
      /\ q.handle # NoHandle => q.handle = query[c].handle /\ q.root = query[c].root
  BY <1>2 DEF QueryRecord, IdleQuery
<1> HIDE DEF q
<1>7. /\ query' \in [Calls -> QueryRecord]
      /\ \A d \in Calls : query'[d] = IF d = c THEN q ELSE query[d]
  BY <1>1, <1>6 DEF PoolInv, CallInv, CallTypes
<1>8. CallTypes'
  BY <1>6, <1>7 DEF PoolInv, CallInv, CallTypes
<1>9. WatchedIsOwn'
  <2>1. SUFFICES ASSUME NEW d \in Calls, query'[d].pc = "watching"
                 PROVE  /\ query'[d].handle \in Handles \ PooledHandles'
                        /\ handles'[query'[d].handle] = [root |-> query'[d].root, open |-> TRUE]
                        /\ \A b \in Calls : query'[b].pc = "watching" /\
                             query'[b].handle = query'[d].handle => b = d
    BY DEF WatchedIsOwn
  <2>2. d # c /\ query'[d] = query[d]
    BY <1>6, <1>7, <2>1
  <2>3. /\ query[d].handle \in Handles \ PooledHandles
        /\ handles[query[d].handle] = [root |-> query[d].root, open |-> TRUE]
        /\ query[d].handle # query[c].handle
    BY <1>1, <2>1, <2>2 DEF PoolInv, CallInv, WatchedIsOwn
  <2>4. \A b \in Calls : query'[b].pc = "watching" /\ query'[b].handle = query'[d].handle
                         => b = d
    BY <1>6, <1>7, <2>1, <2>2 DEF PoolInv, CallInv, WatchedIsOwn
  <2> QED
    BY <1>4, <1>5, <2>2, <2>3, <2>4
<1>10. HeldHandles'
  <2>1. \A d \in Calls : query'[d].handle # NoHandle =>
          \E b \in Calls : query'[d].handle = query[b].handle /\ query'[d].root = query[b].root
                           /\ query[b].handle # NoHandle
    BY <1>6, <1>7
  <2> QED
    BY <1>5, <2>1 DEF PoolInv, CallInv, HeldHandles
<1> QED
  BY <1>4, <1>5, <1>8, <1>9, <1>10 DEF PoolInv, CallInv

(* Closing the pool closes no handle of a call that is not yet in it.      *)
LEMMA CloseIsSafe ==
  ASSUME PoolInv, Close
  PROVE  PoolInv'
<1>1. DOMAIN pool = 1 .. Len(pool)
  BY DEF PoolInv, Pool
<1>2. pool' = <<>> /\ handles' = Closing(PooledHandles) /\ query' = query
  BY <1>1 DEF Close, PooledHandles
<1>3. /\ handles' \in [Handles -> [root : Roots \cup {NoRoot}, open : BOOLEAN]]
      /\ \A g \in Handles : handles'[g].root = handles[g].root
      /\ \A g \in Handles \ PooledHandles : handles'[g] = handles[g]
  BY <1>2 DEF PoolInv, Closing
<1>4. Pool(pool)' /\ PooledHandles' = {}
  BY <1>2, PoolConstants DEF Pool, OnePerRoot, AllOpen, PooledHandles
<1>5. CallTypes' /\ HeldHandles'
  BY <1>2, <1>3 DEF PoolInv, CallInv, CallTypes, HeldHandles
<1>6. WatchedIsOwn'
  BY <1>2, <1>3, <1>4 DEF PoolInv, CallInv, WatchedIsOwn
<1> QED
  BY <1>3, <1>4, <1>5, <1>6 DEF PoolInv, CallInv

(* Each step of a call, and closing, keeps the invariant.                  *)
LEMMA PoolStepIsSafe == PoolInv /\ [PoolNext]_poolVars => PoolInv'
<1> SUFFICES ASSUME PoolInv, [PoolNext]_poolVars PROVE PoolInv'
  OBVIOUS
<1>1. CASE Close
  BY <1>1, CloseIsSafe
<1>2. ASSUME NEW root \in Roots, Status(root)
      PROVE  PoolInv'
  <2>1. root \in Pooled /\ pool' = Touched(root) /\ handles' = handles /\ query' = query
    BY <1>2 DEF Status
  <2>2. Pool(pool)' /\ PooledHandles' \subseteq PooledHandles
    BY <2>1, TouchKeepsThePool
  <2>3. CallTypes' /\ HeldHandles' /\ WatchedIsOwn'
    BY <2>1, <2>2 DEF PoolInv, CallInv, CallTypes, HeldHandles, WatchedIsOwn
  <2> QED
    BY <2>1, <2>2, <2>3 DEF PoolInv, CallInv
<1>3. ASSUME NEW c \in Calls, Progress(c)
      PROVE  PoolInv'
  <2>1. CASE OpenFails(c) \/ Answer(c)
    <3>1. /\ pool' = pool /\ handles' = handles /\ PooledHandles' = PooledHandles
          /\ query' = [query EXCEPT ![c] = IdleQuery]
      BY <2>1 DEF OpenFails, Answer, PooledHandles
    <3>2. CallInv'
      BY <3>1, IdleIsQuery, CallMayHold
    <3> QED
      BY <3>1, <3>2 DEF PoolInv, Pool, AllOpen
  <2> QED
    BY <1>3, <2>1, OpenedIsSafe, RememberIsSafe DEF Progress
<1>4. CASE UNCHANGED poolVars
  BY <1>4 DEF poolVars, PoolInv, Pool, AllOpen, CallInv, CallTypes, WatchedIsOwn,
              HeldHandles, PooledHandles
<1> QED
  BY <1>1, <1>2, <1>3, <1>4, StartIsSafe, StartPooledIsSafe DEF PoolNext

(* The pool never grows too long, never lists a project twice, and hands   *)
(* out open handles of the right project (local-brain's provider.ts),      *)
(* whatever explore(), initialize(), status() and close() do meanwhile.    *)
THEOREM PoolHandsOutOpenHandles == PoolSpec => []PoolSound
<1>1. PoolInit => PoolInv
  <2>1. PoolInit => CallInv
    BY IdleIsQuery DEF PoolInit, CallInv, CallTypes, WatchedIsOwn, HeldHandles
  <2> QED
    BY <2>1, PoolConstants DEF PoolInit, PoolInv, Pool, OnePerRoot, AllOpen
<1>2. PoolInv => PoolSound
  <2>1. PoolInv => DOMAIN pool = 1 .. Len(pool)
    BY DEF PoolInv, Pool
  <2> QED
    BY <2>1 DEF PoolInv, Pool, OnePerRoot, AllOpen, CallInv, HeldHandles, PoolSound, PoolEntry
<1> QED
  BY <1>1, <1>2, PoolStepIsSafe, PTL DEF PoolSpec

-----------------------------------------------------------------------------
(* Who is evicted.                                                         *)

(* The handle of a call that waits for its answer is of its project, and   *)
(* no other call is about to pool it.                                      *)
QueriedHandles ==
  \A c \in Calls : query[c].pc = "querying" =>
    /\ query[c].handle \in Handles /\ handles[query[c].handle].root = query[c].root
    /\ \A d \in Calls : query[d].pc = "watching" => query[d].handle # query[c].handle

(* What is nearer to the end of the pool than the handle of a call was     *)
(* used since.                                                             *)
UsedSince(c) ==
  \A i, j \in 1 .. Len(pool) :
    i < j /\ pool[i].handle = query[c].handle => pool[j].root \in since[c]

SinceInv ==
  /\ since \in [Calls -> SUBSET Roots]
  /\ QueriedHandles
  /\ \A c \in Calls : query[c].pc = "querying" => UsedSince(c)

(* The pool after a use of one of its projects.                            *)
LEMMA TouchMovesToTheEnd ==
  ASSUME PoolInv, NEW root \in Pooled, pool' = Touched(root)
  PROVE  /\ Len(pool') = Len(pool) /\ OnePerRoot(pool')
         /\ \A j \in 1 .. Len(pool) : \E k \in 1 .. Len(pool) : pool'[j] = pool[k]
         /\ pool'[Len(pool)].root = root
         /\ \A j, k \in 1 .. Len(pool) : j < k /\ k # Len(pool) =>
              \E m, n \in 1 .. Len(pool) : m < n /\ pool'[j] = pool[m] /\ pool'[k] = pool[n]
<1> DEFINE Moved(t) ==
      /\ Len(t) = Len(pool) /\ OnePerRoot(t)
      /\ \A j \in 1 .. Len(pool) : \E k \in 1 .. Len(pool) : t[j] = pool[k]
      /\ t[Len(pool)].root = root
      /\ \A j, k \in 1 .. Len(pool) : j < k /\ k # Len(pool) =>
           \E m, n \in 1 .. Len(pool) : m < n /\ t[j] = pool[m] /\ t[k] = pool[n]
<1>1. pool \in Seq(PoolEntry) /\ OnePerRoot(pool)
  BY DEF PoolInv, Pool
<1>2. Moved(Touched(root))
  BY <1>1, TouchedIsPermuted, TouchedKeepsOrder, Zenon
<1>3. Moved(pool')
  <2> HIDE DEF Moved
  <2> QED
    BY <1>2, Zenon
<1> QED
  BY <1>3, Zenon

(* A use of a project puts nothing but itself behind the others.           *)
LEMMA TouchKeepsSince ==
  ASSUME PoolInv, SinceInv, NEW root \in Pooled, pool' = Touched(root),
         NEW d \in Calls, query[d].pc = "querying", query'[d] = query[d],
         since[d] \cup ({root} \ {query[d].root}) \subseteq since'[d]
  PROVE  UsedSince(d)'
<1>1. /\ UsedSince(d) /\ handles[query[d].handle].root = query[d].root
      /\ Len(pool) \in Nat
  BY DEF PoolInv, Pool, SinceInv, QueriedHandles
<1>2. /\ Len(pool') = Len(pool) /\ OnePerRoot(pool')
      /\ \A j \in 1 .. Len(pool) : \E k \in 1 .. Len(pool) : pool'[j] = pool[k]
      /\ pool'[Len(pool)].root = root
      /\ \A j, k \in 1 .. Len(pool) : j < k /\ k # Len(pool) =>
           \E m, n \in 1 .. Len(pool) : m < n /\ pool'[j] = pool[m] /\ pool'[k] = pool[n]
  BY TouchMovesToTheEnd
<1>3. SUFFICES ASSUME NEW i \in 1 .. Len(pool), NEW j \in 1 .. Len(pool), i < j,
                      pool'[i].handle = query[d].handle
               PROVE  pool'[j].root \in since'[d]
  BY <1>2 DEF UsedSince
<1>4. CASE j # Len(pool)
  <2>1. PICK m, n \in 1 .. Len(pool) : m < n /\ pool'[i] = pool[m] /\ pool'[j] = pool[n]
    BY <1>2, <1>3, <1>4
  <2>2. pool[n].root \in since[d]
    BY <1>1, <1>3, <2>1 DEF UsedSince
  <2> QED
    BY <2>1, <2>2
<1>5. CASE j = Len(pool) /\ root # query[d].root
  BY <1>2, <1>5
<1>6. ~(j = Len(pool) /\ root = query[d].root)
  <2> SUFFICES ASSUME j = Len(pool), root = query[d].root PROVE FALSE
    OBVIOUS
  <2>1. PICK k \in 1 .. Len(pool) : pool'[i] = pool[k]
    BY <1>2
  <2>2. pool'[i].root = root
    BY <1>1, <1>3, <2>1, EntryIsOpen
  <2>3. i \in 1 .. Len(pool') /\ j \in 1 .. Len(pool') /\ pool'[i].root = pool'[j].root
    BY <1>2, <2>2
  <2>4. i = j
    BY <1>2, <2>3 DEF OnePerRoot
  <2> QED
    BY <1>1, <1>3, <2>4
<1> QED
  BY <1>4, <1>5, <1>6

(* A call for a project of the pool: its handle is the last one.           *)
LEMMA StartPooledKeepsSince ==
  ASSUME PoolInv, SinceInv, NEW c \in Calls, NEW root \in Roots, StartPooled(c, root)
  PROVE  SinceInv'
<1> DEFINE h == pool[HandleOf(root)].handle
           q == [pc |-> "querying", kind |-> "explore", root |-> root, handle |-> h]
<1>1. /\ root \in Pooled /\ pool' = Touched(root) /\ query[c].pc = "idle"
      /\ handles' = handles /\ query' = [query EXCEPT ![c] = q]
      /\ since' = [Uses(root) EXCEPT ![c] = {}]
  BY DEF StartPooled
<1>2. /\ q.pc = "querying" /\ q.root = root /\ q.handle = h
      /\ \A d \in Calls : query'[d] = IF d = c THEN q ELSE query[d]
  BY <1>1 DEF PoolInv, CallInv, CallTypes
<1>3. /\ Len(pool') = Len(pool) /\ OnePerRoot(pool') /\ pool'[Len(pool)].root = root
      /\ \A j \in 1 .. Len(pool) : \E k \in 1 .. Len(pool) : pool'[j] = pool[k]
  BY <1>1, TouchMovesToTheEnd
<1>4. h \in Handles \cap PooledHandles /\ handles[h].root = root
  <2>1. HandleOf(root) \in 1 .. Len(pool) /\ pool[HandleOf(root)].root = root
    BY <1>1, TouchedIsPermuted DEF PoolInv, Pool
  <2> QED
    BY <2>1, EntryIsOpen
<1> HIDE DEF q, h
<1>5. /\ since' \in [Calls -> SUBSET Roots]
      /\ \A d \in Calls : d # c /\ query[d].pc = "querying" =>
           since'[d] = since[d] \cup ({root} \ {query[d].root})
  BY <1>1 DEF SinceInv, Uses
<1>6. QueriedHandles'
  <2>1. \A d \in Calls : query'[d].pc = "watching" => /\ query'[d] = query[d]
                                                      /\ query[d].handle # h
    BY <1>2, <1>4 DEF PoolInv, CallInv, WatchedIsOwn
  <2>2. ASSUME NEW d \in Calls, query'[d].pc = "querying"
        PROVE  /\ query'[d].handle \in Handles /\ handles[query'[d].handle].root = query'[d].root
               /\ \A b \in Calls : query'[b].pc = "watching" => query'[b].handle # query'[d].handle
    <3>1. CASE d = c
      BY <1>2, <1>4, <2>1, <3>1
    <3>2. CASE d # c
      BY <1>2, <2>1, <2>2, <3>2 DEF SinceInv, QueriedHandles
    <3> QED
      BY <3>1, <3>2
  <2> QED
    BY <1>1, <2>2 DEF QueriedHandles
<1>7. UsedSince(c)'
  <2> SUFFICES ASSUME NEW i \in 1 .. Len(pool), NEW j \in 1 .. Len(pool), i < j,
                      pool'[i].handle = h
               PROVE  FALSE
    BY <1>2, <1>3 DEF UsedSince
  <2>1. PICK k \in 1 .. Len(pool) : pool'[i] = pool[k]
    BY <1>3
  <2>2. pool'[i].root = root
    BY <1>4, <2>1, EntryIsOpen
  <2>3. Len(pool) \in Nat
    BY DEF PoolInv, Pool
  <2>4. Len(pool) \in 1 .. Len(pool) /\ i \in 1 .. Len(pool') /\ Len(pool) \in 1 .. Len(pool')
    BY <1>3, <2>3
  <2>5. i = Len(pool)
    BY <1>3, <2>2, <2>4 DEF OnePerRoot
  <2> QED
    BY <2>3, <2>5
<1>8. \A d \in Calls : d # c /\ query[d].pc = "querying" => UsedSince(d)'
  BY <1>1, <1>2, <1>5, TouchKeepsSince
<1> QED
  BY <1>2, <1>5, <1>6, <1>7, <1>8 DEF SinceInv

(* What is pooled last is behind the others, or stays where it was.        *)
LEMMA RememberKeepsSince ==
  ASSUME PoolInv, SinceInv, NEW c \in Calls, Remember(c)
  PROVE  SinceInv'
<1> DEFINE e == [root |-> query[c].root, handle |-> query[c].handle]
           q == IF query[c].kind = "explore" THEN [query[c] EXCEPT !.pc = "querying"]
                ELSE IdleQuery
<1>1. /\ query[c].pc = "watching" /\ pool' = Remembered(e) /\ handles' = Closing(Evicted)
      /\ query' = [query EXCEPT ![c] = q]
      /\ since' = [Uses(e.root) EXCEPT ![c] = IF KeepsPlace(e.root) THEN Roots ELSE {}]
  BY DEF Remember
<1>2. /\ query[c] \in QueryRecord /\ query[c].root \in Roots
      /\ query[c].handle \in Handles \ PooledHandles
      /\ handles[query[c].handle] = [root |-> query[c].root, open |-> TRUE]
      /\ handles[query[c].handle].root = query[c].root
  <2>1. /\ query[c] \in QueryRecord /\ query[c].root \in Roots
        /\ query[c].handle \in Handles \ PooledHandles
        /\ handles[query[c].handle] = [root |-> query[c].root, open |-> TRUE]
    BY <1>1 DEF PoolInv, CallInv, CallTypes, WatchedIsOwn
  <2> QED
    BY <2>1
<1>3. /\ e.root = query[c].root /\ e.handle = query[c].handle
      /\ q.pc \in {"querying", "idle"}
      /\ q.pc = "querying" => q.root = e.root /\ q.handle = e.handle
  BY <1>2 DEF QueryRecord, IdleQuery
<1> HIDE DEF q, e
<1>4. \A d \in Calls : query'[d] = IF d = c THEN q ELSE query[d]
  BY <1>1 DEF PoolInv, CallInv, CallTypes
<1>5. /\ since' \in [Calls -> SUBSET Roots]
      /\ since'[c] = IF KeepsPlace(e.root) THEN Roots ELSE {}
      /\ \A d \in Calls : d # c /\ query[d].pc = "querying" =>
           since'[d] = since[d] \cup ({e.root} \ {query[d].root})
  BY <1>1, <1>2, <1>3 DEF SinceInv, Uses
<1>6. QueriedHandles'
  <2>1. \A g \in Handles : handles'[g].root = handles[g].root
    BY <1>1 DEF Closing, PoolInv
  <2>2. \A d \in Calls : query[d].pc = "watching" /\ d # c => query[d].handle # e.handle
    BY <1>1, <1>3 DEF PoolInv, CallInv, WatchedIsOwn
  <2> QED
    BY <1>2, <1>3, <1>4, <2>1, <2>2 DEF SinceInv, QueriedHandles
<1>7. /\ Kept \in Seq(PoolEntry) /\ DOMAIN Kept = 1 .. Len(Kept) /\ Len(Kept) \in Nat
      /\ \A j \in 1 .. Len(Kept) : \E k \in 1 .. Len(pool) : Kept[j] = pool[k]
      /\ \A j, k \in 1 .. Len(Kept) : j < k =>
           \E m, n \in 1 .. Len(pool) : m < n /\ Kept[j] = pool[m] /\ Kept[k] = pool[n]
  <2>1. /\ Kept \in Seq(PoolEntry)
        /\ \A j \in 1 .. Len(Kept) : \E k \in 1 .. Len(pool) : Kept[j] = pool[k]
        /\ \A j, k \in 1 .. Len(Kept) : j < k =>
             \E m, n \in 1 .. Len(pool) : m < n /\ Kept[j] = pool[m] /\ Kept[k] = pool[n]
    BY RoomIsMade, Zenon
  <2>2. DOMAIN Kept = 1 .. Len(Kept) /\ Len(Kept) \in Nat
    BY <2>1
  <2> QED
    BY <2>1, <2>2
<1>8. \A j \in 1 .. Len(Kept) : /\ Kept[j].root \in Roots /\ Kept[j].handle # e.handle
                                /\ handles[Kept[j].handle].root = Kept[j].root
  <2> SUFFICES ASSUME NEW j \in 1 .. Len(Kept)
               PROVE  /\ Kept[j].root \in Roots /\ Kept[j].handle # e.handle
                      /\ handles[Kept[j].handle].root = Kept[j].root
    OBVIOUS
  <2>1. PICK k \in 1 .. Len(pool) : Kept[j] = pool[k]
    BY <1>7
  <2> QED
    BY <1>2, <1>3, <2>1, EntryIsOpen
<1>9. ASSUME NEW d \in Calls, d # c, query'[d].pc = "querying"
      PROVE  /\ query'[d].handle # e.handle
             /\ \A j, k \in 1 .. Len(Kept) :
                  j < k /\ Kept[j].handle = query'[d].handle => Kept[k].root \in since'[d]
  <2>1. query'[d] = query[d] /\ query[d].pc = "querying" /\ since[d] \subseteq since'[d]
    BY <1>4, <1>5, <1>9
  <2>2. query[d].handle # e.handle /\ UsedSince(d)
    BY <1>1, <1>3, <2>1 DEF SinceInv, QueriedHandles
  <2>3. ASSUME NEW j \in 1 .. Len(Kept), NEW k \in 1 .. Len(Kept), j < k,
               Kept[j].handle = query[d].handle
        PROVE  Kept[k].root \in since[d]
    <3>1. PICK m, n \in 1 .. Len(pool) : m < n /\ Kept[j] = pool[m] /\ Kept[k] = pool[n]
      BY <1>7, <2>3
    <3> QED
      BY <2>2, <2>3, <3>1 DEF UsedSince
  <2> QED
    BY <2>1, <2>2, <2>3
<1>10. ASSUME NEW d \in Calls, query'[d].pc = "querying",
              NEW i \in 1 .. Len(pool'), NEW j \in 1 .. Len(pool'), i < j,
              pool'[i].handle = query'[d].handle
       PROVE  pool'[j].root \in since'[d]
  <2>1. CASE KeepsPlace(e.root)
    <3>1. pool' = [k \in 1 .. Len(Kept) |-> IF Kept[k].root = e.root THEN e ELSE Kept[k]]
      BY <1>1, <1>7, <2>1 DEF Remembered
    <3>2. /\ Len(pool') = Len(Kept)
          /\ \A k \in 1 .. Len(Kept) :
               /\ pool'[k].root = Kept[k].root /\ pool'[k].root \in Roots
               /\ pool'[k] = e \/ pool'[k] = Kept[k]
      BY <1>7, <1>8, <3>1
    <3>3. CASE d = c
      BY <1>5, <1>10, <2>1, <3>2, <3>3
    <3>4. CASE d # c
      BY <1>9, <1>10, <3>2, <3>4
    <3> QED
      BY <3>3, <3>4
  <2>2. CASE ~KeepsPlace(e.root)
    <3>1. pool' = Append(Kept, e)
      BY <1>1, <2>2 DEF Remembered
    <3>2. /\ Len(pool') = Len(Kept) + 1
          /\ \A k \in 1 .. Len(Kept) : pool'[k] = Kept[k] /\ Kept[k].root # e.root
          /\ pool'[Len(Kept) + 1] = e
      <4>1. \A k \in 1 .. Len(Kept) : Kept[k].root # e.root
        BY <1>7, <2>2 DEF KeepsPlace
      <4>2. /\ Len(Append(Kept, e)) = Len(Kept) + 1
            /\ \A k \in 1 .. Len(Kept) : Append(Kept, e)[k] = Kept[k]
            /\ Append(Kept, e)[Len(Kept) + 1] = e
        BY <1>7, SMT
      <4> QED
        BY <3>1, <4>1, <4>2
    <3>3. i \in 1 .. Len(Kept) /\ (j \in 1 .. Len(Kept) \/ j = Len(Kept) + 1)
      <4> DEFINE n == Len(Kept)
      <4>1. i \in 1 .. n + 1 /\ j \in 1 .. n + 1 /\ i < j /\ n \in Nat
        BY <1>7, <1>10, <3>2
      <4> HIDE DEF n
      <4>2. i \in 1 .. n /\ (j \in 1 .. n \/ j = n + 1)
        BY <4>1
      <4> QED
        BY <4>2 DEF n
    <3>4. Kept[i].handle = query'[d].handle
      BY <1>10, <3>2, <3>3
    <3>5. d # c
      BY <1>3, <1>4, <1>8, <1>10, <3>3, <3>4
    <3>6. CASE j \in 1 .. Len(Kept)
      BY <1>9, <1>10, <3>2, <3>3, <3>4, <3>5, <3>6
    <3>7. CASE j = Len(Kept) + 1
      <4>1. query[d].root = Kept[i].root /\ query[d].pc = "querying"
        BY <1>4, <1>8, <1>10, <3>3, <3>4, <3>5 DEF SinceInv, QueriedHandles
      <4> QED
        BY <1>5, <3>2, <3>3, <3>5, <3>7, <4>1
    <3> QED
      BY <3>3, <3>6, <3>7
  <2> QED
    BY <2>1, <2>2
<1>11. \A d \in Calls : query'[d].pc = "querying" => UsedSince(d)'
  BY <1>10 DEF UsedSince
<1> QED
  BY <1>5, <1>6, <1>11 DEF SinceInv

(* Every step keeps it.                                                    *)
LEMMA SinceStepIsSafe == PoolInv /\ SinceInv /\ [PoolNext]_poolVars => SinceInv'
<1> SUFFICES ASSUME PoolInv, SinceInv, [PoolNext]_poolVars PROVE SinceInv'
  OBVIOUS
<1>1. query \in [Calls -> QueryRecord] /\ \A c \in Calls : query[c].pc # "idle" => query[c].root \in Roots
  BY DEF PoolInv, CallInv, CallTypes
<1>2. ASSUME NEW c \in Calls, NEW q, q.pc \notin {"querying", "watching"}, handles' = handles,
             pool' = pool, query' = [query EXCEPT ![c] = q],
             since' = since \/ since' = [since EXCEPT ![c] = {}]
      PROVE  SinceInv'
  <2>1. /\ \A d \in Calls : query'[d] = IF d = c THEN q ELSE query[d]
        /\ \A d \in Calls : d # c => since'[d] = since[d]
        /\ since' \in [Calls -> SUBSET Roots]
    BY <1>1, <1>2 DEF SinceInv
  <2> QED
    BY <1>2, <2>1 DEF SinceInv, QueriedHandles, UsedSince
<1>3. CASE Close
  <2>1. /\ pool' = <<>> /\ query' = query /\ since' = since
        /\ \A h \in Handles : handles'[h].root = handles[h].root
    BY <1>3 DEF Close, Closing, PoolInv
  <2> QED
    BY <2>1 DEF SinceInv, QueriedHandles, UsedSince
<1>4. ASSUME NEW root \in Roots, Status(root)
      PROVE  SinceInv'
  <2>1. /\ root \in Pooled /\ pool' = Touched(root) /\ handles' = handles /\ query' = query
        /\ since' \in [Calls -> SUBSET Roots]
        /\ \A d \in Calls : query[d].pc = "querying" =>
             since'[d] = since[d] \cup ({root} \ {query[d].root})
    BY <1>4 DEF Status, Uses, SinceInv
  <2>2. \A d \in Calls : query[d].pc = "querying" => UsedSince(d)'
    BY <2>1, TouchKeepsSince
  <2> QED
    BY <2>1, <2>2 DEF SinceInv, QueriedHandles
<1>5. ASSUME NEW c \in Calls, NEW root \in Roots, NEW kind \in {"explore", "initialize"},
             Start(c, kind, root)
      PROVE  SinceInv'
  BY <1>2, <1>5 DEF Start
<1>6. ASSUME NEW c \in Calls, OpenFails(c) \/ Answer(c)
      PROVE  SinceInv'
  BY <1>2, <1>6, IdleIsQuery DEF OpenFails, Answer
<1>7. ASSUME NEW c \in Calls, NEW h \in Handles, Opened(c, h)
      PROVE  SinceInv'
  <2> DEFINE q == [query[c] EXCEPT !.pc = "watching", !.handle = h]
  <2>1. h \notin 1 .. h - 1
    BY PoolConstants DEF Handles
  <2>2. handles[h].root \notin Roots
    BY <1>7, <2>1, PoolConstants DEF Opened
  <2>3. /\ q.pc = "watching" /\ q.handle = h
        /\ \A d \in Calls : query'[d] = IF d = c THEN q ELSE query[d]
    BY <1>1, <1>7 DEF Opened, QueryRecord
  <2> HIDE DEF q
  <2>4. /\ pool' = pool /\ since' = since
        /\ \A g \in Handles : g # h => handles'[g] = handles[g]
    BY <1>7 DEF Opened, PoolInv
  <2>5. \A d \in Calls : query[d].pc = "querying" => query[d].handle # h
    BY <1>1, <2>2 DEF SinceInv, QueriedHandles
  <2>6. QueriedHandles'
    BY <2>3, <2>4, <2>5 DEF SinceInv, QueriedHandles
  <2>7. \A d \in Calls : query'[d].pc = "querying" => UsedSince(d)'
    BY <2>3, <2>4 DEF SinceInv, UsedSince
  <2> QED
    BY <2>4, <2>6, <2>7 DEF SinceInv
<1>8. CASE UNCHANGED poolVars
  BY <1>8 DEF poolVars, SinceInv, QueriedHandles, UsedSince
<1> QED
  BY <1>3, <1>4, <1>5, <1>6, <1>7, <1>8, StartPooledKeepsSince, RememberKeepsSince
  DEF PoolNext, Progress

(* Only a call that makes room closes the handle of a call that waits for  *)
(* its answer, and by then all other projects of the pool were used since. *)
LEMMA EvictedIsOldest ==
  ASSUME PoolInv, SinceInv, NEW b \in Calls, Remember(b), NEW c \in Calls,
         query[c].pc = "querying", query[c].handle \in Evicted
  PROVE  \E rs \in SUBSET since[c] : Cardinality(rs) = MaxOpen - 1
<1>1. /\ Len(pool) = MaxOpen /\ pool[1].handle = query[c].handle
      /\ MaxOpen \in Nat \ {0} /\ OnePerRoot(pool)
  BY RoomIsMade, PoolConstants DEF PoolInv, Pool
<1> DEFINE f == [j \in 2 .. MaxOpen |-> pool[j].root]
           rs == {pool[j].root : j \in 2 .. MaxOpen}
<1>2. rs \in SUBSET since[c]
  BY <1>1 DEF SinceInv, UsedSince
<1>3. f \in Bijection(2 .. MaxOpen, rs)
  <2>1. \A i, j \in 2 .. MaxOpen : f[i] = f[j] => i = j
    BY <1>1 DEF OnePerRoot
  <2> QED
    BY <2>1, Fun_IsBij
<1>4. IsFiniteSet(2 .. MaxOpen) /\ Cardinality(2 .. MaxOpen) = MaxOpen - 1
  <2>1. /\ IsFiniteSet(2 .. MaxOpen)
        /\ Cardinality(2 .. MaxOpen) = IF 2 > MaxOpen THEN 0 ELSE MaxOpen - 2 + 1
    BY <1>1, FS_Interval
  <2> QED
    BY <1>1, <2>1
<1> HIDE DEF f, rs
<1>5. ExistsBijection(2 .. MaxOpen, rs)
  BY <1>3, Fun_ExistsBij
<1>6. Cardinality(rs) = MaxOpen - 1
  BY <1>4, <1>5, FS_Bijection
<1> QED
  BY <1>2, <1>6

(* A project is not taken from a call before as many others have been used *)
(* as the pool has room for, unless the brain is closed (#remember and     *)
(* #touch of provider.ts).                                                 *)
THEOREM EvictionTakesTheOldest == PoolSpec => EvictedAfterOthers
<1>1. PoolInit => PoolInv /\ SinceInv
  <2>1. PoolInit => PoolInv
    <3>1. PoolInit => CallInv
      BY IdleIsQuery DEF PoolInit, CallInv, CallTypes, WatchedIsOwn, HeldHandles
    <3> QED
      BY <3>1, PoolConstants DEF PoolInit, PoolInv, Pool, OnePerRoot, AllOpen
  <2>2. PoolInit => SinceInv
    BY IdleIsQuery DEF PoolInit, SinceInv, QueriedHandles
  <2> QED
    BY <2>1, <2>2
<1>2. ASSUME PoolInv, SinceInv, [PoolNext]_poolVars, NEW c \in Calls,
             query[c].pc = "querying", handles[query[c].handle].open,
             ~handles'[query[c].handle].open, ~closed'
      PROVE  \E rs \in SUBSET since[c] : Cardinality(rs) = MaxOpen - 1
  <2>1. query[c].handle \in Handles /\ handles' # handles
    BY <1>2 DEF SinceInv, QueriedHandles
  <2>2. ~Close
    BY <1>2 DEF Close
  <2>3. ASSUME NEW b \in Calls, NEW h \in Handles, Opened(b, h)
        PROVE  FALSE
    <3>1. /\ handles \in [Handles -> [root : Roots \cup {NoRoot}, open : BOOLEAN]]
          /\ handles' = [handles EXCEPT ![h] = [root |-> query[b].root, open |-> TRUE]]
      <4>1. handles' = [handles EXCEPT ![h] = [root |-> query[b].root, open |-> TRUE]]
        BY <2>3, Zenon DEF Opened
      <4> QED
        BY <1>2, <4>1 DEF PoolInv
    <3>2. CASE query[c].handle = h
      <4>1. handles'[h] = [root |-> query[b].root, open |-> TRUE]
        BY <3>1
      <4>2. handles'[h].open = TRUE
        BY <4>1
      <4> QED
        BY <1>2, <3>2, <4>2
    <3>3. CASE query[c].handle # h
      <4>1. handles'[query[c].handle] = handles[query[c].handle]
        BY <2>1, <3>1, <3>3
      <4> QED
        BY <1>2, <4>1
    <3> QED
      BY <3>2, <3>3
  <2>4. PICK b \in Calls : Remember(b)
    BY <1>2, <2>1, <2>2, <2>3 DEF PoolNext, Progress, Status, StartPooled, Start, OpenFails,
       Answer, poolVars
  <2>5. query[c].handle \in Evicted
    <3>1. query[c].handle \notin Evicted => handles'[query[c].handle] = handles[query[c].handle]
      BY <2>1, <2>4 DEF Remember, Closing
    <3> QED
      BY <1>2, <3>1
  <2> QED
    BY <1>2, <2>4, <2>5, EvictedIsOldest
<1>3. PoolInv /\ SinceInv /\ [PoolNext]_poolVars =>
        [\A c \in Calls :
           /\ query[c].pc = "querying" /\ handles[query[c].handle].open
           /\ ~handles'[query[c].handle].open /\ ~closed'
           => \E rs \in SUBSET since[c] : Cardinality(rs) = MaxOpen - 1]_poolVars
  BY <1>2
<1> QED
  BY <1>1, <1>3, PoolStepIsSafe, SinceStepIsSafe, PTL DEF PoolSpec, EvictedAfterOthers

-----------------------------------------------------------------------------
(* The pinned runtime.                                                     *)

(* The theorem is about two processes that install at once, as the run is: *)
(* with a third, the directory that one process has moved aside may come   *)
(* back in the place of a complete one.                                    *)
TwoInstallers == \E i, j \in Installers : Installers = {i, j}

Waiting(i) == step[i] \in {"look", "displace", "rename"}
Beside(i) == step[i] \in {"idle", "dispose"}

RuntimeTypes ==
  /\ versionDir \in MaybeDirectory /\ made \subseteq Directories /\ kills \in Nat
  /\ complete \subseteq Directories
  /\ step \in [Installers -> {"idle", "install", "look", "displace", "rename", "restore",
                              "dispose"}]
  /\ candidate \in [Installers -> MaybeDirectory]
  /\ displaced \in [Installers -> MaybeDirectory]

(* A candidate is complete and nobody else's until it is put in place; a   *)
(* directory moved aside is no candidate and not in place.                 *)
CandidatesArePrivate ==
  /\ versionDir \in made \cup {NoDirectory}
  /\ \A i \in Installers :
       /\ candidate[i] \in made \cup {NoDirectory}
       /\ displaced[i] \in made \cup {NoDirectory}
       /\ step[i] = "dispose" => displaced[i] # NoDirectory
       /\ step[i] \in {"rename", "dispose"} /\ displaced[i] # NoDirectory
            => displaced[i] # versionDir
       /\ Waiting(i) =>
            /\ candidate[i] \in complete /\ candidate[i] # NoDirectory
            /\ candidate[i] # versionDir
            /\ \A j \in Installers :
                 /\ displaced[j] # candidate[i]
                 /\ j # i => candidate[j] # candidate[i]

(* A process that finds the path taken finds it taken by the other one's   *)
(* candidate, and the other has nothing left to do but to clean up.        *)
Refused(i) == (step[i] = "rename" /\ versionDir # NoDirectory) \/ step[i] = "restore"
TakenByTheOther ==
  \A i \in Installers : Refused(i) =>
    versionDir \in complete /\ \A j \in Installers \ {i} : Beside(j)

(* A runtime given to a process is in place or about to be replaced.       *)
RuntimeKept ==
  succeeded => \/ versionDir \in complete
               \/ versionDir = NoDirectory /\ \E i \in Installers : step[i] = "rename"

Undisturbed == CandidatesArePrivate /\ TakenByTheOther /\ RuntimeKept
RuntimeInv == RuntimeTypes /\ (kills = 0 => Undisturbed)

(* The types, step by step.                                                *)
LEMMA RuntimeTypesNext == RuntimeTypes /\ [RuntimeNext]_runtimeVars => RuntimeTypes'
<1> SUFFICES ASSUME RuntimeTypes, [RuntimeNext]_runtimeVars
             PROVE  RuntimeTypes'
  OBVIOUS
<1>1. CASE UNCHANGED runtimeVars
  BY <1>1 DEF runtimeVars, RuntimeTypes
<1>2. ASSUME NEW i \in Installers,
             CheckComplete(i) \/ Install(i) \/ InstallFails(i) \/ LookForVersion(i) \/ Killed(i)
      PROVE  RuntimeTypes'
  BY <1>2 DEF RuntimeTypes, MaybeDirectory, GoTo, CheckComplete, Install, InstallFails,
     LookForVersion, Killed
<1>3. ASSUME NEW i \in Installers,
             Displace(i) \/ RenameCandidate(i) \/ RenameRefused(i) \/ RestoreDisplaced(i)
               \/ Dispose(i)
      PROVE  RuntimeTypes'
  BY <1>3 DEF RuntimeTypes, MaybeDirectory, GoTo, Displace, RenameCandidate, RenameRefused,
     RestoreDisplaced, Dispose
<1> QED
  BY <1>1, <1>2, <1>3 DEF RuntimeNext

(* Of two processes, at most one is in the other's way.                    *)
LEMMA UndisturbedNext ==
  ASSUME TwoInstallers, RuntimeTypes, Undisturbed, RuntimeNext, kills = 0, kills' = 0
  PROVE  Undisturbed'
<1> USE RuntimeConstants DEF RuntimeTypes, MaybeDirectory, GoTo, Waiting, Beside, Refused
<1>1. PICK i \in Installers :
        \/ CheckComplete(i) \/ Install(i) \/ InstallFails(i) \/ LookForVersion(i)
        \/ Displace(i) \/ RenameCandidate(i) \/ RenameRefused(i)
        \/ RestoreDisplaced(i) \/ Dispose(i)
  BY DEF RuntimeNext, Killed
<1>2. /\ CandidatesArePrivate /\ TakenByTheOther /\ RuntimeKept
  BY DEF Undisturbed
<1>3. CASE CheckComplete(i)
  <2>1. CandidatesArePrivate'
    BY <1>2, <1>3 DEF CandidatesArePrivate, CheckComplete
  <2>2. TakenByTheOther'
    BY <1>2, <1>3 DEF TakenByTheOther, CheckComplete
  <2>3. RuntimeKept'
    BY <1>2, <1>3 DEF RuntimeKept, CheckComplete
  <2> QED
    BY <2>1, <2>2, <2>3 DEF Undisturbed
<1>4. CASE Install(i)
  <2>1. CandidatesArePrivate'
    BY <1>2, <1>4 DEF CandidatesArePrivate, Install
  <2>2. TakenByTheOther'
    BY <1>2, <1>4 DEF TakenByTheOther, Install
  <2>3. RuntimeKept'
    BY <1>2, <1>4 DEF RuntimeKept, Install
  <2> QED
    BY <2>1, <2>2, <2>3 DEF Undisturbed
<1>5. CASE InstallFails(i)
  <2>1. CandidatesArePrivate'
    BY <1>2, <1>5 DEF CandidatesArePrivate, InstallFails
  <2>2. TakenByTheOther'
    BY <1>2, <1>5 DEF TakenByTheOther, InstallFails
  <2>3. RuntimeKept'
    BY <1>2, <1>5 DEF RuntimeKept, InstallFails
  <2> QED
    BY <2>1, <2>2, <2>3 DEF Undisturbed
<1>6. CASE LookForVersion(i)
  <2>1. CandidatesArePrivate'
    BY <1>2, <1>6 DEF CandidatesArePrivate, LookForVersion
  <2>2. TakenByTheOther'
    BY <1>2, <1>6 DEF TakenByTheOther, LookForVersion
  <2>3. RuntimeKept'
    BY <1>2, <1>6 DEF RuntimeKept, LookForVersion
  <2> QED
    BY <2>1, <2>2, <2>3 DEF Undisturbed
<1>7. CASE Displace(i)
  <2>1. CandidatesArePrivate'
    BY <1>2, <1>7 DEF CandidatesArePrivate, Displace
  <2>2. TakenByTheOther'
    BY <1>2, <1>7 DEF TakenByTheOther, Displace
  <2>3. RuntimeKept'
    BY <1>2, <1>7 DEF RuntimeKept, Displace
  <2> QED
    BY <2>1, <2>2, <2>3 DEF Undisturbed
<1>8. CASE RenameCandidate(i)
  <2>1. CandidatesArePrivate'
    BY <1>2, <1>8 DEF CandidatesArePrivate, RenameCandidate
  <2>2. TakenByTheOther'
    BY <1>2, <1>8 DEF TakenByTheOther, RenameCandidate, CandidatesArePrivate, TwoInstallers
  <2>3. RuntimeKept'
    BY <1>2, <1>8 DEF RuntimeKept, RenameCandidate, CandidatesArePrivate
  <2> QED
    BY <2>1, <2>2, <2>3 DEF Undisturbed
<1>9. CASE RenameRefused(i)
  <2>1. CandidatesArePrivate'
    BY <1>2, <1>9 DEF CandidatesArePrivate, RenameRefused
  <2>2. TakenByTheOther'
    BY <1>2, <1>9 DEF TakenByTheOther, RenameRefused
  <2>3. RuntimeKept'
    BY <1>2, <1>9 DEF RuntimeKept, RenameRefused
  <2> QED
    BY <2>1, <2>2, <2>3 DEF Undisturbed
<1>10. CASE RestoreDisplaced(i)
  <2>0. versionDir \in complete /\ versionDir # NoDirectory
    BY <1>2, <1>10 DEF TakenByTheOther, RestoreDisplaced
  <2>1. CandidatesArePrivate'
    BY <1>2, <1>10, <2>0 DEF CandidatesArePrivate, RestoreDisplaced
  <2>2. TakenByTheOther'
    BY <1>2, <1>10, <2>0 DEF TakenByTheOther, RestoreDisplaced
  <2>3. RuntimeKept'
    BY <1>2, <1>10, <2>0 DEF RuntimeKept, RestoreDisplaced
  <2> QED
    BY <2>1, <2>2, <2>3 DEF Undisturbed
<1>11. CASE Dispose(i)
  <2>1. CandidatesArePrivate'
    BY <1>2, <1>11 DEF CandidatesArePrivate, Dispose
  <2>2. TakenByTheOther'
    BY <1>2, <1>11 DEF TakenByTheOther, Dispose, CandidatesArePrivate
  <2>3. RuntimeKept'
    BY <1>2, <1>11 DEF RuntimeKept, Dispose, CandidatesArePrivate
  <2> QED
    BY <2>1, <2>2, <2>3 DEF Undisturbed
<1> QED
  BY <1>1, <1>3, <1>4, <1>5, <1>6, <1>7, <1>8, <1>9, <1>10, <1>11

(* No order of two installations loses a complete runtime.                 *)
THEOREM TwoInstallersKeepTheRuntime ==
  TwoInstallers => (RuntimeSpec => []InstalledRuntimeStays)
<1> SUFFICES ASSUME TwoInstallers PROVE RuntimeSpec => []InstalledRuntimeStays
  OBVIOUS
<1>1. RuntimeInit => RuntimeInv
  BY RuntimeConstants DEF RuntimeInit, RuntimeInv, RuntimeTypes, MaybeDirectory, Undisturbed,
     CandidatesArePrivate, TakenByTheOther, RuntimeKept, Waiting, Refused
<1>2. RuntimeInv /\ [RuntimeNext]_runtimeVars => RuntimeInv'
  <2> SUFFICES ASSUME RuntimeInv, [RuntimeNext]_runtimeVars, kills' = 0
               PROVE  Undisturbed'
    BY RuntimeTypesNext DEF RuntimeInv
  <2>1. CASE UNCHANGED runtimeVars
    BY <2>1 DEF runtimeVars, RuntimeInv, Undisturbed, CandidatesArePrivate, TakenByTheOther,
       RuntimeKept, Waiting, Refused, Beside
  <2>2. CASE RuntimeNext
    <3>1. kills = 0
      BY <2>2 DEF RuntimeInv, RuntimeTypes, RuntimeNext, CheckComplete, Install, InstallFails,
         LookForVersion, Displace, RenameCandidate, RenameRefused, RestoreDisplaced, Dispose,
         Killed
    <3> QED
      BY <2>2, <3>1, UndisturbedNext DEF RuntimeInv
  <2> QED
    BY <2>1, <2>2
<1>3. RuntimeInv => InstalledRuntimeStays
  BY DEF RuntimeInv, Undisturbed, RuntimeKept, InstalledRuntimeStays
<1> QED
  BY <1>1, <1>2, <1>3, PTL DEF RuntimeSpec

-----------------------------------------------------------------------------
(* Component memory. A save of a plain document replaces the lines from a  *)
(* up to b by an entry: the lines around them keep their fences, so they   *)
(* keep their headings, their texts and their sections, and so the entries *)
(* around the new one are what they were.                                  *)

Titled == {"h2", "h3"}
Heads == {"h1", "h2", "h3"}

(* A document is a sequence, of whatever lines it has.                     *)
IsDoc(doc) == doc \in Seq(Lines(doc))

(* Every sequence of lines is one.                                         *)
LEMMA DocIs ==
  ASSUME NEW S, NEW doc \in Seq(S)
  PROVE  /\ IsDoc(doc) /\ Len(doc) \in Nat /\ DOMAIN doc = 1 .. Len(doc)
<1>1. Len(doc) \in Nat /\ DOMAIN doc = 1 .. Len(doc)
  BY LenProperties
<1>2. \A k \in 1 .. Len(doc) : doc[k] \in Lines(doc)
  BY <1>1 DEF Lines
<1>3. doc \in [1 .. Len(doc) -> Lines(doc)]
  BY <1>1, <1>2
<1> QED
  BY <1>1, <1>3 DEF IsDoc

(* The first line after i: it is one of the lines, or the end, and none of *)
(* them is before it.                                                      *)
LEMMA FirstAfterIs ==
  ASSUME NEW doc, Len(doc) \in Nat, NEW i \in 0 .. Len(doc), NEW lines
  PROVE  LET j == FirstAfter(doc, i, lines)
         IN  /\ j \in i + 1 .. Len(doc) + 1
             /\ j \in lines \cup {Len(doc) + 1}
             /\ \A k \in i + 1 .. j - 1 : k \notin lines
<1> DEFINE R == {j \in i + 1 .. Len(doc) + 1 : j \in lines \cup {Len(doc) + 1}}
<1>1. R \in SUBSET Nat /\ Len(doc) + 1 \in R
  OBVIOUS
<1>2. PICK j \in R : \A k \in R : j <= k
  BY <1>1, LeastOf
<1>3. \A k \in i + 1 .. j - 1 : k \notin lines
  BY <1>2
<1> QED
  BY <1>2, <1>3 DEF FirstAfter

(* And there is no other such line.                                        *)
LEMMA FirstAfterOnly ==
  ASSUME NEW doc, Len(doc) \in Nat, NEW i \in 0 .. Len(doc), NEW lines,
         NEW j \in i + 1 .. Len(doc) + 1, j \in lines \cup {Len(doc) + 1},
         \A k \in i + 1 .. j - 1 : k \notin lines
  PROVE  FirstAfter(doc, i, lines) = j
<1> DEFINE f == FirstAfter(doc, i, lines)
<1>1. /\ f \in i + 1 .. Len(doc) + 1
      /\ f \in lines \cup {Len(doc) + 1}
      /\ \A k \in i + 1 .. f - 1 : k \notin lines
  BY FirstAfterIs
<1> HIDE DEF f
<1>2. ~(f < j)
  BY <1>1
<1>3. ~(j < f)
  BY <1>1
<1>4. f \in Int /\ j \in Int
  BY <1>1
<1> QED
  BY <1>2, <1>3, <1>4 DEF f

(* Fences are counted line by line.                                        *)
LEMMA FencesAreCounted ==
  ASSUME NEW doc, NEW i \in Nat \ {0}
  PROVE  /\ Fences(doc, i) \in Nat
         /\ Fences(doc, i + 1) =
              IF Kind(doc, i) = "fence" THEN Fences(doc, i) + 1 ELSE Fences(doc, i)
<1> DEFINE F(n) == {j \in 1 .. n - 1 : Kind(doc, j) = "fence"}
<1>1. IsFiniteSet(F(i)) /\ Cardinality(F(i)) \in Nat
  <2>1. IsFiniteSet(1 .. i - 1)
    BY FS_Interval
  <2>2. F(i) \in SUBSET (1 .. i - 1)
    OBVIOUS
  <2>3. IsFiniteSet(F(i))
    BY <2>1, <2>2, FS_Subset
  <2> QED
    BY <2>3, FS_CardinalityType
<1>2. F(i + 1) = IF Kind(doc, i) = "fence" THEN F(i) \cup {i} ELSE F(i)
  OBVIOUS
<1>3. i \notin F(i)
  OBVIOUS
<1>4. Fences(doc, i) = Cardinality(F(i)) /\ Fences(doc, i + 1) = Cardinality(F(i + 1))
  BY DEF Fences
<1> HIDE DEF F
<1>5. Cardinality(F(i) \cup {i}) = Cardinality(F(i)) + 1
  BY <1>1, <1>3, FS_AddElement
<1> QED
  BY <1>1, <1>2, <1>4, <1>5

(* The same lines have the same fences.                                    *)
LEMMA SameFences ==
  ASSUME NEW doc, NEW new, NEW i, \A j \in 1 .. i - 1 : new[j] = doc[j]
  PROVE  Fences(new, i) = Fences(doc, i)
<1>1. {j \in 1 .. i - 1 : Kind(new, j) = "fence"} = {j \in 1 .. i - 1 : Kind(doc, j) = "fence"}
  BY DEF Kind
<1> QED
  BY <1>1 DEF Fences

(* In a plain document headings are what they look like.                   *)
LEMMA PlainHeadings ==
  ASSUME NEW doc, Plain(doc), Len(doc) \in Nat, DOMAIN doc = 1 .. Len(doc)
  PROVE  /\ \A k \in 1 .. Len(doc) : k \in Headings(doc) <=> Kind(doc, k) \in Heads
         /\ Headings(doc) \subseteq 1 .. Len(doc)
         /\ \A k \in 1 .. Len(doc) : Kind(doc, k) \in Heads => Fences(doc, k) % 2 = 0
         /\ Fences(doc, Len(doc) + 1) % 2 = 0
BY DEF Plain, RawLines, Headings, Heads

-----------------------------------------------------------------------------
(* What a save does to the lines: those from a to b - 1, none or an entry  *)
(* with its text, become the two of the new entry, whose text may be       *)
(* anything but a heading or a fence.                                      *)
New(doc, a, b, title, text) == Spliced(doc, a, b, <<<<"h3", title>>, text>>)

(* Around them, every line stays, or moves with those after it.            *)
LEMMA SplicedLines ==
  ASSUME NEW doc, IsDoc(doc), NEW a \in 1 .. Len(doc) + 1, NEW b \in a .. Len(doc) + 1,
         NEW title, NEW text
  PROVE  LET new == New(doc, a, b, title, text)
         IN  /\ IsDoc(new) /\ DOMAIN new = 1 .. Len(new)
             /\ Len(new) = Len(doc) + (a + 2 - b) /\ Len(new) \in Nat
             /\ \A k \in 1 .. a - 1 : new[k] = doc[k]
             /\ new[a] = <<"h3", title>> /\ new[a + 1] = text
             /\ \A k \in b .. Len(doc) : new[k + (a + 2 - b)] = doc[k]
<1> DEFINE S == Lines(doc) \cup {<<"h3", title>>, text}
           n == Len(doc)
           entry == <<<<"h3", title>>, text>>
           front == SubSeq(doc, 1, a - 1)
           back == SubSeq(doc, b, n)
           new == (front \o entry) \o back
<1>1. n \in Nat /\ \A k \in 1 .. n : doc[k] \in S
  BY LenProperties, ElementOfSeq DEF IsDoc
<1>2. /\ entry \in Seq(S) /\ Len(entry) = 2
      /\ entry[1] = <<"h3", title>> /\ entry[2] = text
  OBVIOUS
<1>3. New(doc, a, b, title, text) = new
  BY DEF New, Spliced
<1> HIDE DEF S, n, entry
<1>4. a \in 1 .. n + 1 /\ b \in a .. n + 1
  BY DEF n
<1>5. /\ front \in Seq(S) /\ Len(front) = a - 1
      /\ \A k \in 1 .. a - 1 : front[k] = doc[k]
  <2>1. \A k \in 1 .. a - 1 : doc[k] \in S
    BY <1>1, <1>4
  <2>2. /\ SubSeq(doc, 1, a - 1) \in Seq(S)
        /\ Len(SubSeq(doc, 1, a - 1)) = IF 1 <= a - 1 THEN a - 1 - 1 + 1 ELSE 0
        /\ \A i \in 1 .. (a - 1) - 1 + 1 : SubSeq(doc, 1, a - 1)[i] = doc[1 + i - 1]
    BY <2>1, <1>1, <1>4, SubSeqProperties
  <2> QED
    BY <2>2, <1>1, <1>4
<1>6. /\ back \in Seq(S) /\ Len(back) = n + 1 - b
      /\ \A k \in 1 .. n + 1 - b : back[k] = doc[b + k - 1]
  <2>1. \A k \in b .. n : doc[k] \in S
    BY <1>1, <1>4
  <2>2. /\ SubSeq(doc, b, n) \in Seq(S)
        /\ Len(SubSeq(doc, b, n)) = IF b <= n THEN n - b + 1 ELSE 0
        /\ \A i \in 1 .. n - b + 1 : SubSeq(doc, b, n)[i] = doc[b + i - 1]
    BY <2>1, <1>1, <1>4, SubSeqProperties
  <2> QED
    BY <2>2, <1>1, <1>4
<1> HIDE DEF front, back
<1>7. /\ front \o entry \in Seq(S) /\ Len(front \o entry) = a + 1
      /\ \A k \in 1 .. a + 1 : (front \o entry)[k] = IF k <= a - 1 THEN front[k] ELSE entry[k - (a - 1)]
  <2>1. /\ front \o entry \in Seq(S)
        /\ Len(front \o entry) = Len(front) + Len(entry)
        /\ \A i \in 1 .. Len(front) + Len(entry) : (front \o entry)[i] =
                     IF i <= Len(front) THEN front[i] ELSE entry[i - Len(front)]
    BY <1>2, <1>5, ConcatProperties
  <2>2. Len(front) + Len(entry) = a + 1
    BY <1>2, <1>4, <1>5
  <2> QED
    BY <2>1, <2>2, <1>5
<1>8. /\ new \in Seq(S) /\ Len(new) = a + 1 + (n + 1 - b)
      /\ \A k \in 1 .. a + 1 + (n + 1 - b) : new[k] =
           IF k <= a + 1 THEN (front \o entry)[k] ELSE back[k - (a + 1)]
  <2>1. /\ new \in Seq(S)
        /\ Len(new) = Len(front \o entry) + Len(back)
        /\ \A i \in 1 .. Len(front \o entry) + Len(back) : new[i] =
             IF i <= Len(front \o entry) THEN (front \o entry)[i] ELSE back[i - Len(front \o entry)]
    <3> DEFINE f == front \o entry
    <3>1. f \in Seq(S) /\ back \in Seq(S)
      BY <1>6, <1>7
    <3> HIDE DEF f
    <3>2. /\ f \o back \in Seq(S)
          /\ Len(f \o back) = Len(f) + Len(back)
          /\ \A i \in 1 .. Len(f) + Len(back) : (f \o back)[i] =
               IF i <= Len(f) THEN f[i] ELSE back[i - Len(f)]
      BY <3>1, ConcatProperties
    <3> QED
      BY <3>2 DEF f
  <2>2. Len(front \o entry) = a + 1 /\ Len(back) = n + 1 - b
    BY <1>6, <1>7
  <2> HIDE DEF new
  <2> QED
    BY <2>1, <2>2
<1> HIDE DEF new
<1>9. Len(new) = n + (a + 2 - b) /\ Len(new) \in Nat
  <2>1. n \in Int /\ a \in Int /\ b \in Int /\ b <= n + 1 /\ 1 <= a
    BY <1>1, <1>4
  <2> QED
    BY <2>1, <1>8
<1>10. \A k \in 1 .. a - 1 : new[k] = doc[k]
  BY <1>1, <1>4, <1>5, <1>7, <1>8
<1>11. new[a] = <<"h3", title>> /\ new[a + 1] = text
  <2>1. a \in 1 .. a + 1 /\ a + 1 \in 1 .. a + 1 /\ a - (a - 1) = 1 /\ a + 1 - (a - 1) = 2
        /\ ~(a <= a - 1) /\ ~(a + 1 <= a - 1)
    BY <1>4
  <2>2. (front \o entry)[a] = entry[1]
    <3>1. (front \o entry)[a] = entry[a - (a - 1)]
      BY <1>7, <2>1
    <3> QED
      BY <2>1, <3>1
  <2>3. (front \o entry)[a + 1] = entry[2]
    <3>1. (front \o entry)[a + 1] = entry[a + 1 - (a - 1)]
      BY <1>7, <2>1
    <3> QED
      BY <2>1, <3>1
  <2>4. /\ a \in 1 .. a + 1 + (n + 1 - b) /\ a <= a + 1
        /\ a + 1 \in 1 .. a + 1 + (n + 1 - b) /\ a + 1 <= a + 1
    BY <1>1, <1>4
  <2>5. new[a] = (front \o entry)[a] /\ new[a + 1] = (front \o entry)[a + 1]
    BY <1>8, <2>4
  <2> QED
    BY <2>2, <2>3, <2>5, <1>2
<1>12. ASSUME NEW k \in b .. n
       PROVE  new[k + (a + 2 - b)] = doc[k]
  <2>1. /\ k + (a + 2 - b) \in 1 .. a + 1 + (n + 1 - b) /\ ~(k + (a + 2 - b) <= a + 1)
        /\ k + (a + 2 - b) - (a + 1) = k + 1 - b /\ k + 1 - b \in 1 .. n + 1 - b
        /\ b + (k + 1 - b) - 1 = k
    BY <1>1, <1>4
  <2>2. new[k + (a + 2 - b)] = back[k + 1 - b]
    BY <1>8, <2>1
  <2>3. back[k + 1 - b] = doc[k]
    BY <1>6, <2>1
  <2> QED
    BY <2>2, <2>3
<1>13. IsDoc(new) /\ DOMAIN new = 1 .. Len(new)
  BY <1>8, DocIs
<1> QED
  BY <1>3, <1>9, <1>10, <1>11, <1>12, <1>13 DEF n

(* Lines a to b - 1 can be replaced by an entry of a section: they are     *)
(* none, or a titled entry up to the next title; and the section starts    *)
(* before them.                                                            *)
Entered(doc, a, b, section) ==
  /\ a \in 1 .. Len(doc) + 1 /\ b \in a .. Len(doc) + 1
  /\ b <= Len(doc) => Kind(doc, b) \in Titled
  /\ a < b => Kind(doc, a) = "h3"
  /\ \A k \in a + 1 .. b - 1 : Kind(doc, k) \notin Titled
  /\ \E h \in 1 .. a - 1 : /\ doc[h] = <<"h2", section>>
                           /\ \A k \in h + 1 .. a - 1 : Kind(doc, k) # "h2"

(* The new document is plain as well, as far as headings go.               *)
LEMMA HeadingsStay ==
  ASSUME NEW doc, IsDoc(doc), Plain(doc), NEW a, NEW b, NEW section,
         Entered(doc, a, b, section), NEW title, NEW text, text[1] = "text"
  PROVE  LET new == New(doc, a, b, title, text)
         IN  \A k \in 1 .. Len(new) : k \in Headings(new) <=> Kind(new, k) \in Heads
<1> DEFINE new == New(doc, a, b, title, text)
           n == Len(doc)
           d == a + 2 - b
<1>1. /\ n \in Nat /\ DOMAIN doc = 1 .. n
      /\ a \in 1 .. n + 1 /\ b \in a .. n + 1
  BY DocIs DEF IsDoc, Entered
<1>2. /\ DOMAIN new = 1 .. Len(new) /\ Len(new) = n + d /\ Len(new) \in Nat
      /\ \A k \in 1 .. a - 1 : new[k] = doc[k]
      /\ new[a] = <<"h3", title>> /\ new[a + 1] = text
      /\ \A k \in b .. n : new[k + d] = doc[k]
  BY <1>1, SplicedLines
<1>3. /\ \A k \in 1 .. n : Kind(doc, k) \in Heads => Fences(doc, k) % 2 = 0
      /\ Fences(doc, n + 1) % 2 = 0
  BY <1>1, PlainHeadings
<1> HIDE DEF new, n
<1>4. Kind(new, a) = "h3" /\ Kind(new, a + 1) = "text"
  BY <1>2 DEF Kind
<1>5. \A k \in 1 .. a - 1 : Kind(new, k) = Kind(doc, k) /\ Fences(new, k) = Fences(doc, k)
  <2> SUFFICES ASSUME NEW k \in 1 .. a - 1
               PROVE  Kind(new, k) = Kind(doc, k) /\ Fences(new, k) = Fences(doc, k)
    OBVIOUS
  <2>1. \A j \in 1 .. k - 1 : new[j] = doc[j]
    BY <1>1, <1>2
  <2> QED
    BY <1>2, <2>1, SameFences DEF Kind
<1>6. Fences(new, a) = Fences(doc, a)
  BY <1>2, SameFences
<1>7. Fences(doc, a) % 2 = 0 /\ Fences(doc, b) % 2 = 0
  <2>1. CASE b <= n
    <3>1. b \in 1 .. n /\ Kind(doc, b) \in Heads /\ (a < b => a \in 1 .. n /\ Kind(doc, a) \in Heads)
      BY <1>1, <2>1 DEF Entered, Titled, Heads, n
    <3>2. a < b \/ a = b
      BY <1>1
    <3> QED
      BY <1>3, <3>1, <3>2
  <2>2. CASE b = n + 1
    <3>1. a < b => a \in 1 .. n /\ Kind(doc, a) \in Heads
      BY <1>1, <2>2 DEF Entered, Heads
    <3>2. a < b \/ a = b
      BY <1>1
    <3> QED
      BY <1>3, <2>2, <3>1, <3>2
  <2> QED
    BY <1>1, <2>1, <2>2
<1>8. Fences(new, a + 2) = Fences(new, a)
  <2>1. a \in Nat \ {0} /\ a + 1 \in Nat \ {0} /\ a + 2 = (a + 1) + 1
    BY <1>1
  <2>2. Fences(new, a + 1) = Fences(new, a)
    BY <1>4, <2>1, FencesAreCounted
  <2>3. Fences(new, (a + 1) + 1) = Fences(new, a + 1)
    BY <1>4, <2>1, FencesAreCounted
  <2> QED
    BY <2>1, <2>2, <2>3
<1>9. \A j \in b .. n : Fences(new, j + d) % 2 = Fences(doc, j) % 2
  <2> DEFINE Bad == {j \in b .. n : Fences(new, j + d) % 2 # Fences(doc, j) % 2}
  <2> SUFFICES ASSUME Bad # {} PROVE FALSE
    OBVIOUS
  <2>1. Bad \in SUBSET Nat
    BY <1>1
  <2>2. PICK j \in Bad : \A k \in Bad : j <= k
    BY <2>1, LeastOf
  <2>3. j \in b .. n /\ Fences(new, j + d) % 2 # Fences(doc, j) % 2
    BY <2>2
  <2>4. j # b
    <3>1. b + d = a + 2
      BY <1>1
    <3> QED
      BY <2>3, <3>1, <1>6, <1>7, <1>8
  <2>5. j - 1 \in b .. n /\ j - 1 \notin Bad
    BY <1>1, <2>2, <2>3, <2>4
  <2> DEFINE i == j - 1
  <2>6. Fences(new, i + d) % 2 = Fences(doc, i) % 2
    BY <2>5
  <2>7. i \in Nat \ {0} /\ i + d \in Nat \ {0} /\ j = i + 1 /\ j + d = (i + d) + 1
    BY <1>1, <2>3, <2>5
  <2>8. Kind(new, i + d) = Kind(doc, i)
    BY <1>2, <2>5 DEF Kind
  <2> HIDE DEF i, d, Bad
  <2>9. /\ Fences(doc, i) \in Nat /\ Fences(new, i + d) \in Nat
        /\ Fences(doc, i + 1) = IF Kind(doc, i) = "fence" THEN Fences(doc, i) + 1 ELSE Fences(doc, i)
        /\ Fences(new, (i + d) + 1) =
             IF Kind(new, i + d) = "fence" THEN Fences(new, i + d) + 1 ELSE Fences(new, i + d)
    BY <2>7, FencesAreCounted
  <2>10. \A x, y \in Nat : x % 2 = y % 2 => (x + 1) % 2 = (y + 1) % 2
    OBVIOUS
  <2>11. (Fences(new, i + d) + 1) % 2 = (Fences(doc, i) + 1) % 2
    BY <2>6, <2>9, <2>10
  <2>12. Fences(new, (i + d) + 1) % 2 = Fences(doc, i + 1) % 2
    BY <2>6, <2>8, <2>9, <2>11
  <2> QED
    BY <2>3, <2>7, <2>12
<1>10. ASSUME NEW k \in 1 .. n + d, Kind(new, k) \in Heads
       PROVE  Fences(new, k) % 2 = 0
  <2>1. CASE k <= a - 1
    <3>1. k \in 1 .. a - 1 /\ k \in 1 .. n
      BY <1>1, <2>1
    <3> QED
      BY <1>3, <1>5, <1>10, <3>1
  <2>2. CASE k = a
    BY <1>6, <1>7, <2>2
  <2>3. CASE k = a + 1
    BY <1>4, <1>10, <2>3 DEF Heads
  <2>4. CASE k >= a + 2
    <3>1. k - d \in b .. n /\ (k - d) + d = k /\ k - d \in 1 .. n
      BY <1>1, <2>4
    <3>2. new[k] = doc[k - d] /\ Fences(new, k) % 2 = Fences(doc, k - d) % 2
      BY <1>2, <1>9, <3>1
    <3>3. Kind(doc, k - d) \in Heads
      BY <1>10, <3>2 DEF Kind
    <3> QED
      BY <1>3, <3>1, <3>2, <3>3
  <2> QED
    BY <1>1, <2>1, <2>2, <2>3, <2>4
<1> HIDE DEF d
<1> QED
  BY <1>2, <1>10 DEF Headings, Heads, new

(* What the two documents have to do with each other.                      *)
Replaces(doc, new, a, b, section, title, text) ==
  /\ Len(doc) \in Nat /\ Len(new) \in Nat /\ Len(new) = Len(doc) + (a + 2 - b)
  /\ a \in 1 .. Len(doc) + 1 /\ b \in a .. Len(doc) + 1
  /\ \A k \in 1 .. a - 1 : new[k] = doc[k]
  /\ new[a] = <<"h3", title>> /\ new[a + 1] = text /\ text[1] = "text"
  /\ \A k \in b .. Len(doc) : new[k + (a + 2 - b)] = doc[k]
  /\ Headings(doc) = {k \in 1 .. Len(doc) : Kind(doc, k) \in Heads}
  /\ Headings(new) = {k \in 1 .. Len(new) : Kind(new, k) \in Heads}
  /\ Entered(doc, a, b, section)

(* A plain document, and what a save makes of it.                          *)
LEMMA NewReplaces ==
  ASSUME NEW doc, IsDoc(doc), Plain(doc), NEW a, NEW b, NEW section,
         Entered(doc, a, b, section), NEW title, NEW text, text[1] = "text"
  PROVE  Replaces(doc, New(doc, a, b, title, text), a, b, section, title, text)
<1> DEFINE new == New(doc, a, b, title, text)
<1>1. /\ Len(doc) \in Nat /\ DOMAIN doc = 1 .. Len(doc)
      /\ a \in 1 .. Len(doc) + 1 /\ b \in a .. Len(doc) + 1
  BY DocIs DEF IsDoc, Entered
<1>2. /\ DOMAIN new = 1 .. Len(new) /\ Len(new) = Len(doc) + (a + 2 - b) /\ Len(new) \in Nat
      /\ \A k \in 1 .. a - 1 : new[k] = doc[k]
      /\ new[a] = <<"h3", title>> /\ new[a + 1] = text
      /\ \A k \in b .. Len(doc) : new[k + (a + 2 - b)] = doc[k]
  BY <1>1, SplicedLines
<1>3. \A k \in 1 .. Len(new) : k \in Headings(new) <=> Kind(new, k) \in Heads
  BY HeadingsStay
<1> HIDE DEF new
<1>4. Headings(new) = {k \in 1 .. Len(new) : Kind(new, k) \in Heads}
  <2>1. Headings(new) \subseteq 1 .. Len(new)
    BY <1>2 DEF Headings
  <2> QED
    BY <1>3, <2>1
<1>5. Headings(doc) = {k \in 1 .. Len(doc) : Kind(doc, k) \in Heads}
  <2>1. /\ \A k \in 1 .. Len(doc) : k \in Headings(doc) <=> Kind(doc, k) \in Heads
        /\ Headings(doc) \subseteq 1 .. Len(doc)
    BY <1>1, PlainHeadings
  <2> QED
    BY <2>1
<1>6. Replaces(doc, new, a, b, section, title, text)
  BY <1>1, <1>2, <1>4, <1>5 DEF Replaces
<1> QED
  BY <1>6 DEF new

(* Where a heading of one is in the other.                                 *)
LEMMA HeadingsMove ==
  ASSUME NEW doc, NEW new, NEW a, NEW b, NEW section, NEW title, NEW text,
         Replaces(doc, new, a, b, section, title, text)
  PROVE  /\ a \in Headings(new) /\ new[a] = <<"h3", title>> /\ a + 1 \notin Headings(new)
         /\ \A k \in 1 .. a - 1 : /\ k \in Headings(new) <=> k \in Headings(doc)
                                  /\ new[k] = doc[k]
         /\ \A k \in b .. Len(doc) :
              /\ k + (a + 2 - b) \in Headings(new) <=> k \in Headings(doc)
              /\ new[k + (a + 2 - b)] = doc[k]
         /\ \A k \in Headings(new) : \/ k \in 1 .. a - 1
                                     \/ k = a
                                     \/ /\ k >= a + 2
                                        /\ k - (a + 2 - b) \in b .. Len(doc)
                                        /\ k - (a + 2 - b) \in Headings(doc)
                                        /\ new[k] = doc[k - (a + 2 - b)]
         /\ a = Len(doc) + 1 \/ a \in Headings(doc)
         /\ b = Len(doc) + 1 \/ b \in Headings(doc)
<1> DEFINE n == Len(doc)
           d == a + 2 - b
<1>1. /\ n \in Nat /\ Len(new) \in Nat /\ Len(new) = n + d
      /\ a \in 1 .. n + 1 /\ b \in a .. n + 1
      /\ \A k \in 1 .. a - 1 : new[k] = doc[k]
      /\ new[a] = <<"h3", title>> /\ new[a + 1] = text /\ text[1] = "text"
      /\ \A k \in b .. n : new[k + d] = doc[k]
      /\ Headings(doc) = {k \in 1 .. n : Kind(doc, k) \in Heads}
      /\ Headings(new) = {k \in 1 .. Len(new) : Kind(new, k) \in Heads}
  BY DEF Replaces
<1>2. /\ a = n + 1 \/ a \in Headings(doc)
      /\ b = n + 1 \/ b \in Headings(doc)
  <2>1. b <= n => Kind(doc, b) \in Heads
    BY DEF Replaces, Entered, Titled, Heads
  <2>2. a < b => Kind(doc, a) \in Heads
    BY DEF Replaces, Entered, Heads
  <2> QED
    BY <1>1, <2>1, <2>2
<1> HIDE DEF n
<1>3. a \in Headings(new) /\ a + 1 \notin Headings(new)
  <2>1. Kind(new, a) \in Heads /\ Kind(new, a + 1) \notin Heads
    BY <1>1 DEF Kind, Heads
  <2> QED
    BY <1>1, <2>1
<1>4. \A k \in 1 .. a - 1 : k \in Headings(new) <=> k \in Headings(doc)
  BY <1>1 DEF Kind
<1>5. ASSUME NEW k \in b .. n
      PROVE  k + d \in Headings(new) <=> k \in Headings(doc)
  <2>1. k + d \in 1 .. Len(new) /\ k \in 1 .. n
    BY <1>1
  <2>2. Kind(new, k + d) = Kind(doc, k)
    BY <1>1 DEF Kind
  <2> QED
    BY <1>1, <2>1, <2>2
<1>6. ASSUME NEW k \in Headings(new)
      PROVE  \/ k \in 1 .. a - 1 \/ k = a
             \/ /\ k >= a + 2 /\ k - d \in b .. n /\ k - d \in Headings(doc) /\ new[k] = doc[k - d]
  <2>1. k \in 1 .. n + d
    BY <1>1
  <2>2. CASE k >= a + 2
    <3>1. k - d \in b .. n /\ (k - d) + d = k
      BY <1>1, <2>1, <2>2
    <3>2. k - d \in Headings(doc) /\ new[k] = doc[k - d]
      BY <1>1, <1>5, <3>1
    <3> QED
      BY <2>2, <3>1, <3>2
  <2>3. k # a + 1
    BY <1>3
  <2> QED
    BY <1>1, <2>1, <2>2, <2>3
<1> QED
  BY <1>1, <1>2, <1>3, <1>4, <1>5, <1>6 DEF n

(* The same lines are the same text.                                       *)
LEMMA SameText ==
  ASSUME NEW doc, NEW new, NEW p \in Int, NEW q \in Int, NEW d \in Int,
         \A k \in p .. q : new[k + d] = doc[k],
         NEW x \in Int, x = p + d, NEW y \in Int, y = q + d
  PROVE  SubSeq(new, x, y) = SubSeq(doc, p, q)
<1> DEFINE S == {doc[k] : k \in p .. q}
           u == SubSeq(doc, p, q)
           v == SubSeq(new, x, y)
<1>1. /\ u \in Seq(S) /\ Len(u) = IF p <= q THEN q - p + 1 ELSE 0
      /\ \A i \in 1 .. q - p + 1 : u[i] = doc[p + i - 1]
  <2>1. \A k \in p .. q : doc[k] \in S
    OBVIOUS
  <2> HIDE DEF S
  <2> QED
    BY <2>1, SubSeqProperties
<1>2. /\ v \in Seq(S) /\ Len(v) = IF x <= y THEN y - x + 1 ELSE 0
      /\ \A i \in 1 .. y - x + 1 : v[i] = new[x + i - 1]
  <2>1. ASSUME NEW k \in x .. y
        PROVE  new[k] \in S
    <3>1. k - d \in p .. q /\ (k - d) + d = k
      OBVIOUS
    <3> QED
      BY <3>1
  <2> HIDE DEF S
  <2> QED
    BY <2>1, SubSeqProperties
<1>3. Len(u) = Len(v)
  BY <1>1, <1>2
<1>4. ASSUME NEW i \in 1 .. Len(u)
      PROVE  u[i] = v[i]
  <2>1. i \in 1 .. q - p + 1 /\ i \in 1 .. y - x + 1
    BY <1>1
  <2>2. p + i - 1 \in p .. q /\ (p + i - 1) + d = x + i - 1
    BY <2>1
  <2>3. u[i] = doc[p + i - 1] /\ v[i] = new[x + i - 1]
    BY <1>1, <1>2, <2>1
  <2> QED
    BY <2>2, <2>3
<1> HIDE DEF S, u, v
<1>5. u = v
  BY <1>1, <1>2, <1>3, <1>4, SeqEqual
<1> QED
  BY <1>5 DEF u, v

(* No other entry is touched: its text ends where it ended.                *)
LEMMA BodiesStay ==
  ASSUME NEW doc, NEW new, NEW a, NEW b, NEW section, NEW title, NEW text,
         Replaces(doc, new, a, b, section, title, text)
  PROVE  /\ BodyOf(new, a) = <<text>>
         /\ \A j \in Headings(doc) :
              /\ j < a => BodyOf(new, j) = BodyOf(doc, j)
              /\ j >= b => BodyOf(new, j + (a + 2 - b)) = BodyOf(doc, j)
<1> DEFINE n == Len(doc)
           d == a + 2 - b
<1>1. /\ n \in Nat /\ Len(new) \in Nat /\ Len(new) = n + d
      /\ a \in 1 .. n + 1 /\ b \in a .. n + 1
      /\ \A k \in 1 .. a - 1 : new[k] = doc[k]
      /\ new[a + 1] = text
      /\ \A k \in b .. n : new[k + d] = doc[k]
      /\ Headings(doc) \subseteq 1 .. n /\ Headings(new) \subseteq 1 .. Len(new)
  BY DEF Replaces
<1>2. /\ a \in Headings(new) /\ a + 1 \notin Headings(new)
      /\ \A k \in 1 .. a - 1 : k \in Headings(new) <=> k \in Headings(doc)
      /\ \A k \in b .. n : k + d \in Headings(new) <=> k \in Headings(doc)
      /\ a = n + 1 \/ a \in Headings(doc)
      /\ b = n + 1 \/ b \in Headings(doc)
  BY HeadingsMove
<1> HIDE DEF n
<1>3. BodyOf(new, a) = <<text>>
  <2> DEFINE x == a + 1
             z == a + 2
             u == SubSeq(new, x, x)
  <2>1. z = Len(new) + 1 \/ z \in Headings(new)
    <3>1. CASE b = n + 1
      BY <1>1, <3>1
    <3>2. CASE b # n + 1
      <4>1. b \in b .. n /\ b + d = a + 2 /\ b \in Headings(doc)
        BY <1>1, <1>2, <3>2
      <4> QED
        BY <1>2, <4>1
    <3> QED
      BY <3>1, <3>2
  <2>2. /\ a \in 0 .. Len(new) /\ z \in a + 1 .. Len(new) + 1
        /\ \A k \in a + 1 .. z - 1 : k \notin Headings(new)
        /\ x \in Int /\ a + 1 = x /\ z - 1 = x
    BY <1>1, <1>2
  <2> HIDE DEF x, z
  <2>3. FirstAfter(new, a, Headings(new)) = z
    <3>1. Len(new) \in Nat /\ z \in Headings(new) \cup {Len(new) + 1}
      BY <1>1, <2>1
    <3> HIDE DEF d
    <3> QED
      BY <2>2, <3>1, FirstAfterOnly
  <2>4. /\ u \in Seq({new[x]}) /\ Len(u) = 1 /\ u[1] = new[x]
    <3>1. x \in Int /\ \A k \in x .. x : new[k] \in {new[x]}
      BY <2>2
    <3>2. /\ SubSeq(new, x, x) \in Seq({new[x]})
          /\ Len(SubSeq(new, x, x)) = IF x <= x THEN x - x + 1 ELSE 0
          /\ \A i \in 1 .. x - x + 1 : SubSeq(new, x, x)[i] = new[x + i - 1]
      BY <3>1, SubSeqProperties
    <3> QED
      BY <2>2, <3>2
  <2>5. BodyOf(new, a) = u
    BY <2>2, <2>3 DEF BodyOf
  <2> HIDE DEF u
  <2>6. u = <<new[x]>>
    BY <2>4
  <2> QED
    BY <1>1, <2>5, <2>6 DEF x
<1>4. ASSUME NEW j \in Headings(doc), j < a
      PROVE  BodyOf(new, j) = BodyOf(doc, j)
  <2> DEFINE m == FirstAfter(doc, j, Headings(doc))
  <2>1. j \in 1 .. n /\ j \in 0 .. Len(doc) /\ j \in 0 .. Len(new)
    BY <1>1, <1>4 DEF n
  <2>2. /\ m \in j + 1 .. n + 1
        /\ m \in Headings(doc) \cup {n + 1}
        /\ \A k \in j + 1 .. m - 1 : k \notin Headings(doc)
    BY <1>1, <2>1, FirstAfterIs DEF n
  <2> HIDE DEF m
  <2>3. m <= a
    <3>1. ~(a \in j + 1 .. m - 1)
      <4>1. CASE a = n + 1
        BY <1>1, <2>1, <2>2, <4>1
      <4> QED
        BY <1>2, <2>2, <4>1
    <3> QED
      BY <1>1, <1>4, <2>1, <2>2, <3>1
  <2>4. m \in Headings(new)
    <3>1. CASE m = a
      BY <1>2, <3>1
    <3>2. CASE m # a
      <4>1. m \in 1 .. a - 1 /\ m # n + 1
        BY <1>1, <2>1, <2>2, <2>3, <3>2
      <4> QED
        BY <1>2, <2>2, <4>1
    <3> QED
      BY <3>1, <3>2
  <2>5. \A k \in j + 1 .. m - 1 : k \notin Headings(new)
    <3>1. \A k \in j + 1 .. m - 1 : k \in 1 .. a - 1
      BY <1>1, <2>1, <2>2, <2>3
    <3> QED
      BY <1>2, <2>2, <3>1
  <2>6. m \in j + 1 .. Len(new) + 1
    BY <1>1, <2>2, <2>3
  <2>7. FirstAfter(new, j, Headings(new)) = m
    BY <1>1, <2>1, <2>4, <2>5, <2>6, FirstAfterOnly
  <2>8. SubSeq(new, j + 1, m - 1) = SubSeq(doc, j + 1, m - 1)
    <3> DEFINE p == j + 1
               q == m - 1
    <3>1. p \in Int /\ q \in Int /\ 0 \in Int /\ p = p + 0 /\ q = q + 0
      BY <2>1, <2>2
    <3>2. ASSUME NEW k \in p .. q
          PROVE  new[k + 0] = doc[k]
      <4>1. k + 0 = k /\ k \in 1 .. a - 1
        BY <1>1, <2>1, <2>2, <2>3
      <4> QED
        BY <1>1, <4>1
    <3> HIDE DEF p, q
    <3>3. SubSeq(new, p, q) = SubSeq(doc, p, q)
      BY <3>1, <3>2, SameText
    <3> QED
      BY <3>3 DEF p, q
  <2> QED
    BY <2>7, <2>8 DEF BodyOf, m
<1>5. ASSUME NEW j \in Headings(doc), j >= b
      PROVE  BodyOf(new, j + d) = BodyOf(doc, j)
  <2> DEFINE m == FirstAfter(doc, j, Headings(doc))
  <2>1. j \in b .. n /\ j \in 0 .. Len(doc) /\ j + d \in 0 .. Len(new)
    BY <1>1, <1>5 DEF n
  <2>2. /\ m \in j + 1 .. n + 1
        /\ m \in Headings(doc) \cup {n + 1}
        /\ \A k \in j + 1 .. m - 1 : k \notin Headings(doc)
    BY <1>1, <2>1, FirstAfterIs DEF n
  <2> HIDE DEF m
  <2> DEFINE i == j + d
             z == m + d
  <2>3. z \in Headings(new) \cup {Len(new) + 1}
    <3>1. CASE m = n + 1
      BY <1>1, <3>1
    <3>2. CASE m # n + 1
      <4>1. m \in b .. n /\ m \in Headings(doc)
        BY <1>1, <2>1, <2>2, <3>2
      <4> QED
        BY <1>2, <4>1
    <3> QED
      BY <3>1, <3>2
  <2>4. ASSUME NEW k \in i + 1 .. z - 1
        PROVE  k \notin Headings(new)
    <3>1. k - d \in j + 1 .. m - 1 /\ k - d \in b .. n /\ (k - d) + d = k
      BY <1>1, <2>1, <2>2
    <3> QED
      BY <1>2, <2>2, <3>1
  <2>5. i \in 0 .. Len(new) /\ z \in i + 1 .. Len(new) + 1
    <3>1. i \in 0 .. Len(new)
      BY <2>1
    <3>2. d \in Int /\ n \in Int /\ Len(new) = n + d
      BY <1>1
    <3>3. j \in Int /\ m \in Int /\ j + 1 <= m /\ m <= n + 1
      BY <1>1, <2>1, <2>2
    <3> HIDE DEF d
    <3>4. z \in Int /\ i \in Int /\ i + 1 <= z /\ z <= Len(new) + 1 /\ Len(new) \in Int
      BY <3>2, <3>3
    <3> HIDE DEF i, z
    <3> QED
      BY <3>1, <3>4
  <2> DEFINE p == j + 1
             q == m - 1
             x == i + 1
             y == z - 1
  <2>6. p \in Int /\ q \in Int /\ d \in Int /\ x \in Int /\ y \in Int /\ x = p + d /\ y = q + d
    BY <1>1, <2>1, <2>2
  <2>7. ASSUME NEW k \in p .. q
        PROVE  new[k + d] = doc[k]
    <3>1. k \in b .. n
      BY <1>1, <2>1, <2>2
    <3> QED
      BY <1>1, <3>1
  <2> HIDE DEF i, z
  <2>8. FirstAfter(new, i, Headings(new)) = z
    BY <1>1, <2>3, <2>4, <2>5, FirstAfterOnly
  <2> HIDE DEF p, q, x, y, d
  <2>9. SubSeq(new, x, y) = SubSeq(doc, p, q)
    BY <2>6, <2>7, SameText
  <2>10. BodyOf(new, i) = BodyOf(doc, j)
    BY <2>8, <2>9 DEF BodyOf, m, p, q, x, y
  <2> QED
    BY <2>10 DEF i
<1> QED
  BY <1>3, <1>4, <1>5

(* The section a line is in: that of the last section heading before it.   *)
Under(doc, i, section) ==
  \E j \in Parents(doc, i) : doc[j] = <<"h2", section>> /\ \A k \in Parents(doc, i) : k <= j

(* The entry, if there is one, of a line.                                  *)
EntryAt(doc, section, i) ==
  /\ i \in Headings(doc) /\ Kind(doc, i) = "h3" /\ BodyOf(doc, i) # <<>> /\ Under(doc, i, section)

EntryOf(doc, i) == [title |-> AsRead[doc[i][2]], content |-> BodyOf(doc, i), line |-> i]

(* The entries of a section are those of its lines.                        *)
LEMMA SectionEntriesAre ==
  ASSUME NEW doc, NEW section
  PROVE  /\ \A e \in sectionEntries(doc, section) :
              EntryAt(doc, section, e.line) /\ e = EntryOf(doc, e.line)
         /\ \A i : EntryAt(doc, section, i) => EntryOf(doc, i) \in sectionEntries(doc, section)
<1>1. sectionEntries(doc, section) =
        {EntryOf(doc, i) : i \in {i \in Headings(doc) : EntryAt(doc, section, i)}}
  BY DEF sectionEntries, EntryOf, EntryAt, Under
<1>2. \A i : EntryOf(doc, i).line = i
  BY DEF EntryOf
<1>3. \A i : EntryAt(doc, section, i) => i \in Headings(doc)
  BY DEF EntryAt
<1> QED
  BY <1>1, <1>2, <1>3

(* A line is in one section.                                               *)
LEMMA OneSection ==
  ASSUME NEW doc, Len(doc) \in Nat, Headings(doc) \subseteq 1 .. Len(doc), NEW i, NEW s, NEW t,
         Under(doc, i, s), Under(doc, i, t)
  PROVE  s = t
<1>1. PICK j \in Parents(doc, i) : doc[j] = <<"h2", s>> /\ \A k \in Parents(doc, i) : k <= j
  BY DEF Under
<1>2. PICK m \in Parents(doc, i) : doc[m] = <<"h2", t>> /\ \A k \in Parents(doc, i) : k <= m
  BY DEF Under
<1>3. j \in Nat /\ m \in Nat
  BY <1>1, <1>2 DEF Parents, SectionHeadings
<1>4. j = m
  BY <1>1, <1>2, <1>3
<1> QED
  BY <1>1, <1>2, <1>4

(* Section headings are where they were, in the same order, and the new    *)
(* entry is in its section.                                                *)
LEMMA SectionsStay ==
  ASSUME NEW doc, NEW new, NEW a, NEW b, NEW section, NEW title, NEW text,
         Replaces(doc, new, a, b, section, title, text)
  PROVE  /\ Under(new, a, section)
         /\ \A j \in Headings(doc) : \A s :
              /\ j < a => (Under(new, j, s) <=> Under(doc, j, s))
              /\ j >= b => (Under(new, j + (a + 2 - b), s) <=> Under(doc, j, s))
<1> DEFINE n == Len(doc)
           d == a + 2 - b
<1>1. /\ n \in Nat /\ Len(new) \in Nat /\ Len(new) = n + d
      /\ a \in 1 .. n + 1 /\ b \in a .. n + 1
      /\ Headings(doc) \subseteq 1 .. n /\ Headings(new) \subseteq 1 .. Len(new)
  BY DEF Replaces
<1>2. /\ a \in Headings(new) /\ Kind(new, a) = "h3"
      /\ \A k \in 1 .. a - 1 : /\ k \in Headings(new) <=> k \in Headings(doc)
                               /\ new[k] = doc[k]
      /\ \A k \in b .. n : k + d \in Headings(new) <=> k \in Headings(doc)
      /\ \A k \in b .. n : new[k + d] = doc[k]
      /\ \A k \in Headings(new) : \/ k \in 1 .. a - 1
                                  \/ k = a
                                  \/ /\ k >= a + 2 /\ k - d \in b .. n /\ k - d \in Headings(doc)
                                     /\ new[k] = doc[k - d]
  BY HeadingsMove DEF Kind
<1>3. \A k \in a .. b - 1 : Kind(doc, k) # "h2"
  <2> SUFFICES ASSUME NEW k \in a .. b - 1 PROVE Kind(doc, k) # "h2"
    OBVIOUS
  <2>1. CASE k = a
    BY <1>1, <2>1 DEF Replaces, Entered
  <2>2. CASE k # a
    <3>1. k \in a + 1 .. b - 1
      BY <1>1, <2>2
    <3> QED
      BY <3>1 DEF Replaces, Entered, Titled
  <2> QED
    BY <2>1, <2>2
<1> HIDE DEF n
<1>4. \A k \in SectionHeadings(doc) : k \in Nat /\ (k < a \/ k >= b) /\ k \in 1 .. n
  BY <1>1, <1>3 DEF SectionHeadings
<1>5. \A k \in 1 .. a - 1 : k \in SectionHeadings(new) <=> k \in SectionHeadings(doc)
  BY <1>2 DEF SectionHeadings, Kind
<1>6. \A k \in b .. n : k + d \in SectionHeadings(new) <=> k \in SectionHeadings(doc)
  BY <1>2 DEF SectionHeadings, Kind
<1>7. ASSUME NEW k \in SectionHeadings(new)
      PROVE  \/ k \in 1 .. a - 1
             \/ k >= a + 2 /\ k - d \in b .. n /\ k - d \in SectionHeadings(doc) /\ (k - d) + d = k
  <2>1. k \in Headings(new) /\ k # a /\ k \in Int
    BY <1>1, <1>2 DEF SectionHeadings
  <2>2. (k - d) + d = k
    BY <1>1, <2>1
  <2> QED
    BY <1>2, <2>1, <2>2 DEF SectionHeadings, Kind
<1>8. ASSUME NEW j \in Headings(doc), NEW s, j < a
      PROVE  Under(new, j, s) <=> Under(doc, j, s)
  <2>1. Parents(new, j) = Parents(doc, j)
    <3>1. j \in 1 .. a - 1
      BY <1>1, <1>8
    <3>2. \A k \in Parents(new, j) : k \in 1 .. a - 1
      BY <1>1, <1>7, <3>1 DEF Parents
    <3>3. \A k \in Parents(doc, j) : k \in 1 .. a - 1
      BY <1>1, <1>4, <3>1 DEF Parents
    <3> QED
      BY <1>5, <3>2, <3>3 DEF Parents
  <2>2. \A k \in Parents(doc, j) : new[k] = doc[k]
    BY <1>1, <1>2, <1>4, <1>8 DEF Parents
  <2> QED
    BY <2>1, <2>2 DEF Under
<1>9. Under(new, a, section)
  <2>1. PICK h \in 1 .. a - 1 : /\ doc[h] = <<"h2", section>>
                                /\ \A k \in h + 1 .. a - 1 : Kind(doc, k) # "h2"
    BY DEF Replaces, Entered
  <2>2. h \in Parents(new, a) /\ new[h] = <<"h2", section>>
    <3>1. h \in 1 .. n /\ Kind(doc, h) = "h2" /\ h < a /\ h \in 1 .. Len(doc)
      BY <1>1, <2>1 DEF Kind, n
    <3>2. h \in Headings(doc)
      BY <3>1 DEF Replaces, Heads
    <3> QED
      BY <1>2, <1>5, <2>1, <3>1, <3>2 DEF Parents, SectionHeadings
  <2>3. ASSUME NEW k \in Parents(new, a)
        PROVE  k <= h
    <3>1. k \in 1 .. a - 1 /\ Kind(doc, k) = "h2"
      BY <1>1, <1>5, <1>7 DEF Parents, SectionHeadings
    <3> QED
      BY <1>1, <2>1, <3>1
  <2> QED
    BY <2>2, <2>3 DEF Under
<1>10. ASSUME NEW j \in Headings(doc), NEW s, j >= b
       PROVE  Under(new, j + d, s) <=> Under(doc, j, s)
  <2>1. j \in b .. n /\ j + d \in Int /\ j \in Int /\ d \in Int /\ a \in Int /\ b \in Int /\ a <= b
    BY <1>1, <1>10
  <2>2. ASSUME Under(doc, j, s)
        PROVE  Under(new, j + d, s)
    <3>1. PICK x \in Parents(doc, j) : doc[x] = <<"h2", s>> /\ \A k \in Parents(doc, j) : k <= x
      BY <2>2 DEF Under
    <3>2. x \in SectionHeadings(doc) /\ x < j /\ x \in 1 .. n /\ (x < a \/ x >= b)
      BY <1>4, <3>1 DEF Parents
    <3>3. CASE x < a
      <4>1. x \in 1 .. a - 1 /\ x < j + d
        BY <1>1, <2>1, <3>2, <3>3
      <4>2. x \in Parents(new, j + d) /\ new[x] = <<"h2", s>>
        BY <1>2, <1>5, <3>1, <3>2, <4>1 DEF Parents
      <4>3. ASSUME NEW k \in Parents(new, j + d)
            PROVE  k <= x
        <5>1. k \in SectionHeadings(new) /\ k < j + d
          BY DEF Parents
        <5>2. CASE k \in 1 .. a - 1
          <6>1. k \in Parents(doc, j)
            BY <1>5, <2>1, <5>1, <5>2 DEF Parents
          <6> QED
            BY <3>1, <6>1
        <5>3. CASE k - d \in b .. n /\ k - d \in SectionHeadings(doc) /\ (k - d) + d = k
          <6>1. k \in Int
            BY <1>1, <5>1 DEF SectionHeadings
          <6>2. k - d < j
            BY <2>1, <5>1, <6>1
          <6>3. k - d <= x
            BY <3>1, <5>3, <6>2 DEF Parents
          <6> QED
            BY <2>1, <3>2, <3>3, <5>3, <6>1, <6>3
        <5> QED
          BY <1>7, <5>1, <5>2, <5>3
      <4> QED
        BY <4>2, <4>3 DEF Under
    <3>4. CASE x >= b
      <4>1. x \in b .. n /\ x + d < j + d /\ x + d \in Int
        BY <1>1, <2>1, <3>2, <3>4
      <4>2. x + d \in Parents(new, j + d) /\ new[x + d] = <<"h2", s>>
        BY <1>2, <1>6, <3>1, <3>2, <4>1 DEF Parents
      <4>3. ASSUME NEW k \in Parents(new, j + d)
            PROVE  k <= x + d
        <5>1. k \in SectionHeadings(new) /\ k < j + d /\ k \in Int
          BY <1>1 DEF Parents, SectionHeadings
        <5>2. CASE k \in 1 .. a - 1
          BY <1>1, <4>1, <5>2
        <5>3. CASE k - d \in b .. n /\ k - d \in SectionHeadings(doc) /\ (k - d) + d = k
          <6>1. k - d < j
            BY <2>1, <5>1
          <6>2. k - d <= x
            BY <3>1, <5>3, <6>1 DEF Parents
          <6> QED
            BY <2>1, <3>2, <5>1, <6>2
        <5> QED
          BY <1>7, <5>1, <5>2, <5>3
      <4> QED
        BY <4>2, <4>3 DEF Under
    <3> QED
      BY <3>2, <3>3, <3>4
  <2>3. ASSUME Under(new, j + d, s)
        PROVE  Under(doc, j, s)
    <3>1. PICK y \in Parents(new, j + d) :
            new[y] = <<"h2", s>> /\ \A k \in Parents(new, j + d) : k <= y
      BY <2>3 DEF Under
    <3>2. y \in SectionHeadings(new) /\ y < j + d /\ y \in Int
      BY <1>1, <3>1 DEF Parents, SectionHeadings
    <3>3. CASE y \in 1 .. a - 1
      <4>1. y \in Parents(doc, j) /\ doc[y] = <<"h2", s>>
        BY <1>2, <1>5, <2>1, <3>1, <3>2, <3>3 DEF Parents
      <4>2. ASSUME NEW k \in Parents(doc, j)
            PROVE  k <= y
        <5>1. k \in SectionHeadings(doc) /\ k < j /\ k \in 1 .. n /\ (k < a \/ k >= b)
          BY <1>4 DEF Parents
        <5>2. CASE k < a
          <6>1. k \in 1 .. a - 1 /\ k < j + d
            BY <1>1, <2>1, <5>1, <5>2
          <6> QED
            BY <1>5, <3>1, <5>1, <6>1 DEF Parents
        <5>3. CASE k >= b
          <6>1. k \in b .. n /\ k + d < j + d /\ k + d > a
            BY <1>1, <2>1, <5>1, <5>3
          <6>2. k + d <= y
            BY <1>6, <3>1, <5>1, <6>1 DEF Parents
          <6> QED
            BY <2>1, <3>2, <3>3, <5>1, <6>1, <6>2
        <5> QED
          BY <5>1, <5>2, <5>3
      <4> QED
        BY <4>1, <4>2 DEF Under
    <3>4. CASE y - d \in b .. n /\ y - d \in SectionHeadings(doc) /\ (y - d) + d = y
      <4>1. y - d < j
        BY <2>1, <3>2
      <4>2. y - d \in Parents(doc, j) /\ doc[y - d] = <<"h2", s>>
        <5>1. new[(y - d) + d] = doc[y - d]
          BY <1>2, <3>4
        <5> QED
          BY <3>1, <3>4, <4>1, <5>1 DEF Parents
      <4>3. ASSUME NEW k \in Parents(doc, j)
            PROVE  k <= y - d
        <5>1. k \in SectionHeadings(doc) /\ k < j /\ k \in 1 .. n /\ (k < a \/ k >= b)
          BY <1>4 DEF Parents
        <5>2. CASE k < a
          BY <1>1, <2>1, <3>2, <3>4, <5>1, <5>2
        <5>3. CASE k >= b
          <6>1. k \in b .. n /\ k + d < j + d
            BY <1>1, <2>1, <5>1, <5>3
          <6>2. k + d <= y
            BY <1>6, <3>1, <5>1, <6>1 DEF Parents
          <6> QED
            BY <2>1, <3>2, <5>1, <6>2
        <5> QED
          BY <5>1, <5>2, <5>3
      <4> QED
        BY <4>2, <4>3 DEF Under
    <3> QED
      BY <1>7, <3>2, <3>3, <3>4
  <2> QED
    BY <2>2, <2>3
<1> QED
  BY <1>8, <1>9, <1>10

(* Entry by entry: the new one is in its section, the replaced one is out, *)
(* and all others stay.                                                    *)
LEMMA EntriesMove ==
  ASSUME NEW doc, NEW new, NEW a, NEW b, NEW section, NEW title, NEW text,
         Replaces(doc, new, a, b, section, title, text), NEW s
  PROVE  /\ EntryAt(new, section, a) /\ new[a][2] = title /\ BodyOf(new, a) = <<text>>
         /\ \A i : EntryAt(new, s, i) =>
              \/ i = a /\ s = section
              \/ \E j : /\ EntryAt(doc, s, j)
                        /\ (i < a /\ j = i) \/ (i > a /\ j >= b /\ i = j + (a + 2 - b))
                        /\ doc[j][2] = new[i][2] /\ BodyOf(doc, j) = BodyOf(new, i)
         /\ \A j : EntryAt(doc, s, j) =>
              \/ j = a /\ a < b
              \/ \E i : /\ EntryAt(new, s, i)
                        /\ doc[j][2] = new[i][2] /\ BodyOf(doc, j) = BodyOf(new, i)
<1> DEFINE n == Len(doc)
           d == a + 2 - b
<1>1. /\ n \in Nat /\ Len(new) \in Nat /\ Len(new) = n + d
      /\ a \in 1 .. n + 1 /\ b \in a .. n + 1
      /\ Headings(doc) \subseteq 1 .. n /\ Headings(new) \subseteq 1 .. Len(new)
      /\ \A k \in a + 1 .. b - 1 : Kind(doc, k) # "h3"
  BY DEF Replaces, Entered, Titled
<1>2. /\ a \in Headings(new) /\ new[a] = <<"h3", title>>
      /\ \A k \in 1 .. a - 1 : /\ k \in Headings(new) <=> k \in Headings(doc)
                               /\ new[k] = doc[k]
      /\ \A k \in b .. n : k + d \in Headings(new) <=> k \in Headings(doc)
      /\ \A k \in b .. n : new[k + d] = doc[k]
      /\ \A k \in Headings(new) : \/ k \in 1 .. a - 1
                                  \/ k = a
                                  \/ /\ k >= a + 2 /\ k - d \in b .. n /\ k - d \in Headings(doc)
                                     /\ new[k] = doc[k - d]
  BY HeadingsMove
<1>3. /\ BodyOf(new, a) = <<text>>
      /\ \A j \in Headings(doc) : /\ j < a => BodyOf(new, j) = BodyOf(doc, j)
                                  /\ j >= b => BodyOf(new, j + d) = BodyOf(doc, j)
  BY BodiesStay
<1>4. /\ Under(new, a, section)
      /\ \A j \in Headings(doc) : /\ j < a => (Under(new, j, s) <=> Under(doc, j, s))
                                  /\ j >= b => (Under(new, j + d, s) <=> Under(doc, j, s))
  BY SectionsStay
<1> HIDE DEF n
<1>5. EntryAt(new, section, a) /\ new[a][2] = title
  <2>1. <<text>> # <<>>
    OBVIOUS
  <2>2. Kind(new, a) = "h3" /\ new[a][2] = title
    BY <1>2 DEF Kind
  <2> QED
    BY <1>2, <1>3, <1>4, <2>1, <2>2 DEF EntryAt
<1>6. ASSUME NEW i, EntryAt(new, s, i)
      PROVE  \/ i = a /\ s = section
             \/ \E j : /\ EntryAt(doc, s, j)
                       /\ (i < a /\ j = i) \/ (i > a /\ j >= b /\ i = j + d)
                       /\ doc[j][2] = new[i][2] /\ BodyOf(doc, j) = BodyOf(new, i)
  <2>1. /\ i \in Headings(new) /\ Kind(new, i) = "h3" /\ BodyOf(new, i) # <<>>
        /\ Under(new, i, s) /\ i \in Int
    BY <1>1, <1>6 DEF EntryAt
  <2>2. CASE i = a
    BY <1>1, <1>4, <2>1, <2>2, OneSection
  <2>3. CASE i \in 1 .. a - 1
    <3>1. i < a /\ i \in Headings(doc) /\ new[i] = doc[i]
      BY <1>1, <1>2, <2>1, <2>3
    <3>2. EntryAt(doc, s, i) /\ BodyOf(doc, i) = BodyOf(new, i)
      BY <1>3, <1>4, <2>1, <3>1 DEF EntryAt, Kind
    <3> QED
      BY <3>1, <3>2
  <2>4. CASE i >= a + 2 /\ i - d \in b .. n /\ i - d \in Headings(doc) /\ new[i] = doc[i - d]
    <3> DEFINE j == i - d
    <3>1. j \in Headings(doc) /\ j >= b /\ i = j + d /\ new[i] = doc[j] /\ i > a
      BY <1>1, <2>1, <2>4
    <3> HIDE DEF j, d
    <3>2. BodyOf(doc, j) = BodyOf(new, i)
      BY <1>3, <3>1
    <3>3. Under(doc, j, s)
      BY <1>4, <2>1, <3>1
    <3>4. EntryAt(doc, s, j)
      BY <2>1, <3>1, <3>2, <3>3 DEF EntryAt, Kind
    <3> QED
      BY <3>1, <3>2, <3>4
  <2> QED
    BY <1>2, <2>1, <2>2, <2>3, <2>4
<1>7. ASSUME NEW j, EntryAt(doc, s, j), ~(j = a /\ a < b)
      PROVE  \E i : /\ EntryAt(new, s, i)
                    /\ doc[j][2] = new[i][2] /\ BodyOf(doc, j) = BodyOf(new, i)
  <2>1. /\ j \in Headings(doc) /\ Kind(doc, j) = "h3" /\ BodyOf(doc, j) # <<>>
        /\ Under(doc, j, s) /\ j \in 1 .. n
    BY <1>1, <1>7 DEF EntryAt
  <2>2. j < a \/ j >= b
    <3>1. ~(j \in a + 1 .. b - 1)
      BY <1>1, <2>1
    <3> QED
      BY <1>1, <1>7, <2>1, <3>1
  <2>3. CASE j < a
    <3>1. j \in Headings(new) /\ new[j] = doc[j]
      BY <1>1, <1>2, <2>1, <2>3
    <3>2. EntryAt(new, s, j) /\ BodyOf(doc, j) = BodyOf(new, j)
      BY <1>3, <1>4, <2>1, <2>3, <3>1 DEF EntryAt, Kind
    <3> QED
      BY <3>1, <3>2
  <2>4. CASE j >= b
    <3> DEFINE i == j + d
    <3>1. i \in Headings(new) /\ new[i] = doc[j]
      BY <1>1, <1>2, <2>1, <2>4
    <3>2. BodyOf(doc, j) = BodyOf(new, i) /\ Under(new, i, s)
      BY <1>3, <1>4, <2>1, <2>4
    <3> HIDE DEF i
    <3>3. EntryAt(new, s, i)
      BY <2>1, <3>1, <3>2 DEF EntryAt, Kind
    <3> QED
      BY <3>1, <3>2, <3>3
  <2> QED
    BY <2>2, <2>3, <2>4
<1> HIDE DEF d
<1> QED
  BY <1>3, <1>5, <1>6, <1>7 DEF d

(* What a save replaces is read with the title of the new entry, and there *)
(* is no second entry with it.                                             *)
SoleTitle(doc, a, b, section, title) ==
  \A j : EntryAt(doc, section, j) /\ AsRead[doc[j][2]] = title => j = a /\ a < b

(* Two entries with one title in the new document are the successors of    *)
(* two that were there before.                                             *)
LEMMA TitlesStay ==
  ASSUME NEW doc, NEW new, NEW a, NEW b, NEW section, NEW title, NEW text,
         Replaces(doc, new, a, b, section, title, text), SoleTitle(doc, a, b, section, title),
         AsRead[title] = title,
         NEW s, NEW e \in sectionEntries(new, s), NEW o \in sectionEntries(new, s),
         e.title = o.title, e # o
  PROVE  \E d, g \in sectionEntries(doc, s) : d.title = e.title /\ g.title = e.title /\ d # g
<1> DEFINE Was(i, j) == /\ EntryAt(doc, s, j) /\ doc[j][2] = new[i][2]
                        /\ (i < a /\ j = i) \/ (i > a /\ j >= b /\ i = j + (a + 2 - b))
<1>1. /\ EntryAt(new, s, e.line) /\ e = EntryOf(new, e.line)
      /\ EntryAt(new, s, o.line) /\ o = EntryOf(new, o.line)
  BY SectionEntriesAre
<1>2. e.line # o.line /\ AsRead[new[e.line][2]] = e.title
      /\ AsRead[new[o.line][2]] = e.title
  BY <1>1 DEF EntryOf
<1>3. /\ new[a][2] = title
      /\ \A i : EntryAt(new, s, i) => (i = a /\ s = section) \/ \E j : Was(i, j)
  <2>1. /\ new[a][2] = title
        /\ \A i : EntryAt(new, s, i) =>
              \/ i = a /\ s = section
              \/ \E j : /\ EntryAt(doc, s, j)
                        /\ (i < a /\ j = i) \/ (i > a /\ j >= b /\ i = j + (a + 2 - b))
                        /\ doc[j][2] = new[i][2] /\ BodyOf(doc, j) = BodyOf(new, i)
    BY ONLY Replaces(doc, new, a, b, section, title, text), EntriesMove
  <2>2. ASSUME NEW i, EntryAt(new, s, i), ~(i = a /\ s = section)
        PROVE  \E j : Was(i, j)
    BY <2>1, <2>2
  <2> QED
    BY <2>1, <2>2
<1>4. /\ a \in Int /\ b \in Int /\ a <= b /\ e.line \in Int /\ o.line \in Int
      /\ Headings(doc) \subseteq Int
  BY <1>1 DEF Replaces, EntryAt
<1>5. \A i, j : Was(i, j) => j \in Int
  BY <1>4 DEF EntryAt
<1>6. ASSUME NEW i, NEW k, EntryAt(new, s, i), EntryAt(new, s, k), i = a, k # a,
             AsRead[new[i][2]] = AsRead[new[k][2]]
      PROVE  FALSE
  <2>1. PICK j : Was(k, j)
    BY <1>3, <1>6
  <2>2. s = section
    <3>1. \A m : ~Was(a, m)
      BY <1>4
    <3> QED
      BY <1>3, <1>6, <3>1
  <2>3. AsRead[doc[j][2]] = title
    BY <1>3, <1>6, <2>1
  <2>4. j = a /\ a < b
    BY <2>1, <2>2, <2>3 DEF SoleTitle
  <2> QED
    BY <1>4, <2>1, <2>4
<1>7. e.line # a /\ o.line # a
  BY <1>1, <1>2, <1>6
<1>8. PICK x : Was(e.line, x)
  BY <1>1, <1>3, <1>7
<1>9. PICK y : Was(o.line, y)
  BY <1>1, <1>3, <1>7
<1>10. x # y
  BY <1>2, <1>4, <1>5, <1>8, <1>9
<1> DEFINE d == EntryOf(doc, x)
           g == EntryOf(doc, y)
<1>11. d \in sectionEntries(doc, s) /\ g \in sectionEntries(doc, s)
  BY <1>8, <1>9, SectionEntriesAre
<1>12. d.title = e.title /\ g.title = e.title /\ d # g
  BY <1>2, <1>8, <1>9, <1>10 DEF EntryOf
<1> QED
  BY <1>11, <1>12

(* A replaced entry is in the section of the new one.                      *)
LEMMA ReplacedIsUnder ==
  ASSUME NEW doc, NEW new, NEW a, NEW b, NEW section, NEW title, NEW text,
         Replaces(doc, new, a, b, section, title, text)
  PROVE  Under(doc, a, section)
<1>1. PICK h \in 1 .. a - 1 : /\ doc[h] = <<"h2", section>>
                              /\ \A k \in h + 1 .. a - 1 : Kind(doc, k) # "h2"
  BY DEF Replaces, Entered
<1>2. /\ Headings(doc) = {k \in 1 .. Len(doc) : Kind(doc, k) \in Heads}
      /\ a \in 1 .. Len(doc) + 1 /\ Len(doc) \in Nat
  BY DEF Replaces
<1>3. h \in Parents(doc, a)
  BY <1>1, <1>2 DEF Parents, SectionHeadings, Kind, Heads
<1>4. ASSUME NEW k \in Parents(doc, a)
      PROVE  k <= h
  <2>1. k \in 1 .. Len(doc) /\ Kind(doc, k) = "h2" /\ k < a
    BY <1>2 DEF Parents, SectionHeadings
  <2> QED
    BY <1>1, <1>2, <2>1
<1> QED
  BY <1>1, <1>3, <1>4 DEF Under

(* The entries of the new document: one is new, and at most the one that   *)
(* is replaced is gone.                                                    *)
LEMMA OneEntryMoves ==
  ASSUME NEW doc, NEW new, NEW a, NEW b, NEW section \in Sections, NEW title, NEW text,
         Replaces(doc, new, a, b, section, title, text), AsRead[title] = title
  PROVE  LET old == Entries(doc)
             gone == old \ Entries(new)
         IN  /\ Entries(new) = (old \ gone) \cup {<<section, title, <<text>>>>}
             /\ Cardinality(gone) <= (IF a < b THEN 1 ELSE 0)
<1> DEFINE old == Entries(doc)
           gone == old \ Entries(new)
           entry == <<section, title, <<text>>>>
           replaced == <<section, AsRead[doc[a][2]], BodyOf(doc, a)>>
           T(dd, s, i) == <<s, AsRead[dd[i][2]], BodyOf(dd, i)>>
<1>1. ASSUME NEW dd, NEW x
      PROVE  x \in Entries(dd) <=> \E s \in Sections : \E i : EntryAt(dd, s, i) /\ x = T(dd, s, i)
  <2>1. x \in Entries(dd) <=>
          \E s \in Sections : \E e \in sectionEntries(dd, s) : x = <<s, e.title, e.content>>
    BY DEF Entries
  <2>2. ASSUME NEW s \in Sections, NEW e \in sectionEntries(dd, s), x = <<s, e.title, e.content>>
        PROVE  EntryAt(dd, s, e.line) /\ x = T(dd, s, e.line)
    <3>1. EntryAt(dd, s, e.line) /\ e = EntryOf(dd, e.line)
      BY SectionEntriesAre
    <3>2. e.title = AsRead[dd[e.line][2]] /\ e.content = BodyOf(dd, e.line)
      BY <3>1 DEF EntryOf
    <3> QED
      BY <2>2, <3>1, <3>2
  <2>3. ASSUME NEW s \in Sections, NEW i, EntryAt(dd, s, i), x = T(dd, s, i)
        PROVE  \E e \in sectionEntries(dd, s) : x = <<s, e.title, e.content>>
    <3>1. EntryOf(dd, i) \in sectionEntries(dd, s)
      BY <2>3, SectionEntriesAre
    <3>2. x = <<s, EntryOf(dd, i).title, EntryOf(dd, i).content>>
      BY <2>3 DEF EntryOf
    <3> QED
      BY <3>1, <3>2
  <2> QED
    BY <2>1, <2>2, <2>3
<1>2. ASSUME NEW s
      PROVE  /\ EntryAt(new, section, a) /\ T(new, section, a) = entry
             /\ \A i : EntryAt(new, s, i) =>
                  (i = a /\ s = section) \/ \E j : EntryAt(doc, s, j) /\ T(new, s, i) = T(doc, s, j)
             /\ \A j : EntryAt(doc, s, j) =>
                  (j = a /\ a < b) \/ \E i : EntryAt(new, s, i) /\ T(doc, s, j) = T(new, s, i)
  BY EntriesMove
<1> HIDE DEF T, entry
<1>3. entry \in Entries(new)
  BY <1>1, <1>2
<1>4. Entries(new) \subseteq old \cup {entry}
  BY <1>1, <1>2
<1>5. ASSUME NEW x \in gone
      PROVE  a < b /\ x = replaced
  <2>1. PICK s \in Sections : \E j : EntryAt(doc, s, j) /\ x = T(doc, s, j)
    BY <1>1
  <2>2. PICK j : EntryAt(doc, s, j) /\ x = T(doc, s, j)
    BY <2>1
  <2>3. j = a /\ a < b
    <3>1. ~\E i : EntryAt(new, s, i) /\ x = T(new, s, i)
      BY <1>1
    <3> QED
      BY <1>2, <2>2, <3>1
  <2>4. s = section
    <3>1. Under(doc, a, s)
      BY <2>2, <2>3 DEF EntryAt
    <3>2. Under(doc, a, section)
      BY <2>3, ReplacedIsUnder
    <3> QED
      BY <3>1, <3>2, OneSection DEF Replaces
  <2> QED
    BY <2>2, <2>3, <2>4 DEF T
<1>6. Cardinality(gone) <= (IF a < b THEN 1 ELSE 0)
  <2>1. CASE gone = {}
    BY <2>1, FS_EmptySet
  <2>2. CASE gone # {}
    <3>1. gone = {replaced} /\ a < b
      BY <1>5, <2>2
    <3>2. Cardinality({replaced}) = 1
      BY FS_Singleton
    <3> QED
      BY <3>1, <3>2
  <2> QED
    BY <2>1, <2>2
<1> QED
  BY <1>3, <1>4, <1>6 DEF entry

(* A new entry is put at the end of its section.                           *)
LEMMA AppendIs ==
  ASSUME NEW doc, IsDoc(doc), NEW section, SectionLines(doc, section) # {}, NEW entry
  PROVE  \E a \in 1 .. Len(doc) + 1 :
           /\ appendToSection(doc, section, entry) = Spliced(doc, a, a, entry)
           /\ Entered(doc, a, a, section)
<1> DEFINE h == FirstAfter(doc, 0, SectionLines(doc, section))
           a == FirstAfter(doc, h, RawLines(doc, {"h2"}))
           n == Len(doc)
<1>1. n \in Nat /\ DOMAIN doc = 1 .. n
  BY DocIs DEF IsDoc
<1>2. /\ h \in 1 .. n + 1 /\ h \in SectionLines(doc, section) \cup {n + 1}
      /\ \A k \in 1 .. h - 1 : k \notin SectionLines(doc, section)
  <2>1. /\ h \in 0 + 1 .. n + 1 /\ h \in SectionLines(doc, section) \cup {n + 1}
        /\ \A k \in 0 + 1 .. h - 1 : k \notin SectionLines(doc, section)
    BY <1>1, FirstAfterIs
  <2> HIDE DEF h, n
  <2> QED
    BY <2>1
<1> HIDE DEF h
<1>3. h \in 1 .. n /\ doc[h] = <<"h2", section>>
  <2>1. h # n + 1
    BY <1>1, <1>2 DEF SectionLines
  <2> QED
    BY <1>1, <1>2, <2>1 DEF SectionLines
<1>4. /\ a \in h + 1 .. n + 1 /\ a \in RawLines(doc, {"h2"}) \cup {n + 1}
      /\ \A k \in h + 1 .. a - 1 : k \notin RawLines(doc, {"h2"})
  BY <1>1, <1>3, FirstAfterIs
<1>5. appendToSection(doc, section, entry) = Spliced(doc, a, a, entry)
  BY DEF appendToSection, h, a
<1> HIDE DEF a, n
<1>6. a <= n => Kind(doc, a) = "h2"
  BY <1>1, <1>4 DEF RawLines
<1>7. \A k \in h + 1 .. a - 1 : Kind(doc, k) # "h2"
  BY <1>1, <1>3, <1>4 DEF RawLines
<1>8. a \in 1 .. n + 1 /\ a \in a .. n + 1 /\ h \in 1 .. a - 1 /\ a + 1 .. a - 1 = {} /\ ~(a < a)
  BY <1>1, <1>3, <1>4
<1>9. Entered(doc, a, a, section)
  BY <1>3, <1>6, <1>7, <1>8 DEF Entered, Titled, n
<1> QED
  BY <1>5, <1>8, <1>9 DEF n

(* A replaced entry ends at the next title.                                *)
LEMMA ReplaceIs ==
  ASSUME NEW doc, IsDoc(doc), NEW section, NEW a, EntryAt(doc, section, a), NEW entry
  PROVE  \E b \in a + 1 .. Len(doc) + 1 :
           /\ replaceEntry(doc, a, entry) = Spliced(doc, a, b, entry)
           /\ a \in 1 .. Len(doc)
           /\ Plain(doc) => Entered(doc, a, b, section)
<1> DEFINE b == FirstAfter(doc, a, RawLines(doc, {"h2", "h3"}))
           n == Len(doc)
<1>1. n \in Nat /\ DOMAIN doc = 1 .. n
  BY DocIs DEF IsDoc
<1>2. a \in 1 .. n /\ Kind(doc, a) = "h3"
  BY <1>1 DEF EntryAt, Headings
<1>3. /\ b \in a + 1 .. n + 1 /\ b \in RawLines(doc, {"h2", "h3"}) \cup {n + 1}
      /\ \A k \in a + 1 .. b - 1 : k \notin RawLines(doc, {"h2", "h3"})
  BY <1>1, <1>2, FirstAfterIs
<1>4. replaceEntry(doc, a, entry) = Spliced(doc, a, b, entry)
  BY DEF replaceEntry
<1> HIDE DEF b, n
<1>5. b <= n => Kind(doc, b) \in Titled
  BY <1>1, <1>3 DEF RawLines, Titled
<1>6. \A k \in a + 1 .. b - 1 : Kind(doc, k) \notin Titled
  <2>1. \A k \in a + 1 .. b - 1 : k \in 1 .. n
    BY <1>1, <1>2, <1>3
  <2> QED
    BY <1>1, <1>3, <2>1 DEF RawLines, Titled
<1>7. ASSUME Plain(doc)
      PROVE  Entered(doc, a, b, section)
  <2>1. PICK h \in Parents(doc, a) : doc[h] = <<"h2", section>> /\ \A k \in Parents(doc, a) : k <= h
    BY DEF EntryAt, Under
  <2>2. h \in 1 .. a - 1
    BY <1>1, <1>2, <2>1 DEF Parents, SectionHeadings, Headings
  <2>3. ASSUME NEW k \in h + 1 .. a - 1, Kind(doc, k) = "h2"
        PROVE  FALSE
    <3>1. k \in 1 .. n /\ k < a /\ ~(k <= h)
      BY <1>1, <1>2, <2>2
    <3>2. \A m \in 1 .. Len(doc) : m \in Headings(doc) <=> Kind(doc, m) \in Heads
      BY <1>1, <1>7, PlainHeadings DEF n
    <3>3. k \in Headings(doc)
      BY <2>3, <3>1, <3>2 DEF Heads, n
    <3>4. k \in Parents(doc, a)
      BY <2>3, <3>1, <3>3 DEF Parents, SectionHeadings
    <3> QED
      BY <2>1, <3>1, <3>4
  <2>4. a \in 1 .. n + 1 /\ b \in a .. n + 1
    BY <1>1, <1>2, <1>3
  <2> QED
    BY <1>2, <1>5, <1>6, <2>1, <2>2, <2>3, <2>4 DEF Entered, n
<1> QED
  BY <1>2, <1>3, <1>4, <1>7 DEF n

(* There are finitely many entries.                                        *)
LEMMA EntriesAreFinite ==
  ASSUME NEW doc, IsDoc(doc), NEW section, NEW T \in SUBSET sectionEntries(doc, section)
  PROVE  IsFiniteSet(T)
<1> DEFINE f == [e \in T |-> e.line]
<1>1. \A e \in T : e.line \in 1 .. Len(doc) /\ e = EntryOf(doc, e.line)
  BY DocIs, SectionEntriesAre DEF IsDoc, EntryAt, Headings
<1>2. f \in Injection(T, 1 .. Len(doc))
  BY <1>1 DEF Injection, IsInjective
<1>3. Len(doc) \in Int /\ 1 \in Int
  BY DocIs DEF IsDoc
<1>4. IsFiniteSet(1 .. Len(doc))
  BY <1>3, FS_Interval
<1> QED
  BY <1>2, <1>4, FS_Injection

(* The line of text that the entry of a proposal has.                      *)
TextOf(p) == <<IF p.body \in Fencing THEN "fence" ELSE "text", <<p.body, day>>>>

(* What a save writes is the document with one entry more, or with one     *)
(* entry in place of the one with its title.                               *)
LEMMA RebuiltIs ==
  ASSUME NEW doc, IsDoc(doc), NEW p, SectionLines(doc, p.section) # {},
         Rebuilt(p, doc).action \in {"add", "replace"}
  PROVE  \E a \in 1 .. Len(doc) + 1 : \E b \in a .. Len(doc) + 1 :
           /\ Rebuilt(p, doc).next = New(doc, a, b, p.title, TextOf(p))
           /\ Rebuilt(p, doc).entry = renderEntry(p.title, p.body, day)
           /\ Rebuilt(p, doc).action = "replace" <=> a < b
           /\ Plain(doc) => /\ Entered(doc, a, b, p.section)
                            /\ SoleTitle(doc, a, b, p.section, p.title)
<1> DEFINE matching == {e \in sectionEntries(doc, p.section) : e.title = p.title}
           Target == CHOOSE e \in matching : TRUE
           replace == IF p.action = "replace" /\ Cardinality(matching) = 1
                        THEN [title |-> p.title, content |-> Target.content] ELSE Nothing
           f == [section |-> p.section, title |-> p.title, body |-> p.body, replace |-> replace]
           current == sectionEntries(doc, f.section)
           entry == renderEntry(f.title, f.body, day)
           sameTitle == {e \in current : e.title = f.title}
           target == {e \in current : f.replace # Nothing /\ e.title = f.replace.title
                                      /\ e.content = f.replace.content}
           First == CHOOSE e \in target : \A o \in target : e.line <= o.line
           r == Rebuilt(p, doc)
           Built(action, next) == Proposal(doc, f, day, action, next)
<1>1. /\ f.section = p.section /\ f.title = p.title /\ f.body = p.body /\ f.replace = replace
      /\ r = buildProposal(doc, f, day)
  BY DEF Rebuilt
<1> HIDE DEF f, r
<1>2. r = IF f.replace # Nothing
            THEN IF target = {} THEN Built("needs_resolution", Nothing)
                 ELSE Built("replace", replaceEntry(doc, First.line, entry))
          ELSE IF \E e \in sameTitle : e.content = Tail(entry) THEN Built("no_change", Nothing)
          ELSE IF Conflicts(current, f.title) THEN Built("needs_resolution", Nothing)
          ELSE Built("add", appendToSection(doc, f.section, entry))
  BY <1>1 DEF buildProposal
<1>3. \A action, next : /\ Built(action, next).action = action /\ Built(action, next).next = next
                        /\ action \in {"add", "replace"} => Built(action, next).entry = entry
  BY DEF Proposal
<1>4. Len(doc) \in Nat
  BY DocIs DEF IsDoc
<1> HIDE DEF Built, entry
<1>5. /\ entry = <<<<"h3", p.title>>, TextOf(p)>>
      /\ entry = renderEntry(p.title, p.body, day)
  BY <1>1 DEF entry, renderEntry, TextOf
<1>6. CASE replace = Nothing
  <2>1. /\ r = Built("add", appendToSection(doc, p.section, entry))
        /\ ~Conflicts(current, p.title)
    <3> HIDE DEF replace, target, First, current, sameTitle
    <3> QED
      BY <1>2, <1>3, <1>6, <1>1 DEF r
  <2>2. PICK a \in 1 .. Len(doc) + 1 :
          /\ appendToSection(doc, p.section, entry) = Spliced(doc, a, a, entry)
          /\ Entered(doc, a, a, p.section)
    BY AppendIs
  <2>3. SoleTitle(doc, a, a, p.section, p.title)
    <3>1. ASSUME NEW j, EntryAt(doc, p.section, j), AsRead[doc[j][2]] = p.title
          PROVE  FALSE
      <4>1. EntryOf(doc, j) \in sectionEntries(doc, p.section) /\ EntryOf(doc, j).title = p.title
        BY <3>1, SectionEntriesAre DEF EntryOf
      <4> QED
        BY <1>1, <2>1, <4>1 DEF Conflicts
    <3> QED
      BY <3>1 DEF SoleTitle
  <2>4. r.next = New(doc, a, a, p.title, TextOf(p)) /\ r.entry = entry /\ r.action = "add"
    BY <1>3, <1>5, <2>1, <2>2 DEF New
  <2>5. a \in a .. Len(doc) + 1 /\ ~(a < a)
    BY <1>4
  <2> QED
    BY <1>5, <2>2, <2>3, <2>4, <2>5 DEF r
<1>7. CASE replace # Nothing
  <2>1. /\ r = Built("replace", replaceEntry(doc, First.line, entry))
        /\ target # {}
    <3> HIDE DEF replace, target, First, current, sameTitle
    <3> QED
      BY <1>2, <1>3, <1>7, <1>1 DEF r
  <2>2. Cardinality(matching) = 1 /\ replace.title = p.title
    BY <1>7
  <2>3. PICK x : matching = {x}
    <3>1. IsFiniteSet(matching)
      BY EntriesAreFinite
    <3> HIDE DEF matching
    <3> QED
      BY <2>2, <3>1, FS_Singleton
  <2>4. target = {x}
    <3>1. target \subseteq {x}
      BY <1>1, <2>2, <2>3
    <3> QED
      BY <2>1, <3>1
  <2>5. x \in sectionEntries(doc, p.section) /\ x.title = p.title
    BY <2>3
  <2>6. EntryAt(doc, p.section, x.line) /\ x = EntryOf(doc, x.line)
    BY <2>5, SectionEntriesAre
  <2>7. x.line \in Nat
    BY <1>4, <2>6, DocIs DEF EntryAt, Headings, IsDoc
  <2>8. First = x
    <3> HIDE DEF target
    <3> QED
      BY <2>4, <2>7
  <2> DEFINE a == x.line
  <2>9. PICK b \in a + 1 .. Len(doc) + 1 :
          /\ replaceEntry(doc, a, entry) = Spliced(doc, a, b, entry)
          /\ a \in 1 .. Len(doc)
          /\ Plain(doc) => Entered(doc, a, b, p.section)
    BY <2>6, ReplaceIs
  <2>10. a \in 1 .. Len(doc) + 1 /\ b \in a .. Len(doc) + 1 /\ a < b
    BY <1>4, <2>9
  <2>11. SoleTitle(doc, a, b, p.section, p.title)
    <3>1. ASSUME NEW j, EntryAt(doc, p.section, j), AsRead[doc[j][2]] = p.title
          PROVE  j = a
      <4>1. /\ EntryOf(doc, j) \in sectionEntries(doc, p.section)
            /\ EntryOf(doc, j).title = p.title /\ EntryOf(doc, j).line = j
        BY <3>1, SectionEntriesAre DEF EntryOf
      <4>2. EntryOf(doc, j) \in matching
        BY <4>1
      <4> QED
        BY <2>3, <4>1, <4>2
    <3> QED
      BY <2>10, <3>1 DEF SoleTitle
  <2>12. r.next = New(doc, a, b, p.title, TextOf(p)) /\ r.entry = entry /\ r.action = "replace"
    <3>1. r = Built("replace", New(doc, a, b, p.title, TextOf(p)))
      BY <1>5, <2>1, <2>8, <2>9 DEF New
    <3> HIDE DEF a
    <3> QED
      BY <1>3, <3>1
  <2> HIDE DEF a
  <2> QED
    BY <1>5, <2>9, <2>10, <2>11, <2>12 DEF r
<1> QED
  BY <1>6, <1>7

(* The fields of a call.                                                   *)
CallShape(c) == DOMAIN c = {"pc", "proposal", "seen"}

(* A fact to remember.                                                     *)
Fact(section, title, body, replace) ==
  [section |-> section, title |-> title, body |-> body, replace |-> replace]

(* A proposal was made, on some day, for a document that has its section.  *)
WasBuilt(p) ==
  \E s, t, b, r, addedOn : p = buildProposal(p.base, Fact(s, t, b, r), addedOn)

MadeForMemory(p) ==
  /\ IsDoc(p.base) /\ parseMemory(p.base) /\ WasBuilt(p)
  /\ p.section \in Sections /\ SectionLines(p.base, p.section) # {}

(* Nothing is a value of its own, no record of a proposal.                 *)
ProposalsAreSome ==
  \A doc, f, addedOn, action, next : Proposal(doc, f, addedOn, action, next) # Nothing

(* What a call holds when it is suspended there.                           *)
CallHolds(c) ==
  /\ CallShape(c)
  /\ c.pc \in {"idle", "init", "proposed", "saving"}
  /\ c.pc \in {"idle", "init"} => c.proposal = Nothing
  /\ c.pc \in {"proposed", "saving"} =>
       /\ MadeForMemory(c.proposal)
       /\ ProposalsAreSome => c.proposal # Nothing
  /\ c.pc = "saving" => IsDoc(c.seen) /\ parseMemory(c.seen)

(* What every state of the memory satisfies.                               *)
MemoryInv ==
  /\ day \in 0 .. MaxDay
  /\ file # Nothing => IsDoc(file)
  /\ DOMAIN call = Writers
  /\ \A w \in Writers : CallHolds(call[w])

(* A step of a call changes that call.                                     *)
LEMMA OneCallChanges ==
  ASSUME MemoryInv, NEW w \in Writers, NEW c, CallHolds(c), call' = [call EXCEPT ![w] = c]
  PROVE  DOMAIN call' = Writers /\ \A v \in Writers : CallHolds(call'[v])
BY DEF MemoryInv

(* An idle call holds nothing.                                             *)
LEMMA IdleCallFits == CallHolds(IdleCall)
BY DEF CallHolds, CallShape, IdleCall

(* Whatever buildProposal answers is a proposal for its arguments.         *)
LEMMA BuiltIs ==
  ASSUME NEW doc, NEW f, NEW addedOn
  PROVE  LET p == buildProposal(doc, f, addedOn)
         IN  /\ p.base = doc /\ p.section = f.section
             /\ ProposalsAreSome => p # Nothing
<1> DEFINE p == buildProposal(doc, f, addedOn)
<1>1. \E action, next : p = Proposal(doc, f, addedOn, action, next)
  BY DEF buildProposal
<1> HIDE DEF p
<1>2. \A action, next : /\ Proposal(doc, f, addedOn, action, next).base = doc
                        /\ Proposal(doc, f, addedOn, action, next).section = f.section
  BY DEF Proposal
<1>3. p.base = doc /\ p.section = f.section
  BY <1>1, <1>2
<1>4. ProposalsAreSome => p # Nothing
  BY <1>1 DEF ProposalsAreSome
<1> QED
  BY <1>3, <1>4 DEF p

(* A save writes a document.                                               *)
LEMMA SaveWritesADocument ==
  ASSUME MemoryInv, NEW w \in Writers, SaveWrite(w)
  PROVE  LET c == call[w]
             p == c.proposal
             doc == c.seen
             r == Rebuilt(p, doc)
         IN  /\ file' = r.next /\ p = r /\ r.action \in {"add", "replace"}
             /\ IsDoc(doc) /\ p.section \in Sections /\ SectionLines(doc, p.section) # {}
             /\ IsDoc(file')
<1> DEFINE c == call[w]
           p == c.proposal
           doc == c.seen
           r == Rebuilt(p, doc)
<1>1. /\ c.pc = "saving" /\ file' = r.next /\ p = r /\ p.base = doc /\ p.action \in {"add", "replace"}
  BY DEF SaveWrite, Savable, SamePatch
<1>2. CallHolds(c)
  BY DEF MemoryInv
<1> HIDE DEF c, r
<1>3. MadeForMemory(p) /\ IsDoc(doc)
  BY <1>1, <1>2 DEF CallHolds
<1>4. SectionLines(doc, p.section) # {} /\ p.section \in Sections
  BY <1>1, <1>3 DEF MadeForMemory
<1>5. r.action \in {"add", "replace"}
  BY <1>1
<1> HIDE DEF p, doc
<1>6. PICK a \in 1 .. Len(doc) + 1 : \E b \in a .. Len(doc) + 1 :
           r.next = New(doc, a, b, p.title, TextOf(p))
  BY <1>3, <1>4, <1>5, RebuiltIs DEF r
<1>7. IsDoc(r.next)
  BY <1>3, <1>6, SplicedLines
<1> QED
  BY <1>1, <1>3, <1>4, <1>5, <1>7 DEF c, p, doc, r

(* Every step keeps it: what is saved, edited or put in place by init is a *)
(* document, and a call carries only what it read.                         *)
LEMMA MemoryInvNext ==
  ASSUME MemoryInv, [MemoryNext]_memoryVars
  PROVE  MemoryInv'
<1>1. CASE UNCHANGED memoryVars
  BY <1>1 DEF MemoryInv, memoryVars
<1>2. CASE EditFile
  <2>1. IsDoc(file')
    BY <1>2, MemoryConstants DEF EditFile, IsDoc
  <2> QED
    BY <1>2, <2>1 DEF EditFile, MemoryInv
<1>3. CASE NextDay
  BY <1>3, MemoryConstants DEF NextDay, MemoryInv
<1>4. ASSUME NEW w \in Writers,
             \/ Propose(w) \/ SaveStep(w) \/ Forget(w) \/ InitLooks(w) \/ InitWrites(w)
      PROVE  MemoryInv'
  <2>1. CallHolds(call[w]) /\ CallShape(call[w]) /\ DOMAIN call = Writers
    BY DEF MemoryInv, CallHolds
  <2>2. CASE Propose(w)
    <3>1. PICK s \in Sections : \E t \in Titles, b \in Bodies : \E r \in Targets(file, s) :
             LET f == [section |-> s, title |-> t, body |-> b, replace |-> r]
                 p == buildProposal(file, f, day)
             IN  /\ Proposable(file, f)
                 /\ call' = [call EXCEPT ![w] = [IdleCall EXCEPT !.pc = "proposed", !.proposal = p]]
      BY <2>2 DEF Propose
    <3>2. PICK f, p : /\ f.section = s /\ p = buildProposal(file, f, day)
                      /\ \E t, b, r : f = Fact(s, t, b, r)
                      /\ SectionLines(file, f.section) # {}
                      /\ call' = [call EXCEPT ![w] = [IdleCall EXCEPT !.pc = "proposed",
                                                                      !.proposal = p]]
      <4>1. PICK t \in Titles, b \in Bodies : \E r \in Targets(file, s) :
               LET f == [section |-> s, title |-> t, body |-> b, replace |-> r]
                   p == buildProposal(file, f, day)
               IN  /\ Proposable(file, f)
                   /\ call' = [call EXCEPT ![w] = [IdleCall EXCEPT !.pc = "proposed", !.proposal = p]]
        BY <3>1
      <4>2. PICK r \in Targets(file, s) :
               LET f == [section |-> s, title |-> t, body |-> b, replace |-> r]
                   p == buildProposal(file, f, day)
               IN  /\ Proposable(file, f)
                   /\ call' = [call EXCEPT ![w] = [IdleCall EXCEPT !.pc = "proposed", !.proposal = p]]
        BY <4>1
      <4> DEFINE f == [section |-> s, title |-> t, body |-> b, replace |-> r]
                 p == buildProposal(file, f, day)
      <4>3. f.section = s /\ f = Fact(s, t, b, r)
        BY DEF Fact
      <4>4. /\ Proposable(file, f)
            /\ call' = [call EXCEPT ![w] = [IdleCall EXCEPT !.pc = "proposed", !.proposal = p]]
        BY <4>2
      <4> HIDE DEF f
      <4> QED
        BY <4>3, <4>4 DEF Proposable
    <3>3. file # Nothing /\ IsDoc(file) /\ parseMemory(file)
      BY <2>2 DEF Propose, Readable, MemoryInv
    <3>4. p.base = file /\ p.section = s /\ (ProposalsAreSome => p # Nothing)
      BY <3>2, BuiltIs
    <3> DEFINE c == [IdleCall EXCEPT !.pc = "proposed", !.proposal = p]
    <3>5. MadeForMemory(p)
      BY <3>2, <3>3, <3>4 DEF MadeForMemory, WasBuilt
    <3>6. CallShape(c) /\ c.pc = "proposed" /\ c.proposal = p
      BY DEF IdleCall, CallShape
    <3> HIDE DEF c
    <3>7. CallHolds(c)
      BY <3>4, <3>5, <3>6 DEF CallHolds
    <3>8. call' = [call EXCEPT ![w] = c]
      BY <3>2 DEF c
    <3> QED
      BY <2>2, <3>7, <3>8, OneCallChanges DEF Propose, MemoryInv
  <2>3. CASE SaveRead(w)
    <3> DEFINE c == [call[w] EXCEPT !.pc = "saving", !.seen = file]
    <3>1. /\ call' = [call EXCEPT ![w] = c] /\ call[w].pc = "proposed"
          /\ file # Nothing /\ parseMemory(file) /\ IsDoc(file)
      BY <2>3 DEF SaveRead, Readable, MemoryInv
    <3>2. CallShape(c) /\ c.pc = "saving" /\ c.proposal = call[w].proposal /\ c.seen = file
      BY <2>1 DEF CallShape
    <3> HIDE DEF c
    <3>3. CallHolds(c)
      BY <2>1, <3>1, <3>2 DEF CallHolds
    <3> QED
      BY <2>3, <3>1, <3>3, OneCallChanges DEF SaveRead, MemoryInv
  <2>4. CASE SaveWrite(w) \/ SaveRefused(w)
    <3> DEFINE c == [call[w] EXCEPT !.pc = "proposed", !.seen = Nothing]
    <3>1. call' = [call EXCEPT ![w] = c] /\ call[w].pc = "saving" /\ day' = day
      BY <2>4 DEF SaveWrite, SaveRefused
    <3>2. CallShape(c) /\ c.pc = "proposed" /\ c.proposal = call[w].proposal
      BY <2>1 DEF CallShape
    <3> HIDE DEF c
    <3>3. CallHolds(c)
      BY <2>1, <3>1, <3>2 DEF CallHolds
    <3>4. file' # Nothing => IsDoc(file')
      BY <2>4, SaveWritesADocument DEF SaveRefused, MemoryInv
    <3> QED
      BY <3>1, <3>3, <3>4, OneCallChanges DEF MemoryInv
  <2>5. CASE Forget(w)
    BY <2>5, IdleCallFits, OneCallChanges DEF Forget, MemoryInv
  <2>6. CASE InitLooks(w)
    <3> DEFINE c == [call[w] EXCEPT !.pc = "init"]
    <3>1. call' = [call EXCEPT ![w] = c] /\ call[w].pc = "idle"
      BY <2>6 DEF InitLooks
    <3>2. CallShape(c) /\ c.pc = "init" /\ c.proposal = call[w].proposal
      BY <2>1 DEF CallShape
    <3> HIDE DEF c
    <3>3. CallHolds(c)
      BY <2>1, <3>1, <3>2 DEF CallHolds
    <3> QED
      BY <2>6, <3>1, <3>3, OneCallChanges DEF InitLooks, MemoryInv
  <2>7. CASE InitWrites(w)
    <3>1. IsDoc(file')
      BY <2>7, MemoryConstants DEF InitWrites, IsDoc
    <3> QED
      BY <2>7, <3>1, IdleCallFits, OneCallChanges DEF InitWrites, MemoryInv
  <2> QED
    BY <1>4, <2>2, <2>3, <2>4, <2>5, <2>6, <2>7 DEF SaveStep
<1> QED
  BY <1>1, <1>2, <1>3, <1>4 DEF MemoryNext

(* It holds at the start.                                                  *)
LEMMA MemoryInvInit ==
  ASSUME MemoryInit
  PROVE  MemoryInv
<1>1. file # Nothing => IsDoc(file)
  BY MemoryConstants DEF MemoryInit, IsDoc
<1>2. DOMAIN call = Writers /\ \A w \in Writers : call[w] = IdleCall
  BY DEF MemoryInit
<1> QED
  BY <1>1, <1>2, IdleCallFits, MemoryConstants DEF MemoryInv, MemoryInit

(* Every call is where propose(), save() or brain init can be suspended,   *)
(* and a proposal or a read of save() is always of a document that the     *)
(* parser accepts.                                                         *)
THEOREM MemoryTypes ==
  ASSUME ProposalsAreSome
  PROVE  MemorySpec => []MemoryTypeOK
<1>1. MemoryInit => MemoryInv
  BY MemoryInvInit
<1>2. MemoryInv /\ [MemoryNext]_memoryVars => MemoryInv'
  BY MemoryInvNext
<1>3. MemoryInv => MemoryTypeOK
  BY DEF MemoryInv, CallHolds, MadeForMemory, MemoryTypeOK
<1> QED
  BY <1>1, <1>2, <1>3, PTL DEF MemorySpec

(* save() never gives a section two entries of one title, whatever was     *)
(* proposed, replaced or changed meanwhile: it adds only beside other      *)
(* titles, and replaces only the sole entry with the title. For documents  *)
(* without headings inside fences, which the parser and the splices of     *)
(* proposal.ts see alike, and entries that the parser reads as they were   *)
(* proposed.                                                               *)
THEOREM SavesKeepTitlesUnique == MemorySpec => TitlesStayUnique
<1>1. MemoryInit => MemoryInv
  BY MemoryInvInit
<1>2. MemoryInv /\ [MemoryNext]_memoryVars => MemoryInv'
  BY MemoryInvNext
<1>3. ASSUME MemoryInv, NEW w \in Writers, SaveWrite(w), Plain(call[w].seen),
             ReadsBack(call[w].proposal), NEW s \in Sections,
             NEW e \in sectionEntries(file', s), NEW o \in sectionEntries(file', s),
             e.title = o.title, e # o
      PROVE  \E d, g \in sectionEntries(call[w].seen, s) :
               d.title = e.title /\ g.title = e.title /\ d # g
  <2> DEFINE p == call[w].proposal
             doc == call[w].seen
  <2>1. /\ file' = Rebuilt(p, doc).next /\ Rebuilt(p, doc).action \in {"add", "replace"}
        /\ IsDoc(doc) /\ SectionLines(doc, p.section) # {}
    BY <1>3, SaveWritesADocument
  <2>5. TextOf(p)[1] = "text" /\ AsRead[p.title] = p.title
    BY <1>3 DEF ReadsBack, TextOf
  <2> HIDE DEF p
  <2>2. PICK a \in 1 .. Len(doc) + 1 : \E b \in a .. Len(doc) + 1 :
          /\ file' = New(doc, a, b, p.title, TextOf(p))
          /\ Entered(doc, a, b, p.section)
          /\ SoleTitle(doc, a, b, p.section, p.title)
    BY <1>3, <2>1, RebuiltIs
  <2>3. PICK b \in a .. Len(doc) + 1 :
          /\ file' = New(doc, a, b, p.title, TextOf(p))
          /\ Entered(doc, a, b, p.section)
          /\ SoleTitle(doc, a, b, p.section, p.title)
    BY <2>2
  <2>4. Replaces(doc, file', a, b, p.section, p.title, TextOf(p))
    BY <1>3, <2>1, <2>3, <2>5, NewReplaces
  <2> QED
    BY <1>3, <2>3, <2>4, <2>5, TitlesStay
<1>4. MemoryInv /\ [MemoryNext]_memoryVars =>
        [\A w \in Writers : SaveWrite(w) /\ Plain(call[w].seen) /\ ReadsBack(call[w].proposal) =>
           \A s \in Sections : \A e, o \in sectionEntries(file', s) :
             e.title = o.title /\ e # o =>
               \E d, g \in sectionEntries(call[w].seen, s) :
                 d.title = e.title /\ g.title = e.title /\ d # g]_memoryVars
  BY <1>3
<1> QED
  BY <1>1, <1>2, <1>4, PTL DEF MemorySpec, TitlesStayUnique

(* save() changes one entry: the proposed one is in its section, at most   *)
(* the replaced one is gone, and every other entry keeps its section,      *)
(* title and text. Under the same condition.                               *)
THEOREM SavesChangeOneEntry == MemorySpec => OneEntryChanges
<1>1. MemoryInit => MemoryInv
  BY MemoryInvInit
<1>2. MemoryInv /\ [MemoryNext]_memoryVars => MemoryInv'
  BY MemoryInvNext
<1>3. ASSUME MemoryInv, NEW w \in Writers, SaveWrite(w), Plain(call[w].seen),
             ReadsBack(call[w].proposal)
      PROVE  LET p == call[w].proposal
                 old == Entries(call[w].seen)
                 gone == old \ Entries(file')
             IN  /\ Entries(file') = (old \ gone) \cup {<<p.section, p.title, Tail(p.entry)>>}
                 /\ Cardinality(gone) <= (IF p.action = "replace" THEN 1 ELSE 0)
  <2> DEFINE p == call[w].proposal
             doc == call[w].seen
             text == TextOf(p)
  <2>1. /\ file' = Rebuilt(p, doc).next /\ Rebuilt(p, doc).action \in {"add", "replace"}
        /\ IsDoc(doc) /\ SectionLines(doc, p.section) # {} /\ p = Rebuilt(p, doc)
        /\ p.section \in Sections
    BY <1>3, SaveWritesADocument
  <2>8. text[1] = "text" /\ AsRead[p.title] = p.title
    BY <1>3 DEF ReadsBack, TextOf
  <2> HIDE DEF p, doc, text
  <2>2. Plain(doc)
    BY <1>3 DEF doc
  <2>3. PICK a \in 1 .. Len(doc) + 1 : \E b \in a .. Len(doc) + 1 :
          /\ file' = New(doc, a, b, p.title, text)
          /\ p.entry = renderEntry(p.title, p.body, day)
          /\ p.action = "replace" <=> a < b
          /\ Entered(doc, a, b, p.section)
    BY <2>1, <2>2, RebuiltIs DEF text
  <2>4. PICK b \in a .. Len(doc) + 1 :
          /\ file' = New(doc, a, b, p.title, text)
          /\ p.entry = renderEntry(p.title, p.body, day)
          /\ p.action = "replace" <=> a < b
          /\ Entered(doc, a, b, p.section)
    BY <2>3
  <2>5. Replaces(doc, file', a, b, p.section, p.title, text)
    BY <2>1, <2>2, <2>4, <2>8, NewReplaces
  <2>6. Tail(p.entry) = <<text>>
    BY <2>4 DEF renderEntry, TextOf, text
  <2>7. LET old == Entries(doc)
            gone == old \ Entries(file')
        IN  /\ Entries(file') = (old \ gone) \cup {<<p.section, p.title, <<text>>>>}
            /\ Cardinality(gone) <= (IF a < b THEN 1 ELSE 0)
    <3>1. \A new : Replaces(doc, new, a, b, p.section, p.title, text) =>
            /\ Entries(new) = (Entries(doc) \ (Entries(doc) \ Entries(new)))
                                \cup {<<p.section, p.title, <<text>>>>}
            /\ Cardinality(Entries(doc) \ Entries(new)) <= (IF a < b THEN 1 ELSE 0)
      BY <2>1, <2>8, OneEntryMoves
    <3> QED
      BY <2>5, <3>1
  <2> QED
    BY <2>4, <2>6, <2>7 DEF p, doc
<1>4. MemoryInv /\ [MemoryNext]_memoryVars =>
        [\A w \in Writers : SaveWrite(w) /\ Plain(call[w].seen) /\ ReadsBack(call[w].proposal) =>
           LET p == call[w].proposal
               old == Entries(call[w].seen)
               gone == old \ Entries(file')
           IN  /\ Entries(file') = (old \ gone) \cup {<<p.section, p.title, Tail(p.entry)>>}
               /\ Cardinality(gone) <= (IF p.action = "replace" THEN 1 ELSE 0)]_memoryVars
  BY <1>3
<1> QED
  BY <1>1, <1>2, <1>4, PTL DEF MemorySpec, OneEntryChanges

(* Nor is Nothing an entry to replace.                                     *)
TargetsAreSome ==
  \A title, content : [title |-> title, content |-> content] # Nothing

(* What save() derives from the title of a fresh proposal, and from the    *)
(* file, is the entry that propose() was told to replace.                  *)
LEMMA FreshIsRebuilt ==
  ASSUME TargetsAreSome, NEW p, NEW doc, IsDoc(doc), WasBuilt(p), Fresh(p, doc)
  PROVE  Rebuilt(p, doc) = p
<1>1. PICK s, t, b, r, addedOn : p = buildProposal(doc, Fact(s, t, b, r), addedOn)
  BY DEF WasBuilt, Fresh
<1> DEFINE f == Fact(s, t, b, r)
           entry == renderEntry(t, b, addedOn)
           current == sectionEntries(doc, s)
           sameTitle == {e \in current : e.title = t}
           target == {e \in current : r # Nothing /\ e.title = r.title /\ e.content = r.content}
           First == CHOOSE e \in target : \A o \in target : e.line <= o.line
           Built(action, next) == Proposal(doc, f, addedOn, action, next)
<1>2. f.section = s /\ f.title = t /\ f.body = b /\ f.replace = r
  BY DEF Fact
<1> HIDE DEF f
<1>3. p = IF r # Nothing
            THEN IF target = {} THEN Built("needs_resolution", Nothing)
                 ELSE Built("replace", replaceEntry(doc, First.line, entry))
          ELSE IF \E e \in sameTitle : e.content = Tail(entry) THEN Built("no_change", Nothing)
          ELSE IF Conflicts(current, t) THEN Built("needs_resolution", Nothing)
          ELSE Built("add", appendToSection(doc, s, entry))
  BY <1>1, <1>2 DEF buildProposal, f
<1>4. \A action, next :
        /\ Built(action, next).action = action /\ Built(action, next).next = next
        /\ Built(action, next).section = s /\ Built(action, next).title = t
        /\ Built(action, next).body = b
        /\ action \in {"add", "replace"} => Built(action, next).entry = entry
  BY <1>2 DEF Proposal
<1> HIDE DEF Built, First, target, sameTitle
<1>5. p.section = s /\ p.title = t /\ p.body = b
  BY <1>3, <1>4
<1>6. p.action \in {"add", "replace"} /\ p.entry = renderEntry(t, b, day)
  BY <1>5 DEF Fresh
<1>7. addedOn = day
  <2>1. renderEntry(t, b, addedOn) = renderEntry(t, b, day)
    BY <1>3, <1>4, <1>6
  <2>2. \A d : renderEntry(t, b, d)[2][2][2] = d
    BY DEF renderEntry
  <2> QED
    BY <2>1, <2>2
<1>8. CASE p.action = "add"
  <2>1. r = Nothing
    BY <1>3, <1>4, <1>8
  <2>2. Rebuilt(p, doc) = buildProposal(doc, Fact(s, t, b, Nothing), day)
    BY <1>5, <1>8 DEF Rebuilt, Fact
  <2> QED
    BY <1>1, <1>7, <2>1, <2>2
<1>9. CASE p.action = "replace"
  <2>1. p = Built("replace", p.next)
    BY <1>3, <1>4, <1>9
  <2>2. PICK x \in current : /\ x.title = t /\ p.next = replaceEntry(doc, x.line, p.entry)
                             /\ \A o \in current : o.title = t => o = x
    BY <1>5, <1>9 DEF Fresh, Replaceable
  <2> DEFINE matching == {e \in current : e.title = t}
             found == [title |-> t, content |-> x.content]
             g == Fact(s, t, b, found)
             again == {e \in current : found # Nothing /\ e.title = found.title
                                       /\ e.content = found.content}
  <2>3. matching = {x} /\ Cardinality(matching) = 1
    <3>1. matching = {x}
      BY <2>2
    <3> QED
      BY <3>1, FS_Singleton
  <2>4. Rebuilt(p, doc) = buildProposal(doc, g, day)
    <3>1. x = CHOOSE e \in matching : TRUE
      BY <2>3
    <3> HIDE DEF current
    <3> QED
      BY <1>5, <1>9, <2>3, <3>1 DEF Rebuilt, Fact, current
  <2>5. found # Nothing /\ again = {x}
    <3>1. found # Nothing
      BY DEF TargetsAreSome
    <3>2. found.title = t /\ found.content = x.content
      OBVIOUS
    <3> HIDE DEF found
    <3> QED
      BY <2>2, <3>1, <3>2
  <2>6. g.section = s /\ g.title = t /\ g.body = b /\ g.replace = found
    BY DEF Fact
  <2> DEFINE line == (CHOOSE e \in again : \A o \in again : e.line <= o.line).line
  <2>7. line = x.line
    <3>1. x.line <= x.line
      <4>1. x.line \in Nat
        BY DocIs, SectionEntriesAre DEF EntryAt, Headings, IsDoc
      <4> QED
        BY <4>1
    <3> HIDE DEF again
    <3> QED
      BY <2>5, <3>1
  <2>8. Rebuilt(p, doc) = Proposal(doc, g, day, "replace", replaceEntry(doc, line, entry))
    <3> HIDE DEF g, found
    <3> QED
      BY <1>7, <2>4, <2>5, <2>6 DEF buildProposal
  <2>9. p.entry = entry
    BY <1>4, <2>1
  <2>10. Proposal(doc, g, day, "replace", p.next) = Proposal(doc, f, day, "replace", p.next)
    <3> HIDE DEF g
    <3> QED
      BY <1>2, <2>6 DEF Proposal
  <2> HIDE DEF line, g
  <2> QED
    BY <1>7, <2>1, <2>2, <2>7, <2>8, <2>9, <2>10 DEF Built
<1> QED
  BY <1>6, <1>8, <1>9

(* save() never refuses a change that can still be made as it was shown:   *)
(* from the title alone it finds the entry to replace, and it comes to the *)
(* same text, so that nobody has to propose twice what nothing has touched.*)
THEOREM FreshProposalsSave ==
  ASSUME TargetsAreSome
  PROVE  MemorySpec => FreshProposalsAreSaved
<1>1. MemoryInit => MemoryInv
  BY MemoryInvInit
<1>2. MemoryInv /\ [MemoryNext]_memoryVars => MemoryInv'
  BY MemoryInvNext
<1>3. ASSUME MemoryInv, NEW w \in Writers, SaveRefused(w),
             Fresh(call[w].proposal, call[w].seen)
      PROVE  FALSE
  <2> DEFINE p == call[w].proposal
             doc == call[w].seen
  <2>1. call[w].pc = "saving" /\ ~Savable(w) /\ CallHolds(call[w])
    BY <1>3 DEF SaveRefused, MemoryInv
  <2>2. IsDoc(doc) /\ WasBuilt(p)
    BY <2>1 DEF CallHolds, MadeForMemory
  <2>3. Rebuilt(p, doc) = p
    BY <1>3, <2>2, FreshIsRebuilt
  <2>4. p.base = doc /\ p.action \in {"add", "replace"} /\ Safe(p.next)
    BY <1>3 DEF Fresh
  <2> QED
    BY <2>1, <2>3, <2>4 DEF Savable, SamePatch
<1>4. MemoryInv /\ [MemoryNext]_memoryVars =>
        [\A w \in Writers : SaveRefused(w) => ~Fresh(call[w].proposal, call[w].seen)]_memoryVars
  BY <1>3
<1> QED
  BY <1>1, <1>2, <1>4, PTL DEF MemorySpec, FreshProposalsAreSaved
=============================================================================
