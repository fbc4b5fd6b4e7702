---------------------------- MODULE CodeGraphPool ----------------------------
(***************************************************************************)
(* The CodeGraph handles one local brain process keeps                     *)
(* (packages/local-brain/src/codegraph/provider.ts, local-brain.ts): a Map *)
(* from project roots to handles whose order is the order of use, filled   *)
(* by initialize() and explore(), emptied by eviction and by close().      *)
(* What CodeGraph answers is left out; it is a library, and each of its    *)
(* calls may fail.                                                         *)
(***************************************************************************)
EXTENDS Integers, Sequences, FiniteSets

CONSTANTS
  Calls,       \* explore() and initialize() calls
  Roots,       \* project roots
  MaxHandles,  \* bound: what CodeGraph.open and CodeGraph.init return in all
  MaxOpen,     \* maxOpenProjects
  NoRoot, NoHandle

ASSUME PoolConstants ==
  /\ MaxOpen \in Nat \ {0} /\ MaxHandles \in Nat
  /\ NoRoot \notin Roots

Handles == 1 .. MaxHandles

VARIABLES
  pool,        \* #projects, from the least to the most recently used
  handles,     \* the root a handle is for and whether it is open
  query,       \* the calls: what they wait for
  closed,      \* LocalBrain.close() has run
  since        \* history: the other projects used since the handle of a
               \* querying call was the pool's most recent one

poolVars == <<pool, handles, query, closed, since>>

-----------------------------------------------------------------------------
IdleQuery == [pc |-> "idle", kind |-> "explore", root |-> NoRoot, handle |-> NoHandle]

Pooled == {pool[i].root : i \in DOMAIN pool}
HandleOf(root) == (CHOOSE i \in DOMAIN pool : pool[i].root = root)

(* #touch: deleted and set again, so that the Map lists it last.           *)
Touched(root) ==
  LET i == HandleOf(root)
  IN  SubSeq(pool, 1, i - 1) \o SubSeq(pool, i + 1, Len(pool)) \o <<pool[i]>>

Closing(hs) == [h \in Handles |-> IF h \in hs THEN [handles[h] EXCEPT !.open = FALSE]
                                  ELSE handles[h]]

(* A use of a project, for the calls that query another.                   *)
Uses(root) ==
  [c \in Calls |-> IF query[c].pc = "querying" THEN since[c] \cup ({root} \ {query[c].root})
                   ELSE since[c]]

(* explore() and initialize(), up to the first await of a CodeGraph call.  *)
Start(c, kind, root) ==
  /\ ~closed
  /\ query[c].pc = "idle"
  /\ root \notin Pooled
  /\ query' = [query EXCEPT ![c] = [pc |-> "opening", kind |-> kind, root |-> root,
                                    handle |-> NoHandle]]
  /\ UNCHANGED <<pool, handles, closed, since>>

(* Mutant: the project keeps its place in the Map.                        *)
MutantStartPooled(c, root) ==
  /\ ~closed
  /\ query[c].pc = "idle"
  /\ root \in Pooled
  /\ query' = [query EXCEPT ![c] = [pc |-> "querying", kind |-> "explore", root |-> root,
                                    handle |-> pool[HandleOf(root)].handle]]
  /\ since' = [Uses(root) EXCEPT ![c] = {}]
  /\ UNCHANGED <<pool, handles, closed>>

StartPooled(c, root) ==
  /\ ~closed
  /\ query[c].pc = "idle"
  /\ root \in Pooled
  /\ pool' = Touched(root)
  /\ query' = [query EXCEPT ![c] = [pc |-> "querying", kind |-> "explore", root |-> root,
                                    handle |-> pool[HandleOf(root)].handle]]
  /\ since' = [Uses(root) EXCEPT ![c] = {}]
  /\ UNCHANGED <<handles, closed>>

(* status(), which initialize() also returns for a project in the pool.    *)
Status(root) ==
  /\ ~closed
  /\ root \in Pooled
  /\ pool' = Touched(root)
  /\ since' = Uses(root)
  /\ UNCHANGED <<handles, query, closed>>

Opened(c, h) ==
  /\ query[c].pc = "opening"
  /\ {g \in Handles : handles[g].root # NoRoot} = 1 .. h - 1
  /\ handles' = [handles EXCEPT ![h] = [root |-> query[c].root, open |-> TRUE]]
  /\ query' = [query EXCEPT ![c].pc = "watching", ![c].handle = h]
  /\ UNCHANGED <<pool, closed, since>>

(* The catch of #open and initialize(). A handle whose indexAll() or       *)
(* watcher failed stays open, and nothing refers to it any more.           *)
OpenFails(c) ==
  /\ query[c].pc \in {"opening", "watching"}
  /\ query' = [query EXCEPT ![c] = IdleQuery]
  /\ UNCHANGED <<pool, handles, closed, since>>

(* The loop of #remember, for a pool that is at most one too long.         *)
MutantKept == IF Len(pool) <= MaxOpen THEN pool ELSE Tail(pool)
Kept == IF Len(pool) < MaxOpen THEN pool ELSE Tail(pool)

(* Map.set: a root that is still in the pool keeps its place.              *)
KeepsPlace(root) == \E i \in DOMAIN Kept : Kept[i].root = root
Remembered(entry) ==
  IF KeepsPlace(entry.root)
    THEN [i \in DOMAIN Kept |-> IF Kept[i].root = entry.root THEN entry ELSE Kept[i]]
    ELSE Append(Kept, entry)

Evicted == {pool[i].handle : i \in 1 .. Len(pool) - Len(Kept)}

Remember(c) ==
  /\ query[c].pc = "watching"
  /\ pool' = Remembered([root |-> query[c].root, handle |-> query[c].handle])
  /\ handles' = Closing(Evicted)
  /\ query' = [query EXCEPT ![c] = IF query[c].kind = "explore" THEN [@ EXCEPT !.pc = "querying"]
                                   ELSE IdleQuery]
  /\ since' = [Uses(query[c].root) EXCEPT ![c] = IF KeepsPlace(query[c].root) THEN Roots ELSE {}]
  /\ UNCHANGED closed

(* sync() and buildContext() answer or throw: the handle may be closed by  *)
(* now, and nothing is retried.                                            *)
Answer(c) ==
  /\ query[c].pc = "querying"
  /\ query' = [query EXCEPT ![c] = IdleQuery]
  /\ since' = [since EXCEPT ![c] = {}]
  /\ UNCHANGED <<pool, handles, closed>>

(* LocalBrain.close(). Calls under way are not waited for.                 *)
Close ==
  /\ ~closed
  /\ handles' = Closing({pool[i].handle : i \in DOMAIN pool})
  /\ pool' = <<>>
  /\ closed' = TRUE
  /\ UNCHANGED <<query, since>>

-----------------------------------------------------------------------------
PoolInit ==
  /\ pool = <<>>
  /\ handles = [h \in Handles |-> [root |-> NoRoot, open |-> FALSE]]
  /\ query = [c \in Calls |-> IdleQuery]
  /\ closed = FALSE
  /\ since = [c \in Calls |-> {}]

Progress(c) ==
  \/ \E h \in Handles : Opened(c, h)
  \/ OpenFails(c) \/ Remember(c) \/ Answer(c)

PoolNext ==
  \/ Close
  \/ \E root \in Roots : Status(root)
  \/ \E c \in Calls : \/ Progress(c)
                      \/ \E root \in Roots : \/ StartPooled(c, root)
                                             \/ Start(c, "explore", root)
                                             \/ Start(c, "initialize", root)

PoolSpec == PoolInit /\ [][PoolNext]_poolVars

-----------------------------------------------------------------------------
(* Whatever opens, fails and is evicted at once, the pool never has more   *)
(* projects than it may, nor one twice, and what it hands out is open and  *)
(* belongs to the project it was asked for. So does what a call holds.     *)
PoolSound ==
  /\ pool \in Seq([root : Roots, handle : Handles])
  /\ Len(pool) <= MaxOpen
  /\ \A i \in DOMAIN pool :
       /\ handles[pool[i].handle] = [root |-> pool[i].root, open |-> TRUE]
       /\ \A j \in DOMAIN pool : pool[j].root = pool[i].root => j = i
  /\ \A c \in Calls :
       (query[c].handle # NoHandle) => handles[query[c].handle].root = query[c].root

(* Eviction closes the handle of a call that is still waiting for its      *)
(* answer, but never early: apart from close(), only when the other        *)
(* projects that the limit allows have all been used since the call was    *)
(* given the handle. A call whose project another call has opened and      *)
(* pooled meanwhile is promised nothing, since Map.set keeps the old place.*)
EvictedAfterOthers ==
  [][\A c \in Calls :
       /\ query[c].pc = "querying" /\ handles[query[c].handle].open
       /\ ~handles'[query[c].handle].open /\ ~closed'
       => \E rs \in SUBSET since[c] : Cardinality(rs) = MaxOpen - 1]_poolVars

(* local-repository-brain-design.md:324, "[The] process owns these handles *)
(* so two harnesses do not create competing embedded writers": a project   *)
(* has one open handle at most.                                            *)
OneWriterPerProject ==
  \A g, h \in Handles :
    handles[g].open /\ handles[h].open /\ handles[g].root = handles[h].root => g = h
=============================================================================
