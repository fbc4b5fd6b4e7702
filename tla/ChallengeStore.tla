--------------------------- MODULE ChallengeStore ---------------------------
(***************************************************************************)
(* The in-memory store of outstanding login challenges                     *)
(* (services/auth/src/challenge-store.ts, InMemoryChallengeStore).         *)
(*                                                                         *)
(* Every operation runs its body inside withLock, and every body is        *)
(* synchronous: it runs alone, and the operation's only interleaving point *)
(* is the await hashNonce before it. Each operator below is one such body; *)
(* the handlers of AuthIssuer put the awaits between them. The nonce is    *)
(* abstracted to whether the caller presents the right one.                *)
(***************************************************************************)
EXTENDS Integers, FiniteSets

CONSTANTS
  Usernames,     \* names a client may send, known to the catalog or not
  Audiences,     \* services a session can be for
  Ids,           \* challenge ids; randomBytes never draws one twice
  Ttl,           \* CHALLENGE_TTL_MS
  MaxAttempts,   \* MAX_ATTEMPTS
  CleanupLimit,  \* CLEANUP_LIMIT
  MaxTime        \* bound: the last instant of the clock

ASSUME StoreConstants ==
  /\ Ttl \in Nat
  /\ MaxAttempts \in Nat
  /\ CleanupLimit \in Nat
  /\ MaxTime \in Nat

VARIABLES
  now,          \* clock().getTime(), in ticks
  challenges,   \* the Map, from the ids present to their records
  inserted      \* insertions so far: a Map iterates in insertion order

storeVars == <<now, challenges, inserted>>

Challenge == [username : Usernames, audience : Audiences, expires : Nat,
              attempts : 0 .. MaxAttempts, order : Nat]

Present == DOMAIN challenges

StoreTypeOK ==
  /\ now \in 0 .. MaxTime
  /\ Present \subseteq Ids
  /\ \A id \in Present : challenges[id] \in Challenge
  /\ inserted \in Nat

StoreInit ==
  /\ now = 0
  /\ challenges = [id \in {} |-> 0]
  /\ inserted = 0

-----------------------------------------------------------------------------
(* Mutant of Expired: a challenge still counts at its expiry instant.      *)
MutantExpired == {id \in Present : challenges[id].expires < now}

Expired == {id \in Present : challenges[id].expires <= now}

(* cleanupExpired walks the Map in insertion order and stops after         *)
(* CleanupLimit deletions.                                                 *)
CleanedUp ==
  {id \in Expired :
     Cardinality({e \in Expired : challenges[e].order < challenges[id].order}) < CleanupLimit}

Live == Present \ CleanedUp

(* The store after a cleanup, holding only the ids of S.                   *)
Keep(S) == [id \in Live \cap S |-> challenges[id]]

(* issue, once the nonce is hashed: clean up and insert.                   *)
Insert(id, username, audience, expires) ==
  /\ challenges' = [i \in Live \cup {id} |->
       IF i = id THEN [username |-> username, audience |-> audience, expires |-> expires,
                       attempts |-> 0, order |-> inserted]
                 ELSE challenges[i]]
  /\ inserted' = inserted + 1

(* Mutants of Admits: one attempt too many; anybody's challenge.           *)
MutantAdmitsOneMore(id, username) ==
  /\ id \in Live
  /\ challenges[id].username = username
  /\ challenges[id].attempts <= MaxAttempts

MutantAdmitsAnyUser(id, username) ==
  /\ id \in Live
  /\ challenges[id].attempts < MaxAttempts

(* consumeAttempt admits a caller that names a live challenge of its own   *)
(* with attempts left, and counts the attempt whatever its nonce is.       *)
Admits(id, username) ==
  /\ id \in Live
  /\ challenges[id].username = username
  /\ challenges[id].attempts < MaxAttempts

CountAttempt(id) ==
  /\ challenges' = [i \in Live |->
       IF i = id THEN [challenges[i] EXCEPT !.attempts = @ + 1] ELSE challenges[i]]
  /\ UNCHANGED inserted

(* An operation that throws still leaves the cleaned-up store behind.      *)
CleanUpOnly ==
  /\ challenges' = Keep(Present)
  /\ UNCHANGED inserted

(* Mutant of Delete: does not notice that the challenge is already gone.   *)
MutantDelete(id) ==
  /\ challenges' = Keep(Present \ {id})
  /\ UNCHANGED inserted

(* consumeSuccess deletes the challenge; it throws when a cleanup or a     *)
(* concurrent exchange has already taken it.                               *)
Delete(id) ==
  /\ id \in Live
  /\ challenges' = Keep(Present \ {id})
  /\ UNCHANGED inserted

(* The process dies: the Map is gone.                                      *)
StoreCrash ==
  /\ challenges' = [id \in {} |-> 0]
  /\ UNCHANGED <<now, inserted>>

Tick ==
  /\ now < MaxTime
  /\ now' = now + 1
  /\ UNCHANGED <<challenges, inserted>>
=============================================================================
