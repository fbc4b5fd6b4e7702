------------------------------ MODULE D26Client ------------------------------
(***************************************************************************)
(* The token client of an engineer's machine (packages/d26-auth/src/       *)
(* client.ts): a cached token per audience, one exchange in flight per     *)
(* audience that every caller of get() shares, one retry after a 401.      *)
(*                                                                         *)
(* Time is counted in ticks of 30 seconds and a token is the ticks it has  *)
(* left, 0 when it has just expired.                                       *)
(***************************************************************************)
EXTENDS Integers, FiniteSets

CONSTANTS
  Audiences,   \* services a token can be for
  Callers,     \* calls of get() that may be waiting
  Exchanges,   \* exchanges that may be running
  None,        \* no token, exchange or audience
  Life,        \* ticks a new session lasts
  Reuse,       \* a cached token with more ticks left is used again: 60 s
  Expired,     \* ticks after which an old token makes no difference any more
  MaxFaults    \* bound: refusals, lost requests, failed signatures

ASSUME ClientConstants ==
  /\ None \notin Audiences \cup Exchanges \cup Int
  /\ Life \in Nat /\ Reuse \in Nat /\ Life > Reuse /\ Expired \in Nat
  /\ MaxFaults \in Nat

VARIABLES
  cache,      \* per audience, the ticks the cached token has left
  inFlight,   \* per audience, the exchange whose promise get() hands out
  exchange,   \* the exchanges: where they are suspended, for whom
  caller,     \* the callers of get()
  faults      \* faults so far

clientVars == <<cache, inFlight, exchange, caller, faults>>

Token == -Expired .. Life
MaybeToken == Token \cup {None}

NoExchange == [pc |-> "free", audience |-> None, owner |-> None, retried |-> FALSE]
NoCall == [pc |-> "idle", audience |-> None, on |-> None, token |-> None]

Waiting(c) == caller[c].pc = "waiting"
Running(x) == exchange[x].pc # "free"

ClientTypeOK ==
  /\ cache \in [Audiences -> MaybeToken]
  /\ inFlight \in [Audiences -> Exchanges \cup {None}]
  /\ exchange \in [Exchanges -> [pc : {"free", "challenge", "sign", "session"},
                                 audience : Audiences \cup {None},
                                 owner : Callers \cup {None},
                                 retried : BOOLEAN]]
  /\ caller \in [Callers -> [pc : {"idle", "waiting", "served", "failed"},
                             audience : Audiences \cup {None},
                             on : Exchanges \cup {None},
                             token : MaybeToken]]
  /\ faults \in 0 .. MaxFaults

ClientInit ==
  /\ cache = [a \in Audiences |-> None]
  /\ inFlight = [a \in Audiences |-> None]
  /\ exchange = [x \in Exchanges |-> NoExchange]
  /\ caller = [c \in Callers |-> NoCall]
  /\ faults = 0

-----------------------------------------------------------------------------
MutantReusable(a) == cache[a] # None

(* A minute must be left, because the token is still to be sent.           *)
Reusable(a) == cache[a] # None /\ cache[a] > Reuse

(* get(): the cached token, or the exchange in flight, or a new one.       *)
GetCached(c, a) ==
  /\ caller[c].pc = "idle"
  /\ Reusable(a)
  /\ caller' = [caller EXCEPT ![c] =
       [pc |-> "served", audience |-> a, on |-> None, token |-> cache[a]]]
  /\ UNCHANGED <<cache, inFlight, exchange, faults>>

WaitsOn(c, a, x) ==
  caller' = [caller EXCEPT ![c] =
    [pc |-> "waiting", audience |-> a, on |-> x, token |-> None]]

GetJoins(c, a) ==
  /\ caller[c].pc = "idle"
  /\ ~Reusable(a)
  /\ inFlight[a] # None
  /\ WaitsOn(c, a, inFlight[a])
  /\ UNCHANGED <<cache, inFlight, exchange, faults>>

GetStarts(c, a) ==
  /\ caller[c].pc = "idle"
  /\ ~Reusable(a)
  /\ inFlight[a] = None
  /\ \E x \in Exchanges : ~Running(x)
  /\ LET x == CHOOSE x \in Exchanges : ~Running(x) IN
       /\ inFlight' = [inFlight EXCEPT ![a] = x]
       /\ exchange' = [exchange EXCEPT ![x] =
            [pc |-> "challenge", audience |-> a, owner |-> c, retried |-> FALSE]]
       /\ WaitsOn(c, a, x)
  /\ UNCHANGED <<cache, faults>>

Get(c, a) == GetCached(c, a) \/ GetJoins(c, a) \/ GetStarts(c, a)

(* Mutant of Invalidate: also forgets the promise.                         *)
MutantInvalidate(a) ==
  /\ cache' = [cache EXCEPT ![a] = None]
  /\ inFlight' = [inFlight EXCEPT ![a] = None]
  /\ UNCHANGED <<exchange, caller, faults>>

(* invalidate(): the cached token only, never the exchange in flight.      *)
Invalidate(a) ==
  /\ cache' = [cache EXCEPT ![a] = None]
  /\ UNCHANGED <<inFlight, exchange, caller, faults>>

(* The auth service handed out a challenge, and ssh-keygen signed it.      *)
Challenged(x) ==
  /\ exchange[x].pc = "challenge"
  /\ exchange' = [exchange EXCEPT ![x].pc = "sign"]
  /\ UNCHANGED <<cache, inFlight, caller, faults>>

Signed(x) ==
  /\ exchange[x].pc = "sign"
  /\ exchange' = [exchange EXCEPT ![x].pc = "session"]
  /\ UNCHANGED <<cache, inFlight, caller, faults>>

(* The promise settles: every caller that waits on it has its outcome, and *)
(* finally() forgets it.                                                   *)
Settles(x, result, token) ==
  /\ caller' = [c \in Callers |->
       IF Waiting(c) /\ caller[c].on = x
         THEN [caller[c] EXCEPT !.pc = result, !.on = None, !.token = token]
         ELSE caller[c]]
  /\ inFlight' = [inFlight EXCEPT ![exchange[x].audience] = None]
  /\ exchange' = [exchange EXCEPT ![x] = NoExchange]

(* A session answer is cached for every later caller. The answer reaches   *)
(* the machine within the tick in which it was signed.                     *)
SessionAnswered(x) ==
  /\ exchange[x].pc = "session"
  /\ cache' = [cache EXCEPT ![exchange[x].audience] = Life]
  /\ Settles(x, "served", Life)
  /\ UNCHANGED faults

(* 401 from either endpoint: the first one is tried again from the start.  *)
Refused(x) ==
  /\ exchange[x].pc \in {"challenge", "session"}
  /\ faults < MaxFaults
  /\ faults' = faults + 1
  /\ IF exchange[x].retried
       THEN Settles(x, "failed", None) /\ UNCHANGED cache
       ELSE /\ cache' = [cache EXCEPT ![exchange[x].audience] = None]
            /\ exchange' = [exchange EXCEPT ![x].pc = "challenge", ![x].retried = TRUE]
            /\ UNCHANGED <<inFlight, caller>>

(* Any other failure: no answer, another status, an answer the schema does *)
(* not allow, the agent missing, five seconds of ssh-keygen, or the abort  *)
(* of the signal of the caller that began the exchange.                    *)
ExchangeFails(x) ==
  /\ Running(x)
  /\ faults < MaxFaults
  /\ faults' = faults + 1
  /\ Settles(x, "failed", None)
  /\ UNCHANGED cache

(* The caller took the outcome.                                            *)
Return(c) ==
  /\ caller[c].pc \in {"served", "failed"}
  /\ caller' = [caller EXCEPT ![c] = NoCall]
  /\ UNCHANGED <<cache, inFlight, exchange, faults>>

ExchangeStep(x) == Challenged(x) \/ Signed(x) \/ SessionAnswered(x)

Older(t) == IF t = None \/ t = -Expired THEN t ELSE t - 1

ClientTick ==
  /\ cache' = [a \in Audiences |-> Older(cache[a])]
  /\ caller' = [c \in Callers |-> [caller[c] EXCEPT !.token = Older(@)]]
  /\ UNCHANGED <<inFlight, exchange, faults>>

(* The process that holds the client dies.                                 *)
ClientCrash ==
  /\ cache' = [a \in Audiences |-> None]
  /\ inFlight' = [a \in Audiences |-> None]
  /\ exchange' = [x \in Exchanges |-> NoExchange]
  /\ caller' = [c \in Callers |-> NoCall]

-----------------------------------------------------------------------------
(* However calls, retries, invalidations and failures interleave, an       *)
(* audience has one exchange at a time, and whoever waits, waits for it:   *)
(* no promise is forgotten or kept after its exchange has ended.           *)
OneExchangeAtATime ==
  /\ \A a \in Audiences :
       \A x \in Exchanges : Running(x) /\ exchange[x].audience = a <=> inFlight[a] = x
  /\ \A c \in Callers : Waiting(c) => inFlight[caller[c].audience] = caller[c].on
=============================================================================
