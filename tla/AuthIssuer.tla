----------------------------- MODULE AuthIssuer -----------------------------
(***************************************************************************)
(* The auth service as a whole: the HTTP handlers of services/auth/src/    *)
(* http.ts and the issuer behind them (issuer.ts), over the challenge      *)
(* store and the catalog keys. Handlers of one process interleave at their *)
(* awaits; a handler is named by the pc of the await it is suspended at.   *)
(***************************************************************************)
EXTENDS ChallengeStore, CatalogKeys

CONSTANTS
  Requests,       \* POST /v1/auth/session handlers that may run at once
  None,           \* a value not known yet
  Window,         \* RATE_LIMIT_WINDOW_MS, in ticks
  MaxPerWindow,   \* MAX_CHALLENGES_PER_WINDOW
  MaxEntries      \* MAX_RATE_LIMIT_ENTRIES

ASSUME IssuerConstants ==
  /\ Users \subseteq Usernames
  /\ None \notin Audiences
  /\ Window \in Nat \ {0}
  /\ MaxPerWindow \in Nat \ {0}
  /\ MaxEntries \in Nat

VARIABLES
  rateLimits,   \* the Map of consumeRateLimit, keyed by <<username, audience>>
  issuing,      \* issue() calls hashing their nonce, by challenge id
  req,          \* exchangeSignature() calls in flight, by handler
  sessions,     \* history: every session token signed, in order
  minted,       \* history: what each challenge was issued for, and when
  tries,        \* history: attempts admitted against each challenge
  life          \* history: how many processes there have been

issuerVars == <<rateLimits, issuing, req, sessions, minted, tries, life>>
vars == <<storeVars, resolverVars, issuerVars>>

Pairs == Usernames \X Audiences

RateEntry == [count : Nat, expires : Nat]
Issue == [username : Usernames, audience : Audiences, expires : Nat]
Minted == [username : Usernames, audience : Audiences, expires : Nat, at : Nat, life : Nat]

Request ==
  [pc         : {"attempt", "resolve", "verify", "consume", "sign"},
   id         : Ids,
   username   : Usernames,
   rightNonce : BOOLEAN,                   \* it echoes the challenge's nonce
   signer     : Keys,                      \* the key that signed the envelope
   audience   : Audiences \cup {None},     \* copied by consumeAttempt
   key        : Keys \cup {NoKey},         \* returned by resolve
   arrived    : Nat,                       \* history: edition served on arrival
   edition    : Nat]                       \* history: edition key came from

Session == [id : Ids, sub : Usernames, aud : Audiences, key : Keys, iat : Nat,
            arrived : Nat, edition : Nat]

IssuerTypeOK ==
  /\ DOMAIN rateLimits \subseteq Pairs
  /\ \A p \in DOMAIN rateLimits : rateLimits[p] \in RateEntry
  /\ DOMAIN issuing \subseteq Ids
  /\ \A id \in DOMAIN issuing : issuing[id] \in Issue
  /\ DOMAIN req \subseteq Requests
  /\ \A r \in DOMAIN req : req[r] \in Request
  /\ sessions \in Seq(Session)
  /\ DOMAIN minted \subseteq Ids
  /\ \A id \in DOMAIN minted : minted[id] \in Minted
  /\ tries \in [Ids -> Nat]
  /\ life \in Nat

AuthTypeOK == StoreTypeOK /\ ResolverTypeOK /\ IssuerTypeOK

Empty == [x \in {} |-> None]

AuthInit ==
  /\ StoreInit
  /\ ResolverInit
  /\ rateLimits = Empty
  /\ issuing = Empty
  /\ req = Empty
  /\ sessions = <<>>
  /\ minted = Empty
  /\ tries = [id \in Ids |-> 0]
  /\ life = 1

-----------------------------------------------------------------------------
(* POST /v1/auth/challenge                                                 *)

(* The entries consumeRateLimit leaves after dropping the expired ones.    *)
Running == {p \in DOMAIN rateLimits : rateLimits[p].expires > now}

(* Mutant of RateAdmits: one too many per window.                          *)
MutantRateAdmits(p) ==
  IF p \in Running THEN rateLimits[p].count <= MaxPerWindow
                   ELSE Cardinality(Running) < MaxEntries

RateAdmits(p) ==
  IF p \in Running THEN rateLimits[p].count < MaxPerWindow
                   ELSE Cardinality(Running) < MaxEntries

(* consumeRateLimit for an admitted pair: count it, or open a window.      *)
RateCounted(p) ==
  [q \in Running \cup {p} |->
     IF q # p THEN rateLimits[q]
     ELSE IF p \in Running THEN [rateLimits[p] EXCEPT !.count = @ + 1]
     ELSE [count |-> 1, expires |-> now + Window]]

(* issueChallenge up to the await in issue(): the rate limit is taken and  *)
(* the expiry is read from the clock before the nonce is hashed.           *)
IssueStart(id, username, audience) ==
  /\ up /\ ready
  /\ id \notin DOMAIN minted
  /\ RateAdmits(<<username, audience>>)
  /\ rateLimits' = RateCounted(<<username, audience>>)
  /\ issuing' = [i \in DOMAIN issuing \cup {id} |->
       IF i = id THEN [username |-> username, audience |-> audience, expires |-> now + Ttl]
                 ELSE issuing[i]]
  /\ minted' = [i \in DOMAIN minted \cup {id} |->
       IF i = id THEN [username |-> username, audience |-> audience, expires |-> now + Ttl,
                       at |-> now, life |-> life]
                 ELSE minted[i]]
  /\ UNCHANGED <<storeVars, resolverVars, req, sessions, tries, life>>

(* 429: the refused call has dropped the expired entries all the same.     *)
IssueRefused(username, audience) ==
  /\ up /\ ready
  /\ ~RateAdmits(<<username, audience>>)
  /\ rateLimits' = [p \in Running |-> rateLimits[p]]
  /\ UNCHANGED <<storeVars, resolverVars, issuing, req, sessions, minted, tries, life>>

(* The rest of issue(): insert the challenge and answer the client.        *)
IssueInsert(id) ==
  /\ id \in DOMAIN issuing
  /\ Insert(id, issuing[id].username, issuing[id].audience, issuing[id].expires)
  /\ issuing' = [i \in DOMAIN issuing \ {id} |-> issuing[i]]
  /\ UNCHANGED <<now, resolverVars, rateLimits, req, sessions, minted, tries, life>>

-----------------------------------------------------------------------------
(* POST /v1/auth/session                                                   *)

Answered == DOMAIN minted \ DOMAIN issuing

Suspend(r, record) ==
  req' = [q \in DOMAIN req \cup {r} |-> IF q = r THEN record ELSE req[q]]

(* 401 authentication failed, whatever the cause.                          *)
Answer(r) == req' = [q \in DOMAIN req \ {r} |-> req[q]]

(* A client presents a challenge it was given, now or long after; up to    *)
(* the await hashNonce in consumeAttempt.                                  *)
Begin(r) ==
  /\ up
  /\ r \notin DOMAIN req
  /\ \E id \in Answered, username \in Usernames, rightNonce \in BOOLEAN, signer \in Keys :
       Suspend(r, [pc |-> "attempt", id |-> id, username |-> username,
                   rightNonce |-> rightNonce, signer |-> signer, audience |-> None,
                   key |-> NoKey, arrived |-> served, edition |-> 0])
  /\ UNCHANGED <<storeVars, resolverVars, rateLimits, issuing, sessions, minted, tries, life>>

(* Mutant of AttemptRefused: a challenge that is gone is never answered.   *)
MutantAttemptRefused(r) ==
  /\ r \in DOMAIN req /\ req[r].pc = "attempt"
  /\ req[r].id \in Live
  /\ ~Admits(req[r].id, req[r].username)
  /\ CleanUpOnly
  /\ Answer(r)
  /\ UNCHANGED <<now, resolverVars, rateLimits, issuing, sessions, minted, tries, life>>

AttemptRefused(r) ==
  /\ r \in DOMAIN req /\ req[r].pc = "attempt"
  /\ ~Admits(req[r].id, req[r].username)
  /\ CleanUpOnly
  /\ Answer(r)
  /\ UNCHANGED <<now, resolverVars, rateLimits, issuing, sessions, minted, tries, life>>

(* Mutant of AttemptAdmitted: a wrong nonce costs no attempt.              *)
MutantAttemptAdmitted(r) ==
  /\ r \in DOMAIN req /\ req[r].pc = "attempt"
  /\ Admits(req[r].id, req[r].username)
  /\ tries' = [tries EXCEPT ![req[r].id] = @ + 1]
  /\ IF req[r].rightNonce
     THEN /\ CountAttempt(req[r].id)
          /\ Suspend(r, [req[r] EXCEPT !.pc = "resolve",
                                       !.audience = challenges[req[r].id].audience])
     ELSE /\ CleanUpOnly
          /\ Answer(r)
  /\ UNCHANGED <<now, resolverVars, rateLimits, issuing, sessions, minted, life>>

(* The attempt is counted before the nonce is compared.                    *)
AttemptAdmitted(r) ==
  /\ r \in DOMAIN req /\ req[r].pc = "attempt"
  /\ Admits(req[r].id, req[r].username)
  /\ CountAttempt(req[r].id)
  /\ tries' = [tries EXCEPT ![req[r].id] = @ + 1]
  /\ IF req[r].rightNonce
     THEN Suspend(r, [req[r] EXCEPT !.pc = "resolve", !.audience = challenges[req[r].id].audience])
     ELSE Answer(r)
  /\ UNCHANGED <<now, resolverVars, rateLimits, issuing, sessions, minted, life>>

(* Mutant of Resolve: keeps using the key it saw first.                    *)
MutantResolve(r) ==
  /\ r \in DOMAIN req /\ req[r].pc = "resolve"
  /\ req[r].username \in Users
  /\ keys[req[r].username] # NoKey
  /\ catalog[1].keys[req[r].username] # NoKey
  /\ Suspend(r, [req[r] EXCEPT !.pc = "verify", !.key = catalog[1].keys[req[r].username],
                               !.edition = 1])
  /\ UNCHANGED <<storeVars, resolverVars, rateLimits, issuing, sessions, minted, tries, life>>

(* resolve() reads the map as it is at this moment.                        *)
Resolve(r) ==
  /\ r \in DOMAIN req /\ req[r].pc = "resolve"
  /\ req[r].username \in Users
  /\ keys[req[r].username] # NoKey
  /\ Suspend(r, [req[r] EXCEPT !.pc = "verify", !.key = keys[req[r].username], !.edition = served])
  /\ UNCHANGED <<storeVars, resolverVars, rateLimits, issuing, sessions, minted, tries, life>>

(* ssh-keygen accepts exactly the signature made with the resolved key.    *)
VerifyAccepts(r) ==
  /\ r \in DOMAIN req /\ req[r].pc = "verify"
  /\ req[r].signer = req[r].key
  /\ Suspend(r, [req[r] EXCEPT !.pc = "consume"])
  /\ UNCHANGED <<storeVars, resolverVars, rateLimits, issuing, sessions, minted, tries, life>>

(* A failure while resolving or verifying: no such key, a bad signature,   *)
(* an aborted request, the five-second kill, a failed spawn.               *)
ExchangeFails(r) ==
  /\ r \in DOMAIN req /\ req[r].pc \in {"resolve", "verify"}
  /\ Answer(r)
  /\ UNCHANGED <<storeVars, resolverVars, rateLimits, issuing, sessions, minted, tries, life>>

(* Mutant of ConsumeSucceeds: leaves the challenge in the store.           *)
MutantConsumeSucceeds(r) ==
  /\ r \in DOMAIN req /\ req[r].pc = "consume"
  /\ req[r].id \in Live
  /\ CleanUpOnly
  /\ Suspend(r, [req[r] EXCEPT !.pc = "sign"])
  /\ UNCHANGED <<now, resolverVars, rateLimits, issuing, sessions, minted, tries, life>>

ConsumeSucceeds(r) ==
  /\ r \in DOMAIN req /\ req[r].pc = "consume"
  /\ Delete(req[r].id)
  /\ Suspend(r, [req[r] EXCEPT !.pc = "sign"])
  /\ UNCHANGED <<now, resolverVars, rateLimits, issuing, sessions, minted, tries, life>>

ConsumeFails(r) ==
  /\ r \in DOMAIN req /\ req[r].pc = "consume"
  /\ req[r].id \notin Live
  /\ CleanUpOnly
  /\ Answer(r)
  /\ UNCHANGED <<now, resolverVars, rateLimits, issuing, sessions, minted, tries, life>>

(* The clock is read again, the JWT is signed and the client is answered.  *)
SignSession(r) ==
  /\ r \in DOMAIN req /\ req[r].pc = "sign"
  /\ sessions' = Append(sessions,
       [id |-> req[r].id, sub |-> req[r].username, aud |-> req[r].audience, key |-> req[r].key,
        iat |-> now, arrived |-> req[r].arrived, edition |-> req[r].edition])
  /\ Answer(r)
  /\ UNCHANGED <<storeVars, resolverVars, rateLimits, issuing, minted, tries, life>>

-----------------------------------------------------------------------------
(* The process dies: both Maps and every handler are gone, the challenges  *)
(* and tokens clients hold are not.                                        *)
Crash ==
  /\ ResolverCrash
  /\ StoreCrash
  /\ rateLimits' = Empty
  /\ issuing' = Empty
  /\ req' = Empty
  /\ life' = life + 1
  /\ UNCHANGED <<sessions, minted, tries>>

ExchangeStep(r) ==
  \/ AttemptRefused(r) \/ AttemptAdmitted(r) \/ Resolve(r) \/ VerifyAccepts(r)
  \/ ExchangeFails(r) \/ ConsumeSucceeds(r) \/ ConsumeFails(r) \/ SignSession(r)

ChallengeStep ==
  \E id \in Ids :
    \/ IssueInsert(id)
    \/ \E username \in Usernames, audience \in Audiences : IssueStart(id, username, audience)

AuthNext ==
  \/ ChallengeStep
  \/ \E username \in Usernames, audience \in Audiences : IssueRefused(username, audience)
  \/ \E r \in Requests : Begin(r) \/ ExchangeStep(r)
  \/ Tick /\ UNCHANGED <<resolverVars, issuerVars>>
  \/ ResolverStep /\ UNCHANGED <<storeVars, issuerVars>>
  \/ Crash

(* Every await of a handler settles: hashing and the lock always, resolve  *)
(* and verify by an answer, a timeout or the client's abort.               *)
AuthFairness == \A r \in Requests : WF_vars(ExchangeStep(r))

AuthSpec == AuthInit /\ [][AuthNext]_vars /\ AuthFairness

-----------------------------------------------------------------------------
(* A challenge is good for at most one session, however many exchanges of  *)
(* it run at once and whatever process restarts lie between them.          *)
SingleUse ==
  \A i, j \in DOMAIN sessions : sessions[i].id = sessions[j].id => i = j

(* A session is for the user and the audience its challenge was issued     *)
(* for: neither can change between the challenge and the token.            *)
SessionMatchesChallenge ==
  \A i \in DOMAIN sessions :
    LET s == sessions[i] IN
      /\ s.id \in DOMAIN minted
      /\ minted[s.id].username = s.sub
      /\ minted[s.id].audience = s.aud

(* A challenge admits at most MaxAttempts attempts over all its exchanges, *)
(* those with a wrong nonce and those still in flight included.            *)
AttemptCap == \A id \in Ids : tries[id] <= MaxAttempts

Granted(r) == r \in DOMAIN req /\ req[r].pc = "sign"

(* docs/api-reference.md:188, "The challenge expires after 60 seconds": an *)
(* exchange takes its challenge before the challenge's expiry.             *)
TakenBeforeExpiry ==
  [][\A r \in Requests :
       (~Granted(r) /\ Granted(r)') => now < minted[req'[r].id].expires]_vars

(* The key behind a session was its user's key in an edition the service   *)
(* had accepted, at least as new as the one it served when the exchange    *)
(* arrived: a rotated-out key does not survive its replacement.            *)
SessionKeyCurrent ==
  \A i \in DOMAIN sessions :
    LET s == sessions[i] IN
      /\ s.edition \in 1 .. Latest
      /\ Acceptable(s.edition)
      /\ catalog[s.edition].keys[s.sub] = s.key
      /\ s.edition >= s.arrived

(* The challenges p's user obtained for p's audience in the last window    *)
(* before t from one process.                                              *)
Recent(p, l, t) ==
  {id \in DOMAIN minted : /\ <<minted[id].username, minted[id].audience>> = p
                          /\ minted[id].life = l
                          /\ minted[id].at \in (t - Window) + 1 .. t}

(* A window opens at its first request and does not slide: any Window      *)
(* ticks meet at most two windows, and the first request of the earlier    *)
(* one lies before them. So a client gets at most 19 challenges within 60  *)
(* seconds, and can get them at the boundary of two windows, where         *)
(* docs/api-reference.md:162 says 10.                                      *)
RateBound ==
  \A p \in Pairs, l \in 1 .. life, t \in 0 .. now :
    Cardinality(Recent(p, l, t)) <= 2 * MaxPerWindow - 1

(* The tickets behind the service's state: a challenge is open from the    *)
(* moment it is drawn until its session is signed or its last holder, the  *)
(* store or the exchange that took it, loses it.                           *)
TicketOf(id, username, audience) == [id |-> id, username |-> username, audience |-> audience]

OpenTickets ==
  {TicketOf(id, issuing[id].username, issuing[id].audience) : id \in DOMAIN issuing}
  \cup {TicketOf(id, challenges[id].username, challenges[id].audience) : id \in Present}
  \cup {TicketOf(req[r].id, req[r].username, req[r].audience) : r \in {q \in Requests : Granted(q)}}

GrantedTickets ==
  {TicketOf(sessions[i].id, sessions[i].sub, sessions[i].aud) : i \in DOMAIN sessions}

Grants == INSTANCE SessionGrant WITH
  drawn <- DOMAIN minted, open <- OpenTickets, granted <- GrantedTickets

(* The service implements SessionGrant.                                    *)
ImplementsSessionGrant == Grants!GrantSpec

(* Every exchange is answered.                                             *)
EveryExchangeAnswered ==
  \A r \in Requests : r \in DOMAIN req ~> r \notin DOMAIN req
=============================================================================
