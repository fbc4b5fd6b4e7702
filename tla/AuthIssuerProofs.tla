-------------------------- MODULE AuthIssuerProofs --------------------------
(***************************************************************************)
(* What the auth service guarantees for any users, audiences, challenges,  *)
(* handlers and bounds: single use, the right user and audience, the cap   *)
(* on attempts, the keys behind the sessions, the rate of issuing, the     *)
(* expiry of a challenge, and that it implements SessionGrant.             *)
(***************************************************************************)
EXTENDS AuthIssuer, KeyResolverProofs, FiniteSetTheorems

-----------------------------------------------------------------------------
(* What the store's operations do to the challenges.                       *)

(* A cleanup, with or without a deletion, only removes challenges.         *)
LEMMA KeepRemoves ==
  ASSUME NEW S, challenges' = Keep(S)
  PROVE  /\ Present' \subseteq Present \cap S
         /\ \A i \in Present' : challenges'[i] = challenges[i]
  BY DEF Keep, Present, Live

(* Counting an attempt changes nothing but that challenge's attempts.      *)
LEMMA CountAttemptCounts ==
  ASSUME NEW id, CountAttempt(id)
  PROVE  /\ Present' \subseteq Present
         /\ \A i \in Present' : i # id => challenges'[i] = challenges[i]
         /\ id \in Present' =>
              challenges'[id] = [challenges[id] EXCEPT !.attempts = @ + 1]
  BY DEF CountAttempt, Present, Live

(* An insertion adds one fresh record and removes at most expired ones.    *)
LEMMA InsertAdds ==
  ASSUME NEW id, NEW u, NEW a, NEW x, Insert(id, u, a, x)
  PROVE  /\ Present' \subseteq Present \cup {id}
         /\ \A i \in Present' : i # id => challenges'[i] = challenges[i]
         /\ challenges'[id] = [username |-> u, audience |-> a, expires |-> x,
                               attempts |-> 0, order |-> inserted]
  BY DEF Insert, Present, Live

(* A handler that goes on to its next await.                               *)
LEMMA SuspendSets ==
  ASSUME NEW r, NEW record, Suspend(r, record)
  PROVE  /\ DOMAIN req' = DOMAIN req \cup {r}
         /\ req'[r] = record
         /\ \A q \in DOMAIN req : q # r => req'[q] = req[q]
  BY DEF Suspend

(* A handler that answers is gone; the others are untouched.               *)
LEMMA AnswerRemoves ==
  ASSUME NEW r, Answer(r)
  PROVE  /\ DOMAIN req' = DOMAIN req \ {r}
         /\ \A q \in DOMAIN req' : req'[q] = req[q]
  BY DEF Answer

-----------------------------------------------------------------------------
(* Type correctness.                                                       *)

(* What a handler knows at each await: the audience once its attempt is    *)
(* admitted, the key once it is resolved.                                  *)
StageOK ==
  \A r \in DOMAIN req :
    /\ req[r].pc # "attempt" => req[r].audience \in Audiences
    /\ req[r].pc \in {"verify", "consume", "sign"} => req[r].key \in Keys

TypeInv == AuthTypeOK /\ StageOK

(* The initial state is well typed.                                        *)
LEMMA TypeInvInit == AuthInit => TypeInv
<1> SUFFICES ASSUME AuthInit
             PROVE  TypeInv
  OBVIOUS
<1>1. StoreTypeOK
  BY StoreConstants DEF AuthInit, StoreInit, StoreTypeOK, Present
<1>2. ResolverTypeOK
  BY ResolverInvInit DEF AuthInit, ResolverInv
<1>3. IssuerTypeOK
  BY DEF AuthInit, Empty, IssuerTypeOK
<1>4. StageOK
  BY DEF AuthInit, Empty, StageOK
<1> QED
  BY <1>1, <1>2, <1>3, <1>4 DEF TypeInv, AuthTypeOK

(* The store keeps its types.                                              *)
LEMMA StoreTypeNext == TypeInv /\ [AuthNext]_vars => StoreTypeOK'
<1> SUFFICES ASSUME TypeInv, [AuthNext]_vars
             PROVE  StoreTypeOK'
  OBVIOUS
<1> USE DEF TypeInv, AuthTypeOK
<1>1. CASE UNCHANGED storeVars
  BY <1>1 DEF storeVars, StoreTypeOK, Present
<1>2. ASSUME NEW S, challenges' = Keep(S), UNCHANGED <<now, inserted>>
      PROVE  StoreTypeOK'
  <2>1. /\ Present' \subseteq Present
        /\ \A i \in Present' : challenges'[i] = challenges[i]
    BY <1>2, KeepRemoves
  <2> QED
    BY <1>2, <2>1 DEF StoreTypeOK
<1>3. ASSUME NEW id \in Ids, IssueInsert(id)
      PROVE  StoreTypeOK'
  <2>1. issuing[id] \in Issue /\ id \in Ids
    BY <1>3 DEF IssueInsert, IssuerTypeOK
  <2>2. /\ Insert(id, issuing[id].username, issuing[id].audience, issuing[id].expires)
        /\ now' = now
    BY <1>3 DEF IssueInsert
  <2>3. /\ Present' \subseteq Present \cup {id}
        /\ \A i \in Present' : i # id => challenges'[i] = challenges[i]
        /\ challenges'[id] = [username |-> issuing[id].username, audience |-> issuing[id].audience,
                              expires |-> issuing[id].expires, attempts |-> 0, order |-> inserted]
    BY <2>2, InsertAdds
  <2>4. inserted' \in Nat /\ inserted \in Nat
    BY <2>2 DEF Insert, StoreTypeOK
  <2>5. challenges'[id] \in Challenge
    BY <2>1, <2>3, <2>4, StoreConstants DEF Issue, Challenge
  <2>6. \A i \in Present' : challenges'[i] \in Challenge
    BY <2>3, <2>5 DEF StoreTypeOK
  <2> QED
    BY <2>1, <2>2, <2>3, <2>4, <2>6 DEF StoreTypeOK
<1>4. ASSUME NEW r \in Requests, AttemptAdmitted(r)
      PROVE  StoreTypeOK'
  <2> DEFINE id == req[r].id
  <2>1. Admits(id, req[r].username) /\ CountAttempt(id) /\ now' = now
    BY <1>4 DEF AttemptAdmitted
  <2>2. /\ Present' \subseteq Present
        /\ \A i \in Present' : i # id => challenges'[i] = challenges[i]
        /\ id \in Present' => challenges'[id] = [challenges[id] EXCEPT !.attempts = @ + 1]
    BY <2>1, CountAttemptCounts
  <2>3. id \in Present /\ challenges[id] \in Challenge /\ challenges[id].attempts < MaxAttempts
    BY <2>1 DEF Admits, Live, StoreTypeOK
  <2>4. [challenges[id] EXCEPT !.attempts = @ + 1] \in Challenge
    BY <2>3, StoreConstants DEF Challenge
  <2>5. \A i \in Present' : challenges'[i] \in Challenge
    BY <2>2, <2>4 DEF StoreTypeOK
  <2>6. inserted' = inserted
    BY <2>1 DEF CountAttempt
  <2> QED
    BY <2>1, <2>2, <2>5, <2>6 DEF StoreTypeOK
<1>5. CASE Tick
  BY <1>5, StoreConstants DEF Tick, StoreTypeOK, Present
<1>6. CASE Crash
  BY <1>6 DEF Crash, StoreCrash, StoreTypeOK, Present
<1>7. ASSUME NEW r \in Requests, AttemptRefused(r) \/ ConsumeFails(r) \/ ConsumeSucceeds(r)
      PROVE  StoreTypeOK'
  BY <1>2, <1>7 DEF AttemptRefused, ConsumeFails, ConsumeSucceeds, CleanUpOnly, Delete
<1>8. ASSUME NEW id \in Ids, NEW u \in Usernames, NEW a \in Audiences,
             IssueStart(id, u, a)
      PROVE  StoreTypeOK'
  BY <1>1, <1>8 DEF IssueStart
<1>9. ASSUME NEW u \in Usernames, NEW a \in Audiences, IssueRefused(u, a)
      PROVE  StoreTypeOK'
  BY <1>1, <1>9 DEF IssueRefused
<1>10. ASSUME NEW r \in Requests,
              Begin(r) \/ Resolve(r) \/ VerifyAccepts(r) \/ ExchangeFails(r) \/ SignSession(r)
       PROVE  StoreTypeOK'
  BY <1>1, <1>10 DEF Begin, Resolve, VerifyAccepts, ExchangeFails, SignSession
<1>11. CASE UNCHANGED vars
  BY <1>1, <1>11 DEF vars
<1> QED
  BY <1>1, <1>3, <1>4, <1>5, <1>6, <1>7, <1>8, <1>9, <1>10, <1>11
  DEF AuthNext, ChallengeStep, ExchangeStep

(* The resolver keeps its types: no other part of the service writes it.   *)
LEMMA ResolverStepNext == [AuthNext]_vars => [ResolverNext]_resolverVars
  BY DEF AuthNext, ChallengeStep, ExchangeStep, IssueStart, IssueInsert, IssueRefused, Begin,
         AttemptRefused, AttemptAdmitted, Resolve, VerifyAccepts, ExchangeFails,
         ConsumeSucceeds, ConsumeFails, SignSession, Crash, ResolverNext, vars

(* Suspending a handler with a well-typed record keeps the handlers typed. *)
LEMMA SuspendTypes ==
  ASSUME NEW r \in Requests, NEW record \in Request, Suspend(r, record),
         IssuerTypeOK, StageOK,
         record.pc # "attempt" => record.audience \in Audiences,
         record.pc \in {"verify", "consume", "sign"} => record.key \in Keys
  PROVE  /\ DOMAIN req' \subseteq Requests
         /\ \A q \in DOMAIN req' : req'[q] \in Request
         /\ StageOK'
<1>1. /\ DOMAIN req' = DOMAIN req \cup {r}
      /\ req'[r] = record
      /\ \A q \in DOMAIN req : q # r => req'[q] = req[q]
  BY SuspendSets
<1> QED
  BY <1>1 DEF IssuerTypeOK, StageOK

(* Answering removes a handler and keeps the rest typed.                   *)
LEMMA AnswerTypes ==
  ASSUME NEW r, Answer(r), IssuerTypeOK, StageOK
  PROVE  /\ DOMAIN req' \subseteq Requests
         /\ \A q \in DOMAIN req' : req'[q] \in Request
         /\ StageOK'
<1>1. /\ DOMAIN req' = DOMAIN req \ {r}
      /\ \A q \in DOMAIN req' : req'[q] = req[q]
  BY AnswerRemoves
<1> QED
  BY <1>1 DEF IssuerTypeOK, StageOK

(* The issuer's own state keeps its types.                                 *)
LEMMA IssuerTypeNext == TypeInv /\ [AuthNext]_vars => IssuerTypeOK' /\ StageOK'
<1> SUFFICES ASSUME TypeInv, [AuthNext]_vars
             PROVE  IssuerTypeOK' /\ StageOK'
  OBVIOUS
<1> USE DEF TypeInv, AuthTypeOK
<1>0. /\ served \in Nat
      /\ now \in Nat
      /\ MaxTime \in Nat
      /\ \A u \in Users : keys[u] \in Keys \cup {NoKey}
  BY StoreConstants DEF StoreTypeOK, ResolverTypeOK, KeyMap, Latest
<1>1. ASSUME NEW id \in Ids, NEW u \in Usernames, NEW a \in Audiences, IssueStart(id, u, a)
      PROVE  IssuerTypeOK' /\ StageOK'
  <2>1. <<u, a>> \in Pairs
    BY DEF Pairs
  <2>2. now + Ttl \in Nat /\ now + Window \in Nat
    BY <1>0, StoreConstants, IssuerConstants
  <2>3. /\ DOMAIN rateLimits' \subseteq Pairs
        /\ \A p \in DOMAIN rateLimits' : rateLimits'[p] \in RateEntry
    <3>1. rateLimits' = RateCounted(<<u, a>>)
      BY <1>1 DEF IssueStart
    <3>2. Running \subseteq DOMAIN rateLimits
      BY DEF Running
    <3>3. DOMAIN rateLimits' = Running \cup {<<u, a>>}
      BY <3>1 DEF RateCounted
    <3>4. ASSUME NEW p \in DOMAIN rateLimits'
          PROVE  rateLimits'[p] \in RateEntry
      <4>1. CASE p # <<u, a>>
        BY <3>1, <3>2, <3>3, <4>1 DEF RateCounted, IssuerTypeOK
      <4>2. CASE p = <<u, a>> /\ p \in Running
        <5>1. rateLimits[p] \in RateEntry
          BY <3>2, <4>2 DEF IssuerTypeOK
        <5>2. rateLimits'[p] = [rateLimits[p] EXCEPT !.count = @ + 1]
          BY <3>1, <3>3, <4>2 DEF RateCounted
        <5> QED
          BY <5>1, <5>2 DEF RateEntry
      <4>3. CASE p = <<u, a>> /\ p \notin Running
        BY <2>2, <3>1, <4>3 DEF RateCounted, RateEntry
      <4> QED
        BY <4>1, <4>2, <4>3
    <3> QED
      BY <2>1, <3>2, <3>3, <3>4 DEF IssuerTypeOK
  <2>4. /\ DOMAIN issuing' \subseteq Ids
        /\ \A i \in DOMAIN issuing' : issuing'[i] \in Issue
    BY <1>1, <2>2 DEF IssueStart, IssuerTypeOK, Issue
  <2>5. life \in Nat
    BY DEF IssuerTypeOK
  <2>6. /\ DOMAIN minted' \subseteq Ids
        /\ \A i \in DOMAIN minted' : minted'[i] \in Minted
    BY <1>0, <1>1, <2>2, <2>5 DEF IssueStart, IssuerTypeOK, Minted
  <2>7. UNCHANGED <<req, sessions, tries, life>>
    BY <1>1 DEF IssueStart
  <2> QED
    BY <2>3, <2>4, <2>6, <2>7 DEF IssuerTypeOK, StageOK
<1>2. ASSUME NEW u \in Usernames, NEW a \in Audiences, IssueRefused(u, a)
      PROVE  IssuerTypeOK' /\ StageOK'
  BY <1>2 DEF IssueRefused, Running, IssuerTypeOK, StageOK
<1>3. ASSUME NEW id \in Ids, IssueInsert(id)
      PROVE  IssuerTypeOK' /\ StageOK'
  BY <1>3 DEF IssueInsert, IssuerTypeOK, StageOK
<1>4. ASSUME NEW r \in Requests, Begin(r)
      PROVE  IssuerTypeOK' /\ StageOK'
  <2>1. PICK id \in Answered, u \in Usernames, n \in BOOLEAN, k \in Keys :
          Suspend(r, [pc |-> "attempt", id |-> id, username |-> u, rightNonce |-> n, signer |-> k,
                      audience |-> None, key |-> NoKey, arrived |-> served, edition |-> 0])
    BY <1>4 DEF Begin
  <2>2. id \in Ids
    BY DEF Answered, IssuerTypeOK
  <2>3. [pc |-> "attempt", id |-> id, username |-> u, rightNonce |-> n, signer |-> k,
         audience |-> None, key |-> NoKey, arrived |-> served, edition |-> 0] \in Request
    BY <1>0, <2>2 DEF Request
  <2> HIDE DEF TypeInv
  <2>4. /\ DOMAIN req' \subseteq Requests
        /\ \A q \in DOMAIN req' : req'[q] \in Request
        /\ StageOK'
    BY <2>1, <2>3, SuspendTypes DEF TypeInv
  <2>5. UNCHANGED <<rateLimits, issuing, sessions, minted, tries, life>>
    BY <1>4 DEF Begin
  <2> QED
    BY <2>4, <2>5 DEF IssuerTypeOK, TypeInv
<1>5. ASSUME NEW r \in Requests, AttemptAdmitted(r)
      PROVE  IssuerTypeOK' /\ StageOK'
  <2>1. req[r] \in Request /\ req[r].id \in Ids
    BY <1>5 DEF AttemptAdmitted, IssuerTypeOK, Request
  <2>2. challenges[req[r].id].audience \in Audiences
    BY <1>5 DEF AttemptAdmitted, Admits, Live, StoreTypeOK, Challenge
  <2>3. [req[r] EXCEPT !.pc = "resolve", !.audience = challenges[req[r].id].audience] \in Request
    BY <2>1, <2>2 DEF Request
  <2>4. /\ DOMAIN req' \subseteq Requests
        /\ \A q \in DOMAIN req' : req'[q] \in Request
        /\ StageOK'
    <3>1. CASE req[r].rightNonce
      <4>1. Suspend(r, [req[r] EXCEPT !.pc = "resolve",
                                      !.audience = challenges[req[r].id].audience])
        BY <1>5, <3>1 DEF AttemptAdmitted
      <4> QED
        BY <2>1, <2>2, <2>3, <4>1, SuspendTypes DEF Request
    <3>2. CASE ~req[r].rightNonce
      BY <1>5, <3>2, AnswerTypes DEF AttemptAdmitted
    <3> QED
      BY <3>1, <3>2
  <2>5. tries' \in [Ids -> Nat]
    BY <1>5, <2>1 DEF AttemptAdmitted, IssuerTypeOK
  <2>6. UNCHANGED <<rateLimits, issuing, sessions, minted, life>>
    BY <1>5 DEF AttemptAdmitted
  <2> QED
    BY <2>4, <2>5, <2>6 DEF IssuerTypeOK
<1>6. ASSUME NEW r \in Requests, Resolve(r)
      PROVE  IssuerTypeOK' /\ StageOK'
  <2> DEFINE next == [req[r] EXCEPT !.pc = "verify", !.key = keys[req[r].username],
                                    !.edition = served]
  <2>1. req[r] \in Request /\ req[r].pc # "attempt" /\ r \in DOMAIN req
    BY <1>6 DEF Resolve, IssuerTypeOK
  <2>2. keys[req[r].username] \in Keys
    BY <1>0, <1>6 DEF Resolve
  <2>3. next \in Request /\ next.audience = req[r].audience /\ next.key \in Keys
    BY <1>0, <2>1, <2>2 DEF Request
  <2>4. Suspend(r, next) /\ UNCHANGED <<rateLimits, issuing, sessions, minted, tries, life>>
    BY <1>6 DEF Resolve
  <2>5. next.audience \in Audiences
    BY <2>1, <2>3 DEF StageOK
  <2> HIDE DEF next
  <2>6. /\ DOMAIN req' \subseteq Requests
        /\ \A q \in DOMAIN req' : req'[q] \in Request
        /\ StageOK'
    BY <2>3, <2>4, <2>5, SuspendTypes
  <2> QED
    BY <2>4, <2>6 DEF IssuerTypeOK
<1>7. ASSUME NEW r \in Requests, VerifyAccepts(r)
      PROVE  IssuerTypeOK' /\ StageOK'
  <2> DEFINE next == [req[r] EXCEPT !.pc = "consume"]
  <2>1. req[r] \in Request /\ req[r].audience \in Audiences /\ req[r].key \in Keys
    BY <1>7 DEF VerifyAccepts, IssuerTypeOK, StageOK
  <2>2. next \in Request /\ next.audience \in Audiences /\ next.key \in Keys
    BY <2>1 DEF Request
  <2>3. Suspend(r, next) /\ UNCHANGED <<rateLimits, issuing, sessions, minted, tries, life>>
    BY <1>7 DEF VerifyAccepts
  <2> HIDE DEF next
  <2>4. /\ DOMAIN req' \subseteq Requests
        /\ \A q \in DOMAIN req' : req'[q] \in Request
        /\ StageOK'
    BY <2>2, <2>3, SuspendTypes
  <2> QED
    BY <2>3, <2>4 DEF IssuerTypeOK
<1>8. ASSUME NEW r \in Requests, ConsumeSucceeds(r)
      PROVE  IssuerTypeOK' /\ StageOK'
  <2> DEFINE next == [req[r] EXCEPT !.pc = "sign"]
  <2>1. req[r] \in Request /\ req[r].audience \in Audiences /\ req[r].key \in Keys
    BY <1>8 DEF ConsumeSucceeds, IssuerTypeOK, StageOK
  <2>2. next \in Request /\ next.audience \in Audiences /\ next.key \in Keys
    BY <2>1 DEF Request
  <2>3. Suspend(r, next) /\ UNCHANGED <<rateLimits, issuing, sessions, minted, tries, life>>
    BY <1>8 DEF ConsumeSucceeds
  <2> HIDE DEF next
  <2>4. /\ DOMAIN req' \subseteq Requests
        /\ \A q \in DOMAIN req' : req'[q] \in Request
        /\ StageOK'
    BY <2>2, <2>3, SuspendTypes
  <2> QED
    BY <2>3, <2>4 DEF IssuerTypeOK
<1>9. ASSUME NEW r \in Requests, AttemptRefused(r) \/ ExchangeFails(r) \/ ConsumeFails(r)
      PROVE  IssuerTypeOK' /\ StageOK'
  <2>1. Answer(r) /\ UNCHANGED <<rateLimits, issuing, sessions, minted, tries, life>>
    BY <1>9 DEF AttemptRefused, ExchangeFails, ConsumeFails
  <2>2. /\ DOMAIN req' \subseteq Requests
        /\ \A q \in DOMAIN req' : req'[q] \in Request
        /\ StageOK'
    BY <2>1, AnswerTypes
  <2> QED
    BY <2>1, <2>2 DEF IssuerTypeOK
<1>10. ASSUME NEW r \in Requests, SignSession(r)
       PROVE  IssuerTypeOK' /\ StageOK'
  <2>1. req[r] \in Request /\ req[r].audience \in Audiences /\ req[r].key \in Keys
    BY <1>10 DEF SignSession, IssuerTypeOK, StageOK
  <2>2. [id |-> req[r].id, sub |-> req[r].username, aud |-> req[r].audience, key |-> req[r].key,
         iat |-> now, arrived |-> req[r].arrived, edition |-> req[r].edition] \in Session
    BY <1>0, <2>1 DEF Request, Session
  <2>3. sessions' \in Seq(Session)
    BY <1>10, <2>2 DEF SignSession, IssuerTypeOK
  <2>4. Answer(r) /\ UNCHANGED <<rateLimits, issuing, minted, tries, life>>
    BY <1>10 DEF SignSession
  <2>5. /\ DOMAIN req' \subseteq Requests
        /\ \A q \in DOMAIN req' : req'[q] \in Request
        /\ StageOK'
    BY <2>4, AnswerTypes
  <2> QED
    BY <2>3, <2>4, <2>5 DEF IssuerTypeOK
<1>11. CASE Crash
  BY <1>11 DEF Crash, Empty, IssuerTypeOK, StageOK
<1>12. CASE UNCHANGED issuerVars
  BY <1>12 DEF issuerVars, IssuerTypeOK, StageOK
<1> QED
  BY <1>1, <1>2, <1>3, <1>4, <1>5, <1>6, <1>7, <1>8, <1>9, <1>10, <1>11, <1>12
  DEF AuthNext, ChallengeStep, ExchangeStep, vars

(* Together, with the types of the resolver given.                         *)
LEMMA TypeInvNext == TypeInv /\ [AuthNext]_vars /\ ResolverTypeOK' => TypeInv'
  BY StoreTypeNext, IssuerTypeNext DEF TypeInv, AuthTypeOK

(* The resolver's invariant holds of the whole service.                    *)
LEMMA ResolverInvOfAuth == AuthSpec => []ResolverInv
<1>1. AuthInit => ResolverInv
  BY ResolverInvInit DEF AuthInit
<1>2. ResolverInv /\ [AuthNext]_vars => ResolverInv'
  BY ResolverInvNext, ResolverStepNext
<1> QED
  BY <1>1, <1>2, PTL DEF AuthSpec

(* So the whole service keeps its types.                                   *)
LEMMA AuthTyped == AuthSpec => []TypeInv
<1>1. ResolverInv' => ResolverTypeOK'
  BY DEF ResolverInv
<1> QED
  BY <1>1, TypeInvInit, TypeInvNext, ResolverInvOfAuth, PTL DEF AuthSpec

(* The whole auth service keeps its types, for any constants.              *)
THEOREM AuthTypeCorrect == AuthSpec => []AuthTypeOK
<1>1. TypeInv => AuthTypeOK
  BY DEF TypeInv
<1> QED
  BY <1>1, AuthTyped, PTL

(* The served keys stay one whole accepted edition in the whole service.   *)
THEOREM AuthServesOneEdition == AuthSpec => []KeysFromOneEdition
<1>1. ResolverInv => KeysFromOneEdition
  BY DEF ResolverInv
<1> QED
  BY <1>1, ResolverInvOfAuth, PTL

-----------------------------------------------------------------------------
(* The inductive invariant behind the safety properties.                   *)

(* Everything the service holds about a challenge agrees with what the     *)
(* challenge was drawn for, from the issue() call to the session.          *)
TicketsMatch ==
  /\ \A id \in DOMAIN issuing :
       /\ id \in DOMAIN minted
       /\ issuing[id].username = minted[id].username
       /\ issuing[id].audience = minted[id].audience
  /\ \A id \in Present :
       /\ id \in Answered
       /\ challenges[id].username = minted[id].username
       /\ challenges[id].audience = minted[id].audience
  /\ \A r \in DOMAIN req :
       /\ req[r].id \in Answered
       /\ req[r].pc # "attempt" =>
            /\ req[r].username = minted[req[r].id].username
            /\ req[r].audience = minted[req[r].id].audience
  /\ \A i \in DOMAIN sessions :
       /\ sessions[i].id \in Answered
       /\ sessions[i].sub = minted[sessions[i].id].username
       /\ sessions[i].aud = minted[sessions[i].id].audience

(* A challenge has one holder: the store, one handler about to sign, or    *)
(* one session. This is what makes single use inductive.                   *)
OneHolder ==
  /\ \A r \in DOMAIN req : req[r].pc = "sign" => req[r].id \notin Present
  /\ \A q, r \in DOMAIN req :
       req[q].pc = "sign" /\ req[r].pc = "sign" /\ req[q].id = req[r].id => q = r
  /\ \A i \in DOMAIN sessions :
       /\ sessions[i].id \notin Present
       /\ \A r \in DOMAIN req : req[r].pc = "sign" => req[r].id # sessions[i].id

(* The store's counter is the true number of attempts while the challenge  *)
(* lives; no attempt precedes the challenge.                               *)
TriesCounted ==
  /\ \A id \in Present : tries[id] = challenges[id].attempts
  /\ \A id \in Ids \ Answered : tries[id] = 0

AuthInv == TicketsMatch /\ OneHolder /\ SingleUse /\ TriesCounted /\ AttemptCap

(* No challenge, no attempt, no session at first.                          *)
LEMMA AuthInvInit == AuthInit => AuthInv
<1> SUFFICES ASSUME AuthInit
             PROVE  AuthInv
  OBVIOUS
<1>1. TicketsMatch /\ OneHolder /\ SingleUse
  BY DEF AuthInit, StoreInit, Empty, TicketsMatch, OneHolder, SingleUse, Present
<1>2. TriesCounted /\ AttemptCap
  BY StoreConstants DEF AuthInit, StoreInit, TriesCounted, AttemptCap, Present
<1> QED
  BY <1>1, <1>2 DEF AuthInv

(* A step that only loses challenges keeps every challenge's holder.       *)
LEMMA HoldersSurviveLoss ==
  ASSUME AuthInv,
         Present' \subseteq Present,
         \A i \in Present' : /\ challenges'[i].username = challenges[i].username
                             /\ challenges'[i].audience = challenges[i].audience,
         DOMAIN req' \subseteq DOMAIN req,
         \A q \in DOMAIN req' : req'[q] = req[q],
         UNCHANGED <<issuing, sessions, minted>>
  PROVE  TicketsMatch' /\ OneHolder' /\ SingleUse'
<1>1. TicketsMatch'
  BY DEF AuthInv, TicketsMatch, Answered
<1>2. OneHolder' /\ SingleUse'
  BY DEF AuthInv, OneHolder, SingleUse
<1> QED
  BY <1>1, <1>2

(* A handler that reaches a new await with the challenge it already had.   *)
LEMMA HoldersSurviveSuspend ==
  ASSUME AuthInv, UNCHANGED <<challenges, issuing, sessions, minted>>,
         NEW r, NEW record, Suspend(r, record),
         record.pc # "sign",
         record.id \in Answered,
         record.pc # "attempt" =>
           /\ record.username = minted[record.id].username
           /\ record.audience = minted[record.id].audience
  PROVE  TicketsMatch' /\ OneHolder' /\ SingleUse'
<1>1. /\ DOMAIN req' = DOMAIN req \cup {r}
      /\ req'[r] = record
      /\ \A q \in DOMAIN req : q # r => req'[q] = req[q]
  BY SuspendSets
<1>2. TicketsMatch'
  BY <1>1 DEF AuthInv, TicketsMatch, Answered, Present
<1>3. OneHolder' /\ SingleUse'
  BY <1>1 DEF AuthInv, OneHolder, SingleUse, Present
<1> QED
  BY <1>2, <1>3

(* Every step keeps holders matched and unique.                            *)
LEMMA HoldersNext ==
  TypeInv /\ AuthInv /\ [AuthNext]_vars => TicketsMatch' /\ OneHolder' /\ SingleUse'
<1> SUFFICES ASSUME TypeInv, AuthInv, [AuthNext]_vars
             PROVE  TicketsMatch' /\ OneHolder' /\ SingleUse'
  OBVIOUS
<1>1. ASSUME NEW id \in Ids, NEW u \in Usernames, NEW a \in Audiences, IssueStart(id, u, a)
      PROVE  TicketsMatch' /\ OneHolder' /\ SingleUse'
  <2>1. /\ id \notin DOMAIN minted
        /\ DOMAIN minted' = DOMAIN minted \cup {id}
        /\ DOMAIN issuing' = DOMAIN issuing \cup {id}
        /\ \A i \in DOMAIN minted : minted'[i] = minted[i]
        /\ \A i \in DOMAIN issuing : i # id => issuing'[i] = issuing[i]
        /\ issuing'[id].username = u /\ issuing'[id].audience = a
        /\ minted'[id].username = u /\ minted'[id].audience = a
    BY <1>1 DEF IssueStart
  <2>2. UNCHANGED <<challenges, req, sessions>>
    BY <1>1 DEF IssueStart, storeVars
  <2>3. Answered' = Answered
    BY <2>1 DEF Answered
  <2>4. TicketsMatch'
    BY <2>1, <2>2, <2>3 DEF AuthInv, TicketsMatch, Present, Answered
  <2>5. OneHolder' /\ SingleUse'
    BY <2>2 DEF AuthInv, OneHolder, SingleUse, Present
  <2> QED
    BY <2>4, <2>5
<1>2. ASSUME NEW id \in Ids, IssueInsert(id)
      PROVE  TicketsMatch' /\ OneHolder' /\ SingleUse'
  <2>1. /\ id \in DOMAIN issuing
        /\ Insert(id, issuing[id].username, issuing[id].audience, issuing[id].expires)
        /\ DOMAIN issuing' = DOMAIN issuing \ {id}
        /\ \A i \in DOMAIN issuing' : issuing'[i] = issuing[i]
        /\ UNCHANGED <<req, sessions, minted>>
    BY <1>2 DEF IssueInsert
  <2>2. /\ Present' \subseteq Present \cup {id}
        /\ \A i \in Present' : i # id => challenges'[i] = challenges[i]
        /\ challenges'[id] = [username |-> issuing[id].username, audience |-> issuing[id].audience,
                              expires |-> issuing[id].expires, attempts |-> 0, order |-> inserted]
    BY <2>1, InsertAdds
  <2>2a. /\ challenges'[id].username = issuing[id].username
         /\ challenges'[id].audience = issuing[id].audience
    BY <2>2
  <2>3. id \in DOMAIN minted /\ id \notin Answered
    BY <2>1 DEF AuthInv, TicketsMatch, Answered
  <2>4. Answered' = Answered \cup {id}
    BY <2>1, <2>3 DEF Answered
  <2>5. TicketsMatch'
    BY <2>1, <2>2, <2>2a, <2>4 DEF AuthInv, TicketsMatch
  <2>6. OneHolder' /\ SingleUse'
    BY <2>1, <2>2, <2>3 DEF AuthInv, TicketsMatch, OneHolder, SingleUse
  <2> QED
    BY <2>5, <2>6
<1>3. ASSUME NEW r \in Requests, Begin(r)
      PROVE  TicketsMatch' /\ OneHolder' /\ SingleUse'
  <2>1. PICK id \in Answered, u \in Usernames, n \in BOOLEAN, k \in Keys :
          Suspend(r, [pc |-> "attempt", id |-> id, username |-> u, rightNonce |-> n, signer |-> k,
                      audience |-> None, key |-> NoKey, arrived |-> served, edition |-> 0])
    BY <1>3 DEF Begin
  <2>2. UNCHANGED <<challenges, issuing, sessions, minted>>
    BY <1>3 DEF Begin, storeVars
  <2> QED
    BY <2>1, <2>2, HoldersSurviveSuspend
<1>4. ASSUME NEW r \in Requests, AttemptAdmitted(r)
      PROVE  TicketsMatch' /\ OneHolder' /\ SingleUse'
  <2> DEFINE id == req[r].id
  <2>1. /\ r \in DOMAIN req /\ req[r].pc = "attempt"
        /\ Admits(id, req[r].username) /\ CountAttempt(id)
        /\ UNCHANGED <<issuing, sessions, minted>>
    BY <1>4 DEF AttemptAdmitted
  <2>2. /\ Present' \subseteq Present
        /\ \A i \in Present' : i # id => challenges'[i] = challenges[i]
        /\ id \in Present' => challenges'[id] = [challenges[id] EXCEPT !.attempts = @ + 1]
    BY <2>1, CountAttemptCounts
  <2>3. id \in Present /\ challenges[id].username = req[r].username
    BY <2>1 DEF Admits, Live
  <2>3a. challenges[id] \in Challenge
    BY <2>3 DEF TypeInv, AuthTypeOK, StoreTypeOK
  <2>4. \A i \in Present' : /\ challenges'[i].username = challenges[i].username
                            /\ challenges'[i].audience = challenges[i].audience
    BY <2>2, <2>3a DEF Challenge
  <2>5. CASE ~req[r].rightNonce
    <3>1. Answer(r)
      BY <1>4, <2>5 DEF AttemptAdmitted
    <3>2. DOMAIN req' \subseteq DOMAIN req /\ \A q \in DOMAIN req' : req'[q] = req[q]
      BY <3>1, AnswerRemoves
    <3> HIDE DEF id
    <3> QED
      BY <2>1, <2>2, <2>4, <3>2, HoldersSurviveLoss
  <2>6. CASE req[r].rightNonce
    <3> DEFINE next == [req[r] EXCEPT !.pc = "resolve", !.audience = challenges[id].audience]
    <3>1. Suspend(r, next)
      BY <1>4, <2>6 DEF AttemptAdmitted
    <3>2. req[r] \in Request
      BY <2>1 DEF TypeInv, AuthTypeOK, IssuerTypeOK
    <3>3. /\ next.pc = "resolve" /\ next.id = id /\ next.username = req[r].username
          /\ next.audience = challenges[id].audience
      BY <3>2 DEF Request
    <3> HIDE DEF next
    <3>4. /\ DOMAIN req' = DOMAIN req \cup {r}
          /\ req'[r] = next
          /\ \A q \in DOMAIN req : q # r => req'[q] = req[q]
      BY <3>1, SuspendSets
    <3>5. TicketsMatch'
      BY <2>1, <2>2, <2>3, <2>4, <3>3, <3>4 DEF AuthInv, TicketsMatch, Answered
    <3>6. OneHolder' /\ SingleUse'
      BY <2>1, <2>2, <3>3, <3>4 DEF AuthInv, OneHolder, SingleUse
    <3> QED
      BY <3>5, <3>6
  <2> QED
    BY <2>5, <2>6
<1>5. ASSUME NEW r \in Requests, Resolve(r)
      PROVE  TicketsMatch' /\ OneHolder' /\ SingleUse'
  <2> DEFINE next == [req[r] EXCEPT !.pc = "verify", !.key = keys[req[r].username],
                                    !.edition = served]
  <2>1. r \in DOMAIN req /\ req[r] \in Request /\ req[r].pc = "resolve"
    BY <1>5 DEF Resolve, TypeInv, AuthTypeOK, IssuerTypeOK
  <2>2. /\ next.pc = "verify" /\ next.id = req[r].id /\ next.username = req[r].username
        /\ next.audience = req[r].audience
    BY <2>1 DEF Request
  <2>3. Suspend(r, next) /\ UNCHANGED <<challenges, issuing, sessions, minted>>
    BY <1>5 DEF Resolve, storeVars
  <2>4. /\ req[r].id \in Answered
        /\ req[r].username = minted[req[r].id].username
        /\ req[r].audience = minted[req[r].id].audience
    BY <2>1 DEF AuthInv, TicketsMatch
  <2> HIDE DEF next
  <2> QED
    BY <2>2, <2>3, <2>4, HoldersSurviveSuspend
<1>6. ASSUME NEW r \in Requests, VerifyAccepts(r)
      PROVE  TicketsMatch' /\ OneHolder' /\ SingleUse'
  <2> DEFINE next == [req[r] EXCEPT !.pc = "consume"]
  <2>1. r \in DOMAIN req /\ req[r] \in Request /\ req[r].pc = "verify"
    BY <1>6 DEF VerifyAccepts, TypeInv, AuthTypeOK, IssuerTypeOK
  <2>2. /\ next.pc = "consume" /\ next.id = req[r].id /\ next.username = req[r].username
        /\ next.audience = req[r].audience
    BY <2>1 DEF Request
  <2>3. Suspend(r, next) /\ UNCHANGED <<challenges, issuing, sessions, minted>>
    BY <1>6 DEF VerifyAccepts, storeVars
  <2>4. /\ req[r].id \in Answered
        /\ req[r].username = minted[req[r].id].username
        /\ req[r].audience = minted[req[r].id].audience
    BY <2>1 DEF AuthInv, TicketsMatch
  <2> HIDE DEF next
  <2> QED
    BY <2>2, <2>3, <2>4, HoldersSurviveSuspend
<1>7. ASSUME NEW r \in Requests, ConsumeSucceeds(r)
      PROVE  TicketsMatch' /\ OneHolder' /\ SingleUse'
  <2> DEFINE id == req[r].id
             next == [req[r] EXCEPT !.pc = "sign"]
  <2>1. /\ r \in DOMAIN req /\ req[r] \in Request /\ req[r].pc = "consume"
        /\ Delete(id) /\ Suspend(r, next)
        /\ UNCHANGED <<issuing, sessions, minted>>
    BY <1>7 DEF ConsumeSucceeds, TypeInv, AuthTypeOK, IssuerTypeOK
  <2>2. /\ next.pc = "sign" /\ next.id = id /\ next.username = req[r].username
        /\ next.audience = req[r].audience
    BY <2>1 DEF Request
  <2>3. id \in Present /\ challenges' = Keep(Present \ {id})
    BY <2>1 DEF Delete, Live
  <2>4. /\ Present' \subseteq Present \ {id}
        /\ \A i \in Present' : challenges'[i] = challenges[i]
    BY <2>3, KeepRemoves
  <2> HIDE DEF next
  <2>5. /\ DOMAIN req' = DOMAIN req \cup {r}
        /\ req'[r] = next
        /\ \A q \in DOMAIN req : q # r => req'[q] = req[q]
    BY <2>1, SuspendSets
  <2>6. TicketsMatch'
    BY <2>1, <2>2, <2>4, <2>5 DEF AuthInv, TicketsMatch, Answered
  <2>7. \A q \in DOMAIN req : req[q].pc = "sign" => req[q].id # id
    BY <2>3 DEF AuthInv, OneHolder
  <2>8. \A i \in DOMAIN sessions : sessions[i].id # id
    BY <2>3 DEF AuthInv, OneHolder
  <2>9. OneHolder' /\ SingleUse'
    BY <2>1, <2>2, <2>4, <2>5, <2>7, <2>8 DEF AuthInv, OneHolder, SingleUse
  <2> QED
    BY <2>6, <2>9
<1>8. ASSUME NEW r \in Requests, AttemptRefused(r) \/ ConsumeFails(r) \/ ExchangeFails(r)
      PROVE  TicketsMatch' /\ OneHolder' /\ SingleUse'
  <2>1. Answer(r) /\ UNCHANGED <<issuing, sessions, minted>>
    BY <1>8 DEF AttemptRefused, ConsumeFails, ExchangeFails
  <2>2. DOMAIN req' \subseteq DOMAIN req /\ \A q \in DOMAIN req' : req'[q] = req[q]
    BY <2>1, AnswerRemoves
  <2>3. challenges' = Keep(Present) \/ challenges' = challenges
    BY <1>8 DEF AttemptRefused, ConsumeFails, ExchangeFails, CleanUpOnly, storeVars
  <2>4. Present' \subseteq Present /\ \A i \in Present' : challenges'[i] = challenges[i]
    BY <2>3, KeepRemoves DEF Present
  <2> QED
    BY <2>1, <2>2, <2>4, HoldersSurviveLoss
<1>9. ASSUME NEW r \in Requests, SignSession(r)
      PROVE  TicketsMatch' /\ OneHolder' /\ SingleUse'
  <2> DEFINE s == [id |-> req[r].id, sub |-> req[r].username, aud |-> req[r].audience,
                   key |-> req[r].key, iat |-> now, arrived |-> req[r].arrived,
                   edition |-> req[r].edition]
  <2>1. /\ r \in DOMAIN req /\ req[r].pc = "sign"
        /\ sessions' = Append(sessions, s) /\ Answer(r)
        /\ UNCHANGED <<challenges, issuing, minted>>
    BY <1>9 DEF SignSession, storeVars
  <2>2. DOMAIN req' = DOMAIN req \ {r} /\ \A q \in DOMAIN req' : req'[q] = req[q]
    BY <2>1, AnswerRemoves
  <2>3. s.id = req[r].id /\ s.sub = req[r].username /\ s.aud = req[r].audience
    OBVIOUS
  <2> HIDE DEF s
  <2>4. sessions \in Seq(Session)
    BY DEF TypeInv, AuthTypeOK, IssuerTypeOK
  <2>5. /\ Len(sessions) \in Nat
        /\ DOMAIN sessions = 1 .. Len(sessions)
        /\ DOMAIN sessions' = 1 .. Len(sessions) + 1
        /\ \A i \in DOMAIN sessions : sessions'[i] = sessions[i]
        /\ sessions'[Len(sessions) + 1] = s
    BY <2>1, <2>4
  <2>6. \A i \in DOMAIN sessions' :
          \/ i \in DOMAIN sessions /\ sessions'[i] = sessions[i]
          \/ i = Len(sessions) + 1 /\ sessions'[i] = s
    BY <2>5
  <2>7. TicketsMatch'
    BY <2>1, <2>2, <2>3, <2>6 DEF AuthInv, TicketsMatch, Answered, Present
  <2>8. \A i \in DOMAIN sessions : sessions[i].id # s.id
    BY <2>1, <2>3 DEF AuthInv, OneHolder
  <2>9. OneHolder'
    BY <2>1, <2>2, <2>3, <2>6 DEF AuthInv, OneHolder, Present
  <2>10. SingleUse'
    BY <2>6, <2>8 DEF AuthInv, SingleUse
  <2> QED
    BY <2>7, <2>9, <2>10
<1>10. CASE Crash
  <2>1. DOMAIN req' = {} /\ DOMAIN issuing' = {} /\ Present' = {} /\ UNCHANGED <<sessions, minted>>
    BY <1>10 DEF Crash, StoreCrash, Empty, Present
  <2>2. TicketsMatch'
    BY <2>1 DEF AuthInv, TicketsMatch, Answered
  <2>3. OneHolder' /\ SingleUse'
    BY <2>1 DEF AuthInv, OneHolder, SingleUse
  <2> QED
    BY <2>2, <2>3
<1>11. CASE UNCHANGED <<challenges, issuing, req, sessions, minted>>
  BY <1>11 DEF AuthInv, TicketsMatch, OneHolder, SingleUse, Present, Answered
<1> QED
  BY <1>1, <1>2, <1>3, <1>4, <1>5, <1>6, <1>7, <1>8, <1>9, <1>10, <1>11
  DEF AuthNext, ChallengeStep, ExchangeStep, vars, storeVars, issuerVars, Tick, IssueRefused

(* Every step keeps the count of attempts true and within the cap.         *)
LEMMA TriesNext == TypeInv /\ AuthInv /\ [AuthNext]_vars => TriesCounted' /\ AttemptCap'
<1> SUFFICES ASSUME TypeInv, AuthInv, [AuthNext]_vars
             PROVE  TriesCounted' /\ AttemptCap'
  OBVIOUS
<1>1. ASSUME Present' \subseteq Present,
             \A i \in Present' : challenges'[i] = challenges[i],
             Answered \subseteq Answered',
             tries' = tries
      PROVE  TriesCounted' /\ AttemptCap'
  BY <1>1 DEF AuthInv, TriesCounted, AttemptCap
<1>2. ASSUME NEW id \in Ids, NEW u \in Usernames, NEW a \in Audiences, IssueStart(id, u, a)
      PROVE  TriesCounted' /\ AttemptCap'
  <2>1. Answered' = Answered /\ UNCHANGED <<challenges, tries>>
    BY <1>2 DEF IssueStart, Answered, storeVars
  <2> QED
    BY <1>1, <2>1 DEF Present
<1>3. ASSUME NEW id \in Ids, IssueInsert(id)
      PROVE  TriesCounted' /\ AttemptCap'
  <2>1. /\ id \in DOMAIN issuing
        /\ Insert(id, issuing[id].username, issuing[id].audience, issuing[id].expires)
        /\ DOMAIN issuing' = DOMAIN issuing \ {id}
        /\ UNCHANGED <<minted, tries>>
    BY <1>3 DEF IssueInsert
  <2>2. /\ Present' \subseteq Present \cup {id}
        /\ \A i \in Present' : i # id => challenges'[i] = challenges[i]
        /\ challenges'[id] = [username |-> issuing[id].username, audience |-> issuing[id].audience,
                              expires |-> issuing[id].expires, attempts |-> 0, order |-> inserted]
    BY <2>1, InsertAdds
  <2>3. challenges'[id].attempts = 0
    BY <2>2
  <2>4. id \notin Answered /\ Answered \subseteq Answered'
    BY <2>1 DEF Answered
  <2> QED
    BY <2>1, <2>2, <2>3, <2>4 DEF AuthInv, TriesCounted, AttemptCap
<1>4. ASSUME NEW r \in Requests, AttemptAdmitted(r)
      PROVE  TriesCounted' /\ AttemptCap'
  <2> DEFINE id == req[r].id
  <2>1. /\ Admits(id, req[r].username) /\ CountAttempt(id)
        /\ tries' = [tries EXCEPT ![id] = @ + 1]
        /\ UNCHANGED <<issuing, minted>>
    BY <1>4 DEF AttemptAdmitted
  <2>2. /\ Present' \subseteq Present
        /\ \A i \in Present' : i # id => challenges'[i] = challenges[i]
        /\ id \in Present' => challenges'[id] = [challenges[id] EXCEPT !.attempts = @ + 1]
    BY <2>1, CountAttemptCounts
  <2>3. id \in Present /\ challenges[id] \in Challenge /\ challenges[id].attempts < MaxAttempts
    BY <2>1 DEF Admits, Live, TypeInv, AuthTypeOK, StoreTypeOK
  <2>4. id \in Present' => challenges'[id].attempts = challenges[id].attempts + 1
    BY <2>2, <2>3 DEF Challenge
  <2>5. tries[id] = challenges[id].attempts /\ challenges[id].attempts \in Nat
    BY <2>3, StoreConstants DEF AuthInv, TriesCounted, Challenge
  <2>6. id \in Ids /\ Present \subseteq Ids /\ tries \in [Ids -> Nat]
    BY <2>3 DEF TypeInv, AuthTypeOK, StoreTypeOK, IssuerTypeOK
  <2>7. id \in Answered /\ Answered' = Answered
    BY <2>1, <2>3 DEF AuthInv, TicketsMatch, Answered
  <2> HIDE DEF id
  <2>8. /\ tries'[id] = tries[id] + 1
        /\ \A i \in Ids : i # id => tries'[i] = tries[i]
    BY <2>1, <2>6
  <2>9. TriesCounted'
    BY <2>2, <2>4, <2>5, <2>6, <2>7, <2>8 DEF AuthInv, TriesCounted
  <2>10. AttemptCap'
    BY <2>3, <2>5, <2>6, <2>8, StoreConstants DEF AuthInv, AttemptCap
  <2> QED
    BY <2>9, <2>10
<1>5. ASSUME NEW r \in Requests, AttemptRefused(r) \/ ConsumeFails(r) \/ ConsumeSucceeds(r)
      PROVE  TriesCounted' /\ AttemptCap'
  <2>1. PICK S : challenges' = Keep(S)
    BY <1>5 DEF AttemptRefused, ConsumeFails, ConsumeSucceeds, CleanUpOnly, Delete
  <2>2. Present' \subseteq Present /\ \A i \in Present' : challenges'[i] = challenges[i]
    BY <2>1, KeepRemoves
  <2>3. UNCHANGED <<issuing, minted, tries>>
    BY <1>5 DEF AttemptRefused, ConsumeFails, ConsumeSucceeds
  <2> QED
    BY <1>1, <2>2, <2>3 DEF Answered
<1>6. CASE Crash
  <2>1. Present' = {} /\ DOMAIN issuing' = {} /\ UNCHANGED <<minted, tries>>
    BY <1>6 DEF Crash, StoreCrash, Empty, Present
  <2> QED
    BY <1>1, <2>1 DEF Answered
<1>7. CASE UNCHANGED <<challenges, issuing, minted, tries>>
  BY <1>1, <1>7 DEF Present, Answered
<1> QED
  BY <1>2, <1>3, <1>4, <1>5, <1>6, <1>7
  DEF AuthNext, ChallengeStep, ExchangeStep, vars, storeVars, issuerVars, Tick, IssueRefused,
      Begin, Resolve, VerifyAccepts, ExchangeFails, SignSession

(* The invariant holds of the service.                                     *)
LEMMA AuthInvariant == AuthSpec => []AuthInv
<1>1. TypeInv /\ AuthInv /\ [AuthNext]_vars => AuthInv'
  BY HoldersNext, TriesNext DEF AuthInv
<1> QED
  BY <1>1, AuthInvInit, AuthTyped, PTL DEF AuthSpec

(* A challenge is good for at most one session, however many exchanges and *)
(* restarts there are: consumeSuccess deletes what it takes.               *)
THEOREM ChallengesAreSingleUse == AuthSpec => []SingleUse
<1>1. AuthInv => SingleUse
  BY DEF AuthInv
<1> QED
  BY <1>1, AuthInvariant, PTL

(* Every session is for the user and the audience of its challenge.        *)
THEOREM SessionsMatchTheirChallenge == AuthSpec => []SessionMatchesChallenge
<1>1. AuthInv => SessionMatchesChallenge
  BY DEF AuthInv, TicketsMatch, SessionMatchesChallenge, Answered
<1> QED
  BY <1>1, AuthInvariant, PTL

(* No challenge ever admits more than MaxAttempts attempts: an attempt is  *)
(* counted before its nonce is compared.                                   *)
THEOREM AttemptsAreCapped == AuthSpec => []AttemptCap
<1>1. AuthInv => AttemptCap
  BY DEF AuthInv
<1> QED
  BY <1>1, AuthInvariant, PTL

-----------------------------------------------------------------------------
(* The service implements SessionGrant.                                    *)

(* The ids somebody holds, and the ids a session was signed for; a ticket  *)
(* is the id with what it was drawn for.                                   *)
Held == DOMAIN issuing \cup Present \cup {req[r].id : r \in {q \in Requests : Granted(q)}}
Signed == {sessions[i].id : i \in DOMAIN sessions}
Drawn(id) == TicketOf(id, minted[id].username, minted[id].audience)

TicketsAreIds ==
  /\ OpenTickets = {Drawn(id) : id \in Held}
  /\ GrantedTickets = {Drawn(id) : id \in Signed}
  /\ Held \subseteq DOMAIN minted
  /\ Signed \subseteq DOMAIN minted

(* Since holders match what was drawn, the tickets are their ids' tickets. *)
LEMMA TicketsByIds == TicketsMatch => TicketsAreIds
<1> SUFFICES ASSUME TicketsMatch
             PROVE  TicketsAreIds
  OBVIOUS
<1>1. \A id \in DOMAIN issuing : TicketOf(id, issuing[id].username, issuing[id].audience) = Drawn(id)
  BY DEF TicketsMatch, Drawn
<1>2. \A id \in Present : TicketOf(id, challenges[id].username, challenges[id].audience) = Drawn(id)
  BY DEF TicketsMatch, Drawn
<1>3. \A r \in Requests : Granted(r) =>
        TicketOf(req[r].id, req[r].username, req[r].audience) = Drawn(req[r].id)
  BY DEF TicketsMatch, Drawn, Granted
<1>4. \A i \in DOMAIN sessions :
        TicketOf(sessions[i].id, sessions[i].sub, sessions[i].aud) = Drawn(sessions[i].id)
  BY DEF TicketsMatch, Drawn
<1>5. OpenTickets = {Drawn(id) : id \in Held}
  BY <1>1, <1>2, <1>3 DEF OpenTickets, Held
<1>6. GrantedTickets = {Drawn(id) : id \in Signed}
  BY <1>4 DEF GrantedTickets, Signed
<1>7. Held \subseteq DOMAIN minted /\ Signed \subseteq DOMAIN minted
  BY DEF TicketsMatch, Held, Signed, Answered, Granted
<1> QED
  BY <1>5, <1>6, <1>7 DEF TicketsAreIds

(* The same after a step.                                                  *)
LEMMA TicketsByIdsNext == TicketsMatch' => TicketsAreIds'
  BY TicketsByIds, PTL

(* A step that draws nothing, signs nothing and gives no id a new holder   *)
(* loses tickets or changes none.                                          *)
LEMMA LoseStep ==
  ASSUME TicketsMatch, TicketsMatch', minted' = minted, Held' \subseteq Held, sessions' = sessions
  PROVE  Grants!Lose
<1>1. \A id : Drawn(id)' = Drawn(id)
  BY DEF Drawn, TicketOf
<1>2. TicketsAreIds /\ TicketsAreIds'
  BY TicketsByIds, TicketsByIdsNext
<1>3. OpenTickets' \subseteq OpenTickets
  BY <1>1, <1>2 DEF TicketsAreIds
<1>4. GrantedTickets' = GrantedTickets
  BY DEF GrantedTickets
<1> QED
  BY <1>3, <1>4 DEF Grants!Lose

(* issueChallenge opens the ticket of a fresh id.                          *)
LEMMA OpenStep ==
  ASSUME TypeInv, TicketsMatch, TicketsMatch',
         NEW id \in Ids, NEW u \in Usernames, NEW a \in Audiences, IssueStart(id, u, a)
  PROVE  Grants!Open(TicketOf(id, u, a))
<1>1. /\ id \notin DOMAIN minted
      /\ DOMAIN minted' = DOMAIN minted \cup {id}
      /\ DOMAIN issuing' = DOMAIN issuing \cup {id}
      /\ \A i \in DOMAIN minted : minted'[i] = minted[i]
      /\ minted'[id].username = u /\ minted'[id].audience = a
      /\ UNCHANGED <<challenges, req, sessions>>
  BY DEF IssueStart, storeVars
<1>2. TicketsAreIds /\ TicketsAreIds'
  BY TicketsByIds, TicketsByIdsNext
<1>3. Held' = Held \cup {id} /\ Signed' = Signed
  BY <1>1 DEF Held, Signed, Present, Granted
<1>4. \A i \in DOMAIN minted : Drawn(i)' = Drawn(i)
  BY <1>1 DEF Drawn, TicketOf
<1>5. Drawn(id)' = TicketOf(id, u, a)
  BY <1>1 DEF Drawn, TicketOf
<1>6. OpenTickets' = OpenTickets \cup {TicketOf(id, u, a)}
  BY <1>2, <1>3, <1>4, <1>5 DEF TicketsAreIds
<1>7. GrantedTickets' = GrantedTickets
  BY <1>1 DEF GrantedTickets
<1>8. TicketOf(id, u, a).id = id
  BY DEF TicketOf
<1> QED
  BY <1>1, <1>6, <1>7, <1>8 DEF Grants!Open

(* Signing a session grants the ticket of the challenge the handler took.  *)
LEMMA GrantStep ==
  ASSUME TypeInv, AuthInv, TicketsMatch', NEW r \in Requests, SignSession(r)
  PROVE  Grants!Grant(Drawn(req[r].id))
<1> DEFINE s == [id |-> req[r].id, sub |-> req[r].username, aud |-> req[r].audience,
                 key |-> req[r].key, iat |-> now, arrived |-> req[r].arrived,
                 edition |-> req[r].edition]
           id == req[r].id
<1>1. /\ r \in DOMAIN req /\ req[r].pc = "sign"
      /\ sessions' = Append(sessions, s) /\ Answer(r)
      /\ UNCHANGED <<challenges, issuing, minted>>
  BY DEF SignSession, storeVars
<1>2. s.id = id
  OBVIOUS
<1> HIDE DEF s
<1>3. sessions \in Seq(Session)
  BY DEF TypeInv, AuthTypeOK, IssuerTypeOK
<1>4. Signed' = Signed \cup {id}
  <2>1. /\ DOMAIN sessions' = DOMAIN sessions \cup {Len(sessions) + 1}
        /\ \A i \in DOMAIN sessions : sessions'[i] = sessions[i]
        /\ sessions'[Len(sessions) + 1] = s
    BY <1>1, <1>3
  <2> QED
    BY <1>2, <2>1 DEF Signed
<1>5. /\ DOMAIN req' = DOMAIN req \ {r}
      /\ \A q \in DOMAIN req' : req'[q] = req[q]
  BY <1>1, AnswerRemoves
<1>6. id \notin DOMAIN issuing /\ id \notin Present
  BY <1>1 DEF AuthInv, TicketsMatch, OneHolder, Answered
<1>7. \A q \in DOMAIN req : req[q].pc = "sign" /\ req[q].id = id => q = r
  BY <1>1 DEF AuthInv, OneHolder
<1>8. id \in Held
  BY <1>1 DEF Held, Granted
<1>9. Held' = Held \ {id}
  BY <1>1, <1>5, <1>6, <1>7 DEF Held, Granted, Present
<1>10. \A i : Drawn(i)' = Drawn(i)
  BY <1>1 DEF Drawn, TicketOf
<1>11. \A i, j : Drawn(i) = Drawn(j) => i = j
  <2>1. \A i : Drawn(i).id = i
    BY DEF Drawn, TicketOf
  <2> QED
    BY <2>1
<1> HIDE DEF id
<1>12. TicketsAreIds /\ TicketsAreIds'
  BY TicketsByIds, TicketsByIdsNext DEF AuthInv
<1>13. Drawn(id) \in OpenTickets
  BY <1>8, <1>12 DEF TicketsAreIds
<1>14. OpenTickets' = OpenTickets \ {Drawn(id)}
  BY <1>9, <1>10, <1>11, <1>12 DEF TicketsAreIds
<1>15. GrantedTickets' = GrantedTickets \cup {Drawn(id)}
  BY <1>4, <1>10, <1>12 DEF TicketsAreIds
<1> QED
  BY <1>1, <1>13, <1>14, <1>15 DEF Grants!Grant, id

(* Every step of the service is a step of SessionGrant or a stutter.       *)
LEMMA GrantRefinementNext ==
  TypeInv /\ AuthInv /\ TicketsMatch' /\ [AuthNext]_vars =>
    [Grants!GrantNext]_(Grants!grantVars)
<1> SUFFICES ASSUME TypeInv, AuthInv, TicketsMatch', [AuthNext]_vars
             PROVE  Grants!GrantNext
  OBVIOUS
<1> USE DEF AuthInv
<1>1. ASSUME minted' = minted, Held' \subseteq Held, sessions' = sessions
      PROVE  Grants!GrantNext
  BY <1>1, LoseStep DEF Grants!GrantNext
<1>2. ASSUME UNCHANGED <<issuing, minted, sessions>>,
             Present' \subseteq Present,
             \A q \in Requests : Granted(q)' => Granted(q) /\ req'[q] = req[q]
      PROVE  Grants!GrantNext
  <2>1. Held' \subseteq Held
    BY <1>2 DEF Held
  <2> QED
    BY <1>1, <1>2, <2>1
<1>3. ASSUME NEW id \in Ids, NEW u \in Usernames, NEW a \in Audiences, IssueStart(id, u, a)
      PROVE  Grants!GrantNext
  <2>1. TicketOf(id, u, a) \in Grants!Ticket
    BY DEF TicketOf, Grants!Ticket
  <2>2. Grants!Open(TicketOf(id, u, a))
    BY <1>3, OpenStep
  <2> QED
    BY <2>1, <2>2 DEF Grants!GrantNext
<1>4. ASSUME NEW id \in Ids, IssueInsert(id)
      PROVE  Grants!GrantNext
  <2>1. /\ id \in DOMAIN issuing
        /\ Insert(id, issuing[id].username, issuing[id].audience, issuing[id].expires)
        /\ DOMAIN issuing' = DOMAIN issuing \ {id}
        /\ UNCHANGED <<req, sessions, minted>>
    BY <1>4 DEF IssueInsert
  <2>2. Present' \subseteq Present \cup {id}
    BY <2>1, InsertAdds
  <2>3. Held' \subseteq Held
    BY <2>1, <2>2 DEF Held, Granted
  <2> QED
    BY <1>1, <2>1, <2>3
<1>5. ASSUME NEW r \in Requests, NEW record, record.pc # "sign", Suspend(r, record),
             UNCHANGED <<issuing, minted, sessions>>, Present' \subseteq Present
      PROVE  Grants!GrantNext
  <2>1. /\ DOMAIN req' = DOMAIN req \cup {r}
        /\ req'[r] = record
        /\ \A q \in DOMAIN req : q # r => req'[q] = req[q]
    BY <1>5, SuspendSets
  <2>2. \A q \in Requests : Granted(q)' => Granted(q) /\ req'[q] = req[q]
    BY <1>5, <2>1 DEF Granted
  <2> QED
    BY <1>2, <1>5, <2>2
<1>6. ASSUME NEW r \in Requests, Answer(r),
             UNCHANGED <<issuing, minted, sessions>>, Present' \subseteq Present
      PROVE  Grants!GrantNext
  <2>1. /\ DOMAIN req' = DOMAIN req \ {r}
        /\ \A q \in DOMAIN req' : req'[q] = req[q]
    BY <1>6, AnswerRemoves
  <2>2. \A q \in Requests : Granted(q)' => Granted(q) /\ req'[q] = req[q]
    BY <2>1 DEF Granted
  <2> QED
    BY <1>2, <1>6, <2>2
<1>7. ASSUME NEW r \in Requests, Begin(r)
      PROVE  Grants!GrantNext
  <2>1. PICK id \in Answered, u \in Usernames, n \in BOOLEAN, k \in Keys :
          Suspend(r, [pc |-> "attempt", id |-> id, username |-> u, rightNonce |-> n, signer |-> k,
                      audience |-> None, key |-> NoKey, arrived |-> served, edition |-> 0])
    BY <1>7 DEF Begin
  <2>2. UNCHANGED <<challenges, issuing, minted, sessions>>
    BY <1>7 DEF Begin, storeVars
  <2> QED
    BY <1>5, <2>1, <2>2 DEF Present
<1>8. ASSUME NEW r \in Requests, AttemptAdmitted(r)
      PROVE  Grants!GrantNext
  <2>1. /\ CountAttempt(req[r].id) /\ UNCHANGED <<issuing, minted, sessions>>
        /\ req[r] \in Request
    BY <1>8 DEF AttemptAdmitted, TypeInv, AuthTypeOK, IssuerTypeOK
  <2>2. Present' \subseteq Present
    BY <2>1, CountAttemptCounts
  <2> DEFINE next == [req[r] EXCEPT !.pc = "resolve", !.audience = challenges[req[r].id].audience]
  <2>3. next.pc = "resolve"
    BY <2>1 DEF Request
  <2>4. Answer(r) \/ Suspend(r, next)
    BY <1>8 DEF AttemptAdmitted
  <2> HIDE DEF next
  <2> QED
    BY <1>5, <1>6, <2>1, <2>2, <2>3, <2>4
<1>9. ASSUME NEW r \in Requests, Resolve(r)
      PROVE  Grants!GrantNext
  <2> DEFINE next == [req[r] EXCEPT !.pc = "verify", !.key = keys[req[r].username],
                                    !.edition = served]
  <2>1. req[r] \in Request /\ Suspend(r, next) /\ UNCHANGED <<challenges, issuing, minted, sessions>>
    BY <1>9 DEF Resolve, storeVars, TypeInv, AuthTypeOK, IssuerTypeOK
  <2>2. next.pc = "verify"
    BY <2>1 DEF Request
  <2> HIDE DEF next
  <2> QED
    BY <1>5, <2>1, <2>2 DEF Present
<1>10. ASSUME NEW r \in Requests, VerifyAccepts(r)
       PROVE  Grants!GrantNext
  <2> DEFINE next == [req[r] EXCEPT !.pc = "consume"]
  <2>1. req[r] \in Request /\ Suspend(r, next) /\ UNCHANGED <<challenges, issuing, minted, sessions>>
    BY <1>10 DEF VerifyAccepts, storeVars, TypeInv, AuthTypeOK, IssuerTypeOK
  <2>2. next.pc = "consume"
    BY <2>1 DEF Request
  <2> HIDE DEF next
  <2> QED
    BY <1>5, <2>1, <2>2 DEF Present
<1>11. ASSUME NEW r \in Requests, ConsumeSucceeds(r)
       PROVE  Grants!GrantNext
  <2> DEFINE id == req[r].id
             next == [req[r] EXCEPT !.pc = "sign"]
  <2>1. /\ r \in DOMAIN req /\ req[r] \in Request
        /\ Delete(id) /\ Suspend(r, next)
        /\ UNCHANGED <<issuing, sessions, minted>>
    BY <1>11 DEF ConsumeSucceeds, TypeInv, AuthTypeOK, IssuerTypeOK
  <2>2. next.id = id
    BY <2>1 DEF Request
  <2>3. id \in Present /\ challenges' = Keep(Present \ {id})
    BY <2>1 DEF Delete, Live
  <2>4. Present' \subseteq Present
    BY <2>3, KeepRemoves
  <2> HIDE DEF next, id
  <2>5. /\ DOMAIN req' = DOMAIN req \cup {r}
        /\ req'[r] = next
        /\ \A q \in DOMAIN req : q # r => req'[q] = req[q]
    BY <2>1, SuspendSets
  <2>6. Held' \subseteq Held
    BY <2>1, <2>2, <2>3, <2>4, <2>5 DEF Held, Granted
  <2> QED
    BY <1>1, <2>1, <2>6
<1>12. ASSUME NEW r \in Requests, AttemptRefused(r) \/ ConsumeFails(r) \/ ExchangeFails(r)
       PROVE  Grants!GrantNext
  <2>1. challenges' = Keep(Present) \/ challenges' = challenges
    BY <1>12 DEF AttemptRefused, ConsumeFails, ExchangeFails, CleanUpOnly, storeVars
  <2>2. Present' \subseteq Present
    BY <2>1, KeepRemoves DEF Present
  <2>3. Answer(r) /\ UNCHANGED <<issuing, minted, sessions>>
    BY <1>12 DEF AttemptRefused, ConsumeFails, ExchangeFails
  <2> QED
    BY <1>6, <2>2, <2>3
<1>13. ASSUME NEW r \in Requests, SignSession(r)
       PROVE  Grants!GrantNext
  <2>1. r \in DOMAIN req
    BY <1>13 DEF SignSession
  <2>2. req[r].id \in DOMAIN minted
    BY <2>1 DEF TicketsMatch, Answered
  <2>3. Drawn(req[r].id) \in Grants!Ticket
    BY <2>2 DEF TypeInv, AuthTypeOK, IssuerTypeOK, Minted, Drawn, TicketOf, Grants!Ticket
  <2>4. Grants!Grant(Drawn(req[r].id))
    BY <1>13, GrantStep
  <2> QED
    BY <2>3, <2>4 DEF Grants!GrantNext
<1>14. CASE Crash
  <2>1. /\ DOMAIN req' = {} /\ DOMAIN issuing' = {} /\ Present' = {}
        /\ UNCHANGED <<sessions, minted>>
    BY <1>14 DEF Crash, StoreCrash, Empty, Present
  <2>2. Held' \subseteq Held
    BY <2>1 DEF Held, Granted
  <2> QED
    BY <1>1, <2>1, <2>2
<1>15. CASE UNCHANGED <<challenges, issuing, req, sessions, minted>>
  BY <1>2, <1>15 DEF Present, Granted
<1> QED
  BY <1>3, <1>4, <1>7, <1>8, <1>9, <1>10, <1>11, <1>12, <1>13, <1>14, <1>15
  DEF AuthNext, ChallengeStep, ExchangeStep, vars, storeVars, issuerVars, Tick, IssueRefused

(* The auth service implements SessionGrant: whatever the handlers, the    *)
(* cleanups and the crashes do, a ticket is granted at most once, to whom  *)
(* it was drawn for, and a lost ticket never comes back.                   *)
THEOREM ServiceImplementsSessionGrant == AuthSpec => ImplementsSessionGrant
<1>1. AuthInit => Grants!GrantInit
  BY DEF AuthInit, StoreInit, Empty, Grants!GrantInit, OpenTickets, GrantedTickets, Present,
         Granted
<1>2. TypeInv /\ AuthInv /\ AuthInv' /\ [AuthNext]_vars => [Grants!GrantNext]_(Grants!grantVars)
  BY GrantRefinementNext DEF AuthInv
<1> QED
  BY <1>1, <1>2, AuthTyped, AuthInvariant, PTL
  DEF AuthSpec, ImplementsSessionGrant, Grants!GrantSpec

-----------------------------------------------------------------------------
(* The keys behind the sessions.                                           *)

(* A key is a user's key in an edition the service had accepted.           *)
KeyOfEdition(user, key, edition) ==
  /\ edition \in 1 .. Latest
  /\ Acceptable(edition)
  /\ catalog[edition].keys[user] = key

Resolved(r) == req[r].pc \in {"verify", "consume", "sign"}

(* What is inductive about SessionKeyCurrent: the key and its edition are  *)
(* right from the moment they are resolved until the session is signed.    *)
KeysFromEditions ==
  /\ \A r \in DOMAIN req : Resolved(r) =>
       KeyOfEdition(req[r].username, req[r].key, req[r].edition)
  /\ \A i \in DOMAIN sessions :
       KeyOfEdition(sessions[i].sub, sessions[i].key, sessions[i].edition)

(* What one refresh at a time adds: the edition served never goes back.    *)
(* Nothing is in flight while no process runs.                             *)
EditionsAdvance ==
  /\ ~up => served = 0 /\ DOMAIN req = {} /\ \A f \in Refreshers : refresh[f].pc = "idle"
  /\ \A f \in Refreshers : refresh[f].pc = "hashing" => refresh[f].edition >= served
  /\ \A r \in DOMAIN req : /\ req[r].arrived <= served
                           /\ Resolved(r) => req[r].edition >= req[r].arrived
  /\ \A i \in DOMAIN sessions : sessions[i].edition >= sessions[i].arrived

(* Editions only get more.                                                 *)
LEMMA EditionsStay ==
  ASSUME ResolverTypeOK, [AuthNext]_vars
  PROVE  \A u, k, e : KeyOfEdition(u, k, e) => KeyOfEdition(u, k, e)'
<1>1. CASE EditCatalog
  <2>1. /\ Latest \in Nat /\ Latest' = Latest + 1
        /\ \A e \in 1 .. Latest : catalog'[e] = catalog[e]
    BY <1>1, EditKeepsEditions, EditionTypes
  <2> QED
    BY <2>1 DEF KeyOfEdition, Acceptable
<1>2. CASE UNCHANGED catalog
  BY <1>2 DEF KeyOfEdition, Acceptable, Latest
<1>3. EditCatalog \/ UNCHANGED catalog
  BY ResolverStepNext DEF ResolverNext, ResolverStep, RefreshStep, BootAccepts, BootRejects,
     BootFault, StartRefresh, HashUser, PublishKeys, RejectCatalog, RefreshFault, ResolverCrash,
     resolverVars
<1> QED
  BY <1>1, <1>2, <1>3

(* A handler learns its key from the edition served, keeps it through its  *)
(* awaits, and signs the session with it.                                  *)
LEMMA KeysFromEditionsNext ==
  TypeInv /\ ResolverInv /\ KeysFromEditions /\ [AuthNext]_vars => KeysFromEditions'
<1> SUFFICES ASSUME TypeInv, ResolverInv, KeysFromEditions, [AuthNext]_vars
             PROVE  KeysFromEditions'
  OBVIOUS
<1> DEFINE Kept(q) == /\ req'[q].username = req[q].username /\ req'[q].key = req[q].key
                      /\ req'[q].edition = req[q].edition
<1>1. \A u, k, e : KeyOfEdition(u, k, e) => KeyOfEdition(u, k, e)'
  BY EditionsStay DEF ResolverInv
<1>2. ASSUME sessions' = sessions,
             \A q \in DOMAIN req' : Resolved(q)' => q \in DOMAIN req /\ Resolved(q) /\ Kept(q)
      PROVE  KeysFromEditions'
  BY <1>1, <1>2 DEF KeysFromEditions
<1>3. ASSUME NEW r \in Requests, Resolve(r)
      PROVE  KeysFromEditions'
  <2> DEFINE next == [req[r] EXCEPT !.pc = "verify", !.key = keys[req[r].username],
                                    !.edition = served]
  <2>1. /\ req[r] \in Request /\ Suspend(r, next) /\ sessions' = sessions /\ catalog' = catalog
        /\ req[r].username \in Users /\ keys[req[r].username] # NoKey
    BY <1>3 DEF Resolve, TypeInv, AuthTypeOK, IssuerTypeOK, resolverVars
  <2>2. /\ next.username = req[r].username /\ next.key = keys[req[r].username]
        /\ next.edition = served
    BY <2>1 DEF Request
  <2>3. KeyOfEdition(next.username, next.key, next.edition)
    <3>1. served # 0
      BY <2>1 DEF ResolverInv, KeysFromOneEdition, NoKeys
    <3>2. served \in 1 .. Latest
      BY <3>1, EditionTypes DEF ResolverInv, ResolverTypeOK
    <3> QED
      BY <2>2, <3>1, <3>2 DEF ResolverInv, KeysFromOneEdition, KeyOfEdition
  <2> HIDE DEF next
  <2>4. /\ DOMAIN req' = DOMAIN req \cup {r}
        /\ req'[r] = next
        /\ \A q \in DOMAIN req : q # r => req'[q] = req[q]
    BY <2>1, SuspendSets
  <2> QED
    BY <1>1, <2>1, <2>3, <2>4 DEF KeysFromEditions, Resolved
<1>4. ASSUME NEW r \in Requests, NEW to \in {"consume", "sign"}, r \in DOMAIN req, Resolved(r),
             Suspend(r, [req[r] EXCEPT !.pc = to]), sessions' = sessions
      PROVE  KeysFromEditions'
  <2> DEFINE next == [req[r] EXCEPT !.pc = to]
  <2>1. /\ next.username = req[r].username /\ next.key = req[r].key
        /\ next.edition = req[r].edition
    BY <1>4 DEF TypeInv, AuthTypeOK, IssuerTypeOK, Request
  <2> HIDE DEF next
  <2>2. /\ DOMAIN req' = DOMAIN req \cup {r}
        /\ req'[r] = next
        /\ \A q \in DOMAIN req : q # r => req'[q] = req[q]
    BY <1>4, SuspendSets DEF next
  <2> QED
    BY <1>2, <1>4, <2>1, <2>2 DEF Resolved
<1>5. ASSUME NEW r \in Requests, VerifyAccepts(r) \/ ConsumeSucceeds(r)
      PROVE  KeysFromEditions'
  BY <1>4, <1>5 DEF VerifyAccepts, ConsumeSucceeds, Resolved
<1>6. ASSUME NEW r \in Requests, Answer(r), sessions' = sessions
      PROVE  KeysFromEditions'
  BY <1>2, <1>6, AnswerRemoves DEF Resolved
<1>7. ASSUME NEW r \in Requests, NEW record, Suspend(r, record), sessions' = sessions,
             record.pc \in {"attempt", "resolve"}
      PROVE  KeysFromEditions'
  <2>1. /\ DOMAIN req' = DOMAIN req \cup {r}
        /\ req'[r] = record
        /\ \A q \in DOMAIN req : q # r => req'[q] = req[q]
    BY <1>7, SuspendSets
  <2> QED
    BY <1>2, <1>7, <2>1 DEF Resolved
<1>8. ASSUME NEW r \in Requests, Begin(r) \/ AttemptAdmitted(r)
      PROVE  KeysFromEditions'
  <2>1. CASE Begin(r)
    BY <1>7, <2>1 DEF Begin
  <2>2. CASE AttemptAdmitted(r)
    <3>1. req[r] \in Request
      BY <2>2 DEF AttemptAdmitted, TypeInv, AuthTypeOK, IssuerTypeOK
    <3>2. [req[r] EXCEPT !.pc = "resolve",
                         !.audience = challenges[req[r].id].audience].pc = "resolve"
      BY <3>1 DEF Request
    <3> QED
      BY <1>6, <1>7, <2>2, <3>2 DEF AttemptAdmitted
  <2> QED
    BY <1>8, <2>1, <2>2
<1>9. ASSUME NEW r \in Requests, AttemptRefused(r) \/ ConsumeFails(r) \/ ExchangeFails(r)
      PROVE  KeysFromEditions'
  BY <1>6, <1>9 DEF AttemptRefused, ConsumeFails, ExchangeFails
<1>10. ASSUME NEW r \in Requests, SignSession(r)
       PROVE  KeysFromEditions'
  <2> DEFINE s == [id |-> req[r].id, sub |-> req[r].username, aud |-> req[r].audience,
                   key |-> req[r].key, iat |-> now, arrived |-> req[r].arrived,
                   edition |-> req[r].edition]
  <2>1. /\ r \in DOMAIN req /\ Resolved(r) /\ Answer(r) /\ sessions' = Append(sessions, s)
        /\ sessions \in Seq(Session)
    BY <1>10 DEF SignSession, Resolved, TypeInv, AuthTypeOK, IssuerTypeOK
  <2>2. KeyOfEdition(s.sub, s.key, s.edition)
    BY <2>1 DEF KeysFromEditions
  <2> HIDE DEF s
  <2>3. \A i \in DOMAIN sessions' :
          (i \in DOMAIN sessions /\ sessions'[i] = sessions[i]) \/ sessions'[i] = s
    BY <2>1
  <2>4. DOMAIN req' = DOMAIN req \ {r} /\ \A q \in DOMAIN req' : req'[q] = req[q]
    BY <2>1, AnswerRemoves
  <2> QED
    BY <1>1, <2>2, <2>3, <2>4 DEF KeysFromEditions, Resolved
<1>11. CASE Crash
  BY <1>2, <1>11 DEF Crash, Empty
<1>12. CASE UNCHANGED <<req, sessions>>
  BY <1>2, <1>12 DEF Resolved
<1> QED
  BY <1>3, <1>5, <1>8, <1>9, <1>10, <1>11, <1>12
  DEF AuthNext, ChallengeStep, ExchangeStep, vars, storeVars, issuerVars, Tick, IssueRefused,
      IssueStart, IssueInsert

(* Of two refreshes the slower may serve an older edition: what follows is *)
(* about a service whose refreshes do not overlap, as in MCAuthAnswers.    *)
OneRefresh == \A f, g \in Refreshers : f = g

(* With one refresher, a step of the resolver never lowers the edition     *)
(* served, and a refresh under way is for one at least as new.             *)
LEMMA ServedAdvances ==
  ASSUME OneRefresh, TypeInv, EditionsAdvance, ResolverStep
  PROVE  /\ served' >= served
         /\ ~up' => ~up /\ served' = 0 /\ \A f \in Refreshers : refresh'[f].pc = "idle"
         /\ \A f \in Refreshers : refresh'[f].pc = "hashing" => refresh'[f].edition >= served'
<1>1. /\ served \in 0 .. Latest /\ Latest \in Nat
      /\ refresh \in [Refreshers -> RefreshState]
  BY EditionTypes DEF TypeInv, AuthTypeOK, ResolverTypeOK
<1>2. CASE EditCatalog \/ BootRejects \/ BootFault
  BY <1>1, <1>2 DEF EditCatalog, BootRejects, BootFault, EditionsAdvance
<1>3. CASE BootAccepts
  BY <1>1, <1>3 DEF BootAccepts, EditionsAdvance
<1>4. ASSUME NEW f \in Refreshers, StartRefresh(f)
      PROVE  served' >= served /\ up' /\ refresh'[f].edition >= served'
  BY <1>1, <1>4 DEF StartRefresh
<1>5. ASSUME NEW f \in Refreshers, HashUser(f)
      PROVE  served' >= served /\ up' = up /\ refresh[f].pc = "hashing"
             /\ refresh'[f].edition = refresh[f].edition
  <2>1. refresh[f] \in RefreshState
    BY <1>1
  <2> QED
    BY <1>1, <1>5, <2>1 DEF HashUser, RefreshState
<1>6. ASSUME NEW f \in Refreshers, PublishKeys(f)
      PROVE  served' >= served /\ up' = up /\ refresh[f].pc = "hashing" /\ refresh'[f].pc = "idle"
  BY <1>1, <1>6 DEF PublishKeys, EditionsAdvance, Idle
<1>7. ASSUME NEW f \in Refreshers, RejectCatalog(f) \/ RefreshFault(f)
      PROVE  served' = served /\ up' = up /\ refresh[f].pc = "hashing" /\ refresh'[f].pc = "idle"
  BY <1>1, <1>7 DEF RejectCatalog, RefreshFault, Idle
<1>8. ASSUME NEW f \in Refreshers, StartRefresh(f) \/ RefreshStep(f) \/ RefreshFault(f)
      PROVE  /\ served' >= served /\ up'
             /\ refresh'[f].pc = "hashing" => refresh'[f].edition >= served'
  <2>1. refresh[f].pc = "hashing" => up /\ refresh[f].edition >= served
    BY DEF EditionsAdvance
  <2>2. CASE HashUser(f)
    BY <1>1, <1>5, <2>1, <2>2 DEF HashUser
  <2> QED
    BY <1>1, <1>4, <1>6, <1>7, <1>8, <2>1, <2>2 DEF RefreshStep
<1> QED
  BY <1>2, <1>3, <1>8 DEF ResolverStep, OneRefresh

(* With one refresher, an exchange's edition is at least the one served    *)
(* when it arrived, whatever the step.                                     *)
LEMMA EditionsAdvanceNext ==
  OneRefresh /\ TypeInv /\ EditionsAdvance /\ [AuthNext]_vars /\ ResolverTypeOK'
    => EditionsAdvance'
<1> SUFFICES ASSUME OneRefresh, TypeInv, EditionsAdvance, [AuthNext]_vars, ResolverTypeOK'
             PROVE  EditionsAdvance'
  OBVIOUS
<1> DEFINE Sound(record) ==
             /\ record.arrived <= served
             /\ record.pc \in {"verify", "consume", "sign"} => record.edition >= record.arrived
<1>1. /\ served \in Nat /\ served' \in Nat
      /\ \A q \in DOMAIN req : /\ q \in Requests /\ req[q] \in Request
                               /\ req[q].arrived \in Nat /\ req[q].edition \in Nat
  BY DEF TypeInv, AuthTypeOK, ResolverTypeOK, IssuerTypeOK, Request
<1>2. \A q \in DOMAIN req : Sound(req[q])
  BY DEF EditionsAdvance, Resolved
<1>3. CASE ResolverStep /\ UNCHANGED issuerVars
  <2>1. served' >= served
    BY <1>3, ServedAdvances
  <2>2. \A q \in DOMAIN req : req[q].arrived <= served'
    BY <1>1, <1>2, <2>1
  <2> QED
    BY <1>1, <1>2, <1>3, <2>2, ServedAdvances DEF EditionsAdvance, issuerVars, Resolved
<1>4. ASSUME UNCHANGED <<resolverVars, sessions>>, ~up => DOMAIN req' \subseteq DOMAIN req,
             \A q \in DOMAIN req' : Sound(req'[q])
      PROVE  EditionsAdvance'
  BY <1>4 DEF EditionsAdvance, resolverVars, Resolved
<1>5. ASSUME NEW r \in Requests, NEW record, Suspend(r, record), Sound(record),
             UNCHANGED <<resolverVars, sessions>>, r \in DOMAIN req \/ up
      PROVE  EditionsAdvance'
  <2> HIDE DEF Sound
  <2>1. /\ DOMAIN req' = DOMAIN req \cup {r}
        /\ req'[r] = record
        /\ \A q \in DOMAIN req : q # r => req'[q] = req[q]
    BY <1>5, SuspendSets
  <2> QED
    BY <1>2, <1>4, <1>5, <2>1
<1>6. ASSUME NEW r \in Requests, Answer(r), UNCHANGED <<resolverVars, sessions>>
      PROVE  EditionsAdvance'
  <2> HIDE DEF Sound
  <2> QED
    BY <1>2, <1>4, <1>6, AnswerRemoves
<1>7. ASSUME NEW r \in Requests, Begin(r)
      PROVE  EditionsAdvance'
  <2>1. PICK id \in Answered, u \in Usernames, n \in BOOLEAN, k \in Keys :
          Suspend(r, [pc |-> "attempt", id |-> id, username |-> u, rightNonce |-> n, signer |-> k,
                      audience |-> None, key |-> NoKey, arrived |-> served, edition |-> 0])
    BY <1>7 DEF Begin
  <2> DEFINE record == [pc |-> "attempt", id |-> id, username |-> u, rightNonce |-> n,
                        signer |-> k, audience |-> None, key |-> NoKey, arrived |-> served,
                        edition |-> 0]
  <2>2. Sound(record)
    BY <1>1
  <2> HIDE DEF Sound
  <2> QED
    BY <1>5, <1>7, <2>1, <2>2 DEF Begin
<1>8. ASSUME NEW r \in Requests, AttemptAdmitted(r)
      PROVE  EditionsAdvance'
  <2> DEFINE next == [req[r] EXCEPT !.pc = "resolve", !.audience = challenges[req[r].id].audience]
  <2>1. r \in DOMAIN req /\ UNCHANGED <<resolverVars, sessions>> /\ (Suspend(r, next) \/ Answer(r))
    BY <1>8 DEF AttemptAdmitted
  <2>2. next.pc = "resolve" /\ next.arrived = req[r].arrived
    BY <1>1, <2>1 DEF Request
  <2>3. Sound(next)
    BY <1>2, <2>1, <2>2
  <2> HIDE DEF next, Sound
  <2> QED
    BY <1>5, <1>6, <2>1, <2>3
<1>9. ASSUME NEW r \in Requests, Resolve(r)
      PROVE  EditionsAdvance'
  <2> DEFINE next == [req[r] EXCEPT !.pc = "verify", !.key = keys[req[r].username],
                                    !.edition = served]
  <2>1. r \in DOMAIN req /\ UNCHANGED <<resolverVars, sessions>> /\ Suspend(r, next)
    BY <1>9 DEF Resolve
  <2>2. next.edition = served /\ next.arrived = req[r].arrived
    BY <1>1, <2>1 DEF Request
  <2>3. Sound(next)
    BY <1>1, <1>2, <2>1, <2>2
  <2> HIDE DEF next, Sound
  <2> QED
    BY <1>5, <2>1, <2>3
<1>10. ASSUME NEW r \in Requests, VerifyAccepts(r) \/ ConsumeSucceeds(r)
       PROVE  EditionsAdvance'
  <2>1. PICK to \in {"consume", "sign"} : Suspend(r, [req[r] EXCEPT !.pc = to])
    BY <1>10 DEF VerifyAccepts, ConsumeSucceeds
  <2> DEFINE next == [req[r] EXCEPT !.pc = to]
  <2>2. /\ r \in DOMAIN req /\ UNCHANGED <<resolverVars, sessions>> /\ Suspend(r, next)
        /\ req[r].pc \in {"verify", "consume"}
    BY <1>10, <2>1 DEF VerifyAccepts, ConsumeSucceeds
  <2>3. next.edition = req[r].edition /\ next.arrived = req[r].arrived
    BY <1>1, <2>2 DEF Request
  <2>4. Sound(next)
    BY <1>2, <2>2, <2>3
  <2> HIDE DEF next, Sound
  <2> QED
    BY <1>5, <2>2, <2>4
<1>11. ASSUME NEW r \in Requests, AttemptRefused(r) \/ ConsumeFails(r) \/ ExchangeFails(r)
       PROVE  EditionsAdvance'
  <2> HIDE DEF Sound
  <2> QED
    BY <1>6, <1>11 DEF AttemptRefused, ConsumeFails, ExchangeFails
<1>12. ASSUME NEW r \in Requests, SignSession(r)
       PROVE  EditionsAdvance'
  <2> DEFINE s == [id |-> req[r].id, sub |-> req[r].username, aud |-> req[r].audience,
                   key |-> req[r].key, iat |-> now, arrived |-> req[r].arrived,
                   edition |-> req[r].edition]
  <2>1. /\ r \in DOMAIN req /\ Resolved(r) /\ Answer(r) /\ sessions' = Append(sessions, s)
        /\ sessions \in Seq(Session) /\ UNCHANGED resolverVars
    BY <1>12 DEF SignSession, Resolved, TypeInv, AuthTypeOK, IssuerTypeOK
  <2>2. s.edition >= s.arrived
    BY <2>1 DEF EditionsAdvance
  <2> HIDE DEF s
  <2>3. \A i \in DOMAIN sessions' :
          (i \in DOMAIN sessions /\ sessions'[i] = sessions[i]) \/ sessions'[i] = s
    BY <2>1
  <2>4. DOMAIN req' = DOMAIN req \ {r} /\ \A q \in DOMAIN req' : req'[q] = req[q]
    BY <2>1, AnswerRemoves
  <2> QED
    BY <2>1, <2>2, <2>3, <2>4 DEF EditionsAdvance, resolverVars, Resolved
<1>13. CASE Crash
  BY <1>13 DEF Crash, ResolverCrash, Empty, Idle, EditionsAdvance
<1>14. CASE UNCHANGED <<resolverVars, req, sessions>>
  <2> HIDE DEF Sound
  <2> QED
    BY <1>2, <1>4, <1>14
<1> HIDE DEF Sound
<1> QED
  BY <1>3, <1>7, <1>8, <1>9, <1>10, <1>11, <1>12, <1>13, <1>14
  DEF AuthNext, ChallengeStep, ExchangeStep, vars, storeVars, issuerVars, Tick, IssueRefused,
      IssueStart, IssueInsert

(* The key behind every session was its user's key in an edition that the  *)
(* service had accepted, however many refreshes overlap (catalog-keys.ts). *)
THEOREM SessionKeysWereAccepted == AuthSpec => []KeysFromEditions
<1>1. AuthInit => KeysFromEditions
  BY DEF AuthInit, Empty, KeysFromEditions
<1>2. KeysFromEditions /\ TypeInv /\ ResolverInv /\ [AuthNext]_vars => KeysFromEditions'
  BY KeysFromEditionsNext
<1> QED
  BY <1>1, <1>2, AuthTyped, ResolverInvOfAuth, PTL DEF AuthSpec

(* With one refresh at a time that edition is as new as the one the        *)
(* service served when the exchange arrived, or newer: a key that had been *)
(* rotated out before it signs in nobody.                                  *)
THEOREM SessionKeysAreCurrent == OneRefresh => (AuthSpec => []SessionKeyCurrent)
<1> SUFFICES ASSUME OneRefresh
             PROVE  AuthSpec => []SessionKeyCurrent
  OBVIOUS
<1>1. AuthInit => EditionsAdvance
  BY DEF AuthInit, ResolverInit, Idle, Empty, EditionsAdvance
<1>2. EditionsAdvance /\ TypeInv /\ TypeInv' /\ [AuthNext]_vars => EditionsAdvance'
  BY EditionsAdvanceNext DEF TypeInv, AuthTypeOK
<1>3. KeysFromEditions /\ EditionsAdvance => SessionKeyCurrent
  BY DEF KeysFromEditions, EditionsAdvance, KeyOfEdition, SessionKeyCurrent
<1> QED
  BY <1>1, <1>2, <1>3, AuthTyped, SessionKeysWereAccepted, PTL DEF AuthSpec

-----------------------------------------------------------------------------
(* The rate limit.                                                         *)

(* The challenges drawn for p in this process, and those since t.          *)
Mine(p) ==
  {id \in DOMAIN minted : /\ <<minted[id].username, minted[id].audience>> = p
                          /\ minted[id].life = life}
Since(p, t) == {id \in Mine(p) : minted[id].at >= t}

(* A pair without a window has had less than one window's worth lately:    *)
(* the challenge that opened its last window is too old.                   *)
Quiet(p) ==
  /\ Cardinality(Since(p, now - Window + 1)) <= MaxPerWindow - 1
  /\ \A id \in Mine(p) : minted[id].at < now

(* A window's counter covers what was drawn since it opened, the challenge *)
(* that opened it included; the instants that any Window ticks from then   *)
(* on may still see of the time before met an earlier window's rest.       *)
Opened(p) == rateLimits[p].expires - Window
Counted(p) ==
  /\ Opened(p) <= now
  /\ rateLimits[p].count <= MaxPerWindow
  /\ Cardinality(Since(p, Opened(p))) <= rateLimits[p].count
  /\ Cardinality(Since(p, Opened(p) + 1)) <= rateLimits[p].count - 1
  /\ Cardinality(Since(p, Opened(p) - Window + 1) \ Since(p, Opened(p))) <= MaxPerWindow - 1
  /\ \A id \in Mine(p) : minted[id].at < rateLimits[p].expires

(* What makes RateBound inductive.                                         *)
WindowsCounted ==
  /\ IsFiniteSet(DOMAIN minted)
  /\ \A id \in DOMAIN minted : minted[id].at <= now /\ minted[id].life <= life
  /\ \A p \in Pairs : IF p \in DOMAIN rateLimits THEN Counted(p) ELSE Quiet(p)

RateTypes ==
  /\ now \in Nat /\ life \in Nat
  /\ \A id \in DOMAIN minted : minted[id].at \in Nat /\ minted[id].life \in Nat
  /\ \A p \in DOMAIN rateLimits : rateLimits[p] \in RateEntry

(* The types the counting relies on follow from the service's.             *)
LEMMA RateTyped == TypeInv => RateTypes
BY StoreConstants DEF TypeInv, AuthTypeOK, StoreTypeOK, IssuerTypeOK, Minted, RateTypes

(* Fewer challenges count for less.                                        *)
LEMMA FewerCountLess ==
  ASSUME IsFiniteSet(DOMAIN minted), NEW S \in SUBSET DOMAIN minted, NEW T \in SUBSET S
  PROVE  /\ IsFiniteSet(S) /\ Cardinality(S) \in Nat
         /\ IsFiniteSet(T) /\ Cardinality(T) \in Nat
         /\ Cardinality(T) <= Cardinality(S)
<1>1. IsFiniteSet(S)
  BY FS_Subset
<1>2. IsFiniteSet(T) /\ Cardinality(T) <= Cardinality(S)
  BY <1>1, FS_Subset
<1> QED
  BY <1>1, <1>2, FS_CardinalityType

(* A pair whose window has run out is as quiet as one that never had one.  *)
LEMMA QuietUnlessRunning ==
  ASSUME RateTypes, WindowsCounted, NEW p \in Pairs \ Running
  PROVE  Quiet(p)
<1>1. CASE p \in DOMAIN rateLimits
  <2>1. /\ rateLimits[p].expires \in Nat /\ rateLimits[p].count \in Nat
        /\ rateLimits[p].expires <= now /\ now \in Nat /\ Window \in Nat
    BY <1>1, IssuerConstants DEF RateTypes, RateEntry, Running
  <2>2. /\ Opened(p) + 1 <= now - Window + 1
        /\ Opened(p) + 1 \in Int /\ now - Window + 1 \in Int
    BY <2>1 DEF Opened
  <2>3. Counted(p)
    BY <1>1 DEF WindowsCounted
  <2>4. Since(p, now - Window + 1) \subseteq Since(p, Opened(p) + 1)
    BY <2>2 DEF Since, Mine, RateTypes
  <2>5. /\ Cardinality(Since(p, now - Window + 1)) <= Cardinality(Since(p, Opened(p) + 1))
        /\ Cardinality(Since(p, now - Window + 1)) \in Nat
        /\ Cardinality(Since(p, Opened(p) + 1)) \in Nat
    BY <2>4, FewerCountLess DEF WindowsCounted, Since, Mine
  <2>6. Cardinality(Since(p, now - Window + 1)) <= MaxPerWindow - 1
    BY <2>1, <2>3, <2>5, IssuerConstants DEF Counted
  <2>7. \A id \in Mine(p) : minted[id].at < now
    BY <2>1, <2>3 DEF Counted, Mine, RateTypes
  <2> QED
    BY <2>6, <2>7 DEF Quiet
<1> QED
  BY <1>1 DEF WindowsCounted

(* Any Window ticks up to now meet at most two windows, one of them        *)
(* without its first challenge.                                            *)
LEMMA BoundNow ==
  RateTypes /\ WindowsCounted =>
    \A p \in Pairs : Cardinality(Recent(p, life, now)) <= 2 * MaxPerWindow - 1
<1> SUFFICES ASSUME RateTypes, WindowsCounted, NEW p \in Pairs
             PROVE  Cardinality(Recent(p, life, now)) <= 2 * MaxPerWindow - 1
  OBVIOUS
<1>1. now \in Nat /\ Window \in Nat \ {0} /\ MaxPerWindow \in Nat \ {0}
  BY IssuerConstants DEF RateTypes
<1>2. CASE p \notin Running
  <2>1. Recent(p, life, now) \subseteq Since(p, now - Window + 1)
    BY <1>1 DEF Recent, Since, Mine
  <2>2. /\ Cardinality(Recent(p, life, now)) <= Cardinality(Since(p, now - Window + 1))
        /\ Cardinality(Recent(p, life, now)) \in Nat
        /\ Cardinality(Since(p, now - Window + 1)) \in Nat
    BY <2>1, FewerCountLess DEF WindowsCounted, Since, Mine
  <2>3. Cardinality(Since(p, now - Window + 1)) <= MaxPerWindow - 1
    BY <1>2, QuietUnlessRunning DEF Quiet
  <2> QED
    BY <1>1, <2>2, <2>3
<1>3. CASE p \in Running
  <2> DEFINE new == Since(p, Opened(p))
             old == Since(p, Opened(p) - Window + 1) \ new
  <2>1. /\ p \in DOMAIN rateLimits /\ now < rateLimits[p].expires
        /\ rateLimits[p].expires \in Nat /\ rateLimits[p].count \in Nat
    BY <1>3 DEF RateTypes, RateEntry, Running
  <2>2. Opened(p) \in Int /\ Opened(p) - Window + 1 <= now - Window + 1
    <3>1. Opened(p) \in Int
      BY <1>1, <2>1 DEF Opened
    <3>2. Opened(p) <= now
      BY <2>1 DEF WindowsCounted, Counted
    <3> QED
      BY <1>1, <3>1, <3>2
  <2>3. Recent(p, life, now) \subseteq new \cup old
    BY <1>1, <2>2 DEF Recent, Since, Mine
  <2>4. /\ IsFiniteSet(new) /\ IsFiniteSet(old)
        /\ Cardinality(new) \in Nat /\ Cardinality(old) \in Nat
        /\ new \cup old \in SUBSET DOMAIN minted
    BY FewerCountLess DEF WindowsCounted, Since, Mine
  <2>5. Cardinality(new) <= MaxPerWindow /\ Cardinality(old) <= MaxPerWindow - 1
    BY <1>1, <2>1, <2>4 DEF WindowsCounted, Counted
  <2> HIDE DEF new, old
  <2>6. new \cap old = {}
    BY DEF old
  <2>7. Cardinality(new \cup old) = Cardinality(new) + Cardinality(old)
    <3>1. Cardinality(new \cup old)
            = Cardinality(new) + Cardinality(old) - Cardinality(new \cap old)
      BY <2>4, FS_Union
    <3>2. Cardinality(new \cap old) = 0
      BY <2>6, FS_EmptySet
    <3> QED
      BY <2>4, <3>1, <3>2
  <2>8. /\ Cardinality(Recent(p, life, now)) <= Cardinality(new \cup old)
        /\ Cardinality(Recent(p, life, now)) \in Nat
    BY <2>3, <2>4, FewerCountLess DEF WindowsCounted
  <2> QED
    BY <1>1, <2>4, <2>5, <2>7, <2>8
<1> QED
  BY <1>2, <1>3

(* The bound of one instant, after a step.                                 *)
LEMMA BoundNext ==
  RateTypes' /\ WindowsCounted' =>
    (\A p \in Pairs : Cardinality(Recent(p, life, now)) <= 2 * MaxPerWindow - 1)'
BY BoundNow, PTL

(* Where no challenge is drawn, a pair's windows stay counted as time goes *)
(* by, with or without its entry having been dropped.                      *)
LEMMA CountedStays ==
  ASSUME RateTypes, WindowsCounted, UNCHANGED <<minted, life>>, now' \in Nat, now' >= now,
         NEW p \in Pairs,
         p \in DOMAIN rateLimits' => /\ p \in DOMAIN rateLimits
                                     /\ rateLimits'[p] = rateLimits[p],
         p \in Running => p \in DOMAIN rateLimits'
  PROVE  IF p \in DOMAIN rateLimits' THEN Counted(p)' ELSE Quiet(p)'
<1>1. now \in Nat /\ Window \in Nat /\ MaxPerWindow \in Nat
  BY IssuerConstants DEF RateTypes
<1>2. Mine(p)' = Mine(p) /\ \A t : Since(p, t)' = Since(p, t)
  BY DEF Mine, Since
<1>3. CASE p \in DOMAIN rateLimits'
  <2>1. Opened(p)' = Opened(p)
    BY <1>3 DEF Opened
  <2>2. Opened(p) \in Int
    BY <1>1, <1>3 DEF Opened, RateTypes, RateEntry
  <2>3. Counted(p)
    BY <1>3 DEF WindowsCounted
  <2>4. Since(p, Opened(p))' = Since(p, Opened(p))
    BY <2>1 DEF Since, Mine
  <2>5. /\ Since(p, Opened(p) - Window + 1)' = Since(p, Opened(p) - Window + 1)
        /\ Since(p, Opened(p) + 1)' = Since(p, Opened(p) + 1)
    BY <2>1 DEF Since, Mine
  <2>6. Opened(p)' <= now'
    BY <1>1, <2>1, <2>2, <2>3 DEF Counted
  <2> QED
    BY <1>2, <1>3, <2>3, <2>4, <2>5, <2>6 DEF Counted
<1>4. CASE p \notin DOMAIN rateLimits'
  <2>1. Quiet(p)
    BY <1>4, QuietUnlessRunning
  <2>2. Since(p, now - Window + 1)' \subseteq Since(p, now - Window + 1)
    BY <1>1 DEF Since, Mine, RateTypes
  <2>3. /\ Cardinality(Since(p, now - Window + 1)') <= Cardinality(Since(p, now - Window + 1))
        /\ Cardinality(Since(p, now - Window + 1)') \in Nat
        /\ Cardinality(Since(p, now - Window + 1)) \in Nat
    BY <2>2, FewerCountLess DEF WindowsCounted, Since, Mine
  <2>4. Cardinality(Since(p, now - Window + 1))' <= MaxPerWindow - 1
    BY <1>1, <2>1, <2>3 DEF Quiet
  <2>5. \A id \in Mine(p) : minted'[id].at < now'
    BY <1>1, <2>1 DEF Quiet, Mine, RateTypes
  <2> QED
    BY <1>2, <1>4, <2>4, <2>5 DEF Quiet
<1> QED
  BY <1>3, <1>4

(* The windows stay counted when no challenge is drawn.                    *)
LEMMA WindowsStayCounted ==
  ASSUME RateTypes, WindowsCounted, UNCHANGED <<minted, life>>, now' \in Nat, now' >= now,
         \A p \in Pairs : /\ p \in Running => p \in DOMAIN rateLimits'
                          /\ p \in DOMAIN rateLimits' => /\ p \in DOMAIN rateLimits
                                                         /\ rateLimits'[p] = rateLimits[p]
  PROVE  WindowsCounted'
<1>1. \A id \in DOMAIN minted' : minted'[id].at <= now' /\ minted'[id].life <= life'
  BY DEF RateTypes, WindowsCounted
<1>2. \A p \in Pairs : IF p \in DOMAIN rateLimits' THEN Counted(p)' ELSE Quiet(p)'
  BY CountedStays
<1> QED
  BY <1>1, <1>2 DEF WindowsCounted

(* A challenge is drawn: counted in the window that runs, or in a new one  *)
(* that opens now.                                                         *)
LEMMA DrawIsCounted ==
  ASSUME RateTypes, WindowsCounted,
         NEW id \in Ids, NEW u \in Usernames, NEW a \in Audiences, IssueStart(id, u, a)
  PROVE  WindowsCounted'
<1> DEFINE p == <<u, a>>
<1>1. /\ now \in Nat /\ life \in Nat /\ Window \in Nat \ {0} /\ MaxPerWindow \in Nat \ {0}
      /\ now' = now /\ life' = life
  BY IssuerConstants DEF RateTypes, IssueStart, storeVars
<1>2. /\ id \notin DOMAIN minted /\ DOMAIN minted' = DOMAIN minted \cup {id}
      /\ \A i \in DOMAIN minted : minted'[i] = minted[i]
      /\ minted'[id].username = u /\ minted'[id].audience = a
      /\ minted'[id].at = now /\ minted'[id].life = life
  BY DEF IssueStart
<1>3. /\ rateLimits' = RateCounted(p) /\ RateAdmits(p) /\ p \in Pairs
      /\ DOMAIN rateLimits' = Running \cup {p}
  BY DEF IssueStart, RateCounted, Pairs
<1>4. /\ \A q \in Pairs : Mine(q)' = IF q = p THEN Mine(q) \cup {id} ELSE Mine(q)
      /\ \A q : Mine(q) \subseteq DOMAIN minted
  BY <1>1, <1>2 DEF Mine
<1> HIDE DEF p
<1>5. /\ IsFiniteSet(DOMAIN minted')
      /\ \A i \in DOMAIN minted' : minted'[i].at <= now' /\ minted'[i].life <= life'
  BY <1>1, <1>2, FS_AddElement DEF WindowsCounted
<1>6. ASSUME NEW q \in Pairs, q # p
      PROVE  IF q \in DOMAIN rateLimits' THEN Counted(q)' ELSE Quiet(q)'
  <2>1. \A t \in Int : Since(q, t)' = Since(q, t)
    BY <1>2, <1>4, <1>6 DEF Since
  <2>2. \A i \in Mine(q)' : i \in Mine(q) /\ minted'[i] = minted[i]
    BY <1>2, <1>4, <1>6
  <2>3. CASE q \in Running
    <3>1. q \in DOMAIN rateLimits /\ q \in DOMAIN rateLimits' /\ rateLimits'[q] = rateLimits[q]
      BY <1>3, <1>6, <2>3 DEF RateCounted, Running
    <3>2. Opened(q)' = Opened(q) /\ Opened(q) \in Int /\ Opened(q) - Window + 1 \in Int
      BY <1>1, <3>1 DEF Opened, RateTypes, RateEntry
    <3>3. /\ Since(q, Opened(q))' = Since(q, Opened(q))
          /\ Since(q, Opened(q) + 1)' = Since(q, Opened(q) + 1)
          /\ Since(q, Opened(q) - Window + 1)' = Since(q, Opened(q) - Window + 1)
      BY <1>2, <1>4, <1>6, <3>2 DEF Since
    <3>4. Counted(q)
      BY <3>1 DEF WindowsCounted
    <3> QED
      BY <1>1, <2>2, <3>1, <3>2, <3>3, <3>4 DEF Counted
  <2>4. CASE q \notin Running
    <3>1. q \notin DOMAIN rateLimits' /\ Quiet(q)
      BY <1>3, <1>6, <2>4, QuietUnlessRunning
    <3>2. Since(q, now - Window + 1)' = Since(q, now - Window + 1)
      BY <1>1, <1>2, <1>4, <1>6 DEF Since
    <3> QED
      BY <1>1, <2>2, <3>1, <3>2 DEF Quiet
  <2> QED
    BY <2>3, <2>4
<1>7. Counted(p)'
  <2>1. CASE p \in Running
    <3>1. /\ p \in DOMAIN rateLimits /\ Counted(p) /\ now < rateLimits[p].expires
          /\ rateLimits[p] \in RateEntry /\ rateLimits[p].count < MaxPerWindow
      BY <1>3, <2>1 DEF Running, WindowsCounted, RateTypes, RateAdmits
    <3>2. /\ rateLimits'[p].count = rateLimits[p].count + 1 /\ rateLimits[p].count \in Nat
          /\ rateLimits'[p].expires = rateLimits[p].expires /\ rateLimits[p].expires \in Nat
      <4>1. rateLimits'[p] = [rateLimits[p] EXCEPT !.count = @ + 1]
        BY <1>3, <2>1 DEF RateCounted
      <4> QED
        BY <3>1, <4>1 DEF RateEntry
    <3>3. Opened(p)' = Opened(p) /\ Opened(p) \in Int /\ Opened(p) <= now
      BY <1>1, <3>1, <3>2 DEF Opened, Counted
    <3>4. Since(p, Opened(p))' = Since(p, Opened(p)) \cup {id}
      BY <1>1, <1>2, <1>3, <1>4, <3>3 DEF Since
    <3>5. Since(p, Opened(p) - Window + 1)' = Since(p, Opened(p) - Window + 1) \cup {id}
      BY <1>1, <1>2, <1>3, <1>4, <3>3 DEF Since
    <3>6. Cardinality(Since(p, Opened(p)) \cup {id}) <= rateLimits'[p].count
      <4>1. /\ IsFiniteSet(Since(p, Opened(p))) /\ Cardinality(Since(p, Opened(p))) \in Nat
            /\ id \notin Since(p, Opened(p))
        BY <1>2, FewerCountLess DEF WindowsCounted, Since, Mine
      <4>2. Cardinality(Since(p, Opened(p)) \cup {id}) = Cardinality(Since(p, Opened(p))) + 1
        BY <4>1, FS_AddElement
      <4> QED
        BY <3>1, <3>2, <4>1, <4>2 DEF Counted
    <3>7. (Since(p, Opened(p) - Window + 1) \cup {id}) \ (Since(p, Opened(p)) \cup {id})
            = Since(p, Opened(p) - Window + 1) \ Since(p, Opened(p))
      BY <1>2 DEF Since, Mine
    <3>8. \A i \in Mine(p)' : minted'[i].at < rateLimits'[p].expires
      BY <1>2, <1>3, <1>4, <3>1, <3>2 DEF Counted
    <3>9. Cardinality((Since(p, Opened(p) - Window + 1) \ Since(p, Opened(p)))') <= MaxPerWindow - 1
      BY <3>1, <3>4, <3>5, <3>7 DEF Counted
    <3>10. rateLimits'[p].count <= MaxPerWindow /\ Opened(p)' <= now'
      BY <1>1, <3>1, <3>2, <3>3
    <3>11. Cardinality(Since(p, Opened(p))') <= rateLimits'[p].count
      BY <3>4, <3>6
    <3>12. Cardinality(Since(p, Opened(p) + 1)') <= rateLimits'[p].count - 1
      <4> DEFINE old == Since(p, Opened(p) + 1)
      <4>1. old \in SUBSET DOMAIN minted
        BY DEF Since, Mine
      <4>2. /\ IsFiniteSet(old) /\ Cardinality(old) \in Nat /\ id \notin old
        BY <1>2, <4>1, FewerCountLess DEF WindowsCounted
      <4>3. Since(p, Opened(p) + 1)' \subseteq old \cup {id}
        BY <1>2, <1>3, <1>4, <3>3 DEF Since
      <4>4. Cardinality(old) <= rateLimits[p].count - 1
        BY <3>1 DEF Counted
      <4> HIDE DEF old
      <4>5. IsFiniteSet(old \cup {id}) /\ Cardinality(old \cup {id}) = Cardinality(old) + 1
        BY <4>2, FS_AddElement
      <4>6. /\ Cardinality(Since(p, Opened(p) + 1)') <= Cardinality(old \cup {id})
            /\ Cardinality(Since(p, Opened(p) + 1)') \in Nat
        BY <4>3, <4>5, FS_Subset, FS_CardinalityType
      <4> QED
        BY <3>2, <4>2, <4>4, <4>5, <4>6
    <3> QED
      BY <3>8, <3>9, <3>10, <3>11, <3>12 DEF Counted
  <2>2. CASE p \notin Running
    <3>1. Quiet(p)
      BY <1>3, <2>2, QuietUnlessRunning
    <3>2. rateLimits'[p].count = 1 /\ rateLimits'[p].expires = now + Window
      BY <1>3, <2>2 DEF RateCounted
    <3>3. Opened(p)' = now
      BY <1>1, <3>2 DEF Opened
    <3>4. Since(p, Opened(p))' = {id}
      <4>1. \A i \in Mine(p) : ~(minted[i].at >= now)
        BY <1>1, <3>1 DEF Quiet, Mine, RateTypes
      <4> QED
        BY <1>1, <1>2, <1>3, <1>4, <3>3, <4>1 DEF Since
    <3>5. Since(p, Opened(p) - Window + 1)' = Since(p, now - Window + 1) \cup {id}
      BY <1>1, <1>2, <1>3, <1>4, <3>3 DEF Since
    <3>6. (Since(p, now - Window + 1) \cup {id}) \ {id} = Since(p, now - Window + 1)
      BY <1>2 DEF Since, Mine
    <3>7. Cardinality({id}) = 1
      BY FS_Singleton
    <3>8. \A i \in Mine(p)' : minted'[i].at < rateLimits'[p].expires
      <4>1. \A i \in DOMAIN minted' : minted'[i].at \in Nat /\ minted'[i].at <= now
        BY <1>1, <1>2 DEF RateTypes, WindowsCounted
      <4> QED
        BY <1>1, <3>2, <4>1 DEF Mine
    <3>9. Cardinality((Since(p, Opened(p) - Window + 1) \ Since(p, Opened(p)))') <= MaxPerWindow - 1
      BY <3>1, <3>4, <3>5, <3>6 DEF Quiet
    <3>10. rateLimits'[p].count <= MaxPerWindow /\ Opened(p)' <= now'
      BY <1>1, <3>2, <3>3
    <3>11. Cardinality(Since(p, Opened(p))') <= rateLimits'[p].count
      BY <3>2, <3>4, <3>7
    <3>12. Cardinality(Since(p, Opened(p) + 1)') <= rateLimits'[p].count - 1
      <4>1. \A i \in Mine(p)' : ~(minted'[i].at >= now + 1)
        BY <1>1, <1>2 DEF Mine, RateTypes, WindowsCounted
      <4>2. Since(p, Opened(p) + 1)' = {}
        BY <3>3, <4>1 DEF Since
      <4> QED
        BY <3>2, <4>2, FS_EmptySet
    <3> QED
      BY <3>8, <3>9, <3>10, <3>11, <3>12 DEF Counted
  <2> QED
    BY <2>1, <2>2
<1> QED
  BY <1>3, <1>5, <1>6, <1>7 DEF WindowsCounted

(* Every step keeps the counters true to what was drawn.                   *)
LEMMA WindowsCountedNext ==
  RateTypes /\ WindowsCounted /\ [AuthNext]_vars => WindowsCounted'
<1> SUFFICES ASSUME RateTypes, WindowsCounted, [AuthNext]_vars
             PROVE  WindowsCounted'
  OBVIOUS
<1>1. now \in Nat /\ now + 1 \in Nat /\ now + 1 >= now /\ now >= now
  BY DEF RateTypes
<1>2. ASSUME NEW u \in Usernames, NEW a \in Audiences, IssueRefused(u, a)
      PROVE  WindowsCounted'
  <2>1. UNCHANGED <<minted, life, now>> /\ rateLimits' = [p \in Running |-> rateLimits[p]]
    BY <1>2 DEF IssueRefused, storeVars
  <2> QED
    BY <1>1, <2>1, WindowsStayCounted DEF Running
<1>3. CASE Tick /\ UNCHANGED <<resolverVars, issuerVars>>
  BY <1>1, <1>3, WindowsStayCounted DEF Tick, issuerVars, Running
<1>4. CASE Crash
  <2>1. /\ UNCHANGED <<minted, now>> /\ life' = life + 1 /\ DOMAIN rateLimits' = {}
    BY <1>4 DEF Crash, StoreCrash, Empty
  <2>2. \A i \in DOMAIN minted : minted[i].life # life + 1 /\ minted[i].life <= life + 1
    BY DEF RateTypes, WindowsCounted
  <2>3. \A p \in Pairs : Mine(p)' = {} /\ Since(p, now - Window + 1)' = {}
    BY <2>1, <2>2 DEF Mine, Since
  <2>4. \A p \in Pairs : Quiet(p)'
    BY <2>3, FS_EmptySet, IssuerConstants DEF Quiet
  <2> QED
    BY <2>1, <2>2, <2>4 DEF WindowsCounted
<1>5. CASE UNCHANGED <<minted, life, now, rateLimits>>
  BY <1>1, <1>5, WindowsStayCounted DEF Running
<1> QED
  BY <1>2, <1>3, <1>4, <1>5, DrawIsCounted
  DEF AuthNext, ChallengeStep, ExchangeStep, vars, storeVars, issuerVars, IssueInsert,
      Begin, AttemptRefused, AttemptAdmitted, Resolve, VerifyAccepts, ExchangeFails,
      ConsumeSucceeds, ConsumeFails, SignSession

(* The instants before a step keep their bound, and a new one meets it.    *)
LEMMA RateBoundNext ==
  RateTypes /\ WindowsCounted /\ RateBound /\ [AuthNext]_vars /\ RateTypes' /\ WindowsCounted'
    => RateBound'
<1> SUFFICES ASSUME RateTypes, WindowsCounted, RateBound, [AuthNext]_vars,
                    RateTypes', WindowsCounted'
             PROVE  RateBound'
  OBVIOUS
<1> SUFFICES ASSUME NEW p \in Pairs, NEW l \in 1 .. life', NEW t \in 0 .. now'
             PROVE  Cardinality(Recent(p, l, t)') <= 2 * MaxPerWindow - 1
  BY DEF RateBound, Recent
<1>1. CASE l = life' /\ t = now'
  BY <1>1, BoundNext DEF Recent
<1>2. CASE ~(l = life' /\ t = now')
  <2>1. CASE \E id \in Ids, u \in Usernames, a \in Audiences : IssueStart(id, u, a)
    <3>1. Recent(p, l, t)' = Recent(p, l, t)
      BY <1>2, <2>1
      DEF IssueStart, storeVars, Recent, RateTypes
    <3> QED
      BY <2>1, <3>1 DEF IssueStart, storeVars, RateBound
  <2>2. CASE Tick /\ UNCHANGED <<resolverVars, issuerVars>>
    <3>1. minted' = minted /\ life' = life /\ now' = now + 1 /\ now \in Nat
      BY <2>2 DEF Tick, issuerVars, RateTypes
    <3>2. CASE t \in 0 .. now
      BY <3>1, <3>2 DEF Recent, RateBound
    <3>3. CASE t = now + 1
      <4>1. Recent(p, l, t)' \subseteq Recent(p, l, now)
        BY <3>1, <3>3, IssuerConstants DEF Recent, WindowsCounted, RateTypes
      <4>2. /\ Cardinality(Recent(p, l, t)') <= Cardinality(Recent(p, l, now))
            /\ Cardinality(Recent(p, l, t)') \in Nat /\ Cardinality(Recent(p, l, now)) \in Nat
        BY <4>1, FewerCountLess DEF WindowsCounted, Recent
      <4>3. Cardinality(Recent(p, l, now)) <= 2 * MaxPerWindow - 1
        BY <3>1 DEF RateBound
      <4> QED
        BY <4>2, <4>3, IssuerConstants
    <3> QED
      BY <3>1, <3>2, <3>3
  <2>3. CASE Crash
    <3>1. minted' = minted /\ now' = now /\ life' = life + 1 /\ life \in Nat
      BY <2>3 DEF Crash, StoreCrash, RateTypes
    <3>2. CASE l = life'
      <4>1. Recent(p, l, t)' = {}
        BY <3>1, <3>2 DEF Recent, WindowsCounted, RateTypes
      <4> QED
        BY <4>1, FS_EmptySet, IssuerConstants
    <3>3. CASE l # life'
      BY <3>1, <3>3 DEF Recent, RateBound
    <3> QED
      BY <3>2, <3>3
  <2>4. CASE UNCHANGED <<minted, life, now>>
    BY <2>4 DEF Recent, RateBound
  <2> QED
    BY <2>1, <2>2, <2>3, <2>4
    DEF AuthNext, ChallengeStep, ExchangeStep, vars, storeVars, issuerVars, IssueInsert,
        IssueRefused, Begin, AttemptRefused, AttemptAdmitted, Resolve, VerifyAccepts,
        ExchangeFails, ConsumeSucceeds, ConsumeFails, SignSession
<1> QED
  BY <1>1, <1>2

(* The counters are true in every state.                                   *)
LEMMA WindowsAreCounted == AuthSpec => []WindowsCounted
<1>0. Cardinality({}) = 0 /\ IsFiniteSet({}) /\ MaxPerWindow \in Nat \ {0}
  BY FS_EmptySet, IssuerConstants
<1>1. AuthInit => WindowsCounted
  <2> SUFFICES ASSUME AuthInit
               PROVE  WindowsCounted
    OBVIOUS
  <2>1. DOMAIN minted = {} /\ DOMAIN rateLimits = {}
    BY DEF AuthInit, Empty
  <2>2. ASSUME NEW p \in Pairs
        PROVE  Quiet(p)
    <3>1. Since(p, now - Window + 1) = {} /\ Mine(p) = {}
      BY <2>1 DEF Since, Mine
    <3> QED
      BY <1>0, <3>1 DEF Quiet
  <2> QED
    BY <1>0, <2>1, <2>2 DEF WindowsCounted
<1> QED
  BY <1>1, WindowsCountedNext, RateTyped, AuthTyped, PTL DEF AuthSpec

(* In any Window ticks one process gives a user less than twice the limit  *)
(* of challenges for an audience (consumeRateLimit), whatever is refused,  *)
(* dropped or restarted meanwhile.                                         *)
THEOREM RateIsBounded == AuthSpec => []RateBound
<1>0. Cardinality({}) = 0 /\ MaxPerWindow \in Nat \ {0}
  BY FS_EmptySet, IssuerConstants
<1>1. AuthInit => RateBound
  <2> SUFFICES ASSUME AuthInit, NEW p \in Pairs, NEW l \in 1 .. life, NEW t \in 0 .. now
               PROVE  Cardinality(Recent(p, l, t)) <= 2 * MaxPerWindow - 1
    BY DEF RateBound
  <2>1. Recent(p, l, t) = {}
    BY DEF AuthInit, Empty, Recent
  <2> QED
    BY <1>0, <2>1
<1> QED
  BY <1>1, RateBoundNext, RateTyped, AuthTyped, WindowsAreCounted, PTL DEF AuthSpec

-----------------------------------------------------------------------------
(* The expiry of a challenge.                                              *)

(* One cleanup suffices: no more challenges are expired than it deletes.   *)
FewExpired == Cardinality(Expired) <= CleanupLimit

(* The expiry read from the clock before the await is the one stored.      *)
ExpiriesMatch ==
  /\ \A id \in DOMAIN issuing : /\ id \in DOMAIN minted
                                /\ issuing[id].expires = minted[id].expires
  /\ \A id \in Present : /\ id \in DOMAIN minted
                         /\ challenges[id].expires = minted[id].expires

(* Steps that leave the store and the drawn challenges alone, or only lose *)
(* some of them.                                                           *)
LEMMA ExpiriesMatchNext ==
  TypeInv /\ ExpiriesMatch /\ [AuthNext]_vars => ExpiriesMatch'
<1> SUFFICES ASSUME TypeInv, ExpiriesMatch, [AuthNext]_vars
             PROVE  ExpiriesMatch'
  OBVIOUS
<1>1. ASSUME UNCHANGED <<issuing, minted>>,
             \A i \in Present' : i \in Present /\ challenges'[i].expires = challenges[i].expires
      PROVE  ExpiriesMatch'
  BY <1>1 DEF ExpiriesMatch
<1>2. ASSUME NEW id \in Ids, NEW u \in Usernames, NEW a \in Audiences, IssueStart(id, u, a)
      PROVE  ExpiriesMatch'
  BY <1>2 DEF IssueStart, storeVars, ExpiriesMatch, Present
<1>3. ASSUME NEW id \in Ids, IssueInsert(id)
      PROVE  ExpiriesMatch'
  <2> DEFINE x == issuing[id].expires
  <2>1. /\ Insert(id, issuing[id].username, issuing[id].audience, x) /\ id \in DOMAIN issuing
        /\ issuing' = [i \in DOMAIN issuing \ {id} |-> issuing[i]] /\ minted' = minted
    BY <1>3 DEF IssueInsert
  <2>2. x = minted[id].expires /\ id \in DOMAIN minted
    BY <2>1 DEF ExpiriesMatch
  <2> HIDE DEF x
  <2>3. /\ Present' \subseteq Present \cup {id}
        /\ \A i \in Present' : i # id => challenges'[i] = challenges[i]
        /\ challenges'[id] = [username |-> issuing[id].username, audience |-> issuing[id].audience,
                              expires |-> x, attempts |-> 0, order |-> inserted]
    BY <2>1, InsertAdds
  <2>4. challenges'[id].expires = x
    BY <2>3
  <2>5. \A i \in Present' : i \in DOMAIN minted /\ challenges'[i].expires = minted[i].expires
    BY <2>2, <2>3, <2>4 DEF ExpiriesMatch
  <2> QED
    BY <2>1, <2>5 DEF ExpiriesMatch
<1>4. ASSUME NEW S, challenges' = Keep(S), UNCHANGED <<issuing, minted>>
      PROVE  ExpiriesMatch'
  BY <1>1, <1>4, KeepRemoves
<1>5. ASSUME NEW r \in Requests,
             AttemptRefused(r) \/ ConsumeFails(r) \/ ConsumeSucceeds(r)
      PROVE  ExpiriesMatch'
  BY <1>4, <1>5 DEF AttemptRefused, ConsumeFails, ConsumeSucceeds, CleanUpOnly, Delete
<1>6. ASSUME NEW r \in Requests, AttemptAdmitted(r)
      PROVE  ExpiriesMatch'
  <2> DEFINE id == req[r].id
  <2>1. CountAttempt(id) /\ UNCHANGED <<issuing, minted>>
    BY <1>6 DEF AttemptAdmitted
  <2> HIDE DEF id
  <2>2. /\ Present' \subseteq Present
        /\ \A i \in Present' : i # id => challenges'[i] = challenges[i]
        /\ id \in Present' => challenges'[id] = [challenges[id] EXCEPT !.attempts = @ + 1]
    BY <2>1, CountAttemptCounts
  <2>3. \A i \in Present : challenges[i] \in Challenge
    BY DEF TypeInv, AuthTypeOK, StoreTypeOK
  <2>4. ASSUME id \in Present'
        PROVE  challenges'[id].expires = challenges[id].expires
    BY <2>2, <2>3, <2>4 DEF Challenge
  <2> QED
    BY <1>1, <2>1, <2>2, <2>4
<1>7. CASE Crash
  BY <1>7 DEF Crash, StoreCrash, Empty, ExpiriesMatch, Present
<1>8. CASE UNCHANGED <<challenges, issuing, minted>>
  BY <1>1, <1>8 DEF Present
<1> QED
  BY <1>2, <1>3, <1>5, <1>6, <1>7, <1>8
  DEF AuthNext, ChallengeStep, ExchangeStep, vars, storeVars, issuerVars, Tick, IssueRefused,
      Begin, Resolve, VerifyAccepts, ExchangeFails, SignSession

(* A cleanup within its limit leaves no expired challenge behind.          *)
LEMMA CleanupReachesAll ==
  ASSUME TypeInv, FewExpired, IsFiniteSet(Present)
  PROVE  \A id \in Live : now < challenges[id].expires
<1> SUFFICES ASSUME NEW id \in Live
             PROVE  now < challenges[id].expires
  OBVIOUS
<1>1. id \in Present /\ id \notin CleanedUp
  BY DEF Live
<1>2. now \in Int /\ challenges[id].expires \in Int
  BY <1>1, StoreConstants DEF TypeInv, AuthTypeOK, StoreTypeOK, Challenge
<1>3. SUFFICES ASSUME challenges[id].expires <= now
               PROVE  FALSE
  BY <1>2
<1> DEFINE older == {e \in Expired : challenges[e].order < challenges[id].order}
<1>4. id \in Expired
  BY <1>1, <1>3 DEF Expired
<1>5. challenges[id].order \in Nat
  BY <1>1 DEF TypeInv, AuthTypeOK, StoreTypeOK, Challenge
<1>6. older \subseteq Expired /\ id \notin older
  BY <1>5
<1>7. IsFiniteSet(Expired)
  BY FS_Subset DEF Expired
<1>8. IsFiniteSet(older) /\ Cardinality(older) <= Cardinality(Expired)
  BY <1>6, <1>7, FS_Subset
<1>9. Cardinality(older) # Cardinality(Expired)
  BY <1>4, <1>6, <1>7, FS_Subset
<1>10. Cardinality(older) \in Int /\ Cardinality(Expired) \in Int /\ CleanupLimit \in Int
  BY <1>7, <1>8, FS_CardinalityType, StoreConstants
<1>11. Cardinality(older) < CleanupLimit
  BY <1>8, <1>9, <1>10 DEF FewExpired
<1> QED
  BY <1>1, <1>4, <1>11 DEF CleanedUp

(* Only consumeSuccess lets an exchange go on to its session.              *)
LEMMA OnlyConsumeGrants ==
  ASSUME TypeInv, [AuthNext]_vars, NEW r \in Requests, ~Granted(r), Granted(r)'
  PROVE  ConsumeSucceeds(r)
<1>1. ASSUME NEW q \in Requests, Answer(q)
      PROVE  FALSE
  BY <1>1, AnswerRemoves DEF Granted
<1>2. ASSUME NEW q \in Requests, NEW record, Suspend(q, record)
      PROVE  q = r /\ record.pc = "sign"
  <2>1. /\ DOMAIN req' = DOMAIN req \cup {q}
        /\ req'[q] = record
        /\ \A p \in DOMAIN req : p # q => req'[p] = req[p]
    BY <1>2, SuspendSets
  <2>2. r \in DOMAIN req' /\ req'[r].pc = "sign"
    BY DEF Granted
  <2>3. q = r
    BY <2>1, <2>2 DEF Granted
  <2> QED
    BY <2>1, <2>2, <2>3
<1>3. ASSUME NEW q \in Requests, Begin(q)
      PROVE  FALSE
  <2>1. PICK id \in Answered, username \in Usernames, rightNonce \in BOOLEAN, signer \in Keys :
          Suspend(q, [pc |-> "attempt", id |-> id, username |-> username,
                      rightNonce |-> rightNonce, signer |-> signer, audience |-> None,
                      key |-> NoKey, arrived |-> served, edition |-> 0])
    BY <1>3 DEF Begin
  <2> QED
    BY <1>2, <2>1
<1>4. \A q \in DOMAIN req : req[q] \in Request
  BY DEF TypeInv, AuthTypeOK, IssuerTypeOK
<1>5. ASSUME NEW q \in Requests, Resolve(q)
      PROVE  FALSE
  <2> DEFINE next == [req[q] EXCEPT !.pc = "verify", !.key = keys[req[q].username],
                                    !.edition = served]
  <2>1. Suspend(q, next) /\ next.pc = "verify"
    BY <1>4, <1>5 DEF Resolve, Request
  <2> HIDE DEF next
  <2> QED
    BY <1>2, <2>1
<1>6. ASSUME NEW q \in Requests, VerifyAccepts(q)
      PROVE  FALSE
  <2>1. Suspend(q, [req[q] EXCEPT !.pc = "consume"]) /\ q \in DOMAIN req
    BY <1>6 DEF VerifyAccepts
  <2>2. [req[q] EXCEPT !.pc = "consume"].pc = "consume"
    BY <1>4, <2>1 DEF Request
  <2> QED
    BY <1>2, <2>1, <2>2
<1>7. ASSUME NEW q \in Requests, AttemptAdmitted(q)
      PROVE  FALSE
  <2>1. CASE ~req[q].rightNonce
    BY <1>1, <1>7, <2>1 DEF AttemptAdmitted
  <2>2. CASE req[q].rightNonce
    <3> DEFINE next == [req[q] EXCEPT !.pc = "resolve", !.audience = challenges[req[q].id].audience]
    <3>1. Suspend(q, next) /\ next.pc = "resolve"
      BY <1>4, <1>7, <2>2 DEF AttemptAdmitted, Request
    <3> HIDE DEF next
    <3> QED
      BY <1>2, <3>1
  <2> QED
    BY <2>1, <2>2
<1>8. ASSUME NEW q \in Requests, ConsumeSucceeds(q)
      PROVE  ConsumeSucceeds(r)
  BY <1>2, <1>8 DEF ConsumeSucceeds
<1>9. ASSUME NEW q \in Requests,
             AttemptRefused(q) \/ ExchangeFails(q) \/ ConsumeFails(q) \/ SignSession(q)
      PROVE  FALSE
  BY <1>1, <1>9 DEF AttemptRefused, ExchangeFails, ConsumeFails, SignSession
<1>10. ~Crash
  BY DEF Crash, Empty, Granted
<1>11. ~UNCHANGED req
  BY DEF Granted
<1> QED
  BY <1>3, <1>5, <1>6, <1>7, <1>8, <1>9, <1>10, <1>11
  DEF AuthNext, ChallengeStep, ExchangeStep, vars, issuerVars, IssueRefused, IssueStart,
      IssueInsert

(* An exchange takes a challenge that is live, and has its expiry ahead.   *)
LEMMA TakenInTimeNext ==
  ASSUME TypeInv, ExpiriesMatch, FewExpired, IsFiniteSet(DOMAIN minted), [AuthNext]_vars
  PROVE  [\A r \in Requests :
            (~Granted(r) /\ Granted(r)') => now < minted[req'[r].id].expires]_vars
<1> SUFFICES ASSUME NEW r \in Requests, ~Granted(r), Granted(r)'
             PROVE  now < minted[req'[r].id].expires
  OBVIOUS
<1>1. r \in DOMAIN req /\ Delete(req[r].id) /\ Suspend(r, [req[r] EXCEPT !.pc = "sign"])
  BY OnlyConsumeGrants DEF ConsumeSucceeds
<1>2. req[r] \in Request
  BY <1>1 DEF TypeInv, AuthTypeOK, IssuerTypeOK
<1>3. [req[r] EXCEPT !.pc = "sign"].id = req[r].id
  BY <1>2 DEF Request
<1>4. req'[r].id = req[r].id
  BY <1>1, <1>3, SuspendSets
<1>5. req[r].id \in Live /\ req[r].id \in Present
  BY <1>1 DEF Delete, Live
<1>6. IsFiniteSet(Present)
  BY FS_Subset DEF ExpiriesMatch
<1>7. now < challenges[req[r].id].expires
  BY <1>5, <1>6, CleanupReachesAll
<1> QED
  BY <1>4, <1>5, <1>7 DEF ExpiriesMatch

(* While cleanups keep up with what expires, no exchange takes a challenge *)
(* at or after its expiry, however long its awaits last.                   *)
THEOREM ChallengesAreTakenInTime == AuthSpec /\ []FewExpired => TakenBeforeExpiry
<1>1. AuthInit => ExpiriesMatch
  BY DEF AuthInit, StoreInit, Empty, ExpiriesMatch, Present
<1>2. AuthSpec => []ExpiriesMatch
  BY <1>1, ExpiriesMatchNext, AuthTyped, PTL DEF AuthSpec
<1>3. WindowsCounted => IsFiniteSet(DOMAIN minted)
  BY DEF WindowsCounted
<1>4. TypeInv /\ ExpiriesMatch /\ FewExpired /\ WindowsCounted /\ [AuthNext]_vars
        => [\A r \in Requests :
              (~Granted(r) /\ Granted(r)') => now < minted[req'[r].id].expires]_vars
  BY <1>3, TakenInTimeNext
<1> QED
  BY <1>2, <1>4, AuthTyped, WindowsAreCounted, PTL DEF AuthSpec, TakenBeforeExpiry
=============================================================================
