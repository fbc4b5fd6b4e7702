-------------------------- MODULE RegistryHubProofs --------------------------
(***************************************************************************)
(* The token client, the registry, the hub and the approving processes     *)
(* together, for any number of audiences, callers, exchanges, namespaces,  *)
(* configurations, editions and approvers, and any bounds.                 *)
(***************************************************************************)
EXTENDS RegistryHub, LeastNumber, TLAPS

-----------------------------------------------------------------------------
(* The token client *)

(* An exchange that runs is for an audience, and whoever waits, waits for  *)
(* an audience on an exchange.                                             *)
CallsAreSound ==
  /\ \A x \in Exchanges : Running(x) => exchange[x].audience \in Audiences
  /\ \A c \in Callers : Waiting(c) => /\ caller[c].audience \in Audiences
                                      /\ caller[c].on \in Exchanges

ClientInv == ClientTypeOK /\ CallsAreSound /\ OneExchangeAtATime

(* A token with more than n ticks left.                                    *)
HasLeft(token, n) == token \in Token /\ token > n

(* What a step of the client may do to a call: nothing, or give it the     *)
(* outcome it waits for, with a whole session left.                        *)
AnswersOnly(c) ==
  \/ caller'[c] = caller[c]
  \/ /\ Waiting(c)
     /\ caller'[c].pc \in {"served", "failed"}
     /\ caller'[c].pc = "served" => caller'[c].token = Life

(* The constants, as the steps below use them. That None is no token and   *)
(* what a token's numbers are is never needed in the same step.            *)
LEMMA Durations == /\ Life \in Nat /\ Reuse \in Nat /\ Life > Reuse
                   /\ Expired \in Nat /\ MaxFaults \in Nat
BY ClientConstants

(* No audience and no exchange is None.                                    *)
LEMMA NoneIsNothing == None \notin Audiences /\ None \notin Exchanges
BY ClientConstants

(* No token is None, whatever ticks it has left.                           *)
LEMMA NoneIsNoToken == \A t \in Token : t # None
<1>1. \A t \in Token : t \in Int
  BY Durations DEF Token
<1>2. None \notin Int
  BY ClientConstants
<1> QED
  BY <1>1, <1>2

(* A cache slot may hold no token.                                         *)
LEMMA MayHaveNone == None \in MaybeToken
BY DEF MaybeToken

(* A new token fits a cache slot and is fresh enough to be reused.         *)
LEMMA NewToken == Life \in MaybeToken /\ HasLeft(Life, Reuse)
<1>1. Life \in Token /\ Life > Reuse
  BY Durations DEF Token
<1> QED
  BY <1>1 DEF MaybeToken, HasLeft

(* A token that is a tick older is a token.                                *)
LEMMA OlderToken == \A t \in MaybeToken : Older(t) \in MaybeToken
<1> SUFFICES ASSUME NEW t \in MaybeToken
             PROVE  Older(t) \in MaybeToken
  OBVIOUS
<1>1. CASE t = None
  BY <1>1 DEF Older
<1>2. CASE t # None
  <2>1. t \in Token
    BY <1>2 DEF MaybeToken
  <2>2. t = -Expired \/ t - 1 \in Token
    BY <2>1, Durations DEF Token
  <2>3. Older(t) = t \/ (t # -Expired /\ Older(t) = t - 1)
    BY <1>2 DEF Older
  <2>4. Older(t) \in Token
    BY <2>1, <2>2, <2>3
  <2> QED
    BY <2>4 DEF MaybeToken
<1> QED
  BY <1>1, <1>2

(* No call waits and no exchange runs at the start.                        *)
LEMMA ClientInvInit == ClientInit => ClientInv
<1> SUFFICES ASSUME ClientInit
             PROVE  ClientInv
  OBVIOUS
<1>1. ClientTypeOK
  BY Durations, MayHaveNone DEF ClientInit, ClientTypeOK, NoExchange, NoCall
<1>2. CallsAreSound
  BY DEF ClientInit, CallsAreSound, Running, Waiting, NoExchange, NoCall
<1>3. OneExchangeAtATime
  BY NoneIsNothing DEF ClientInit, OneExchangeAtATime, Running, Waiting, NoExchange, NoCall
<1> QED
  BY <1>1, <1>2, <1>3 DEF ClientInv

(* get() answers from the cache with a token that has time left.           *)
LEMMA GetCachedKeeps ==
  ASSUME ClientInv, NEW c \in Callers, NEW a \in Audiences, GetCached(c, a)
  PROVE  /\ ClientInv'
         /\ \A d \in Callers : d # c => caller'[d] = caller[d]
         /\ caller'[c].pc = "served" /\ HasLeft(caller'[c].token, Reuse)
<1>1. /\ caller' = [caller EXCEPT ![c] =
           [pc |-> "served", audience |-> a, on |-> None, token |-> cache[a]]]
      /\ HasLeft(cache[a], Reuse)
      /\ UNCHANGED <<cache, inFlight, exchange, faults>>
  BY DEF GetCached, Reusable, HasLeft, ClientInv, ClientTypeOK, MaybeToken
<1>2. ClientTypeOK'
  BY <1>1 DEF ClientInv, ClientTypeOK
<1>3. /\ \A d \in Callers : d # c => caller'[d] = caller[d]
      /\ caller'[c] = [pc |-> "served", audience |-> a, on |-> None, token |-> cache[a]]
  BY <1>1 DEF ClientInv, ClientTypeOK
<1>4. CallsAreSound' /\ OneExchangeAtATime'
  BY <1>1, <1>3 DEF ClientInv, CallsAreSound, OneExchangeAtATime, Running, Waiting
<1> QED
  BY <1>1, <1>2, <1>3, <1>4 DEF ClientInv

(* get() shares the exchange in flight.                                    *)
LEMMA GetJoinsKeeps ==
  ASSUME ClientInv, NEW c \in Callers, NEW a \in Audiences, GetJoins(c, a)
  PROVE  /\ ClientInv'
         /\ \A d \in Callers : d # c => caller'[d] = caller[d]
         /\ caller'[c].pc = "waiting"
<1>1. /\ caller' = [caller EXCEPT ![c] =
           [pc |-> "waiting", audience |-> a, on |-> inFlight[a], token |-> None]]
      /\ inFlight[a] \in Exchanges
      /\ UNCHANGED <<cache, inFlight, exchange, faults>>
  BY DEF GetJoins, WaitsOn, ClientInv, ClientTypeOK
<1>2. ClientTypeOK'
  BY <1>1, MayHaveNone DEF ClientInv, ClientTypeOK
<1>3. /\ \A d \in Callers : d # c => caller'[d] = caller[d]
      /\ caller'[c] = [pc |-> "waiting", audience |-> a, on |-> inFlight[a], token |-> None]
  BY <1>1 DEF ClientInv, ClientTypeOK
<1>4. CallsAreSound' /\ OneExchangeAtATime'
  BY <1>1, <1>3 DEF ClientInv, CallsAreSound, OneExchangeAtATime, Running, Waiting
<1> QED
  BY <1>2, <1>3, <1>4 DEF ClientInv

(* get() begins an exchange.                                               *)
LEMMA GetStartsKeeps ==
  ASSUME ClientInv, NEW c \in Callers, NEW a \in Audiences, GetStarts(c, a)
  PROVE  /\ ClientInv'
         /\ \A d \in Callers : d # c => caller'[d] = caller[d]
         /\ caller'[c].pc = "waiting"
<1> DEFINE x == CHOOSE y \in Exchanges : ~Running(y)
<1>1. x \in Exchanges /\ ~Running(x)
  BY DEF GetStarts
<1> HIDE DEF x
<1>2. /\ inFlight[a] = None
      /\ inFlight' = [inFlight EXCEPT ![a] = x]
      /\ exchange' = [exchange EXCEPT ![x] =
           [pc |-> "challenge", audience |-> a, owner |-> c, retried |-> FALSE]]
      /\ caller' = [caller EXCEPT ![c] =
           [pc |-> "waiting", audience |-> a, on |-> x, token |-> None]]
      /\ UNCHANGED <<cache, faults>>
  BY DEF GetStarts, WaitsOn, x
<1>3. ClientTypeOK'
  BY <1>1, <1>2, MayHaveNone DEF ClientInv, ClientTypeOK
<1>4. /\ \A d \in Callers : d # c => caller'[d] = caller[d]
      /\ caller'[c] = [pc |-> "waiting", audience |-> a, on |-> x, token |-> None]
      /\ \A y \in Exchanges : y # x => exchange'[y] = exchange[y]
      /\ exchange'[x] = [pc |-> "challenge", audience |-> a, owner |-> c, retried |-> FALSE]
      /\ \A b \in Audiences : b # a => inFlight'[b] = inFlight[b]
      /\ inFlight'[a] = x
  BY <1>1, <1>2 DEF ClientInv, ClientTypeOK
<1>5. CallsAreSound'
  BY <1>1, <1>4 DEF ClientInv, CallsAreSound, Running, Waiting
<1>6. \A b \in Audiences, y \in Exchanges :
        (Running(y) /\ exchange[y].audience = b <=> inFlight[b] = y)'
  BY <1>1, <1>2, <1>4, NoneIsNothing DEF ClientInv, OneExchangeAtATime, Running
<1>7. \A d \in Callers : (Waiting(d) => inFlight[caller[d].audience] = caller[d].on)'
  BY <1>1, <1>2, <1>4, NoneIsNothing DEF ClientInv, CallsAreSound, OneExchangeAtATime, Waiting
<1> QED
  BY <1>3, <1>4, <1>5, <1>6, <1>7 DEF ClientInv, OneExchangeAtATime

(* When a promise settles, exactly those who waited on it have its outcome.*)
LEMMA SettlesKeeps ==
  ASSUME ClientInv, NEW x \in Exchanges, Running(x), NEW result \in {"served", "failed"},
         NEW token \in MaybeToken, Settles(x, result, token),
         cache' \in [Audiences -> MaybeToken], faults' \in 0 .. MaxFaults
  PROVE  /\ ClientInv'
         /\ \A c \in Callers : \/ caller'[c] = caller[c]
                               \/ /\ Waiting(c)
                                  /\ caller'[c].pc = result /\ caller'[c].token = token
<1>1. /\ exchange[x].audience \in Audiences
      /\ inFlight[exchange[x].audience] = x
  BY DEF ClientInv, CallsAreSound, OneExchangeAtATime
<1>2. /\ exchange' = [exchange EXCEPT ![x] = NoExchange]
      /\ inFlight' = [inFlight EXCEPT ![exchange[x].audience] = None]
      /\ caller' = [c \in Callers |->
           IF Waiting(c) /\ caller[c].on = x
             THEN [caller[c] EXCEPT !.pc = result, !.on = None, !.token = token]
             ELSE caller[c]]
  BY DEF Settles
<1>3. exchange' \in [Exchanges -> [pc : {"free", "challenge", "sign", "session"},
                                   audience : Audiences \cup {None},
                                   owner : Callers \cup {None},
                                   retried : BOOLEAN]]
  BY <1>2 DEF ClientInv, ClientTypeOK, NoExchange
<1>4. inFlight' \in [Audiences -> Exchanges \cup {None}]
  BY <1>1, <1>2 DEF ClientInv, ClientTypeOK
<1>5. caller' \in [Callers -> [pc : {"idle", "waiting", "served", "failed"},
                               audience : Audiences \cup {None},
                               on : Exchanges \cup {None},
                               token : MaybeToken]]
  BY <1>2 DEF ClientInv, ClientTypeOK
<1>6. ClientTypeOK'
  BY <1>3, <1>4, <1>5 DEF ClientTypeOK
<1>7. /\ \A y \in Exchanges : y # x => exchange'[y] = exchange[y]
      /\ exchange'[x] = NoExchange
      /\ \A b \in Audiences : b # exchange[x].audience => inFlight'[b] = inFlight[b]
      /\ inFlight'[exchange[x].audience] = None
  BY <1>1, <1>2 DEF ClientInv, ClientTypeOK
<1>8. \A c \in Callers :
        \/ caller'[c] = caller[c] /\ ~(Waiting(c) /\ caller[c].on = x)
        \/ Waiting(c) /\ caller'[c].pc = result /\ caller'[c].token = token
  BY <1>2 DEF ClientInv, ClientTypeOK
<1>9. CallsAreSound'
  BY <1>7, <1>8 DEF ClientInv, CallsAreSound, Running, Waiting, NoExchange
<1>10. \A b \in Audiences, y \in Exchanges :
         (Running(y) /\ exchange[y].audience = b <=> inFlight[b] = y)'
  BY <1>1, <1>7, NoneIsNothing DEF ClientInv, OneExchangeAtATime, Running, NoExchange
<1>11. \A c \in Callers : (Waiting(c) => inFlight[caller[c].audience] = caller[c].on)'
  <2> SUFFICES ASSUME NEW c \in Callers, Waiting(c)'
               PROVE  inFlight'[caller'[c].audience] = caller'[c].on
    OBVIOUS
  <2>1. caller'[c] = caller[c] /\ Waiting(c) /\ caller[c].on # x
    BY <1>8 DEF Waiting
  <2>2. inFlight[caller[c].audience] = caller[c].on /\ caller[c].audience \in Audiences
    BY <2>1 DEF ClientInv, CallsAreSound, OneExchangeAtATime
  <2> QED
    BY <1>1, <1>7, <2>1, <2>2
<1> QED
  BY <1>6, <1>8, <1>9, <1>10, <1>11 DEF ClientInv, OneExchangeAtATime

(* A step that only moves a running exchange on.                           *)
LEMMA ExchangeMoves ==
  ASSUME ClientInv, NEW x \in Exchanges, Running(x),
         NEW p \in {"challenge", "sign", "session"},
         \/ exchange' = [exchange EXCEPT ![x].pc = p]
         \/ exchange' = [exchange EXCEPT ![x].pc = p, ![x].retried = TRUE],
         cache' \in [Audiences -> MaybeToken], faults' \in 0 .. MaxFaults,
         UNCHANGED <<inFlight, caller>>
  PROVE  ClientInv'
<1>1. ClientTypeOK'
  <2>0. exchange[x] \in [pc : {"free", "challenge", "sign", "session"},
                         audience : Audiences \cup {None}, owner : Callers \cup {None},
                         retried : BOOLEAN]
    BY DEF ClientInv, ClientTypeOK
  <2>1. CASE exchange' = [exchange EXCEPT ![x].pc = p]
    BY <2>1 DEF ClientInv, ClientTypeOK
  <2>2. CASE exchange' = [exchange EXCEPT ![x].pc = p, ![x].retried = TRUE]
    <3> DEFINE moved == [exchange[x] EXCEPT !.pc = p, !.retried = TRUE]
    <3>1. moved \in [pc : {"free", "challenge", "sign", "session"},
                     audience : Audiences \cup {None}, owner : Callers \cup {None},
                     retried : BOOLEAN]
      BY <2>0
    <3>2. exchange' = [exchange EXCEPT ![x] = moved]
      BY <2>2 DEF ClientInv, ClientTypeOK
    <3> HIDE DEF moved
    <3> QED
      BY <3>1, <3>2 DEF ClientInv, ClientTypeOK
  <2> QED
    BY <2>1, <2>2
<1>2. \A y \in Exchanges : /\ exchange'[y].audience = exchange[y].audience
                           /\ Running(y)' <=> Running(y)
  BY DEF ClientInv, ClientTypeOK, Running
<1>3. CallsAreSound' /\ OneExchangeAtATime'
  BY <1>2 DEF ClientInv, CallsAreSound, OneExchangeAtATime, Waiting
<1> QED
  BY <1>1, <1>3 DEF ClientInv

(* The exchange is answered, step by step.                                 *)
LEMMA ExchangeStepKeeps ==
  ASSUME ClientInv, NEW x \in Exchanges, ExchangeStep(x)
  PROVE  ClientInv' /\ \A c \in Callers : AnswersOnly(c)
<1>1. CASE Challenged(x) \/ Signed(x)
  <2>1. PICK p \in {"sign", "session"} : exchange' = [exchange EXCEPT ![x].pc = p]
    BY <1>1 DEF Challenged, Signed
  <2>2. /\ Running(x) /\ UNCHANGED <<cache, faults, inFlight, caller>>
        /\ cache' \in [Audiences -> MaybeToken] /\ faults' \in 0 .. MaxFaults
    BY <1>1 DEF Challenged, Signed, Running, ClientInv, ClientTypeOK
  <2>3. ClientInv'
    BY <2>1, <2>2, ExchangeMoves
  <2> QED
    BY <2>2, <2>3 DEF AnswersOnly
<1>2. CASE SessionAnswered(x)
  <2>1. /\ Running(x) /\ Settles(x, "served", Life)
        /\ cache' \in [Audiences -> MaybeToken] /\ faults' \in 0 .. MaxFaults
    BY <1>2, NewToken DEF SessionAnswered, Running, ClientInv, ClientTypeOK
  <2>2. /\ ClientInv'
        /\ \A c \in Callers : \/ caller'[c] = caller[c]
                              \/ /\ Waiting(c)
                                 /\ caller'[c].pc = "served" /\ caller'[c].token = Life
    BY <2>1, NewToken, SettlesKeeps
  <2> QED
    BY <2>2 DEF AnswersOnly
<1> QED
  BY <1>1, <1>2 DEF ExchangeStep

(* A failed exchange ends for everybody who waits on it.                   *)
LEMMA FailureKeeps ==
  ASSUME ClientInv, NEW x \in Exchanges, Running(x), Settles(x, "failed", None),
         UNCHANGED cache, faults' \in 0 .. MaxFaults
  PROVE  ClientInv' /\ \A c \in Callers : AnswersOnly(c)
<1>1. cache' \in [Audiences -> MaybeToken]
  BY DEF ClientInv, ClientTypeOK
<1>2. /\ ClientInv'
      /\ \A c \in Callers : \/ caller'[c] = caller[c]
                            \/ /\ Waiting(c)
                               /\ caller'[c].pc = "failed" /\ caller'[c].token = None
  BY <1>1, MayHaveNone, SettlesKeeps
<1> QED
  BY <1>2 DEF AnswersOnly

(* The first refusal is tried again, for the same callers.                 *)
LEMMA RefusedKeeps ==
  ASSUME ClientInv, NEW x \in Exchanges, Refused(x)
  PROVE  ClientInv' /\ \A c \in Callers : AnswersOnly(c)
<1>1. Running(x) /\ faults' \in 0 .. MaxFaults
  BY Durations DEF Refused, Running, ClientInv, ClientTypeOK
<1>2. CASE exchange[x].retried
  BY <1>1, <1>2, FailureKeeps DEF Refused
<1>3. CASE ~exchange[x].retried
  <2>1. /\ cache' = [cache EXCEPT ![exchange[x].audience] = None]
        /\ exchange' = [exchange EXCEPT ![x].pc = "challenge", ![x].retried = TRUE]
        /\ UNCHANGED <<inFlight, caller>>
    BY <1>3 DEF Refused
  <2>2. cache' \in [Audiences -> MaybeToken]
    BY <2>1, MayHaveNone DEF ClientInv, ClientTypeOK
  <2>3. ClientInv'
    BY <1>1, <2>1, <2>2, ExchangeMoves
  <2> QED
    BY <2>1, <2>3 DEF AnswersOnly
<1> QED
  BY <1>2, <1>3

(* Any other failure ends the exchange.                                    *)
LEMMA ExchangeFailsKeeps ==
  ASSUME ClientInv, NEW x \in Exchanges, ExchangeFails(x)
  PROVE  ClientInv' /\ \A c \in Callers : AnswersOnly(c)
<1>1. /\ Running(x) /\ Settles(x, "failed", None) /\ UNCHANGED cache
      /\ faults' \in 0 .. MaxFaults
  BY Durations DEF ExchangeFails, ClientInv, ClientTypeOK
<1> QED
  BY <1>1, FailureKeeps

(* Forgetting a cached token leaves the exchange in flight alone.          *)
LEMMA InvalidateKeeps ==
  ASSUME ClientInv, NEW a \in Audiences, Invalidate(a)
  PROVE  ClientInv' /\ \A c \in Callers : AnswersOnly(c)
<1>1. /\ cache' = [cache EXCEPT ![a] = None]
      /\ UNCHANGED <<inFlight, exchange, caller, faults>>
  BY DEF Invalidate
<1>2. ClientTypeOK'
  BY <1>1, MayHaveNone DEF ClientInv, ClientTypeOK
<1>3. CallsAreSound' /\ OneExchangeAtATime'
  BY <1>1 DEF ClientInv, CallsAreSound, OneExchangeAtATime, Running, Waiting
<1> QED
  BY <1>1, <1>2, <1>3 DEF ClientInv, AnswersOnly

(* A call that is over waits for nothing.                                  *)
LEMMA CallOver ==
  ASSUME ClientInv, NEW c \in Callers, ~Waiting(c),
         caller' = [caller EXCEPT ![c] = NoCall], faults' \in 0 .. MaxFaults,
         UNCHANGED <<cache, inFlight, exchange>>
  PROVE  ClientInv' /\ \A d \in Callers : d # c => caller'[d] = caller[d]
<1>1. ClientTypeOK'
  BY MayHaveNone DEF ClientInv, ClientTypeOK, NoCall
<1>2. caller'[c] = NoCall /\ \A d \in Callers : d # c => caller'[d] = caller[d]
  BY DEF ClientInv, ClientTypeOK
<1>3. CallsAreSound' /\ OneExchangeAtATime'
  BY <1>2 DEF ClientInv, CallsAreSound, OneExchangeAtATime, Running, Waiting, NoCall
<1> QED
  BY <1>1, <1>2, <1>3 DEF ClientInv

(* The caller takes its outcome.                                           *)
LEMMA ReturnKeeps ==
  ASSUME ClientInv, NEW c \in Callers, Return(c)
  PROVE  ClientInv' /\ \A d \in Callers : d # c => caller'[d] = caller[d]
<1>1. /\ ~Waiting(c)
      /\ caller' = [caller EXCEPT ![c] = NoCall]
      /\ UNCHANGED <<cache, inFlight, exchange>> /\ faults' \in 0 .. MaxFaults
  BY DEF Return, Waiting, ClientInv, ClientTypeOK
<1> QED
  BY <1>1, CallOver

(* Half a minute makes every token older and changes nothing else.         *)
LEMMA ClientTickKeeps ==
  ASSUME ClientInv, ClientTick
  PROVE  /\ ClientInv'
         /\ \A c \in Callers : /\ caller'[c].pc = caller[c].pc
                               /\ caller'[c].token = Older(caller[c].token)
<1>1. /\ cache' = [a \in Audiences |-> Older(cache[a])]
      /\ caller' = [c \in Callers |-> [caller[c] EXCEPT !.token = Older(@)]]
      /\ UNCHANGED <<inFlight, exchange, faults>>
  BY DEF ClientTick
<1>2. \A c \in Callers : Older(caller[c].token) \in MaybeToken
  BY OlderToken DEF ClientInv, ClientTypeOK
<1>3. \A a \in Audiences : Older(cache[a]) \in MaybeToken
  BY OlderToken DEF ClientInv, ClientTypeOK
<1>4. ClientTypeOK'
  BY <1>1, <1>2, <1>3 DEF ClientInv, ClientTypeOK
<1>5. \A c \in Callers : /\ caller'[c].pc = caller[c].pc
                         /\ caller'[c].token = Older(caller[c].token)
                         /\ caller'[c].audience = caller[c].audience
                         /\ caller'[c].on = caller[c].on
  BY <1>1 DEF ClientInv, ClientTypeOK
<1>6. CallsAreSound' /\ OneExchangeAtATime'
  BY <1>1, <1>5 DEF ClientInv, CallsAreSound, OneExchangeAtATime, Running, Waiting
<1> QED
  BY <1>4, <1>5, <1>6 DEF ClientInv

(* Nothing survives the process.                                           *)
LEMMA ClientCrashKeeps ==
  ASSUME ClientInv, ClientCrash, faults' \in 0 .. MaxFaults
  PROVE  ClientInv'
<1>1. ClientTypeOK'
  BY MayHaveNone DEF ClientCrash, ClientTypeOK, NoExchange, NoCall
<1>2. CallsAreSound' /\ OneExchangeAtATime'
  BY NoneIsNothing DEF ClientCrash, CallsAreSound, OneExchangeAtATime, Running, Waiting,
                      NoExchange, NoCall
<1> QED
  BY <1>1, <1>2 DEF ClientInv

-----------------------------------------------------------------------------
(* The registry and the hub *)

HubRecord == [pc : {"idle", "token", "request", "body", "file"}, waited : BOOLEAN,
              body : MaybeRegistered]
Snapshot == [revision : Registered, proxies : Registered]
Approving == [pc : {"idle", "shown", "loaded"}, namespace : Namespaces \cup {None},
              config : Configs \cup {None}, records : MaybeRegistered]

(* HubTypeOK without the client, and where a field is there.               *)
HubTypes ==
  /\ remote \in BOOLEAN
  /\ company \in Seq(Edition) /\ Latest >= 1 /\ accepted \in 0 .. Latest
  /\ localFile \in MaybeRegistered /\ etag \in MaybeRegistered
  /\ hub \in HubRecord
  /\ hub.pc = "body" => hub.body \in Registered
  /\ snapshot = None \/ snapshot \in Snapshot
  /\ records \in Registered /\ trustFile \in MaybeRegistered
  /\ approver \in [Approvers -> Approving]
  /\ \A p \in Approvers :
       /\ approver[p].pc # "idle" => /\ approver[p].namespace \in Namespaces
                                     /\ approver[p].config \in Configs
       /\ approver[p].pc = "loaded" => approver[p].records \in Registered
  /\ confirmed \subseteq (Namespaces \X Configs)

(* Layers over each other are a registry again: among the layers that      *)
(* define a namespace there is a last one.                                 *)
LEMMA MergedType ==
  ASSUME NEW layers \in Seq(Registered)
  PROVE  Merged(layers) \in Registered
<1> SUFFICES ASSUME NEW n \in Namespaces
             PROVE  Merged(layers)[n] \in Configs \cup {None}
  BY DEF Merged, Registered
<1> DEFINE defining == {i \in 1 .. Len(layers) : layers[i][n] # None}
           last == CHOOSE i \in defining : \A j \in defining : j <= i
<1>1. CASE defining = {}
  BY <1>1 DEF Merged
<1>2. CASE defining # {}
  <2>1. defining \in SUBSET (0 .. Len(layers)) /\ Len(layers) \in Nat
    OBVIOUS
  <2>2. \E i \in defining : \A j \in defining : j <= i
    BY <1>2, <2>1, GreatestOf
  <2>3. last \in defining
    BY <2>2
  <2>4. layers[last] \in Registered
    BY <2>3
  <2>5. Merged(layers)[n] = layers[last][n]
    BY <1>2 DEF Merged
  <2> QED
    BY <2>4, <2>5 DEF Registered
<1> QED
  BY <1>1, <1>2

(* What the registry composes from an edition is a registry.               *)
LEMMA ComposedType ==
  ASSUME company \in Seq(Edition), NEW e \in 1 .. Latest
  PROVE  composeRegistry(e) \in Registered
<1>1. company[e] \in Edition
  BY DEF Latest
<1>2. company[e].layers \in Seq(Registered)
  BY <1>1 DEF Edition
<1> QED
  BY <1>2, MergedType DEF composeRegistry

(* What the hub filters is a registry with some of the proxies.            *)
LEMMA FilteredType ==
  ASSUME NEW proxies \in Registered
  PROVE  /\ Filtered(proxies) \in Registered
         /\ \A n \in Namespaces : /\ Filtered(proxies)[n] \in {None, proxies[n]}
                                  /\ Filtered(proxies)[n] # None => Filtered(proxies)[n] = records[n]
BY DEF Filtered, requireApproval, Registered

(* Nothing has happened yet.                                               *)
LEMMA HubTypesInit == HubInit => HubTypes
<1> SUFFICES ASSUME HubInit
             PROVE  HubTypes
  OBVIOUS
<1>1. PICK e \in Editions : company = <<e>>
  BY DEF HubInit
<1>2. e \in Edition
  BY HubConstants
<1>3. company \in Seq(Edition) /\ Latest = 1
  BY <1>1, <1>2 DEF Latest
<1>4. NoProxies \in Registered
  BY DEF NoProxies, Registered
<1>5. hub \in HubRecord /\ hub.pc # "body"
  BY DEF HubInit, IdleHub, HubRecord, MaybeRegistered
<1>6. /\ approver \in [Approvers -> Approving]
      /\ \A p \in Approvers : approver[p].pc = "idle"
  BY DEF HubInit, Idle, Approving, MaybeRegistered
<1>7. accepted \in 0 .. Latest
  BY <1>3 DEF HubInit
<1> QED
  BY <1>3, <1>4, <1>5, <1>6, <1>7 DEF HubInit, HubTypes, MaybeRegistered

(* The repository, the registry and the engineer's file.                   *)
LEMMA RegistryStepTypes ==
  ASSUME HubTypes, PublishEdition \/ RefreshSource \/ WriteLocalFile
  PROVE  HubTypes' /\ UNCHANGED clientVars
<1>1. CASE PublishEdition
  <2>1. PICK e \in Editions : company' = Append(company, e)
    BY <1>1 DEF PublishEdition
  <2>2. company \in Seq(Edition) /\ e \in Edition
    BY HubConstants DEF HubTypes
  <2>3. /\ company' \in Seq(Edition)
        /\ Len(company') = Len(company) + 1
        /\ Len(company) \in Nat
    BY <2>1, <2>2
  <2>4. Latest' >= 1 /\ accepted \in 0 .. Latest'
    BY <2>3 DEF HubTypes, Latest
  <2> QED
    BY <1>1, <2>3, <2>4 DEF PublishEdition, HubTypes, managerVars, trustVars
<1>2. CASE RefreshSource
  <2>1. accepted' = Latest /\ Latest \in 0 .. Latest
    BY <1>2 DEF RefreshSource, HubTypes, Latest
  <2> QED
    BY <1>2, <2>1 DEF RefreshSource, HubTypes, managerVars, trustVars, Latest
<1>3. CASE WriteLocalFile
  <2>1. Latest \in 1 .. Latest
    BY DEF HubTypes, Latest
  <2>2. localFile' \in Registered
    BY <1>3, <2>1, ComposedType DEF WriteLocalFile, HubTypes
  <2> QED
    BY <1>3, <2>2 DEF WriteLocalFile, HubTypes, managerVars, trustVars, Latest, MaybeRegistered
<1> QED
  BY <1>1, <1>2, <1>3 DEF PublishEdition, RefreshSource, WriteLocalFile

(* A step of the hub that keeps its snapshot or takes a registry.          *)
LEMMA ManagerTypes ==
  ASSUME HubTypes, UNCHANGED <<registryVars, records, trustVars>>,
         hub' \in HubRecord, hub'.pc = "body" => hub'.body \in Registered,
         snapshot' = None \/ snapshot' \in Snapshot, etag' \in MaybeRegistered
  PROVE  HubTypes'
BY DEF HubTypes, registryVars, trustVars, Latest

(* refresh() and the answers to its request.                               *)
LEMMA ManagerStepTypes ==
  ASSUME HubTypes, ManagerStep
  PROVE  HubTypes'
<1>0. /\ hub \in HubRecord /\ etag \in MaybeRegistered
      /\ snapshot = None \/ snapshot \in Snapshot
      /\ IdleHub \in HubRecord /\ IdleHub.pc = "idle"
  BY DEF HubTypes, IdleHub, HubRecord, MaybeRegistered
<1>1. CASE StartRefresh
  <2>1. hub' \in HubRecord /\ hub'.pc # "body"
    BY <1>0, <1>1 DEF StartRefresh, HubRecord
  <2> QED
    BY <1>0, <1>1, <2>1, ManagerTypes DEF StartRefresh
<1>2. CASE TokenArrived
  <2>1. hub' \in HubRecord /\ hub'.pc # "body"
    BY <1>0, <1>2 DEF TokenArrived, HubRecord
  <2> QED
    BY <1>0, <1>2, <2>1, ManagerTypes DEF TokenArrived
<1>3. CASE TokenRefused
  BY <1>0, <1>3, ManagerTypes DEF TokenRefused, FailedRefresh
<1>4. CASE RequestAnswered
  <2>1. accepted \in 1 .. Latest
    BY <1>4 DEF RequestAnswered, Serves, HubTypes, Latest
  <2>2. composeRegistry(accepted) \in Registered
    BY <2>1, ComposedType DEF HubTypes
  <2>3. hub' \in HubRecord /\ hub'.body \in Registered
    BY <1>0, <1>4, <2>2 DEF RequestAnswered, HubRecord, MaybeRegistered
  <2> QED
    BY <1>0, <1>4, <2>3, ManagerTypes DEF RequestAnswered
<1>5. CASE BodyRead
  <2>1. hub.body \in Registered
    BY <1>5 DEF BodyRead, HubTypes
  <2>2. snapshot' \in Snapshot /\ hub' = IdleHub
    BY <1>5, <2>1, FilteredType DEF BodyRead, Swap, Snapshot
  <2>3. etag' \in MaybeRegistered
    BY <1>5, <2>1 DEF BodyRead, MaybeRegistered
  <2> QED
    BY <1>0, <1>5, <2>2, <2>3, ManagerTypes DEF BodyRead
<1>6. CASE NotModified
  <2>1. CASE snapshot # None
    <3>1. snapshot \in Snapshot
      BY <1>0, <2>1
    <3>2. snapshot' \in Snapshot /\ hub' = IdleHub /\ etag' = etag
      BY <1>6, <2>1, <3>1, FilteredType DEF NotModified, Snapshot
    <3> QED
      BY <1>0, <1>6, <3>2, ManagerTypes DEF NotModified
  <2>2. CASE snapshot = None
    BY <1>0, <1>6, <2>2, ManagerTypes DEF NotModified, FailedRefresh
  <2> QED
    BY <2>1, <2>2
<1>7. CASE RequestFails
  BY <1>0, <1>7, ManagerTypes DEF RequestFails, FailedRefresh
<1>8. CASE LoadLocal
  <2>1. CASE localFile = None
    BY <1>0, <1>8, <2>1, ManagerTypes DEF LoadLocal, FailedRefresh
  <2>2. CASE localFile # None
    <3>1. localFile \in Registered
      BY <2>2 DEF HubTypes, MaybeRegistered
    <3>2. snapshot' \in Snapshot /\ hub' = IdleHub /\ etag' = etag
      BY <1>8, <2>2, <3>1, FilteredType DEF LoadLocal, Swap, Snapshot
    <3> QED
      BY <1>0, <1>8, <3>2, ManagerTypes DEF LoadLocal
  <2> QED
    BY <2>1, <2>2
<1> QED
  BY <1>1, <1>2, <1>3, <1>4, <1>5, <1>6, <1>7, <1>8 DEF ManagerStep

(* mcp-hub approve.                                                        *)
LEMMA ApproveStepTypes ==
  ASSUME HubTypes, NEW p \in Approvers, ApproveStep(p)
  PROVE  HubTypes' /\ UNCHANGED clientVars
<1>0. /\ approver \in [Approvers -> Approving]
      /\ NoProxies \in Registered
      /\ Idle \in Approving /\ Idle.pc = "idle"
  BY DEF HubTypes, NoProxies, Registered, Idle, Approving, MaybeRegistered
<1>1. CASE ShowProxy(p)
  <2>1. localFile \in Registered
    BY <1>1 DEF ShowProxy, HubTypes, MaybeRegistered
  <2>2. PICK n \in Namespaces :
          /\ localFile[n] # None
          /\ approver' = [approver EXCEPT ![p] =
               [pc |-> "shown", namespace |-> n, config |-> localFile[n], records |-> None]]
    BY <1>1 DEF ShowProxy
  <2>3. localFile[n] \in Configs
    BY <2>1, <2>2 DEF Registered
  <2>4. /\ approver' \in [Approvers -> Approving]
        /\ \A q \in Approvers : q # p => approver'[q] = approver[q]
        /\ approver'[p].pc = "shown" /\ approver'[p].namespace = n
        /\ approver'[p].config = localFile[n]
    BY <1>0, <2>2, <2>3 DEF Approving, MaybeRegistered
  <2> QED
    BY <1>1, <2>3, <2>4 DEF ShowProxy, HubTypes, registryVars, managerVars, Latest
<1>2. CASE Confirm(p)
  <2>1. /\ approver[p].namespace \in Namespaces /\ approver[p].config \in Configs
        /\ confirmed' = confirmed \cup {<<approver[p].namespace, approver[p].config>>}
    BY <1>2 DEF Confirm, HubTypes
  <2> DEFINE loaded == IF trustFile = None THEN NoProxies ELSE trustFile
  <2>2. loaded \in Registered
    BY <1>0 DEF HubTypes, MaybeRegistered
  <2>3. approver' = [approver EXCEPT ![p].pc = "loaded", ![p].records = loaded]
    BY <1>2 DEF Confirm
  <2> HIDE DEF loaded
  <2>4. /\ approver' \in [Approvers -> Approving]
        /\ \A q \in Approvers : q # p => approver'[q] = approver[q]
        /\ approver'[p].namespace = approver[p].namespace
        /\ approver'[p].config = approver[p].config
        /\ approver'[p].records \in Registered
    BY <1>0, <2>2, <2>3 DEF Approving, MaybeRegistered
  <2>5. confirmed' \subseteq (Namespaces \X Configs)
    BY <2>1 DEF HubTypes
  <2> QED
    BY <1>2, <2>1, <2>4, <2>5 DEF Confirm, HubTypes, registryVars, managerVars, Latest
<1>3. ASSUME approver' = [approver EXCEPT ![p] = Idle]
      PROVE  /\ approver' \in [Approvers -> Approving]
             /\ \A q \in Approvers : q # p => approver'[q] = approver[q]
             /\ approver'[p].pc = "idle"
  BY <1>0, <1>3
<1>4. CASE Approve(p)
  <2>1. /\ approver[p].namespace \in Namespaces /\ approver[p].config \in Configs
        /\ approver[p].records \in Registered
    BY <1>4 DEF Approve, HubTypes
  <2>2. trustFile' \in Registered
    BY <1>4, <2>1 DEF Approve, Registered
  <2>3. /\ approver' \in [Approvers -> Approving]
        /\ \A q \in Approvers : q # p => approver'[q] = approver[q]
        /\ approver'[p].pc = "idle"
    BY <1>3, <1>4 DEF Approve
  <2> QED
    BY <1>4, <2>2, <2>3 DEF Approve, HubTypes, registryVars, managerVars, Latest, MaybeRegistered
<1>5. CASE GiveUp(p)
  <2>1. /\ approver' \in [Approvers -> Approving]
        /\ \A q \in Approvers : q # p => approver'[q] = approver[q]
        /\ approver'[p].pc = "idle"
    BY <1>3, <1>5 DEF GiveUp
  <2> QED
    BY <1>5, <2>1 DEF GiveUp, HubTypes, registryVars, managerVars, Latest
<1>6. UNCHANGED clientVars
  BY DEF ApproveStep, ShowProxy, Confirm, Approve, GiveUp
<1> QED
  BY <1>1, <1>2, <1>4, <1>5, <1>6 DEF ApproveStep

(* Time, crashes of the hub, the timer of the trust store, and the calls   *)
(* of the rest of the hub's process.                                       *)
LEMMA BackgroundTypes ==
  ASSUME HubTypes, HubTick \/ HubCrash \/ LoadTrust \/ ClientStep
  PROVE  HubTypes'
<1>1. CASE HubTick
  <2>1. /\ hub' = [hub EXCEPT !.waited = hub.pc \in {"request", "body"}]
        /\ hub \in HubRecord
    BY <1>1 DEF HubTick, HubTypes
  <2>2. (hub.pc \in {"request", "body"}) \in BOOLEAN
    OBVIOUS
  <2>3. hub' \in HubRecord /\ hub'.pc = hub.pc /\ hub'.body = hub.body
    BY <2>1, <2>2 DEF HubRecord
  <2> QED
    BY <1>1, <2>3 DEF HubTick, HubTypes, registryVars, trustVars, Latest
<1>2. CASE HubCrash
  <2>1. IdleHub \in HubRecord /\ IdleHub.pc # "body" /\ NoProxies \in Registered
    BY DEF IdleHub, HubRecord, MaybeRegistered, NoProxies, Registered
  <2> QED
    BY <1>2, <2>1 DEF HubCrash, HubTypes, registryVars, trustVars, Latest, MaybeRegistered
<1>3. CASE LoadTrust
  BY <1>3 DEF LoadTrust, HubTypes, registryVars, managerVars, trustVars, Latest, MaybeRegistered
<1>4. CASE ClientStep
  BY <1>4 DEF ClientStep, HubTypes, registryVars, managerVars, trustVars, Latest
<1> QED
  BY <1>1, <1>2, <1>3, <1>4

(* A call of the rest of the hub's process leaves the hub's own call to    *)
(* its exchange.                                                           *)
LEMMA ClientStepKeeps ==
  ASSUME ClientInv, ClientStep
  PROVE  ClientInv' /\ AnswersOnly(Hub)
<1>0. Hub \in Callers
  BY HubConstants
<1>1. ASSUME NEW c \in Callers \ {Hub}, NEW a \in Audiences, GetJoins(c, a) \/ GetStarts(c, a)
      PROVE  ClientInv' /\ AnswersOnly(Hub)
  BY <1>0, <1>1, GetJoinsKeeps, GetStartsKeeps DEF AnswersOnly
<1>2. ASSUME NEW a \in Audiences, Invalidate(a)
      PROVE  ClientInv' /\ AnswersOnly(Hub)
  BY <1>0, <1>2, InvalidateKeeps
<1>3. ASSUME NEW x \in Exchanges, ExchangeStep(x) \/ Refused(x) \/ ExchangeFails(x)
      PROVE  ClientInv' /\ AnswersOnly(Hub)
  BY <1>0, <1>3, ExchangeStepKeeps, RefusedKeeps, ExchangeFailsKeeps
<1>4. ASSUME NEW c \in Callers \ {Hub}, Return(c)
      PROVE  ClientInv' /\ AnswersOnly(Hub)
  BY <1>0, <1>4, ReturnKeeps DEF AnswersOnly
<1> QED
  BY <1>1, <1>2, <1>3, <1>4 DEF ClientStep

(* refresh() calls get() once and takes its outcome once.                  *)
LEMMA ManagerStepKeepsClient ==
  ASSUME ClientInv, ManagerStep
  PROVE  ClientInv'
<1>0. Hub \in Callers /\ Registry \in Audiences
  BY HubConstants
<1>1. CASE StartRefresh
  <2>1. CASE remote
    BY <1>0, <1>1, <2>1, GetCachedKeeps, GetJoinsKeeps, GetStartsKeeps DEF StartRefresh, Get
  <2>2. CASE ~remote
    <3>1. UNCHANGED clientVars
      BY <1>1, <2>2 DEF StartRefresh
    <3> QED
      BY <3>1 DEF ClientInv, clientVars, ClientTypeOK, CallsAreSound, OneExchangeAtATime,
                  Running, Waiting
  <2> QED
    BY <2>1, <2>2
<1>2. CASE TokenRefused \/ BodyRead \/ NotModified
  BY <1>0, <1>2, ReturnKeeps DEF TokenRefused, BodyRead, NotModified
<1>3. CASE TokenArrived \/ RequestAnswered \/ LoadLocal
  <2>1. UNCHANGED clientVars
    BY <1>3 DEF TokenArrived, RequestAnswered, LoadLocal
  <2> QED
    BY <2>1 DEF ClientInv, clientVars, ClientTypeOK, CallsAreSound, OneExchangeAtATime,
                Running, Waiting
<1>4. CASE RequestFails
  <2>1. /\ caller' = [caller EXCEPT ![Hub] = NoCall]
        /\ UNCHANGED <<cache, inFlight, exchange>>
        /\ faults' = IF faults < MaxFaults THEN faults + 1 ELSE faults
    BY <1>4 DEF RequestFails
  <2>2. ClientTypeOK'
    <3>1. faults' \in 0 .. MaxFaults
      BY <2>1, Durations DEF ClientInv, ClientTypeOK
    <3> QED
      BY <1>0, <2>1, <3>1, MayHaveNone DEF ClientInv, ClientTypeOK, NoCall
  <2>3. caller'[Hub] = NoCall /\ \A d \in Callers : d # Hub => caller'[d] = caller[d]
    BY <1>0, <2>1 DEF ClientInv, ClientTypeOK
  <2>4. CallsAreSound' /\ OneExchangeAtATime'
    BY <2>1, <2>3 DEF ClientInv, CallsAreSound, OneExchangeAtATime, Running, Waiting, NoCall
  <2> QED
    BY <2>2, <2>4 DEF ClientInv
<1> QED
  BY <1>1, <1>2, <1>3, <1>4 DEF ManagerStep

(* The client keeps its own invariant in everything the hub does.          *)
LEMMA ClientInvNext == ClientInv /\ HubTypes /\ [HubNext]_hubVars => ClientInv'
<1> SUFFICES ASSUME ClientInv, HubTypes, [HubNext]_hubVars
             PROVE  ClientInv'
  OBVIOUS
<1>1. CASE UNCHANGED clientVars
  BY <1>1 DEF ClientInv, clientVars, ClientTypeOK, CallsAreSound, OneExchangeAtATime,
              Running, Waiting
<1>2. CASE PublishEdition \/ RefreshSource \/ WriteLocalFile
  BY <1>1, <1>2, RegistryStepTypes
<1>3. CASE ManagerStep
  BY <1>3, ManagerStepKeepsClient
<1>4. CASE ClientStep
  BY <1>4, ClientStepKeeps
<1>5. CASE HubTick
  BY <1>5, ClientTickKeeps DEF HubTick
<1>6. CASE HubCrash
  <2>1. faults' \in 0 .. MaxFaults
    BY <1>6, Durations DEF HubCrash, ClientInv, ClientTypeOK
  <2> QED
    BY <1>6, <2>1, ClientCrashKeeps DEF HubCrash
<1>7. CASE LoadTrust
  BY <1>1, <1>7 DEF LoadTrust
<1>8. ASSUME NEW p \in Approvers, ApproveStep(p)
      PROVE  ClientInv'
  BY <1>1, <1>8, ApproveStepTypes
<1>9. CASE UNCHANGED hubVars
  BY <1>1, <1>9 DEF hubVars
<1> QED
  BY <1>2, <1>3, <1>4, <1>5, <1>6, <1>7, <1>8, <1>9 DEF HubNext

(* And the hub its types.                                                  *)
LEMMA HubTypesNext == HubTypes /\ [HubNext]_hubVars => HubTypes'
<1> SUFFICES ASSUME HubTypes, [HubNext]_hubVars
             PROVE  HubTypes'
  OBVIOUS
<1>1. CASE UNCHANGED hubVars
  BY <1>1 DEF hubVars, HubTypes, Latest
<1> QED
  BY <1>1, RegistryStepTypes, ManagerStepTypes, BackgroundTypes, ApproveStepTypes DEF HubNext

-----------------------------------------------------------------------------
(* The token the hub sends *)

(* What makes PresentedBeforeExpiry inductive: the outcome of get() has    *)
(* more than the reuse margin left when it is taken, and a request that    *)
(* has not waited yet still has.                                           *)
TokensAreLive ==
  /\ hub.pc = "token" /\ caller[Hub].pc = "served" => HasLeft(caller[Hub].token, Reuse)
  /\ hub.pc = "request" => /\ caller[Hub].pc = "served" /\ HasLeft(caller[Hub].token, 0)
                           /\ ~hub.waited => HasLeft(caller[Hub].token, Reuse)

(* Steps that change neither the stage of the refresh nor its call.        *)
LEMMA SameToken ==
  ASSUME TokensAreLive, hub' = hub, caller' = caller
  PROVE  TokensAreLive'
BY DEF TokensAreLive

(* Every step keeps the token live.                                        *)
LEMMA TokensNext ==
  ClientInv /\ HubTypes /\ TokensAreLive /\ [HubNext]_hubVars => TokensAreLive'
<1> SUFFICES ASSUME ClientInv, HubTypes, TokensAreLive, [HubNext]_hubVars
             PROVE  TokensAreLive'
  OBVIOUS
<1>0. /\ Hub \in Callers /\ Registry \in Audiences
      /\ Reuse \in Nat /\ Reuse >= 1 /\ Life \in Nat /\ Life > Reuse
      /\ Expired \in Nat
      /\ hub \in HubRecord
      /\ HasLeft(Life, Reuse)
  BY HubConstants, Durations, NewToken DEF HubTypes
<1>1. CASE PublishEdition \/ RefreshSource \/ WriteLocalFile
  <2>1. hub' = hub /\ caller' = caller
    BY <1>1, RegistryStepTypes
       DEF PublishEdition, RefreshSource, WriteLocalFile, managerVars, clientVars
  <2> QED
    BY <2>1, SameToken
<1>2. CASE StartRefresh
  <2>1. CASE remote
    <3>1. Get(Hub, Registry) /\ hub' = [hub EXCEPT !.pc = "token"]
      BY <1>2, <2>1 DEF StartRefresh
    <3>2. \/ caller'[Hub].pc = "served" /\ HasLeft(caller'[Hub].token, Reuse)
          \/ caller'[Hub].pc = "waiting"
      BY <1>0, <3>1, GetCachedKeeps, GetJoinsKeeps, GetStartsKeeps DEF Get
    <3>3. hub'.pc = "token"
      BY <1>0, <3>1 DEF HubRecord
    <3> QED
      BY <3>2, <3>3 DEF TokensAreLive
  <2>2. CASE ~remote
    <3>1. hub'.pc = "file"
      BY <1>0, <1>2, <2>2 DEF StartRefresh, HubRecord
    <3> QED
      BY <3>1 DEF TokensAreLive
  <2> QED
    BY <2>1, <2>2
<1>3. CASE TokenArrived
  <2>1. /\ hub.pc = "token" /\ caller[Hub].pc = "served"
        /\ hub' = [hub EXCEPT !.pc = "request"] /\ caller' = caller
    BY <1>3 DEF TokenArrived, clientVars
  <2>2. hub'.pc = "request" /\ hub'.waited = hub.waited
    BY <1>0, <2>1 DEF HubRecord
  <2>3. HasLeft(caller[Hub].token, Reuse)
    BY <2>1 DEF TokensAreLive
  <2>4. HasLeft(caller[Hub].token, 0)
    BY <1>0, <2>3 DEF HasLeft, Token
  <2> QED
    BY <2>1, <2>2, <2>3, <2>4 DEF TokensAreLive
<1>4. CASE TokenRefused \/ BodyRead \/ NotModified \/ RequestFails \/ LoadLocal
  <2>1. hub'.pc = "idle"
    BY <1>4 DEF TokenRefused, BodyRead, NotModified, RequestFails, LoadLocal, FailedRefresh,
                Swap, IdleHub
  <2> QED
    BY <2>1 DEF TokensAreLive
<1>5. CASE RequestAnswered
  <2>1. hub'.pc = "body"
    BY <1>0, <1>5 DEF RequestAnswered, HubRecord
  <2> QED
    BY <2>1 DEF TokensAreLive
<1>6. CASE ClientStep
  <2>1. hub' = hub /\ AnswersOnly(Hub)
    BY <1>6, ClientStepKeeps DEF ClientStep, managerVars
  <2> QED
    BY <1>0, <2>1 DEF TokensAreLive, AnswersOnly, Waiting
<1>7. CASE HubTick
  <2>1. /\ hub.pc \in {"request", "body"} => ~hub.waited
        /\ hub.pc = "token" => caller[Hub].pc = "waiting"
        /\ hub' = [hub EXCEPT !.waited = hub.pc \in {"request", "body"}]
        /\ ClientTick
    BY <1>7 DEF HubTick, Waiting
  <2>2. hub'.pc = hub.pc /\ (hub.pc = "request" => hub'.waited)
    BY <1>0, <2>1 DEF HubRecord
  <2>3. caller'[Hub].pc = caller[Hub].pc /\ caller'[Hub].token = Older(caller[Hub].token)
    BY <1>0, <2>1, ClientTickKeeps
  <2>4. ASSUME hub.pc = "request"
        PROVE  HasLeft(caller'[Hub].token, 0)
    <3>1. caller[Hub].token \in -Expired .. Life /\ caller[Hub].token > Reuse
      BY <2>1, <2>4 DEF TokensAreLive, HasLeft, Token
    <3>2. caller[Hub].token # -Expired /\ caller[Hub].token # None
      <4>1. caller[Hub].token # -Expired
        BY <1>0, <3>1
      <4>2. caller[Hub].token # None
        BY <3>1, NoneIsNoToken DEF Token
      <4> QED
        BY <4>1, <4>2
    <3>3. caller'[Hub].token = caller[Hub].token - 1
      BY <2>3, <3>2 DEF Older
    <3> QED
      BY <1>0, <3>1, <3>3 DEF HasLeft, Token
  <2> QED
    BY <2>1, <2>2, <2>3, <2>4 DEF TokensAreLive
<1>8. CASE HubCrash
  <2>1. hub'.pc = "idle"
    BY <1>8 DEF HubCrash, IdleHub
  <2> QED
    BY <2>1 DEF TokensAreLive
<1>9. CASE LoadTrust
  BY <1>9, SameToken DEF LoadTrust, managerVars, clientVars
<1>10. ASSUME NEW p \in Approvers, ApproveStep(p)
       PROVE  TokensAreLive'
  <2>1. hub' = hub /\ caller' = caller
    BY <1>10 DEF ApproveStep, ShowProxy, Confirm, Approve, GiveUp, managerVars, clientVars
  <2> QED
    BY <2>1, SameToken
<1>11. CASE UNCHANGED hubVars
  BY <1>11, SameToken DEF hubVars, clientVars
<1> QED
  BY <1>1, <1>2, <1>3, <1>4, <1>5, <1>6, <1>7, <1>8, <1>9, <1>10, <1>11 DEF HubNext, ManagerStep

-----------------------------------------------------------------------------
(* The registry the hub has *)

(* What one edition says, and what it says to this user once accepted.     *)
OfEdition(proxies) == \E e \in 1 .. Latest : proxies = Merged(company[e].layers)
OfServedEdition(proxies) ==
  \E e \in 1 .. Latest : /\ proxies = Merged(company[e].layers)
                         /\ company[e].valid /\ User \in company[e].users

(* What makes SnapshotIsOneEdition inductive: so are the accepted edition, *)
(* the answer that is being read and the file on the machine.              *)
CarriesOneEdition ==
  /\ accepted # 0 => company[accepted].valid
  /\ hub.pc \in {"token", "request", "body"} => remote
  /\ hub.pc = "file" => ~remote
  /\ hub.pc = "body" => OfServedEdition(hub.body)
  /\ localFile # None => OfEdition(localFile)

EditionInv == CarriesOneEdition /\ SnapshotIsOneEdition

(* SnapshotIsOneEdition in these words.                                    *)
LEMMA SnapshotByEdition ==
  SnapshotIsOneEdition <=>
    (snapshot # None =>
       /\ OfEdition(snapshot.revision)
       /\ remote => OfServedEdition(snapshot.revision) /\ etag = snapshot.revision
       /\ \A n \in Namespaces : snapshot.proxies[n] \in {None, snapshot.revision[n]})
BY DEF SnapshotIsOneEdition, OfEdition, OfServedEdition

(* An edition that is published later leaves the earlier ones.             *)
LEMMA EditionsStay ==
  ASSUME HubTypes, PublishEdition
  PROVE  /\ \A e \in 1 .. Latest : e \in 1 .. Latest' /\ company'[e] = company[e]
         /\ \A r : OfEdition(r) => OfEdition(r)'
         /\ \A r : OfServedEdition(r) => OfServedEdition(r)'
<1>1. PICK new \in Editions : company' = Append(company, new)
  BY DEF PublishEdition
<1>2. company \in Seq(Edition)
  BY DEF HubTypes
<1>3. \A e \in 1 .. Latest : e \in 1 .. Latest' /\ company'[e] = company[e]
  BY <1>1, <1>2 DEF Latest
<1>4. \A r : OfEdition(r) => OfEdition(r)'
  BY <1>3 DEF OfEdition
<1>5. \A r : OfServedEdition(r) => OfServedEdition(r)'
  BY <1>3 DEF OfServedEdition
<1> QED
  BY <1>3, <1>4, <1>5

(* A step that touches neither the repository nor what came from it.       *)
LEMMA SameEditions ==
  ASSUME EditionInv, UNCHANGED <<registryVars, snapshot, etag>>,
         hub'.pc \in {"token", "request", "body"} => remote,
         hub'.pc = "file" => ~remote,
         hub'.pc = "body" => OfServedEdition(hub'.body)
  PROVE  EditionInv'
<1>1. UNCHANGED <<remote, company, accepted, localFile, Latest>>
  BY DEF registryVars, Latest
<1>2. \A r : OfEdition(r)' <=> OfEdition(r)
  BY <1>1 DEF OfEdition
<1>3. \A r : OfServedEdition(r)' <=> OfServedEdition(r)
  BY <1>1 DEF OfServedEdition
<1>4. CarriesOneEdition'
  BY <1>1, <1>2, <1>3 DEF EditionInv, CarriesOneEdition
<1>5. SnapshotIsOneEdition'
  BY <1>1 DEF EditionInv, SnapshotIsOneEdition
<1> QED
  BY <1>4, <1>5 DEF EditionInv

(* A refresh that succeeds swaps in a whole registry.                      *)
LEMMA SwapsOneEdition ==
  ASSUME EditionInv, NEW proxies \in Registered, Swap(proxies), OfEdition(proxies),
         remote => OfServedEdition(proxies) /\ etag' = proxies,
         UNCHANGED registryVars
  PROVE  EditionInv'
<1>1. /\ snapshot' = [revision |-> proxies, proxies |-> Filtered(proxies)]
      /\ hub'.pc = "idle"
      /\ UNCHANGED <<remote, company, accepted, localFile, Latest>>
  BY DEF Swap, IdleHub, registryVars, Latest
<1>2. CarriesOneEdition'
  BY <1>1 DEF EditionInv, CarriesOneEdition, OfEdition
<1>3. \A n \in Namespaces : Filtered(proxies)[n] \in {None, proxies[n]}
  BY FilteredType
<1>4. SnapshotIsOneEdition'
  BY <1>1, <1>3 DEF SnapshotIsOneEdition, OfEdition, OfServedEdition
<1> QED
  BY <1>2, <1>4 DEF EditionInv

(* Every step keeps one edition in one piece.                              *)
LEMMA EditionsNext == HubTypes /\ EditionInv /\ [HubNext]_hubVars => EditionInv'
<1> SUFFICES ASSUME HubTypes, EditionInv, [HubNext]_hubVars
             PROVE  EditionInv'
  OBVIOUS
<1>0. /\ hub \in HubRecord
      /\ hub.pc \in {"token", "request", "body"} => remote
      /\ hub.pc = "file" => ~remote
      /\ hub.pc = "body" => OfServedEdition(hub.body)
  BY DEF HubTypes, EditionInv, CarriesOneEdition
<1>1. CASE PublishEdition
  <2>1. UNCHANGED <<remote, accepted, localFile, hub, snapshot, etag>>
    BY <1>1 DEF PublishEdition, managerVars
  <2>2. accepted # 0 => company'[accepted] = company[accepted]
    BY <1>1, EditionsStay DEF HubTypes, Latest
  <2>3. CarriesOneEdition'
    BY <1>1, <2>1, <2>2, EditionsStay DEF EditionInv, CarriesOneEdition
  <2>4. SnapshotIsOneEdition'
    BY <1>1, <2>1, EditionsStay DEF EditionInv, SnapshotIsOneEdition
  <2> QED
    BY <2>3, <2>4 DEF EditionInv
<1>2. CASE RefreshSource
  <2>1. /\ accepted' = Latest /\ company[Latest].valid
        /\ UNCHANGED <<remote, company, localFile, hub, snapshot, etag, Latest>>
    BY <1>2 DEF RefreshSource, managerVars, Latest
  <2>2. CarriesOneEdition'
    BY <2>1 DEF EditionInv, CarriesOneEdition, OfEdition, OfServedEdition
  <2>3. SnapshotIsOneEdition'
    BY <2>1 DEF EditionInv, SnapshotIsOneEdition
  <2> QED
    BY <2>2, <2>3 DEF EditionInv
<1>3. CASE WriteLocalFile
  <2>1. /\ localFile' = Merged(company[Latest].layers)
        /\ UNCHANGED <<remote, company, accepted, hub, snapshot, etag, Latest>>
    BY <1>3 DEF WriteLocalFile, composeRegistry, managerVars, Latest
  <2>2. Latest \in 1 .. Latest
    BY DEF HubTypes, Latest
  <2>3. CarriesOneEdition'
    BY <2>1, <2>2 DEF EditionInv, CarriesOneEdition, OfEdition, OfServedEdition
  <2>4. SnapshotIsOneEdition'
    BY <2>1 DEF EditionInv, SnapshotIsOneEdition
  <2> QED
    BY <2>3, <2>4 DEF EditionInv
<1>4. CASE StartRefresh
  <2>1. hub'.pc = IF remote THEN "token" ELSE "file"
    BY <1>0, <1>4 DEF StartRefresh, HubRecord
  <2> QED
    BY <1>4, <2>1, SameEditions DEF StartRefresh, HubTypes
<1>5. CASE TokenArrived
  <2>1. hub.pc = "token" /\ hub'.pc = "request"
    BY <1>0, <1>5 DEF TokenArrived, HubRecord
  <2> QED
    BY <1>0, <1>5, <2>1, SameEditions DEF TokenArrived
<1>6. ASSUME FailedRefresh, UNCHANGED registryVars
      PROVE  EditionInv'
  <2>1. hub'.pc = "idle" /\ UNCHANGED <<snapshot, etag>>
    BY <1>6 DEF FailedRefresh, IdleHub
  <2> QED
    BY <1>6, <2>1, SameEditions
<1>7. CASE TokenRefused \/ RequestFails
  BY <1>6, <1>7 DEF TokenRefused, RequestFails
<1>8. CASE RequestAnswered
  <2>1. /\ hub.pc = "request" /\ Serves
        /\ hub' = [hub EXCEPT !.pc = "body", !.body = composeRegistry(accepted)]
    BY <1>8 DEF RequestAnswered
  <2>2. /\ accepted \in 1 .. Latest /\ company[accepted].valid
        /\ User \in company[accepted].users
    BY <2>1 DEF Serves, HubTypes, EditionInv, CarriesOneEdition, Latest
  <2>3. OfServedEdition(composeRegistry(accepted))
    BY <2>2 DEF OfServedEdition, composeRegistry
  <2>4. hub'.pc = "body" /\ hub'.body = composeRegistry(accepted)
    BY <1>0, <2>1 DEF HubRecord
  <2> QED
    BY <1>0, <1>8, <2>1, <2>3, <2>4, SameEditions DEF RequestAnswered
<1>9. CASE BodyRead
  <2>1. /\ hub.pc = "body" /\ Swap(hub.body) /\ etag' = hub.body
        /\ UNCHANGED registryVars
    BY <1>9 DEF BodyRead
  <2>2. hub.body \in Registered /\ OfServedEdition(hub.body)
    BY <1>0, <2>1 DEF HubTypes
  <2>3. OfEdition(hub.body)
    BY <2>2 DEF OfEdition, OfServedEdition
  <2> QED
    BY <2>1, <2>2, <2>3, SwapsOneEdition
<1>10. CASE NotModified
  <2>1. CASE snapshot # None
    <3>1. /\ snapshot' = [snapshot EXCEPT !.proxies = Filtered(@)]
          /\ hub'.pc = "idle" /\ etag' = etag
          /\ UNCHANGED <<remote, company, accepted, localFile, Latest>>
      BY <1>10, <2>1 DEF NotModified, IdleHub, registryVars, Latest
    <3>2. snapshot \in Snapshot
      BY <2>1 DEF HubTypes
    <3>3. /\ snapshot'.revision = snapshot.revision
          /\ snapshot'.proxies = Filtered(snapshot.proxies)
          /\ snapshot.proxies \in Registered
      BY <3>1, <3>2 DEF Snapshot
    <3>4. \A n \in Namespaces : snapshot'.proxies[n] \in {None, snapshot.proxies[n]}
      BY <3>3, FilteredType
    <3>5. CarriesOneEdition'
      BY <3>1 DEF EditionInv, CarriesOneEdition, OfEdition
    <3>6. SnapshotIsOneEdition'
      BY <2>1, <3>1, <3>3, <3>4 DEF EditionInv, SnapshotIsOneEdition
    <3> QED
      BY <3>5, <3>6 DEF EditionInv
  <2>2. CASE snapshot = None
    BY <1>6, <1>10, <2>2 DEF NotModified
  <2> QED
    BY <2>1, <2>2
<1>11. CASE LoadLocal
  <2>1. hub.pc = "file" /\ UNCHANGED registryVars
    BY <1>11 DEF LoadLocal
  <2>2. CASE localFile = None
    BY <1>6, <1>11, <2>1, <2>2 DEF LoadLocal
  <2>3. CASE localFile # None
    <3>1. /\ localFile \in Registered /\ OfEdition(localFile) /\ ~remote
          /\ Swap(localFile)
      BY <1>0, <1>11, <2>1, <2>3
         DEF LoadLocal, HubTypes, MaybeRegistered, EditionInv, CarriesOneEdition
    <3> QED
      BY <2>1, <3>1, SwapsOneEdition
  <2> QED
    BY <2>2, <2>3
<1>12. CASE HubTick
  <2>1. hub'.pc = hub.pc /\ hub'.body = hub.body
    BY <1>0, <1>12 DEF HubTick, HubRecord
  <2> QED
    BY <1>0, <1>12, <2>1, SameEditions DEF HubTick
<1>13. CASE HubCrash
  <2>1. /\ hub'.pc = "idle" /\ snapshot' = None
        /\ UNCHANGED <<remote, company, accepted, localFile, Latest>>
    BY <1>13 DEF HubCrash, IdleHub, registryVars, Latest
  <2>2. CarriesOneEdition'
    BY <2>1 DEF EditionInv, CarriesOneEdition, OfEdition
  <2>3. SnapshotIsOneEdition'
    BY <2>1 DEF SnapshotIsOneEdition
  <2> QED
    BY <2>2, <2>3 DEF EditionInv
<1>14. CASE LoadTrust \/ ClientStep \/ UNCHANGED hubVars
  <2>1. UNCHANGED <<registryVars, hub, snapshot, etag>>
    BY <1>14 DEF LoadTrust, ClientStep, hubVars, registryVars, managerVars
  <2> QED
    BY <1>0, <2>1, SameEditions
<1>15. ASSUME NEW p \in Approvers, ApproveStep(p)
       PROVE  EditionInv'
  <2>1. UNCHANGED <<registryVars, hub, snapshot, etag>>
    BY <1>15 DEF ApproveStep, ShowProxy, Confirm, Approve, GiveUp, registryVars, managerVars
  <2> QED
    BY <1>0, <2>1, SameEditions
<1> QED
  BY <1>1, <1>2, <1>3, <1>4, <1>5, <1>7, <1>8, <1>9, <1>10, <1>11, <1>12, <1>13, <1>14, <1>15
     DEF HubNext, ManagerStep

-----------------------------------------------------------------------------
(* What the engineer approved *)

(* Every proxy in a set of records was confirmed by an engineer.           *)
AllConfirmed(proxies) ==
  \A n \in Namespaces : proxies[n] # None => <<n, proxies[n]>> \in confirmed

(* What makes OnlyConfirmedServed inductive: the records in the hub's      *)
(* memory, in the trust file and in each approver's copy were confirmed,   *)
(* and so was the proxy an approver is about to add to its copy.           *)
RecordsAreConfirmed ==
  /\ AllConfirmed(records)
  /\ trustFile # None => AllConfirmed(trustFile)
  /\ \A p \in Approvers : approver[p].pc = "loaded" =>
       /\ AllConfirmed(approver[p].records)
       /\ <<approver[p].namespace, approver[p].config>> \in confirmed

ApprovalInv == RecordsAreConfirmed /\ OnlyConfirmedServed

(* What was filtered was confirmed.                                        *)
LEMMA FilteredIsConfirmed ==
  ASSUME AllConfirmed(records), NEW proxies \in Registered
  PROVE  AllConfirmed(Filtered(proxies))
BY FilteredType DEF AllConfirmed

(* A step of the hub's refresh, which keeps its snapshot, filters one, or  *)
(* forgets it.                                                             *)
LEMMA RefreshServesConfirmed ==
  ASSUME ApprovalInv, UNCHANGED <<records, trustVars>>,
         \/ snapshot' = snapshot
         \/ \E proxies \in Registered : snapshot'.proxies = Filtered(proxies)
  PROVE  ApprovalInv'
<1>1. RecordsAreConfirmed'
  BY DEF ApprovalInv, RecordsAreConfirmed, AllConfirmed, trustVars
<1>2. CASE snapshot' = snapshot
  BY <1>1, <1>2 DEF ApprovalInv, OnlyConfirmedServed, trustVars
<1>3. ASSUME NEW proxies \in Registered, snapshot'.proxies = Filtered(proxies)
      PROVE  OnlyConfirmedServed'
  <2>1. AllConfirmed(Filtered(proxies))
    BY FilteredIsConfirmed DEF ApprovalInv, RecordsAreConfirmed
  <2>2. confirmed' = confirmed
    BY DEF trustVars
  <2> QED
    BY <1>3, <2>1, <2>2 DEF AllConfirmed, OnlyConfirmedServed
<1> QED
  BY <1>1, <1>2, <1>3 DEF ApprovalInv

(* Every step serves and records only what was confirmed.                  *)
LEMMA ApprovalsNext == HubTypes /\ ApprovalInv /\ [HubNext]_hubVars => ApprovalInv'
<1> SUFFICES ASSUME HubTypes, ApprovalInv, [HubNext]_hubVars
             PROVE  ApprovalInv'
  OBVIOUS
<1>1. CASE PublishEdition \/ RefreshSource \/ WriteLocalFile \/ ClientStep \/ HubTick
           \/ UNCHANGED hubVars
  <2>1. UNCHANGED <<records, trustVars, snapshot>>
    BY <1>1 DEF PublishEdition, RefreshSource, WriteLocalFile, ClientStep, HubTick, hubVars,
                managerVars, trustVars
  <2> QED
    BY <2>1, RefreshServesConfirmed
<1>2. CASE ManagerStep
  <2>1. UNCHANGED <<records, trustVars>>
    BY <1>2 DEF ManagerStep, StartRefresh, TokenArrived, TokenRefused, RequestAnswered, BodyRead,
                NotModified, RequestFails, LoadLocal
  <2>2. CASE StartRefresh \/ TokenArrived \/ TokenRefused \/ RequestAnswered \/ RequestFails
    BY <2>1, <2>2, RefreshServesConfirmed
       DEF StartRefresh, TokenArrived, TokenRefused, RequestAnswered, RequestFails, FailedRefresh
  <2>3. CASE BodyRead
    <3>1. hub.body \in Registered /\ snapshot'.proxies = Filtered(hub.body)
      BY <2>3 DEF BodyRead, Swap, HubTypes
    <3> QED
      BY <2>1, <3>1, RefreshServesConfirmed
  <2>4. CASE NotModified
    <3>1. CASE snapshot # None
      <4>1. snapshot \in Snapshot /\ snapshot' = [snapshot EXCEPT !.proxies = Filtered(@)]
        BY <2>4, <3>1 DEF NotModified, HubTypes
      <4>2. /\ snapshot.proxies \in Registered
            /\ snapshot'.proxies = Filtered(snapshot.proxies)
        BY <4>1 DEF Snapshot
      <4> QED
        BY <2>1, <4>2, RefreshServesConfirmed
    <3>2. CASE snapshot = None
      BY <2>1, <2>4, <3>2, RefreshServesConfirmed DEF NotModified, FailedRefresh
    <3> QED
      BY <3>1, <3>2
  <2>5. CASE LoadLocal
    <3>1. CASE localFile = None
      BY <2>1, <2>5, <3>1, RefreshServesConfirmed DEF LoadLocal, FailedRefresh
    <3>2. CASE localFile # None
      <4>1. localFile \in Registered /\ snapshot'.proxies = Filtered(localFile)
        BY <2>5, <3>2 DEF LoadLocal, Swap, HubTypes, MaybeRegistered
      <4> QED
        BY <2>1, <4>1, RefreshServesConfirmed
    <3> QED
      BY <3>1, <3>2
  <2> QED
    BY <1>2, <2>2, <2>3, <2>4, <2>5 DEF ManagerStep
<1>3. CASE HubCrash
  <2>1. /\ snapshot' = None /\ records' = NoProxies
        /\ UNCHANGED <<trustFile, approver, confirmed>>
    BY <1>3 DEF HubCrash, trustVars
  <2> QED
    BY <2>1 DEF ApprovalInv, RecordsAreConfirmed, AllConfirmed, OnlyConfirmedServed, NoProxies
<1>4. CASE LoadTrust
  <2>1. /\ records' = IF trustFile = None THEN records ELSE trustFile
        /\ UNCHANGED <<trustFile, approver, confirmed, snapshot>>
    BY <1>4 DEF LoadTrust, trustVars, managerVars
  <2> QED
    BY <2>1 DEF ApprovalInv, RecordsAreConfirmed, AllConfirmed, OnlyConfirmedServed
<1>5. ASSUME NEW p \in Approvers, ShowProxy(p) \/ GiveUp(p)
      PROVE  ApprovalInv'
  <2>1. /\ UNCHANGED <<records, trustFile, confirmed, snapshot>>
        /\ \A q \in Approvers : q # p => approver'[q] = approver[q]
        /\ approver'[p].pc # "loaded"
    BY <1>5 DEF ShowProxy, GiveUp, HubTypes, managerVars, Idle
  <2> QED
    BY <2>1 DEF ApprovalInv, RecordsAreConfirmed, AllConfirmed, OnlyConfirmedServed
<1>6. ASSUME NEW p \in Approvers, Confirm(p)
      PROVE  ApprovalInv'
  <2> DEFINE loaded == IF trustFile = None THEN NoProxies ELSE trustFile
  <2>1. /\ UNCHANGED <<records, trustFile, snapshot>>
        /\ confirmed' = confirmed \cup {<<approver[p].namespace, approver[p].config>>}
        /\ approver' = [approver EXCEPT ![p].pc = "loaded", ![p].records = loaded]
    BY <1>6 DEF Confirm, managerVars
  <2>2. AllConfirmed(loaded)
    BY DEF ApprovalInv, RecordsAreConfirmed, AllConfirmed, NoProxies
  <2> HIDE DEF loaded
  <2>3. /\ \A q \in Approvers : q # p => approver'[q] = approver[q]
        /\ approver'[p].namespace = approver[p].namespace
        /\ approver'[p].config = approver[p].config
        /\ approver'[p].records = loaded
    BY <2>1 DEF HubTypes, Approving
  <2>4. AllConfirmed(records)' /\ (trustFile # None => AllConfirmed(trustFile))'
    BY <2>1 DEF ApprovalInv, RecordsAreConfirmed, AllConfirmed
  <2>5. ASSUME NEW q \in Approvers, approver'[q].pc = "loaded"
        PROVE  /\ AllConfirmed(approver[q].records)'
               /\ (<<approver[q].namespace, approver[q].config>> \in confirmed)'
    <3>1. CASE q = p
      <4>1. AllConfirmed(approver[q].records)'
        BY <2>1, <2>2, <2>3, <3>1 DEF AllConfirmed
      <4> QED
        BY <2>1, <2>3, <3>1, <4>1
    <3>2. CASE q # p
      <4>1. approver'[q] = approver[q] /\ approver[q].pc = "loaded"
        BY <2>3, <2>5, <3>2
      <4>2. /\ AllConfirmed(approver[q].records)
            /\ <<approver[q].namespace, approver[q].config>> \in confirmed
        BY <4>1 DEF ApprovalInv, RecordsAreConfirmed
      <4>3. \A pair \in confirmed : pair \in confirmed'
        BY <2>1
      <4>4. \A proxies : AllConfirmed(proxies) => AllConfirmed(proxies)'
        BY <4>3 DEF AllConfirmed
      <4>5. AllConfirmed(approver[q].records)'
        BY <4>1, <4>2, <4>4 DEF AllConfirmed
      <4> QED
        BY <4>1, <4>2, <4>3, <4>5
    <3> QED
      BY <3>1, <3>2
  <2>6. RecordsAreConfirmed'
    BY <2>4, <2>5 DEF RecordsAreConfirmed
  <2>7. OnlyConfirmedServed'
    BY <2>1 DEF ApprovalInv, OnlyConfirmedServed
  <2> QED
    BY <2>6, <2>7 DEF ApprovalInv
<1>7. ASSUME NEW p \in Approvers, Approve(p)
      PROVE  ApprovalInv'
  <2>1. /\ approver[p].pc = "loaded"
        /\ trustFile' = [approver[p].records EXCEPT ![approver[p].namespace] = approver[p].config]
        /\ UNCHANGED <<records, confirmed, snapshot>>
        /\ \A q \in Approvers : q # p => approver'[q] = approver[q]
        /\ approver'[p].pc = "idle"
    BY <1>7 DEF Approve, HubTypes, managerVars, Idle
  <2>2. /\ AllConfirmed(approver[p].records) /\ approver[p].records \in Registered
        /\ <<approver[p].namespace, approver[p].config>> \in confirmed
        /\ approver[p].namespace \in Namespaces
    BY <2>1 DEF ApprovalInv, RecordsAreConfirmed, HubTypes
  <2>3. AllConfirmed(trustFile)'
    BY <2>1, <2>2 DEF AllConfirmed, Registered
  <2>4. AllConfirmed(records)'
    BY <2>1 DEF ApprovalInv, RecordsAreConfirmed, AllConfirmed
  <2>5. \A q \in Approvers : approver'[q].pc = "loaded" =>
          /\ AllConfirmed(approver[q].records)'
          /\ (<<approver[q].namespace, approver[q].config>> \in confirmed)'
    <3> SUFFICES ASSUME NEW q \in Approvers, approver'[q].pc = "loaded"
                 PROVE  /\ AllConfirmed(approver[q].records)'
                        /\ (<<approver[q].namespace, approver[q].config>> \in confirmed)'
      OBVIOUS
    <3>1. approver'[q] = approver[q]
      BY <2>1
    <3> QED
      BY <2>1, <3>1 DEF ApprovalInv, RecordsAreConfirmed, AllConfirmed
  <2>6. RecordsAreConfirmed'
    BY <2>3, <2>4, <2>5 DEF RecordsAreConfirmed
  <2>7. OnlyConfirmedServed'
    BY <2>1 DEF ApprovalInv, OnlyConfirmedServed
  <2> QED
    BY <2>6, <2>7 DEF ApprovalInv
<1> QED
  BY <1>1, <1>2, <1>3, <1>4, <1>5, <1>6, <1>7 DEF HubNext, ApproveStep

-----------------------------------------------------------------------------
(* The theorems *)

HubInv == ClientInv /\ HubTypes /\ TokensAreLive /\ EditionInv /\ ApprovalInv

(* Nothing is cached, trusted or served at the start.                      *)
LEMMA HubInvInit == HubInit => HubInv
<1> SUFFICES ASSUME HubInit
             PROVE  HubInv
  OBVIOUS
<1>1. ClientInv /\ HubTypes
  BY ClientInvInit, HubTypesInit DEF HubInit
<1>2. TokensAreLive
  BY DEF HubInit, TokensAreLive, IdleHub
<1>3. EditionInv
  <2>1. accepted # 0 => company[accepted].valid
    BY DEF HubInit
  <2> QED
    BY <2>1 DEF HubInit, EditionInv, CarriesOneEdition, SnapshotIsOneEdition, IdleHub
<1>4. ApprovalInv
  BY DEF HubInit, ApprovalInv, RecordsAreConfirmed, AllConfirmed, OnlyConfirmedServed,
         NoProxies, Idle
<1> QED
  BY <1>1, <1>2, <1>3, <1>4 DEF HubInv

(* The invariant holds in every reachable state.                           *)
LEMMA HubInvariant == HubSpec => []HubInv
<1>1. HubInv /\ [HubNext]_hubVars => HubInv'
  BY ClientInvNext, HubTypesNext, TokensNext, EditionsNext, ApprovalsNext DEF HubInv
<1> QED
  BY <1>1, HubInvInit, PTL DEF HubSpec

(* The hub, its token client, the registry and the approving processes     *)
(* keep their types; in particular layers laid over each other, for any    *)
(* number of groups, are one registry.                                     *)
THEOREM HubTypeCorrect == HubSpec => []HubTypeOK
<1>1. HubInv => HubTypeOK
  BY DEF HubInv, ClientInv, HubTypes, HubTypeOK, HubRecord, Snapshot, Approving
<1> QED
  BY <1>1, HubInvariant, PTL

(* However calls of get(), retries, refusals, failures, invalidations and  *)
(* crashes interleave, an audience has one exchange in flight, and whoever *)
(* waits, waits for it.                                                    *)
THEOREM ExchangesAreShared == HubSpec => []OneExchangeAtATime
<1>1. HubInv => OneExchangeAtATime
  BY DEF HubInv, ClientInv
<1> QED
  BY <1>1, HubInvariant, PTL

(* The token a request carries has not expired when the registry checks    *)
(* it, for any session lifetime above the reuse margin.                    *)
THEOREM TokensArePresentedInTime == HubSpec => []PresentedBeforeExpiry
<1>1. HubInv => PresentedBeforeExpiry
  BY DEF HubInv, TokensAreLive, HasLeft, PresentedBeforeExpiry
<1> QED
  BY <1>1, HubInvariant, PTL

(* The hub runs only configurations an engineer was shown and approved,    *)
(* whatever the repository, the files and any number of approving          *)
(* processes do in between.                                                *)
THEOREM OnlyApprovedProxiesRun == HubSpec => []OnlyConfirmedServed
<1>1. HubInv => OnlyConfirmedServed
  BY DEF HubInv, ApprovalInv
<1> QED
  BY <1>1, HubInvariant, PTL

(* The hub's registry is part of one accepted edition as its user may see  *)
(* it, and the revision it claims is the one it has.                       *)
THEOREM HubHasOneEdition == HubSpec => []SnapshotIsOneEdition
<1>1. HubInv => SnapshotIsOneEdition
  BY DEF HubInv, EditionInv
<1> QED
  BY <1>1, HubInvariant, PTL
=============================================================================
