---------------------------- MODULE MCAuthExchange ----------------------------
(***************************************************************************)
(* An initial state fixes the subject: two exchanges over two challenges,  *)
(* of different pairs while one window lasts; the rate limiter alone over  *)
(* five, enough for a window of two that runs out and one too long that    *)
(* follows it; or the GitHub key source, which shares no state with the    *)
(* others. Ids are drawn in order: nothing tells them apart before. The    *)
(* limiter counts before issue() waits, and after that each call inserts a *)
(* challenge of its own, so that one issue() at a time is enough.          *)
(***************************************************************************)
EXTENDS MCAuthIssuer, GithubKeys

VARIABLE subject

MCInit ==
  /\ subject \in {"exchange", "rate", "github"}
  /\ AuthInit
  /\ GithubInit
  /\ subject # "github" => pages = [a \in Accounts |-> <<[keys |-> {}, since |-> 0]>>]

MCNext ==
  /\ UNCHANGED subject
  /\ \/ /\ subject # "github" /\ AuthNext
        /\ DOMAIN minted' = 1 .. Cardinality(DOMAIN minted')
        /\ Cardinality(DOMAIN issuing') <= 1
        /\ subject = "rate" => DOMAIN req' = {}
        /\ subject = "exchange" =>
             /\ Cardinality(DOMAIN minted') <= 2
             /\ \A p \in DOMAIN rateLimits' : rateLimits'[p].count <= 1
        /\ UNCHANGED githubVars
     \/ subject = "github" /\ GithubNext /\ UNCHANGED vars

MCSpec == MCInit /\ [][MCNext]_<<vars, githubVars, subject>>
=============================================================================
