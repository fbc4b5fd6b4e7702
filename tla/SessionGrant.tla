---------------------------- MODULE SessionGrant ----------------------------
(***************************************************************************)
(* What the auth service promises, with no clock, no map and no handler:   *)
(* a ticket is opened once for one user and one audience, may be lost at   *)
(* any time, and is granted at most once, for exactly that user and        *)
(* audience. A ticket that was lost or granted never comes back.           *)
(***************************************************************************)
CONSTANTS Ids, Usernames, Audiences

Ticket == [id : Ids, username : Usernames, audience : Audiences]

VARIABLES
  drawn,     \* ids ever given to a ticket
  open,      \* tickets that may still be granted
  granted    \* tickets granted

grantVars == <<drawn, open, granted>>

GrantInit ==
  /\ drawn = {}
  /\ open = {}
  /\ granted = {}

Open(t) ==
  /\ t.id \notin drawn
  /\ drawn' = drawn \cup {t.id}
  /\ open' = open \cup {t}
  /\ UNCHANGED granted

Lose ==
  /\ open' \subseteq open
  /\ UNCHANGED <<drawn, granted>>

Grant(t) ==
  /\ t \in open
  /\ granted' = granted \cup {t}
  /\ open' = open \ {t}
  /\ UNCHANGED drawn

GrantNext == Lose \/ \E t \in Ticket : Open(t) \/ Grant(t)

GrantSpec == GrantInit /\ [][GrantNext]_grantVars
=============================================================================
