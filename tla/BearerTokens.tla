---------------------------- MODULE BearerTokens ----------------------------
(***************************************************************************)
(* What the HTTP API promises of its bearer tokens (API.md, Authentication *)
(* Operations): a token has a finite lifetime that no use extends, an      *)
(* expired or invalid one is answered with 401, and a reauthentication     *)
(* gives a new token and leaves the older ones alone.  Nothing is said of  *)
(* how the server stores them.                                             *)
(*                                                                         *)
(* An access token of an OpenID provider is accepted or not as the         *)
(* provider says.                                                          *)
(***************************************************************************)
EXTENDS Integers

CONSTANTS
  Reqs,         \* The requests being serviced at one time.
  Tokens,       \* Whatever a client can put behind "Bearer".
  NoToken,
  AccessTokens, \* The tokens an OpenID provider may accept.
  Users,
  NoUser,
  Lifetime,     \* authentication/basic/timeout_in_seconds
  MaxTime       \* Bound: the clock stops here.

VARIABLES
  now,     \* The clock.
  issued,  \* The tokens given out so far.
  owner,   \* owner[t]: the user t stands for.
  expires, \* expires[t]: when t is not accepted any more.
  asked,   \* asked[r]: the token of request r.
  reply,   \* reply[r]: how the token was received.
  as       \* as[r]: the user the request was accepted as.

vars == <<now, issued, owner, expires, asked, reply, as>>

Init ==
  /\ now = 0
  /\ issued = {}
  /\ owner = [t \in Tokens |-> NoUser]
  /\ expires = [t \in Tokens |-> 0]
  /\ asked = [r \in Reqs |-> NoToken]
  /\ reply = [r \in Reqs |-> "none"]
  /\ as = [r \in Reqs |-> NoUser]

Tick ==
  /\ now < MaxTime
  /\ now' = now + 1
  /\ UNCHANGED <<issued, owner, expires, asked, reply, as>>

\* A login is answered with a new token that lives Lifetime at most.
Issue(t, u, e) ==
  /\ t \notin issued
  /\ e <= now + Lifetime
  /\ issued' = issued \cup {t}
  /\ owner' = [owner EXCEPT ![t] = u]
  /\ expires' = [expires EXCEPT ![t] = e]
  /\ UNCHANGED <<now, asked, reply, as>>

Ask(r, t) ==
  /\ asked[r] = NoToken
  /\ asked' = [asked EXCEPT ![r] = t]
  /\ UNCHANGED <<now, issued, owner, expires, reply, as>>

Valid(t) == t \in issued /\ now < expires[t]

\* Accepted as the owner of the token, or as whom the provider says.
Accept(r, u) ==
  /\ asked[r] # NoToken
  /\ reply[r] = "none"
  /\ \/ Valid(asked[r]) /\ u = owner[asked[r]]
     \/ asked[r] \in AccessTokens
  /\ reply' = [reply EXCEPT ![r] = "accepted"]
  /\ as' = [as EXCEPT ![r] = u]
  /\ UNCHANGED <<now, issued, owner, expires, asked>>

Refuse(r) ==
  /\ asked[r] # NoToken
  /\ reply[r] = "none"
  /\ ~Valid(asked[r])
  /\ reply' = [reply EXCEPT ![r] = "unauthorized"]
  /\ UNCHANGED <<now, issued, owner, expires, asked, as>>

Finish(r) ==
  /\ reply[r] # "none"
  /\ asked' = [asked EXCEPT ![r] = NoToken]
  /\ reply' = [reply EXCEPT ![r] = "none"]
  /\ as' = [as EXCEPT ![r] = NoUser]
  /\ UNCHANGED <<now, issued, owner, expires>>

Next ==
  \/ Tick
  \/ \E t \in Tokens, u \in Users, e \in 0 .. MaxTime + Lifetime : Issue(t, u, e)
  \/ \E r \in Reqs :
       \/ \E t \in Tokens : Ask(r, t)
       \/ \E u \in Users : Accept(r, u)
       \/ Refuse(r)
       \/ Finish(r)

Spec == Init /\ [][Next]_vars
=============================================================================
