---------------------------- MODULE ProcessStash ----------------------------
(***************************************************************************)
(* Bearer tokens as the server keeps them: the process stash               *)
(* (core/src/process_stash.cpp), the login that fills it                   *)
(* (endpoints/authentication/src/main.cpp), resolve_client_identity that    *)
(* reads it (core/src/common.cpp), and the timer that evicts what expired  *)
(* (core/src/main.cpp: process_stash_eviction_manager).                    *)
(*                                                                         *)
(* Logins run on background threads, the rest on those of the io_context.  *)
(* One action is what runs between two acquisitions of the stash's mutex,  *)
(* or between two looks at the clock.  The stash does not outlive the      *)
(* process, and neither does a behaviour of this module.                   *)
(***************************************************************************)
EXTENDS Integers

CONSTANTS
  Reqs, Bearers, NoBearer, AccessTokens, Users, NoUser, Lifetime, MaxTime,
  Anonymous,    \* The user name that is not checked, with an empty password.
  Oidc          \* The configuration has an openid_connect stanza.

ASSUME StashAssumption ==
  /\ NoBearer \notin Bearers
  /\ AccessTokens \subseteq Bearers
  /\ NoUser \notin Users
  /\ Lifetime \in Nat
  /\ MaxTime \in Nat
  /\ Oidc \in BOOLEAN

VARIABLES
  now,     \* std::chrono::steady_clock
  stash,   \* The keys of g_stash.
  owner,   \* owner[t], expires[t]: the authenticated_client_info stored for t;
  expires, \* of a key that was erased, what it was.
  issued,  \* The keys generate_unique_key has returned.
  armed,   \* The timer of the eviction manager is waiting.
  state,   \* state[r]: where the code of request r is.
  bearer,  \* bearer[r]: the bearer token of r.
  who,     \* who[r], until[r]: r's copy of an authenticated_client_info.
  until,
  reply    \* reply[r]: what resolve_client_identity made of the token.

stashVars == <<stash, owner, expires, issued>>
svars == <<now, stashVars, armed, state, bearer, who, until, reply>>

SInit ==
  /\ now = 0
  /\ stash = {}
  /\ owner = [t \in Bearers |-> NoUser]
  /\ expires = [t \in Bearers |-> 0]
  /\ issued = {}
  /\ armed = TRUE
  /\ state = [r \in Reqs |-> "idle"]
  /\ bearer = [r \in Reqs |-> NoBearer]
  /\ who = [r \in Reqs |-> NoUser]
  /\ until = [r \in Reqs |-> 0]
  /\ reply = [r \in Reqs |-> "none"]

ToState(r, next) == state' = [state EXCEPT ![r] = next]

Tick ==
  /\ now < MaxTime
  /\ now' = now + 1
  /\ UNCHANGED <<stashVars, armed, state, bearer, who, until, reply>>

\* The slot is free for another request.
Clear(r) ==
  /\ ToState(r, "idle")
  /\ bearer' = [bearer EXCEPT ![r] = NoBearer]
  /\ who' = [who EXCEPT ![r] = NoUser]
  /\ until' = [until EXCEPT ![r] = 0]
  /\ reply' = [reply EXCEPT ![r] = "none"]

-----------------------------------------------------------------------------
(* POST /authenticate with the Basic scheme *)

StartLogin(r, u) ==
  /\ state[r] = "idle"
  /\ ToState(r, "credentials")
  /\ who' = [who EXCEPT ![r] = u]
  /\ UNCHANGED <<now, stashVars, armed, bearer, until, reply>>

Expiry == now + Lifetime

\* The iRODS server says yes, or is not asked.  The clock is read before
\* insert is called.
CredentialsAccepted(r) ==
  /\ state[r] = "credentials"
  /\ until' = [until EXCEPT ![r] = Expiry]
  /\ ToState(r, "insert")
  /\ UNCHANGED <<now, stashVars, armed, bearer, who, reply>>

\* It says no, or fails: a 401, and the request is over.
CredentialsRefused(r) ==
  /\ state[r] = "credentials"
  /\ who[r] # Anonymous
  /\ Clear(r)
  /\ UNCHANGED <<now, stashVars, armed>>

\* process_stash::insert under the exclusive lock.  The keys are random
\* UUIDs: two are never equal, and the loop of generate_unique_key ends.
Insert(r) ==
  /\ state[r] = "insert"
  /\ \E t \in Bearers \ (issued \cup AccessTokens) :
       /\ stash' = stash \cup {t}
       /\ issued' = issued \cup {t}
       /\ owner' = [owner EXCEPT ![t] = who[r]]
       /\ expires' = [expires EXCEPT ![t] = until[r]]
  /\ Clear(r)
  /\ UNCHANGED <<now, armed>>

-----------------------------------------------------------------------------
(* resolve_client_identity *)

\* A request with a bearer token: one that was given out, however long ago, or
\* one that is not of this server.  Nobody guesses a UUID before it is drawn.
Present(r, t) ==
  /\ state[r] = "idle"
  /\ t \in issued \cup AccessTokens
  /\ ToState(r, "find")
  /\ bearer' = [bearer EXCEPT ![r] = t]
  /\ UNCHANGED <<now, stashVars, armed, who, until, reply>>

Answer(r, how) ==
  /\ ToState(r, "answered")
  /\ reply' = [reply EXCEPT ![r] = how]

\* process_stash::find copies the value under the shared lock.
Find(r) ==
  /\ state[r] = "find"
  /\ bearer[r] \in stash
  /\ who' = [who EXCEPT ![r] = owner[bearer[r]]]
  /\ until' = [until EXCEPT ![r] = expires[bearer[r]]]
  /\ ToState(r, "check")
  /\ UNCHANGED <<now, stashVars, armed, bearer, reply>>

\* Not found: the provider is asked if there is one.
NotFound(r) ==
  /\ state[r] = "find"
  /\ bearer[r] \notin stash
  /\ IF Oidc THEN ToState(r, "provider") /\ UNCHANGED reply
             ELSE Answer(r, "unauthorized")
  /\ UNCHANGED <<now, stashVars, armed, bearer, who, until>>

Expired(e) == now >= e

\* The copy is checked, not the stash: the entry may be gone meanwhile.
CheckExpiry(r) ==
  /\ state[r] = "check"
  /\ Answer(r, IF Expired(until[r]) THEN "unauthorized" ELSE "accepted")
  /\ UNCHANGED <<now, stashVars, armed, bearer, who, until>>

\* Introspection or local validation, then the user mapping plugin.
ProviderAccepts(r, u) ==
  /\ state[r] = "provider"
  /\ bearer[r] \in AccessTokens
  /\ who' = [who EXCEPT ![r] = u]
  /\ Answer(r, "accepted")
  /\ UNCHANGED <<now, stashVars, armed, bearer, until>>

ProviderRefuses(r) ==
  /\ state[r] = "provider"
  /\ Answer(r, "unauthorized")
  /\ UNCHANGED <<now, stashVars, armed, bearer, who, until>>

Finish(r) ==
  /\ state[r] = "answered"
  /\ Clear(r)
  /\ UNCHANGED <<now, stashVars, armed>>

-----------------------------------------------------------------------------
(* process_stash_eviction_manager::evict *)

\* Faulty variant: the timer is not set again.
DoNotRearm == armed' = FALSE

Rearm == armed' = TRUE

\* Faulty variant: a token that has not expired yet is evicted.
EvictableEarly(t) == now + 1 >= expires[t]

Evictable(t) == Expired(expires[t])

\* erase_if under the exclusive lock.
Evict ==
  /\ armed
  /\ stash' = {t \in stash : ~Evictable(t)}
  /\ Rearm
  /\ UNCHANGED <<now, owner, expires, issued, state, bearer, who, until, reply>>

-----------------------------------------------------------------------------

SNext ==
  \/ Tick
  \/ Evict
  \/ \E r \in Reqs :
       \/ \E u \in Users : StartLogin(r, u) \/ ProviderAccepts(r, u)
       \/ \E t \in Bearers : Present(r, t)
       \/ CredentialsAccepted(r) \/ CredentialsRefused(r) \/ Insert(r)
       \/ Find(r) \/ NotFound(r) \/ CheckExpiry(r) \/ ProviderRefuses(r)
       \/ Finish(r)

SSpec == SInit /\ [][SNext]_svars

\* The timer fires again and again: the io_context runs.
SFairSpec == SSpec /\ WF_svars(Evict)

-----------------------------------------------------------------------------
(* What the code promises *)

\* The type of every variable.
STypeOK ==
  /\ now \in 0 .. MaxTime
  /\ issued \in SUBSET Bearers
  /\ stash \in SUBSET issued
  /\ owner \in [Bearers -> Users \cup {NoUser}]
  /\ expires \in [Bearers -> 0 .. MaxTime + Lifetime]
  /\ armed \in BOOLEAN
  /\ state \in [Reqs -> {"idle", "credentials", "insert", "find", "check",
                      "provider", "answered"}]
  /\ bearer \in [Reqs -> Bearers \cup {NoBearer}]
  /\ who \in [Reqs -> Users \cup {NoUser}]
  /\ until \in [Reqs -> 0 .. MaxTime + Lifetime]
  /\ reply \in [Reqs -> {"none", "accepted", "unauthorized"}]

\* The tokens as a client sees them: eviction and the copies are invisible.
Promise == INSTANCE BearerTokens WITH
  Tokens <- Bearers, NoToken <- NoBearer,
  asked <- bearer,
  as <- [r \in Reqs |-> IF reply[r] = "accepted" THEN who[r] ELSE NoUser]

\* A token is good from its login to its expiry, whatever the timer and the
\* other requests do; before, after, and for anybody else it is a 401.
ImplementsPromise == Promise!Spec

\* The stash does not keep what has expired: the timer is always set again.
ExpiredGoes == \A t \in Bearers : t \in stash /\ now >= expires[t] ~> t \notin stash
=============================================================================
