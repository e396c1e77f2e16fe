------------------------- MODULE ProcessStashProofs -------------------------
(***************************************************************************)
(* The process stash implements the promise of BearerTokens, for any       *)
(* number of requests, tokens and users and any lifetime.                  *)
(***************************************************************************)
EXTENDS ProcessStash, TLAPS

\* What the timer removed is what had expired, and no key of the stash is the
\* access token of a provider.
StashOK ==
  /\ \A t \in issued \ stash : now >= expires[t]
  /\ issued \cap AccessTokens = {}

LoginPCs == {"idle", "credentials", "insert"}

\* The copy a request took is still what was stored, although the key may be
\* gone; a request that did not find its token never will.
ReqOK ==
  \A r \in Reqs :
    /\ state[r] \in LoginPCs => bearer[r] = NoBearer
    /\ state[r] \notin LoginPCs => bearer[r] \in issued \cup AccessTokens
    /\ reply[r] # "none" <=> state[r] = "answered"
    /\ state[r] \in {"credentials", "insert"} => who[r] \in Users
    /\ state[r] = "insert" => until[r] <= now + Lifetime
    /\ state[r] = "check" => /\ bearer[r] \in issued
                          /\ who[r] = owner[bearer[r]]
                          /\ until[r] = expires[bearer[r]]
    /\ state[r] = "provider" /\ bearer[r] \in issued => now >= expires[bearer[r]]

\* The tokens given out are some user's.
OwnerOK == \A t \in issued : owner[t] \in Users

IInv == STypeOK /\ StashOK /\ ReqOK /\ OwnerOK

-----------------------------------------------------------------------------

LEMMA InitOK == SInit => IInv
BY StashAssumption
   DEF SInit, IInv, STypeOK, StashOK, ReqOK, OwnerOK, LoginPCs

\* The clock and the timer: time only makes tokens expire, and only an expired
\* token leaves the stash.
LEMMA ClockAndTimer ==
  ASSUME IInv, Tick \/ Evict
  PROVE  IInv'
<1> USE StashAssumption
<1>1. CASE Tick
  BY <1>1 DEF Tick, stashVars, IInv, STypeOK, StashOK, ReqOK, OwnerOK, LoginPCs
<1>2. CASE Evict
  <2>1. stash' \in SUBSET issued' /\ StashOK'
    BY <1>2 DEF Evict, Evictable, Expired, IInv, STypeOK, StashOK
  <2>2. STypeOK' /\ ReqOK' /\ OwnerOK'
    BY <1>2, <2>1
    DEF Evict, Rearm, IInv, STypeOK, StashOK, ReqOK, OwnerOK, LoginPCs
  <2> QED BY <2>1, <2>2 DEF IInv
<1> QED BY <1>1, <1>2

\* The steps of a login.
LEMMA Login ==
  ASSUME IInv, NEW r \in Reqs,
         \/ \E u \in Users : StartLogin(r, u)
         \/ CredentialsAccepted(r) \/ CredentialsRefused(r) \/ Insert(r)
  PROVE  IInv'
<1> USE StashAssumption
<1>1. ASSUME NEW u \in Users, StartLogin(r, u) PROVE IInv'
  BY <1>1 DEF StartLogin, ToState, stashVars, IInv, STypeOK, StashOK, ReqOK,
              OwnerOK, LoginPCs
<1>2. CASE CredentialsAccepted(r)
  BY <1>2 DEF CredentialsAccepted, Expiry, ToState, stashVars, IInv, STypeOK,
              StashOK, ReqOK, OwnerOK, LoginPCs
<1>3. CASE CredentialsRefused(r)
  BY <1>3 DEF CredentialsRefused, Clear, ToState, stashVars, IInv, STypeOK,
              StashOK, ReqOK, OwnerOK, LoginPCs
<1>4. CASE Insert(r)
  <2>1. PICK t \in Bearers \ (issued \cup AccessTokens) :
          /\ stash' = stash \cup {t}
          /\ issued' = issued \cup {t}
          /\ owner' = [owner EXCEPT ![t] = who[r]]
          /\ expires' = [expires EXCEPT ![t] = until[r]]
    BY <1>4 DEF Insert
  <2>2. Clear(r) /\ UNCHANGED <<now, armed>> /\ state[r] = "insert"
    BY <1>4 DEF Insert
  <2>3. who[r] \in Users /\ until[r] \in 0 .. MaxTime + Lifetime
    BY <2>2 DEF IInv, STypeOK, ReqOK
  <2>4. STypeOK'
    BY <2>1, <2>2, <2>3 DEF Clear, ToState, IInv, STypeOK
  <2>5. StashOK' /\ OwnerOK'
    BY <2>1, <2>2, <2>3 DEF IInv, STypeOK, StashOK, OwnerOK
  <2>6. ReqOK'
    BY <2>1, <2>2 DEF Clear, ToState, IInv, STypeOK, StashOK, ReqOK, LoginPCs
  <2> QED BY <2>4, <2>5, <2>6 DEF IInv
<1> QED BY <1>1, <1>2, <1>3, <1>4

\* The steps of resolve_client_identity.
LEMMA Resolve ==
  ASSUME IInv, NEW r \in Reqs,
         \/ \E t \in Bearers : Present(r, t)
         \/ \E u \in Users : ProviderAccepts(r, u)
         \/ Find(r) \/ NotFound(r) \/ CheckExpiry(r) \/ ProviderRefuses(r)
         \/ Finish(r)
  PROVE  IInv'
<1> USE StashAssumption
<1>1. ASSUME NEW t \in Bearers, Present(r, t) PROVE IInv'
  BY <1>1 DEF Present, ToState, stashVars, IInv, STypeOK, StashOK, ReqOK, OwnerOK, LoginPCs
<1>2. CASE Find(r)
  <2>1. bearer[r] \in issued /\ bearer[r] \in Bearers
    BY <1>2 DEF Find, IInv, STypeOK
  <2> QED
    BY <1>2, <2>1 DEF Find, ToState, stashVars, IInv, STypeOK, StashOK, ReqOK,
                      OwnerOK, LoginPCs
<1>3. CASE NotFound(r)
  <2>1. bearer[r] \in issued => now >= expires[bearer[r]]
    BY <1>3 DEF NotFound, IInv, StashOK
  <2>2. CASE Oidc
    BY <1>3, <2>1, <2>2 DEF NotFound, ToState, stashVars, IInv, STypeOK, StashOK,
                            ReqOK, OwnerOK, LoginPCs
  <2>3. CASE ~Oidc
    BY <1>3, <2>3 DEF NotFound, Answer, ToState, stashVars, IInv, STypeOK, StashOK,
                      ReqOK, OwnerOK, LoginPCs
  <2> QED BY <2>2, <2>3
<1>4. CASE CheckExpiry(r)
  BY <1>4 DEF CheckExpiry, Answer, ToState, stashVars, IInv, STypeOK, StashOK,
              ReqOK, OwnerOK, LoginPCs
<1>5. ASSUME NEW u \in Users, ProviderAccepts(r, u) PROVE IInv'
  BY <1>5 DEF ProviderAccepts, Answer, ToState, stashVars, IInv, STypeOK, StashOK,
              ReqOK, OwnerOK, LoginPCs
<1>6. CASE ProviderRefuses(r)
  BY <1>6 DEF ProviderRefuses, Answer, ToState, stashVars, IInv, STypeOK, StashOK,
              ReqOK, OwnerOK, LoginPCs
<1>7. CASE Finish(r)
  BY <1>7 DEF Finish, Clear, ToState, stashVars, IInv, STypeOK, StashOK, ReqOK,
              OwnerOK, LoginPCs
<1> QED BY <1>1, <1>2, <1>3, <1>4, <1>5, <1>6, <1>7

LEMMA StepOK == IInv /\ [SNext]_svars => IInv'
<1> SUFFICES ASSUME IInv, [SNext]_svars PROVE IInv'
  OBVIOUS
<1>1. CASE UNCHANGED svars
  BY <1>1 DEF svars, stashVars, IInv, STypeOK, StashOK, ReqOK, OwnerOK
<1>2. CASE Tick \/ Evict
  BY <1>2, ClockAndTimer
<1>3. ASSUME NEW r \in Reqs, NEW u \in Users,
             StartLogin(r, u) \/ ProviderAccepts(r, u)
      PROVE  IInv'
  BY <1>3, Login, Resolve
<1>4. ASSUME NEW r \in Reqs, NEW t \in Bearers, Present(r, t)
      PROVE  IInv'
  BY <1>4, Resolve
<1>5. ASSUME NEW r \in Reqs,
             \/ CredentialsAccepted(r) \/ CredentialsRefused(r) \/ Insert(r)
             \/ Find(r) \/ NotFound(r) \/ CheckExpiry(r) \/ ProviderRefuses(r)
             \/ Finish(r)
      PROVE  IInv'
  BY <1>5, Login, Resolve
<1> QED BY <1>1, <1>2, <1>3, <1>4, <1>5 DEF SNext

\* The invariant of the stash, of which type correctness is a part.
THEOREM Invariance == SSpec => []IInv
BY InitOK, StepOK, PTL DEF SSpec

\* Every variable keeps its type: a stored expiry is never later than the
\* lifetime of a token after the login, and the stash only holds issued keys.
THEOREM TypeCorrect == SSpec => []STypeOK
<1>1. IInv => STypeOK
  BY DEF IInv
<1> QED BY <1>1, Invariance, PTL

-----------------------------------------------------------------------------
(* The refinement: every step is a step of BearerTokens or a stutter *)

\* The user a request is taken for, as the abstract specification sees it.
As == [r \in Reqs |-> IF reply[r] = "accepted" THEN who[r] ELSE NoUser]

LEMMA InitMaps == SInit => Promise!Init
BY DEF SInit, Promise!Init

\* What the clients do not see leaves all of the abstract state alone.
LEMMA Stutter ==
  ASSUME IInv, now' = now, issued' = issued, owner' = owner,
         expires' = expires, bearer' = bearer, reply' = reply,
         \A r \in Reqs : reply[r] = "accepted" => who'[r] = who[r]
  PROVE  UNCHANGED Promise!vars
<1>1. As' = As
  BY DEF As
<1> QED BY <1>1 DEF As, Promise!vars

\* Time and the timer.
LEMMA ClockMaps ==
  /\ Tick => Promise!Tick
  /\ IInv /\ Evict => UNCHANGED Promise!vars
<1>1. Tick => Promise!Tick
  BY DEF Tick, Promise!Tick, stashVars
<1>2. IInv /\ Evict => UNCHANGED Promise!vars
  BY Stutter DEF Evict
<1> QED BY <1>1, <1>2

\* A login is invisible until its token is stored.
LEMMA LoginMaps ==
  ASSUME IInv, NEW r \in Reqs
  PROVE  /\ \A u \in Users : StartLogin(r, u) => UNCHANGED Promise!vars
         /\ CredentialsAccepted(r) => UNCHANGED Promise!vars
         /\ CredentialsRefused(r) => UNCHANGED Promise!vars
         /\ Insert(r) => Promise!Next
<1> USE DEF IInv
<1>1. ASSUME NEW u \in Users, StartLogin(r, u) PROVE UNCHANGED Promise!vars
  <2>1. reply[r] = "none"
    BY <1>1 DEF StartLogin, ReqOK, STypeOK
  <2> QED BY <1>1, <2>1, Stutter DEF StartLogin, stashVars, STypeOK
<1>2. ASSUME CredentialsAccepted(r) PROVE UNCHANGED Promise!vars
  BY <1>2, Stutter DEF CredentialsAccepted, stashVars
<1>3. ASSUME Clear(r), state[r] \in {"credentials", "insert"}
      PROVE  /\ bearer' = bearer /\ reply' = reply
             /\ \A q \in Reqs : reply[q] = "accepted" => who'[q] = who[q]
  <2>1. reply[r] = "none" /\ bearer[r] = NoBearer
    BY <1>3 DEF ReqOK, STypeOK, LoginPCs
  <2> QED BY <1>3, <2>1 DEF Clear, STypeOK
<1>4. ASSUME CredentialsRefused(r) PROVE UNCHANGED Promise!vars
  BY <1>4, <1>3, Stutter DEF CredentialsRefused, stashVars
<1>5. ASSUME Insert(r) PROVE Promise!Next
  <2>1. PICK t \in Bearers \ (issued \cup AccessTokens) :
          /\ issued' = issued \cup {t}
          /\ owner' = [owner EXCEPT ![t] = who[r]]
          /\ expires' = [expires EXCEPT ![t] = until[r]]
    BY <1>5 DEF Insert
  <2>2. /\ who[r] \in Users /\ until[r] \in 0 .. MaxTime + Lifetime
        /\ until[r] <= now + Lifetime
    BY <1>5 DEF Insert, ReqOK, STypeOK
  <2>3. /\ now' = now /\ bearer' = bearer /\ reply' = reply
        /\ \A q \in Reqs : reply[q] = "accepted" => who'[q] = who[q]
    BY <1>5, <1>3 DEF Insert
  <2>4. As' = As
    BY <2>3 DEF As
  <2>5. Promise!Issue(t, who[r], until[r])
    BY <2>1, <2>2, <2>3, <2>4 DEF As, Promise!Issue
  <2> QED BY <2>1, <2>2, <2>5 DEF Promise!Next
<1> QED BY <1>1, <1>2, <1>4, <1>5

\* The answer to request r, as the clients see it.
LEMMA AnswerMaps ==
  ASSUME IInv, NEW r \in Reqs, reply[r] = "none", NEW how \in {"accepted", "unauthorized"},
         reply' = [reply EXCEPT ![r] = how],
         \A q \in Reqs \ {r} : who'[q] = who[q]
  PROVE  As' = IF how = "accepted" THEN [As EXCEPT ![r] = who'[r]] ELSE As
<1>1. reply \in [Reqs -> {"none", "accepted", "unauthorized"}]
  BY DEF IInv, STypeOK
<1>2. CASE how = "accepted"
  BY <1>1, <1>2 DEF As
<1>3. CASE how = "unauthorized"
  BY <1>1, <1>3 DEF As
<1> QED BY <1>2, <1>3

\* resolve_client_identity: Find and a token that is not found are invisible;
\* the answer is the one the promise allows at this moment.
LEMMA ResolveMaps ==
  ASSUME IInv, NEW r \in Reqs
  PROVE  /\ \A t \in Bearers : Present(r, t) => Promise!Ask(r, t)
         /\ Find(r) => UNCHANGED Promise!vars
         /\ NotFound(r) => Promise!Refuse(r) \/ UNCHANGED Promise!vars
         /\ CheckExpiry(r) => Promise!Next
         /\ \A u \in Users : ProviderAccepts(r, u) => Promise!Accept(r, u)
         /\ ProviderRefuses(r) => Promise!Refuse(r)
         /\ Finish(r) => Promise!Finish(r)
<1> USE StashAssumption DEF IInv
<1>1. ASSUME NEW t \in Bearers, Present(r, t) PROVE Promise!Ask(r, t)
  <2>1. bearer[r] = NoBearer
    BY <1>1 DEF Present, ReqOK, LoginPCs
  <2>2. As' = As
    BY <1>1 DEF Present, As
  <2> QED BY <1>1, <2>1, <2>2 DEF Present, As, Promise!Ask, stashVars
<1>2. ASSUME Find(r) PROVE UNCHANGED Promise!vars
  <2>1. reply[r] = "none"
    BY <1>2 DEF Find, ReqOK, STypeOK
  <2> QED BY <1>2, <2>1, Stutter DEF Find, stashVars, STypeOK
<1>3. ASSUME state[r] \in {"find", "check", "provider"}
      PROVE  bearer[r] # NoBearer /\ reply[r] = "none"
  BY <1>3 DEF ReqOK, STypeOK, LoginPCs
<1>4. ASSUME NotFound(r) PROVE Promise!Refuse(r) \/ UNCHANGED Promise!vars
  <2>1. CASE Oidc
    BY <1>4, <2>1, Stutter DEF NotFound, stashVars
  <2>2. CASE ~Oidc
    <3>1. bearer[r] # NoBearer /\ reply[r] = "none"
      BY <1>4, <1>3 DEF NotFound
    <3>2. ~Promise!Valid(bearer[r])
      BY <1>4 DEF NotFound, StashOK, STypeOK, Promise!Valid
    <3>3. As' = As
      BY <1>4, <2>2, <3>1, AnswerMaps DEF NotFound, Answer
    <3> QED
      BY <1>4, <2>2, <3>1, <3>2, <3>3
      DEF NotFound, Answer, stashVars, As, Promise!Refuse
  <2> QED BY <2>1, <2>2
<1>5. ASSUME CheckExpiry(r) PROVE Promise!Next
  <2>1. /\ bearer[r] # NoBearer /\ reply[r] = "none"
        /\ bearer[r] \in issued /\ who[r] = owner[bearer[r]]
        /\ until[r] = expires[bearer[r]]
    BY <1>5, <1>3 DEF CheckExpiry, ReqOK
  <2>2. who[r] \in Users
    BY <2>1 DEF OwnerOK
  <2>3. now \in Int /\ until[r] \in Int
    BY DEF STypeOK
  <2>4. CASE Expired(until[r])
    <3>1. As' = As
      BY <1>5, <2>1, <2>4, AnswerMaps DEF CheckExpiry, Answer
    <3>2. ~Promise!Valid(bearer[r])
      BY <2>1, <2>3, <2>4 DEF Expired, Promise!Valid
    <3>3. Promise!Refuse(r)
      BY <1>5, <2>1, <2>4, <3>1, <3>2
      DEF CheckExpiry, Answer, stashVars, As, Promise!Refuse
    <3> QED BY <3>3 DEF Promise!Next
  <2>5. CASE ~Expired(until[r])
    <3>1. PICK u \in Users : u = who[r]
      BY <2>2
    <3>2. As' = [As EXCEPT ![r] = u]
      BY <1>5, <2>1, <2>5, <3>1, AnswerMaps DEF CheckExpiry, Answer
    <3>3. Promise!Valid(bearer[r]) /\ u = owner[bearer[r]]
      BY <2>1, <2>3, <2>5, <3>1 DEF Expired, Promise!Valid
    <3>4. Promise!Accept(r, u)
      BY <1>5, <2>1, <2>5, <3>2, <3>3
      DEF CheckExpiry, Answer, stashVars, As, Promise!Accept
    <3> QED BY <3>4 DEF Promise!Next
  <2> QED BY <2>4, <2>5
<1>6. ASSUME NEW u \in Users, ProviderAccepts(r, u) PROVE Promise!Accept(r, u)
  <2>1. bearer[r] # NoBearer /\ reply[r] = "none"
    BY <1>6, <1>3 DEF ProviderAccepts
  <2>2. who'[r] = u /\ \A q \in Reqs \ {r} : who'[q] = who[q]
    BY <1>6 DEF ProviderAccepts, STypeOK
  <2>3. As' = [As EXCEPT ![r] = u]
    BY <1>6, <2>1, <2>2, AnswerMaps DEF ProviderAccepts, Answer
  <2> QED
    BY <1>6, <2>1, <2>3
    DEF ProviderAccepts, Answer, stashVars, As, Promise!Accept
<1>7. ASSUME ProviderRefuses(r) PROVE Promise!Refuse(r)
  <2>1. bearer[r] # NoBearer /\ reply[r] = "none"
    BY <1>7, <1>3 DEF ProviderRefuses
  <2>2. ~Promise!Valid(bearer[r])
    BY <1>7 DEF ProviderRefuses, ReqOK, STypeOK, Promise!Valid
  <2>3. As' = As
    BY <1>7, <2>1, AnswerMaps DEF ProviderRefuses, Answer
  <2> QED
    BY <1>7, <2>1, <2>2, <2>3
    DEF ProviderRefuses, Answer, stashVars, As, Promise!Refuse
<1>8. ASSUME Finish(r) PROVE Promise!Finish(r)
  <2>1. reply[r] # "none"
    BY <1>8 DEF Finish, ReqOK
  <2>2. As' = [As EXCEPT ![r] = NoUser]
    BY <1>8 DEF Finish, Clear, As, STypeOK
  <2> QED
    BY <1>8, <2>1, <2>2 DEF Finish, Clear, stashVars, As, Promise!Finish
<1> QED BY <1>1, <1>2, <1>4, <1>5, <1>6, <1>7, <1>8

LEMMA StepMaps == IInv /\ [SNext]_svars => [Promise!Next]_(Promise!vars)
<1> SUFFICES ASSUME IInv, [SNext]_svars PROVE Promise!Next \/ UNCHANGED Promise!vars
  OBVIOUS
<1>1. CASE UNCHANGED svars
  BY <1>1, Stutter DEF svars, stashVars
<1>2. CASE Tick \/ Evict
  BY <1>2, ClockMaps DEF Promise!Next
<1>3. ASSUME NEW r \in Reqs, NEW u \in Users,
             StartLogin(r, u) \/ ProviderAccepts(r, u)
      PROVE  Promise!Next \/ UNCHANGED Promise!vars
  BY <1>3, LoginMaps, ResolveMaps DEF Promise!Next
<1>4. ASSUME NEW r \in Reqs, NEW t \in Bearers, Present(r, t)
      PROVE  Promise!Next \/ UNCHANGED Promise!vars
  BY <1>4, ResolveMaps DEF Promise!Next
<1>5. ASSUME NEW r \in Reqs,
             CredentialsAccepted(r) \/ CredentialsRefused(r) \/ Insert(r)
      PROVE  Promise!Next \/ UNCHANGED Promise!vars
  BY <1>5, LoginMaps
<1>6. ASSUME NEW r \in Reqs,
             \/ Find(r) \/ NotFound(r) \/ CheckExpiry(r) \/ ProviderRefuses(r)
             \/ Finish(r)
      PROVE  Promise!Next \/ UNCHANGED Promise!vars
  BY <1>6, ResolveMaps DEF Promise!Next
<1> QED BY <1>1, <1>2, <1>3, <1>4, <1>5, <1>6 DEF SNext

\* The stash with its copies, its lock and its timer is the promise of
\* BearerTokens: a token is good from its login to its expiry, for its owner
\* only, whatever the timer and the other requests do.
THEOREM StashImplementsPromise == SSpec => ImplementsPromise
<1>1. SInit => Promise!Init
  BY InitMaps
<1>2. IInv /\ [SNext]_svars => [Promise!Next]_(Promise!vars)
  BY StepMaps
<1> QED BY <1>1, <1>2, Invariance, PTL DEF SSpec, ImplementsPromise, Promise!Spec
=============================================================================
