---------------------------- MODULE OpenIdTokens ----------------------------
(***************************************************************************)
(* Bearer tokens that process_stash does not know, in a server that is an  *)
(* OpenID Connect protected resource (core/src/openid.cpp and              *)
(* resolve_client_identity in core/src/common.cpp).                        *)
(*                                                                         *)
(* A token is validated here, with the keys of the provider, or by the     *)
(* provider, which is asked.  The keys are a function-local static: the    *)
(* first request fetches them while the others wait for it, an exception   *)
(* lets the next request try, and they are never fetched again.  The       *)
(* provider publishes other keys when it rotates them.                     *)
(*                                                                         *)
(* A signature is the key it was made with.  One action is what a thread   *)
(* does between two exchanges with the provider.                           *)
(***************************************************************************)
EXTENDS Integers, Sequences

CONSTANTS
  Requests,    \* Requests with a bearer token; each has a thread.
  Nobody,      \* No request: the static is not being initialised.
  NoToken,     \* The token of a request that has not come.
  Secret,      \* The key that access_token_secret holds.
  Tokens,      \* The tokens that clients present.
  KeySets      \* KeySets[v]: the JWKs published after v - 1 rotations.

\* The kind of key that an algorithm works with.
Kty == [RS256 |-> "RSA", PS256 |-> "RSA", ES256 |-> "EC", HS256 |-> "oct",
        none |-> "no"]

\* What a verification finds wrong besides the signature: nothing, a header
\* that is not supported (typ, enc, cty, crit), an audience that is another or
\* missing, another issuer, a time that is past or still to come.
Flaws == {"no", "header", "audience", "issuer", "expired", "early"}

ASSUME OpenIdAssumption ==
  /\ Nobody \notin Requests
  /\ KeySets \in Seq(Seq([kid : STRING, key : STRING, kty : STRING,
                          alg : STRING, verifies : BOOLEAN]))
  /\ KeySets # <<>>
  /\ \A v \in DOMAIN KeySets : \A i \in DOMAIN KeySets[v] : KeySets[v][i].kty # Kty.none
  /\ \A t \in Tokens :
       /\ t.jwt \in BOOLEAN /\ t.signer \in STRING /\ t.kid \in STRING
       /\ t.alg \in DOMAIN Kty /\ t.flaw \in Flaws

\* The stanza of the configuration: how tokens are validated, and what matters
\* for it -- access_token_secret is there; the provider has an endpoint for it,
\* and aud is required in its answers.
Configs ==
  [method : {"local_validation"}, secret : BOOLEAN]
  \cup [method : {"introspection"}, endpoint : BOOLEAN, strict : BOOLEAN]

Members == {"nbf", "aud", "iss"}

VARIABLES
  config,     \* oidc_configuration
  published,  \* The number of the JWKs that the provider publishes now.
  jwks,       \* The static of validate_using_local_validation; 0: none yet.
  fetcher,    \* The request that initialises it.
  step,       \* step[r]: where request r is, or how it ended.
  token,      \* token[r]: its token.
  said        \* said[r]: the members the provider's answer about it had.

ovars == <<config, published, jwks, fetcher, step, token, said>>

OInit ==
  /\ config \in Configs
  /\ published = 1
  /\ jwks = 0
  /\ fetcher = Nobody
  /\ step = [r \in Requests |-> "off"]
  /\ token = [r \in Requests |-> NoToken]
  /\ said = [r \in Requests |-> {}]

ToStep(r, next) == step' = [step EXCEPT ![r] = next]

\* The provider publishes other keys; only local validation looks at them.
Rotate ==
  /\ config.method = "local_validation"
  /\ published < Len(KeySets)
  /\ published' = published + 1
  /\ UNCHANGED <<config, jwks, fetcher, step, token, said>>

\* A request comes, process_stash does not know its token, and the configured
\* method says what becomes of it.  What is no JWT does not decode.
Arrive(r) ==
  /\ step[r] = "off"
  /\ \E t \in Tokens :
       /\ token' = [token EXCEPT ![r] = t]
       /\ ToStep(r, IF config.method = "local_validation"
                    THEN IF t.jwt THEN "keys" ELSE "refused"
                    ELSE IF config.endpoint THEN "ask" ELSE "refused")
  /\ UNCHANGED <<config, published, jwks, fetcher, said>>

-----------------------------------------------------------------------------
(* validate_using_local_validation *)

\* Faulty variant: a static that the compiler does not guard.
NoValue == jwks = 0

\* The static has no value: one thread initialises it.
MayInitialise == jwks = 0 /\ fetcher = Nobody

StartFetch(r) ==
  /\ step[r] = "keys"
  /\ MayInitialise
  /\ fetcher' = r
  /\ ToStep(r, "fetch")
  /\ UNCHANGED <<config, published, jwks, token, said>>

\* fetch_jwks_from_openid_provider and parse_jwks succeed.
Fetched(r) ==
  /\ step[r] = "fetch"
  /\ jwks' = published
  /\ fetcher' = Nobody
  /\ ToStep(r, "keys")
  /\ UNCHANGED <<config, published, token, said>>

\* Faulty variant: the exception leaves the static in initialisation.
KeepInitialising == UNCHANGED fetcher

\* An exception: the static has no value, and another thread may initialise it.
GiveUpInitialising == fetcher' = Nobody

FetchFails(r) ==
  /\ step[r] = "fetch"
  /\ GiveUpInitialising
  /\ ToStep(r, "no keys")
  /\ UNCHANGED <<config, published, jwks, token, said>>

\* The JWK with the token's kid, the first of several, whatever it is for.
NamedBy(t, i, keys) ==
  keys[i].kid = t.kid /\ \A k \in 1 .. i - 1 : keys[k].kid # t.kid

Named(t, keys) == t.kid # "" /\ \E i \in DOMAIN keys : keys[i].kid = t.kid

\* Faulty variant: a JWK without alg is not considered.
FitsByAlg(t, key) == key.verifies /\ key.alg = t.alg

\* The JWKs that the token may be verified with as far as their claims say.
Fits(t, key) ==
  /\ key.verifies
  /\ IF key.alg # "" THEN key.alg = t.alg ELSE key.kty = Kty[t.alg]

\* allow_algorithm keeps one key for an algorithm: the last one.
LastFitting(t, i, keys) ==
  Fits(t, keys[i]) /\ \A k \in DOMAIN keys : Fits(t, keys[k]) => k <= i

\* add_asymmetric_algorithm_from_jwk: a JWK that is no key of the algorithm's
\* kind lacks the claims of one (an exception), or nothing is allowed.
Signed(t, key) == key.key = t.signer /\ key.kty = Kty[t.alg] /\ key.kty # "oct"

\* add_algorithms_to_verifier, and the verification of the signature.  Of all
\* the JWKs that fit, one that lacks the claims of a key refuses the token.
Signature(t, keys) ==
  IF Named(t, keys)
  THEN \E i \in DOMAIN keys : NamedBy(t, i, keys) /\ Signed(t, keys[i])
  ELSE IF Kty[t.alg] = "oct" THEN config.secret /\ t.signer = Secret
  ELSE /\ \A i \in DOMAIN keys : Fits(t, keys[i]) => keys[i].kty = Kty[t.alg]
       /\ \E i \in DOMAIN keys : LastFitting(t, i, keys) /\ Signed(t, keys[i])

Verify(r) ==
  /\ step[r] = "keys"
  /\ jwks # 0
  /\ IF token[r].flaw = "no" /\ token[r].alg # "none" /\ Signature(token[r], KeySets[jwks])
     THEN ToStep(r, "map") ELSE ToStep(r, "refused")
  /\ UNCHANGED <<config, published, jwks, fetcher, token, said>>

-----------------------------------------------------------------------------
(* validate_using_introspection_endpoint *)

\* What a member of the answer shows.
FlawOf == [nbf |-> "early", aud |-> "audience", iss |-> "issuer"]

Telling(t) == {"aud"} \cup {m \in Members : FlawOf[m] = t.flaw}

\* Faulty variant: only what is there is looked at.
NeverRequired(t, members) == \A m \in members : t.flaw # FlawOf[m]

\* The optional members of the answer are right, and aud is there if it has to.
Consistent(t, members) ==
  /\ \A m \in members : t.flaw # FlawOf[m]
  /\ config.strict => "aud" \in members

\* The provider answers, with the members it likes, of which aud matters, and
\* the one that shows the token's flaw; what "active" means is up to it, but an
\* expired token is not.
Ask(r) ==
  /\ step[r] = "ask"
  /\ \E active \in {FALSE, token[r].flaw # "expired"}, members \in SUBSET Telling(token[r]) :
       /\ said' = [said EXCEPT ![r] = members]
       /\ ToStep(r, IF active /\ Consistent(token[r], members) THEN "map" ELSE
                    IF active THEN "refused" ELSE "inactive")
  /\ UNCHANGED <<config, published, jwks, fetcher, token>>

\* No connection, no JSON, a member of another type: nothing catches the
\* exception before the session does, which answers internal_server_error.
AskFails(r) ==
  /\ step[r] = "ask"
  /\ ToStep(r, "error")
  /\ UNCHANGED <<config, published, jwks, fetcher, token, said>>

-----------------------------------------------------------------------------

\* The provider falls silent in an exchange that was begun.  The calls of
\* transport.cpp block and have no time limit: this is for ever.
FallSilent(r) ==
  /\ step[r] \in {"fetch", "ask"}
  /\ ToStep(r, "silent")
  /\ UNCHANGED <<config, published, jwks, fetcher, token, said>>

\* map_json_to_user: the plugin knows a user for the claims, or does not.
MapUser(r) ==
  /\ step[r] = "map"
  /\ ToStep(r, "accepted") \/ ToStep(r, "no user")
  /\ UNCHANGED <<config, published, jwks, fetcher, token, said>>

OStep(r) ==
  \/ StartFetch(r) \/ Fetched(r) \/ FetchFails(r) \/ Verify(r)
  \/ Ask(r) \/ AskFails(r) \/ FallSilent(r) \/ MapUser(r)

ONext == Rotate \/ \E r \in Requests : Arrive(r) \/ OStep(r)

OSpec == OInit /\ [][ONext]_ovars

\* The threads run, and an exchange with the provider ends or is silent.
OFairSpec == OSpec /\ \A r \in Requests : WF_ovars(OStep(r))

-----------------------------------------------------------------------------
(* What the code promises *)

Ended == {"accepted", "no user", "refused", "inactive", "no keys", "error"}

\* The type of every variable; the static is initialised by the request that
\* fetches, and by one request at a time.
OTypeOK ==
  /\ config \in Configs
  /\ published \in DOMAIN KeySets
  /\ jwks \in 0 .. published
  /\ fetcher \in Requests \cup {Nobody}
  /\ step \in [Requests -> Ended \cup {"off", "keys", "fetch", "ask", "silent", "map"}]
  /\ token \in [Requests -> Tokens \cup {NoToken}]
  /\ \A r \in Requests : step[r] # "off" => token[r] \in Tokens
  /\ said \in [Requests -> SUBSET Members]
  /\ \A r \in Requests : step[r] = "fetch" => fetcher = r
  /\ fetcher # Nobody => jwks = 0

\* The key is one of the JWKs that were fetched, or the configured secret.
KeyFetched(t) ==
  IF Kty[t.alg] = "oct" THEN config.secret /\ t.signer = Secret
  ELSE jwks # 0 /\ \E i \in DOMAIN KeySets[jwks] :
                     /\ KeySets[jwks][i].key = t.signer
                     /\ KeySets[jwks][i].kty = Kty[t.alg]

\* A client is taken for a user only by a token that somebody vouches for:
\* without a flaw and signed by a key of the provider's that the server has,
\* or active, and with no flaw that the provider's answer shows.
Vouched(r) ==
  IF config.method = "local_validation"
  THEN token[r].flaw = "no" /\ KeyFetched(token[r])
  ELSE /\ token[r].flaw # "expired"
       /\ token[r].flaw \notin {FlawOf[m] : m \in said[r]}
       /\ config.strict => token[r].flaw # "audience"

AcceptedIsVouched == \A r \in Requests : step[r] = "accepted" => Vouched(r)

\* Among the JWKs of version v there is one that the token's header leads to,
\* and only that one: by its kid, or, without kid, as a key for its algorithm.
OneKey(t, v) ==
  \E i \in DOMAIN KeySets[v] :
    /\ Signed(t, KeySets[v][i])
    /\ \A k \in DOMAIN KeySets[v] \ {i} :
         /\ t.kid # "" => KeySets[v][k].kid # t.kid
         /\ t.kid = "" => \/ ~KeySets[v][k].verifies
                          \/ KeySets[v][k].kty # Kty[t.alg] /\ KeySets[v][k].alg # t.alg
    /\ IF t.kid # "" THEN KeySets[v][i].kid = t.kid
       ELSE KeySets[v][i].verifies /\ KeySets[v][i].alg \in {"", t.alg}

\* No good token is refused for nothing.  Where tokens are validated here, one
\* without flaw that leads to the key it was signed with is refused only by a
\* server that has other keys than the provider publishes with that one --
\* which, as the keys are fetched once, lasts for the life of the process.  A
\* token without kid can do with one key of its algorithm's kind only.
RefusedForAReason ==
  \A r \in Requests :
    /\ step[r] = "refused" /\ token[r].flaw = "no" /\ token[r].jwt
    /\ config.method = "local_validation"
    => jwks # 0 /\ ~OneKey(token[r], jwks)

\* Every request with an unknown token is answered, unless the provider falls
\* silent: to the request itself, or to the one which fetches the keys and for
\* which all others wait.  After a fetch that fails, whoever waits fetches the
\* keys itself.
EveryTokenAnswered ==
  \A r \in Requests :
    step[r] # "off" ~>
      step[r] \in Ended \/ \E q \in {r, fetcher} \cap Requests : step[q] = "silent"
=============================================================================
