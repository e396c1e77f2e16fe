-------------------------- MODULE MCAuthentication --------------------------
(***************************************************************************)
(* Model-checking of the ways from a bearer token to a user.  They share   *)
(* no state, and a behaviour is of one part:                               *)
(*                                                                         *)
(*   stash     ProcessStash: two requests, two users, the tokens of two    *)
(*             logins, and one access token of a provider.                 *)
(*   mappings  LocalFileMapping: three threads and three edits.             *)
(*   tokens    OpenIdTokens: two requests, and a provider that rotates its *)
(*             keys twice.                                                 *)
(***************************************************************************)
EXTENDS ProcessStash, LocalFileMapping, OpenIdTokens

\* A JWK of a name and a key, for an algorithm if it says so.
Jwk(kid, kty, alg) ==
  [kid |-> kid, key |-> "key " \o kid, kty |-> kty, alg |-> alg, verifies |-> TRUE]

\* Two RSA keys and one for encryption; one is replaced, and two more added, of
\* which one is for an algorithm that its kind does not fit.
JwkSets ==
  LET r1 == Jwk("r1", "RSA", "")
      r2 == Jwk("r2", "RSA", "RS256")
      e1 == Jwk("e1", "EC", "")
      enc == [Jwk("enc", "RSA", "") EXCEPT !.verifies = FALSE]
      odd == Jwk("odd", "EC", "RS256")
  IN << <<r1, enc, e1>>, <<r2, enc, r1>>, <<odd, r2, Jwk("r3", "RSA", "")>> >>

\* A token that the provider signs with the key of that name.
Token(name, kid, alg) ==
  [jwt |-> TRUE, signer |-> "key " \o name, kid |-> kid, alg |-> alg, flaw |-> "no"]

Presented ==
  { Token("r1", "r1", "RS256"), Token("r1", "", "PS256"), Token("r2", "r2", "RS256"),
    Token("r2", "", "RS256"), Token("e1", "", "ES256"), Token("x", "r1", "RS256"),
    Token("x", "", "ES256"), Token("secret", "", "HS256"), Token("x", "", "none"),
    [Token("x", "", "RS256") EXCEPT !.jwt = FALSE] }
  \cup { [Token("r1", "r1", "RS256") EXCEPT !.flaw = f] : f \in Flaws }

VARIABLE part   \* Which of the three the behaviour is of.

MCInit ==
  /\ SInit /\ Init /\ OInit
  /\ part \in {"stash", "mappings", "tokens"}
  /\ part # "mappings" => valid = {1}
  /\ part # "tokens" => config = CHOOSE c \in Configs : TRUE

MCNext ==
  /\ UNCHANGED part
  /\ \/ part = "stash" /\ SNext /\ UNCHANGED <<vars, ovars>>
     \/ part = "mappings" /\ Next /\ UNCHANGED <<svars, ovars>>
     \/ part = "tokens" /\ ONext /\ UNCHANGED <<svars, vars>>

mcvars == <<part, svars, vars, ovars>>

StashEvicts == part = "stash" /\ Evict /\ UNCHANGED <<part, vars, ovars>>

Maps(t) == part = "mappings" /\ Step(t) /\ UNCHANGED <<part, svars, ovars>>

Validates(r) == part = "tokens" /\ OStep(r) /\ UNCHANGED <<part, svars, vars>>

\* The fairness of each is that of SFairSpec, FairSpec and OFairSpec.
MCSpec ==
  /\ MCInit /\ [][MCNext]_mcvars
  /\ WF_mcvars(StashEvicts)
  /\ \A t \in All : WF_mcvars(Maps(t))
  /\ \A r \in Requests : WF_mcvars(Validates(r))

\* The type of every variable of the three.
TypesOK == STypeOK /\ TypeOK /\ OTypeOK
=============================================================================
