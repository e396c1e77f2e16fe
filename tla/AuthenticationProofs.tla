------------------------ MODULE AuthenticationProofs ------------------------
(***************************************************************************)
(* Safety of the two ways from a client's claims to a user.                *)
(*                                                                         *)
(* LocalFileMapping, for any number of threads and edits: the lists of the *)
(* plugin are whole files, it serves no empty one, and never goes back.    *)
(* OpenIdTokens, for any number of requests, tokens and rotations of the   *)
(* provider's keys: nobody is accepted without a voucher, and no good      *)
(* token is refused without a reason.                                      *)
(***************************************************************************)
EXTENDS LocalFileMapping, OpenIdTokens, TLAPS

(***************************************************************************)
(* LocalFileMapping                                                        *)
(***************************************************************************)

Updating == {"check", "parse", "swap"}

\* Only one thread is in update; in match it holds update_mutex.
OneUpdates ==
  \A t \in All : pc[t] \in Updating =>
    /\ t \in Threads => mutex = t
    /\ t = Main => list = 0 /\ \A u \in Threads : pc[u] = "off"

\* The main thread is done before the others begin.
MainFirst == pc[Main] \in Updating \cup {"off"}

\* Nothing newer than what an update has parsed is in the list, or in use.
Newest ==
  /\ \A t \in All : pc[t] = "swap" => temp[t] # 0 /\ list <= temp[t]
  /\ \A t \in All : used[t] <= list

\* A time is remembered only with a list; before there is one no file's time
\* is taken for that of the list.
TimeIsOfAList == last # 0 => list # 0

\* The inductive invariant.
IInv ==
  /\ TypeOK
  /\ OneUpdates
  /\ MainFirst
  /\ Newest
  /\ TimeIsOfAList
  /\ ServesMappings

-----------------------------------------------------------------------------

\* The lists are numbers of edits.
LEMMA ListsAreEdits ==
  ASSUME TypeOK
  PROVE  /\ edit \in Int /\ list \in Int /\ list <= edit
         /\ \A t \in All : temp[t] \in Int /\ temp[t] <= edit
         /\ \A t \in All : used[t] \in Int /\ used[t] <= edit
<1>1. edit \in Nat /\ 1 <= edit
  BY ConstantsAssumption DEF TypeOK
<1>2. \A e \in valid \cup {0} : e \in Int /\ e <= edit
  BY <1>1 DEF TypeOK
<1>3. \A t \in All : temp[t] \in valid \cup {0} /\ used[t] \in valid \cup {0}
  BY DEF TypeOK
<1>4. list \in valid \cup {0}
  BY DEF TypeOK
<1> QED
  BY <1>1, <1>2, <1>3, <1>4

LEMMA InitOK == Init => IInv
<1> SUFFICES ASSUME Init PROVE IInv
  OBVIOUS
<1> USE ConstantsAssumption DEF Init, All
<1>1. TypeOK
  <2>1. valid \in SUBSET (1 .. edit)
    OBVIOUS
  <2>2. edit \in 1 .. MaxEdits
    OBVIOUS
  <2>3. last \in 0 .. edit /\ list \in valid \cup {0}
    OBVIOUS
  <2>5. absent \in SUBSET ((1 .. edit) \ valid)
    OBVIOUS
  <2>4. pc \in [All -> {"off", "idle", "check", "parse", "swap", "lookup"}]
    OBVIOUS
  <2> QED
    BY <2>1, <2>2, <2>3, <2>4, <2>5 DEF TypeOK
<1>2. OneUpdates /\ MainFirst
  BY DEF OneUpdates, MainFirst, Updating
<1>3. Newest /\ TimeIsOfAList
  <2>1. \A t \in All : pc[t] # "swap"
    OBVIOUS
  <2>2. \A t \in All : used[t] = 0
    OBVIOUS
  <2>3. list = 0 /\ last = 0
    OBVIOUS
  <2> HIDE DEF Init
  <2> QED
    BY <2>1, <2>2, <2>3 DEF Newest, TimeIsOfAList
<1>4. ServesMappings
  BY DEF ServesMappings
<1> QED
  BY <1>1, <1>2, <1>3, <1>4 DEF IInv

\* Somebody edits the file.
LEMMA EditOK ==
  ASSUME IInv, Edit
  PROVE  IInv'
<1> USE ConstantsAssumption DEF All, Edit
<1>1. TypeOK /\ OneUpdates /\ MainFirst /\ Newest /\ TimeIsOfAList
      /\ ServesMappings
  BY DEF IInv
<1>a. /\ edit \in Int /\ list \in Int /\ list <= edit
      /\ \A u \in All : temp[u] \in Int /\ temp[u] <= edit
      /\ \A u \in All : used[u] \in Int /\ used[u] <= edit
  BY <1>1, ListsAreEdits
<1>2. TypeOK'
  <2>0. \A e \in valid : e \in 1 .. edit
    BY <1>1 DEF TypeOK
  <2>1. valid' \in SUBSET (1 .. edit') /\ valid \subseteq valid'
    <3>1. \A e \in valid' : e \in valid \/ e = edit'
      OBVIOUS
    <3>2. 1 <= edit' /\ edit <= edit' /\ edit' \in Int
      BY <1>1, <1>a DEF TypeOK
    <3>3. \A e \in valid' : e \in 1 .. edit'
      BY <1>a, <2>0, <3>1, <3>2
    <3> QED
      BY <3>3
  <2>2. edit' \in 1 .. MaxEdits /\ last' \in 0 .. edit'
    BY <1>1, <1>a DEF TypeOK
  <2>3. list' \in valid' \cup {0}
    BY <1>1, <2>1 DEF TypeOK
  <2>4. \A u \in All : temp[u] \in valid' \cup {0} /\ used[u] \in valid' \cup {0}
    BY <1>1, <2>1 DEF TypeOK
  <2>5. /\ temp' \in [All -> valid' \cup {0}]
        /\ used' \in [All -> valid' \cup {0}]
    BY <1>1, <2>4 DEF TypeOK
  <2>6. absent' \in SUBSET ((1 .. edit') \ valid')
    <3>1. absent \subseteq 1 .. edit /\ valid \subseteq 1 .. edit /\ absent \cap valid = {}
      BY <1>1 DEF TypeOK
    <3>2. edit + 1 \notin 1 .. edit /\ edit' = edit + 1
      BY <1>a
    <3>3. \A e \in absent' : e \in 1 .. edit' /\ e \notin valid'
      <4>1. \A e \in 1 .. edit : e \in 1 .. edit'
        BY <1>a
      <4>2. edit + 1 \in 1 .. edit'
        BY <1>1, <1>a DEF TypeOK
      <4> QED
        BY <3>1, <3>2, <4>1, <4>2
    <3> QED
      BY <3>3
  <2> QED
    BY <1>1, <2>1, <2>2, <2>3, <2>5, <2>6 DEF TypeOK
<1>3. OneUpdates'
  BY <1>1 DEF TypeOK, OneUpdates, MainFirst, Updating
<1>4. MainFirst'
  BY <1>1 DEF TypeOK, MainFirst, Updating
<1>5. Newest'
  BY <1>1, <1>a DEF TypeOK, OneUpdates, Newest, Updating
<1>6. TimeIsOfAList'
  BY <1>1 DEF TypeOK, Newest, TimeIsOfAList
<1>7. ServesMappings'
  BY <1>1 DEF TypeOK, Newest, TimeIsOfAList, ServesMappings
<1> QED
  BY <1>2, <1>3, <1>4, <1>5, <1>6, <1>7 DEF IInv

\* A thread looks at the time of the file.
LEMMA CheckTimeOK ==
  ASSUME IInv, NEW t \in All, CheckTime(t)
  PROVE  IInv'
<1> USE ConstantsAssumption DEF All, CheckTime, NoTime, Leave, Start, Goto
<1>1. TypeOK /\ OneUpdates /\ MainFirst /\ Newest /\ TimeIsOfAList
      /\ ServesMappings
  BY DEF IInv
<1>a. /\ edit \in Int /\ list \in Int /\ list <= edit
      /\ \A u \in All : temp[u] \in Int /\ temp[u] <= edit
      /\ \A u \in All : used[u] \in Int /\ used[u] <= edit
  BY <1>1, ListsAreEdits
<1>2. TypeOK'
  BY <1>1 DEF TypeOK
<1>3. OneUpdates'
  BY <1>1 DEF TypeOK, OneUpdates, MainFirst, Updating
<1>4. MainFirst'
  BY <1>1 DEF TypeOK, MainFirst, Updating
<1>5. Newest'
  BY <1>1, <1>a DEF TypeOK, OneUpdates, Newest, Updating
<1>6. TimeIsOfAList'
  BY <1>1 DEF TypeOK, Newest, TimeIsOfAList
<1>7. ServesMappings'
  BY <1>1 DEF TypeOK, Newest, TimeIsOfAList, ServesMappings
<1> QED
  BY <1>2, <1>3, <1>4, <1>5, <1>6, <1>7 DEF IInv

\* A thread reads the file.
LEMMA ParseOK ==
  ASSUME IInv, NEW t \in All, Parse(t)
  PROVE  IInv'
<1> USE ConstantsAssumption DEF All, Parse, Parses, Leave, Start, Goto
<1>1. TypeOK /\ OneUpdates /\ MainFirst /\ Newest /\ TimeIsOfAList
      /\ ServesMappings
  BY DEF IInv
<1>a. /\ edit \in Int /\ list \in Int /\ list <= edit
      /\ \A u \in All : temp[u] \in Int /\ temp[u] <= edit
      /\ \A u \in All : used[u] \in Int /\ used[u] <= edit
  BY <1>1, ListsAreEdits
<1>2. TypeOK'
  BY <1>1 DEF TypeOK
<1>3. OneUpdates'
  BY <1>1 DEF TypeOK, OneUpdates, MainFirst, Updating
<1>4. MainFirst'
  BY <1>1 DEF TypeOK, MainFirst, Updating
<1>5. Newest'
  BY <1>1, <1>a DEF TypeOK, OneUpdates, Newest, Updating
<1>6. TimeIsOfAList'
  BY <1>1 DEF TypeOK, Newest, TimeIsOfAList
<1>7. ServesMappings'
  BY <1>1 DEF TypeOK, Newest, TimeIsOfAList, ServesMappings
<1> QED
  BY <1>2, <1>3, <1>4, <1>5, <1>6, <1>7 DEF IInv

\* A thread replaces the list.
LEMMA SwapOK ==
  ASSUME IInv, NEW t \in All, Swap(t)
  PROVE  IInv'
<1> USE ConstantsAssumption DEF All, Swap, NoTime, Leave, Start, Goto
<1>1. TypeOK /\ OneUpdates /\ MainFirst /\ Newest /\ TimeIsOfAList
      /\ ServesMappings
  BY DEF IInv
<1>a. /\ edit \in Int /\ list \in Int /\ list <= edit
      /\ \A u \in All : temp[u] \in Int /\ temp[u] <= edit
      /\ \A u \in All : used[u] \in Int /\ used[u] <= edit
  BY <1>1, ListsAreEdits
<1>2. TypeOK'
  <2>1. list' \in valid' \cup {0}
    BY <1>1 DEF TypeOK
  <2>2. temp' \in [All -> valid' \cup {0}] /\ used' = used
    BY <1>1 DEF TypeOK
  <2>3. last' \in 0 .. edit' /\ valid' = valid /\ edit' = edit /\ absent' = absent
    BY <1>1, <1>a DEF TypeOK
  <2>4. pc' \in [All -> {"off", "idle", "check", "parse", "swap", "lookup"}]
    BY <1>1 DEF TypeOK
  <2>5. mutex' \in Threads \cup {NoThread}
    BY <1>1 DEF TypeOK
  <2> QED
    BY <1>1, <2>1, <2>2, <2>3, <2>4, <2>5 DEF TypeOK
<1>3. OneUpdates'
  BY <1>1 DEF TypeOK, OneUpdates, MainFirst, Updating
<1>4. MainFirst'
  BY <1>1 DEF TypeOK, MainFirst, Updating
<1>5. Newest'
  BY <1>1, <1>a DEF TypeOK, OneUpdates, Newest, Updating
<1>6. TimeIsOfAList'
  BY <1>1 DEF TypeOK, Newest, TimeIsOfAList
<1>7. ServesMappings'
  BY <1>1 DEF TypeOK, Newest, TimeIsOfAList, ServesMappings
<1> QED
  BY <1>2, <1>3, <1>4, <1>5, <1>6, <1>7 DEF IInv

\* A thread begins a match.
LEMMA MatchOK ==
  ASSUME IInv, NEW t \in All, Match(t)
  PROVE  IInv'
<1> USE ConstantsAssumption DEF All, Match, TryLock, Goto
<1>1. TypeOK /\ OneUpdates /\ MainFirst /\ Newest /\ TimeIsOfAList
      /\ ServesMappings
  BY DEF IInv
<1>a. /\ edit \in Int /\ list \in Int /\ list <= edit
      /\ \A u \in All : temp[u] \in Int /\ temp[u] <= edit
      /\ \A u \in All : used[u] \in Int /\ used[u] <= edit
  BY <1>1, ListsAreEdits
<1>2. TypeOK'
  <2>1. pc' \in [All -> {"off", "idle", "check", "parse", "swap", "lookup"}]
    BY <1>1 DEF TypeOK
  <2>2. mutex' \in Threads \cup {NoThread}
    BY <1>1 DEF TypeOK, MainFirst, Updating
  <2> QED
    BY <1>1, <2>1, <2>2 DEF TypeOK
<1>3. OneUpdates'
  BY <1>1 DEF TypeOK, OneUpdates, MainFirst, Updating
<1>4. MainFirst'
  BY <1>1 DEF TypeOK, MainFirst, Updating
<1>5. Newest'
  BY <1>1, <1>a DEF TypeOK, OneUpdates, Newest, Updating
<1>6. TimeIsOfAList'
  BY <1>1 DEF TypeOK, Newest, TimeIsOfAList
<1>7. ServesMappings'
  BY <1>1 DEF TypeOK, Newest, TimeIsOfAList, ServesMappings
<1> QED
  BY <1>2, <1>3, <1>4, <1>5, <1>6, <1>7 DEF IInv

\* A thread searches the list.
LEMMA LookupOK ==
  ASSUME IInv, NEW t \in All, Lookup(t)
  PROVE  IInv'
<1> USE ConstantsAssumption DEF All, Lookup, Goto
<1>1. TypeOK /\ OneUpdates /\ MainFirst /\ Newest /\ TimeIsOfAList
      /\ ServesMappings
  BY DEF IInv
<1>a. /\ edit \in Int /\ list \in Int /\ list <= edit
      /\ \A u \in All : temp[u] \in Int /\ temp[u] <= edit
      /\ \A u \in All : used[u] \in Int /\ used[u] <= edit
  BY <1>1, ListsAreEdits
<1>2. TypeOK'
  BY <1>1 DEF TypeOK
<1>3. OneUpdates'
  BY <1>1 DEF TypeOK, OneUpdates, MainFirst, Updating
<1>4. MainFirst'
  BY <1>1 DEF TypeOK, MainFirst, Updating
<1>5. Newest'
  BY <1>1, <1>a DEF TypeOK, OneUpdates, Newest, Updating
<1>6. TimeIsOfAList'
  BY <1>1 DEF TypeOK, Newest, TimeIsOfAList
<1>7. ServesMappings'
  BY <1>1 DEF TypeOK, Newest, TimeIsOfAList, ServesMappings
<1> QED
  BY <1>2, <1>3, <1>4, <1>5, <1>6, <1>7 DEF IInv

LEMMA StepOK == IInv /\ [Next]_vars => IInv'
<1> SUFFICES ASSUME IInv, [Next]_vars PROVE IInv'
  OBVIOUS
<1>1. CASE UNCHANGED vars
  BY <1>1 DEF IInv, TypeOK, OneUpdates, MainFirst, Newest, TimeIsOfAList,
              ServesMappings, Updating, vars
<1> QED
  BY <1>1, EditOK, CheckTimeOK, ParseOK, SwapOK, MatchOK, LookupOK
  DEF Next, Step

\* The inductive invariant always holds.
THEOREM Invariance == Spec => []IInv
  BY InitOK, StepOK, PTL DEF Spec

\* Every list of the plugin is the contents of one file that parsed.
THEOREM TypeCorrect == Spec => []TypeOK
<1>1. IInv => TypeOK
  BY DEF IInv
<1> QED
  BY <1>1, Invariance, PTL

\* No request is mapped before a whole file has been read.
THEOREM Serves == Spec => []ServesMappings
<1>1. IInv => ServesMappings
  BY DEF IInv
<1> QED
  BY <1>1, Invariance, PTL

\* The list, and what each thread uses of it, only become newer.
THEOREM ListsNeverGoBack == Spec => NeverBack
<1>1. IInv /\ [Next]_vars =>
        [list' >= list /\ \A t \in Threads : used'[t] >= used[t]]_vars
  <2> SUFFICES ASSUME IInv, [Next]_vars, ~UNCHANGED vars
               PROVE  list' >= list /\ \A t \in Threads : used'[t] >= used[t]
    BY DEF IInv
  <2>1. TypeOK /\ Newest
    BY DEF IInv
  <2>a. /\ list \in Int
        /\ \A u \in All : temp[u] \in Int /\ used[u] \in Int
    BY <2>1, ListsAreEdits
  <2>2. CASE Edit
    BY <2>2, <2>a DEF Edit, All
  <2>3. ASSUME NEW t \in All, CheckTime(t) \/ Parse(t) \/ Match(t)
        PROVE  list' = list /\ used' = used
    BY <2>3 DEF CheckTime, Parse, Match
  <2>4. ASSUME NEW t \in All, Swap(t)
        PROVE  list' >= list /\ used' = used
    BY <2>1, <2>4 DEF Swap, Newest
  <2>5. ASSUME NEW t \in All, Lookup(t)
        PROVE  list' = list /\ \A u \in Threads : used'[u] >= used[u]
    <3>1. used' = [used EXCEPT ![t] = list] /\ list' = list
      BY <2>5 DEF Lookup
    <3>2. used \in [All -> valid \cup {0}] /\ used[t] <= list
      BY <2>1 DEF TypeOK, Newest
    <3> QED
      BY <2>a, <3>1, <3>2 DEF All
  <2> QED
    BY <2>2, <2>3, <2>4, <2>5, <2>a DEF Next, Step, All
<1> QED
  BY <1>1, Invariance, PTL DEF Spec, NeverBack

(***************************************************************************)
(* OpenIdTokens                                                            *)
(***************************************************************************)

\* Who is past the validation is vouched for already.
ValidatedIsVouched ==
  \A r \in Requests : step[r] \in {"map", "accepted"} => Vouched(r)

\* A request waits where the configured method has it wait.
PlaceOfMethod ==
  \A r \in Requests :
    /\ step[r] \in {"keys", "fetch"} => config.method = "local_validation" /\ token[r].jwt
    /\ step[r] = "ask" => config.method = "introspection"

\* The inductive invariant.
OIInv ==
  /\ OTypeOK
  /\ ValidatedIsVouched
  /\ PlaceOfMethod
  /\ RefusedForAReason

-----------------------------------------------------------------------------

\* No version of the keys has the number of none.
LEMMA VersionsAreNotZero == \A v \in DOMAIN KeySets : v # 0
<1>1. ASSUME NEW S, KeySets \in Seq(S), NEW v \in DOMAIN KeySets PROVE v # 0
  BY <1>1
<1> QED
  BY <1>1, OpenIdAssumption

\* The versions of the keys are numbers, and so is what precedes the first.
LEMMA VersionsAreNumbers ==
  \A v \in DOMAIN KeySets : 0 \in 0 .. v /\ v \in 0 .. v
<1>1. ASSUME NEW S, KeySets \in Seq(S), NEW v \in DOMAIN KeySets PROVE v \in Nat
  <2>1. DOMAIN KeySets = 1 .. Len(KeySets) /\ Len(KeySets) \in Nat
    BY <1>1
  <2> QED
    BY <2>1
<1>2. \A v \in Nat : 0 \in 0 .. v /\ v \in 0 .. v
  OBVIOUS
<1>3. \A v \in DOMAIN KeySets : v \in Nat
  BY <1>1, OpenIdAssumption
<1> QED
  BY <1>2, <1>3

\* A signature that is verified is that of a key the server has.
LEMMA SignatureOfAKey ==
  ASSUME NEW t, jwks # 0, Signature(t, KeySets[jwks])
  PROVE  KeyFetched(t)
<1>1. CASE Named(t, KeySets[jwks])
  <2>1. PICK i \in DOMAIN KeySets[jwks] : Signed(t, KeySets[jwks][i])
    BY <1>1 DEF Signature
  <2> QED
    BY <2>1 DEF Signed, KeyFetched
<1>2. CASE ~Named(t, KeySets[jwks]) /\ Kty[t.alg] = "oct"
  BY <1>2 DEF Signature, KeyFetched
<1>3. CASE ~Named(t, KeySets[jwks]) /\ Kty[t.alg] # "oct"
  <2>1. PICK i \in DOMAIN KeySets[jwks] : Signed(t, KeySets[jwks][i])
    BY <1>3 DEF Signature
  <2> QED
    BY <2>1, <1>3 DEF Signed, KeyFetched
<1> QED
  BY <1>1, <1>2, <1>3

\* A token that leads to one key, with which it was signed, is verified with
\* it, and is not one of the algorithm none.
LEMMA OneKeyVerifies ==
  ASSUME NEW t \in Tokens, NEW v \in DOMAIN KeySets, OneKey(t, v)
  PROVE  Signature(t, KeySets[v]) /\ t.alg # "none"
<1> DEFINE keys == KeySets[v]
<1>1. PICK i \in DOMAIN keys :
        /\ Signed(t, keys[i])
        /\ \A k \in DOMAIN keys \ {i} :
             /\ t.kid # "" => keys[k].kid # t.kid
             /\ t.kid = "" => \/ ~keys[k].verifies
                              \/ keys[k].kty # Kty[t.alg] /\ keys[k].alg # t.alg
        /\ IF t.kid # "" THEN keys[i].kid = t.kid
           ELSE keys[i].verifies /\ keys[i].alg \in {"", t.alg}
  BY DEF OneKey
<1>2. DOMAIN keys = 1 .. Len(keys) /\ Len(keys) \in Nat
  BY OpenIdAssumption
<1>3. t.alg # "none"
  <2>1. keys[i].kty = Kty[t.alg] /\ keys[i].kty # Kty.none
    BY <1>1, OpenIdAssumption DEF Signed
  <2> QED
    BY <2>1 DEF Kty
<1>4. CASE t.kid # ""
  <2>1. Named(t, keys)
    BY <1>1, <1>4 DEF Named
  <2>2. NamedBy(t, i, keys)
    <3>1. \A k \in 1 .. i - 1 : k \in DOMAIN keys \ {i}
      BY <1>2
    <3> QED
      BY <3>1, <1>1, <1>4 DEF NamedBy
  <2> QED
    BY <2>1, <2>2, <1>1, <1>3 DEF Signature
<1>5. CASE t.kid = ""
  <2>1. ~Named(t, keys)
    BY <1>5 DEF Named
  <2>2. Fits(t, keys[i])
    BY <1>1, <1>5 DEF Fits, Signed
  <2>3. \A k \in DOMAIN keys \ {i} : ~Fits(t, keys[k])
    BY <1>1, <1>5 DEF Fits
  <2>4. LastFitting(t, i, keys)
    BY <2>2, <2>3, <1>2 DEF LastFitting
  <2>5. Kty[t.alg] # "oct"
    BY <1>1 DEF Signed
  <2>6. \A k \in DOMAIN keys : Fits(t, keys[k]) => keys[k].kty = Kty[t.alg]
    BY <2>3, <1>1 DEF Signed
  <2> QED
    BY <2>1, <2>4, <2>5, <2>6, <1>1, <1>3 DEF Signature
<1> QED
  BY <1>4, <1>5

LEMMA OInitOK == OInit => OIInv
<1> SUFFICES ASSUME OInit PROVE OIInv
  OBVIOUS
<1> USE OpenIdAssumption DEF OInit
<1>1. OTypeOK
  <2>1. published \in DOMAIN KeySets
    OBVIOUS
  <2>2. \A r \in Requests : step[r] = "off"
    OBVIOUS
  <2> QED
    BY <2>1, <2>2 DEF OTypeOK
<1> QED
  BY <1>1 DEF OIInv, ValidatedIsVouched, PlaceOfMethod, RefusedForAReason

-----------------------------------------------------------------------------
(* One lemma per action *)

LEMMA RotateOK == OIInv /\ Rotate => OIInv'
<1> SUFFICES ASSUME OIInv, Rotate PROVE OIInv'
  OBVIOUS
<1> USE DEF Rotate
<1>1. OTypeOK'
  <2>1. published' \in DOMAIN KeySets /\ jwks' \in 0 .. published'
    BY OpenIdAssumption DEF OIInv, OTypeOK
  <2> QED
    BY <2>1 DEF OIInv, OTypeOK
<1>2. ValidatedIsVouched'
  BY DEF OIInv, ValidatedIsVouched, Vouched, KeyFetched
<1>3. PlaceOfMethod' /\ RefusedForAReason'
  BY DEF OIInv, PlaceOfMethod, RefusedForAReason
<1> QED
  BY <1>1, <1>2, <1>3 DEF OIInv

LEMMA ArriveOK == \A r \in Requests : OIInv /\ Arrive(r) => OIInv'
<1> SUFFICES ASSUME NEW r \in Requests, OIInv, Arrive(r) PROVE OIInv'
  OBVIOUS
<1>1. PICK t \in Tokens :
        /\ token' = [token EXCEPT ![r] = t]
        /\ step' = [step EXCEPT ![r] =
             IF config.method = "local_validation"
             THEN IF t.jwt THEN "keys" ELSE "refused"
             ELSE IF config.endpoint THEN "ask" ELSE "refused"]
  BY DEF Arrive, ToStep
<1>2. step[r] = "off" /\ UNCHANGED <<config, published, jwks, fetcher, said>>
  BY DEF Arrive
<1>3. \A q \in Requests \ {r} : step'[q] = step[q] /\ token'[q] = token[q]
  BY <1>1 DEF OIInv, OTypeOK
<1>4. token'[r] = t /\ step'[r] \in {"keys", "ask", "refused"}
  BY <1>1 DEF OIInv, OTypeOK
<1>5. OTypeOK'
  <2>1. step' \in [Requests -> Ended \cup {"off", "keys", "fetch", "ask", "silent", "map"}]
    BY <1>1 DEF OIInv, OTypeOK, Ended
  <2>2. token' \in [Requests -> Tokens \cup {NoToken}]
    BY <1>1 DEF OIInv, OTypeOK
  <2>3. \A q \in Requests : step'[q] # "off" => token'[q] \in Tokens
    BY <1>3, <1>4 DEF OIInv, OTypeOK
  <2>4. \A q \in Requests : step'[q] = "fetch" => fetcher' = q
    BY <1>2, <1>3, <1>4 DEF OIInv, OTypeOK
  <2> QED
    BY <1>2, <2>1, <2>2, <2>3, <2>4 DEF OIInv, OTypeOK
<1>6. ValidatedIsVouched'
  BY <1>2, <1>3, <1>4 DEF OIInv, ValidatedIsVouched, Vouched, KeyFetched
<1>7. PlaceOfMethod'
  <2>1. step'[r] = "keys" => config.method = "local_validation" /\ t.jwt
    BY <1>1 DEF OIInv, OTypeOK
  <2>2. step'[r] = "ask" => config.method = "introspection"
    BY <1>1 DEF OIInv, OTypeOK, Configs
  <2> QED
    BY <2>1, <2>2, <1>2, <1>3, <1>4 DEF OIInv, PlaceOfMethod
<1>8. RefusedForAReason'
  <2>1. step'[r] = "refused" => config.method # "local_validation" \/ ~t.jwt
    BY <1>1 DEF OIInv, OTypeOK
  <2> QED
    BY <2>1, <1>2, <1>3, <1>4 DEF OIInv, RefusedForAReason
<1> QED
  BY <1>5, <1>6, <1>7, <1>8 DEF OIInv

\* A request that leaves the validation, by a step that changes nothing else,
\* keeps OIInv if what OIInv says of its new place holds.
LEMMA MovedOK ==
  ASSUME OIInv, NEW r \in Requests,
         NEW next \in Ended \cup {"map"},
         step' = [step EXCEPT ![r] = next],
         UNCHANGED <<config, published, jwks, fetcher, token, said>>,
         step[r] # "off", step[r] # "fetch",
         next \in {"map", "accepted"} => Vouched(r),
         next = "refused" /\ token[r].flaw = "no" /\ token[r].jwt
           /\ config.method = "local_validation" => jwks # 0 /\ ~OneKey(token[r], jwks)
  PROVE  OIInv'
<1>1. \A q \in Requests \ {r} : step'[q] = step[q]
  BY DEF OIInv, OTypeOK
<1>2. step'[r] = next
  BY DEF OIInv, OTypeOK
<1>3. \A q \in Requests : Vouched(q) => Vouched(q)'
  BY DEF Vouched, KeyFetched
<1>4. OTypeOK'
  <2>1. step' \in [Requests -> Ended \cup {"off", "keys", "fetch", "ask", "silent", "map"}]
    BY DEF OIInv, OTypeOK
  <2>2. \A q \in Requests : step'[q] = "fetch" => fetcher' = q
    BY <1>1, <1>2 DEF OIInv, OTypeOK, Ended
  <2>3. \A q \in Requests : step'[q] # "off" => token'[q] \in Tokens
    BY <1>1, <1>2 DEF OIInv, OTypeOK
  <2> QED
    BY <2>1, <2>2, <2>3 DEF OIInv, OTypeOK
<1>5. ValidatedIsVouched'
  BY <1>1, <1>2, <1>3 DEF OIInv, ValidatedIsVouched
<1>6. PlaceOfMethod'
  BY <1>1, <1>2 DEF OIInv, PlaceOfMethod, Ended
<1>7. RefusedForAReason'
  BY <1>1, <1>2 DEF OIInv, RefusedForAReason
<1> QED
  BY <1>4, <1>5, <1>6, <1>7 DEF OIInv

\* What the fetch of the keys, begun or over, keeps: a server that had no keys
\* has refused nobody for want of one.
LEMMA FetchOK ==
  \A r \in Requests :
    OIInv /\ (StartFetch(r) \/ Fetched(r) \/ FetchFails(r)) => OIInv'
<1> SUFFICES ASSUME NEW r \in Requests, OIInv,
                    StartFetch(r) \/ Fetched(r) \/ FetchFails(r)
             PROVE  OIInv'
  OBVIOUS
<1>1. jwks = 0
  BY OpenIdAssumption
     DEF StartFetch, Fetched, FetchFails, MayInitialise, OIInv, OTypeOK
<1>2. UNCHANGED <<config, published, token, said>> /\ jwks' \in {jwks, published}
  BY DEF StartFetch, Fetched, FetchFails
<1>3. PICK next \in {"fetch", "keys", "no keys"} :
        /\ step' = [step EXCEPT ![r] = next]
        /\ next = "fetch" => fetcher' = r /\ fetcher = Nobody /\ jwks' = jwks
        /\ next # "fetch" => fetcher' = Nobody /\ fetcher = r
        /\ step[r] \in {"keys", "fetch"}
  BY DEF StartFetch, Fetched, FetchFails, ToStep, MayInitialise, GiveUpInitialising,
         OIInv, OTypeOK
<1>4. \A q \in Requests \ {r} : step'[q] = step[q]
  BY <1>3 DEF OIInv, OTypeOK
<1>5. step'[r] = next
  BY <1>3 DEF OIInv, OTypeOK
<1>6. OTypeOK'
  <2>1. step' \in [Requests -> Ended \cup {"off", "keys", "fetch", "ask", "silent", "map"}]
    BY <1>3 DEF OIInv, OTypeOK, Ended
  <2>2. \A q \in Requests : step'[q] = "fetch" => fetcher' = q
    BY <1>3, <1>4, <1>5, OpenIdAssumption DEF OIInv, OTypeOK
  <2>3. \A q \in Requests : step'[q] # "off" => token'[q] \in Tokens
    BY <1>2, <1>3, <1>4, <1>5 DEF OIInv, OTypeOK
  <2>4. published' \in DOMAIN KeySets /\ jwks' \in 0 .. published'
    <3>1. published \in DOMAIN KeySets
      BY DEF OIInv, OTypeOK
    <3>2. published' = published /\ (jwks' = 0 \/ jwks' = published)
      BY <1>1, <1>2
    <3> QED
      BY <3>1, <3>2, VersionsAreNumbers, Zenon
  <2>5. fetcher' \in Requests \cup {Nobody} /\ (fetcher' # Nobody => jwks' = 0)
    BY <1>1, <1>3
  <2> QED
    BY <1>2, <2>1, <2>2, <2>3, <2>4, <2>5 DEF OIInv, OTypeOK
<1>7. ValidatedIsVouched'
  <2>1. \A q \in Requests : Vouched(q) => Vouched(q)'
    BY <1>1, <1>2 DEF Vouched, KeyFetched
  <2> QED
    BY <2>1, <1>4, <1>5 DEF OIInv, ValidatedIsVouched
<1>8. PlaceOfMethod'
  BY <1>2, <1>3, <1>4, <1>5 DEF OIInv, PlaceOfMethod
<1>9. RefusedForAReason'
  BY <1>1, <1>2, <1>4, <1>5 DEF OIInv, RefusedForAReason
<1> QED
  BY <1>6, <1>7, <1>8, <1>9 DEF OIInv

LEMMA VerifyOK == \A r \in Requests : OIInv /\ Verify(r) => OIInv'
<1> SUFFICES ASSUME NEW r \in Requests, OIInv, Verify(r) PROVE OIInv'
  OBVIOUS
<1>1. /\ step[r] = "keys" /\ jwks # 0 /\ token[r] \in Tokens
      /\ config.method = "local_validation"
      /\ UNCHANGED <<config, published, jwks, fetcher, token, said>>
  BY DEF Verify, OIInv, OTypeOK, PlaceOfMethod
<1>2. jwks \in DOMAIN KeySets
  BY <1>1, OpenIdAssumption DEF OIInv, OTypeOK
<1>3. CASE /\ token[r].flaw = "no" /\ token[r].alg # "none"
           /\ Signature(token[r], KeySets[jwks])
  <2>1. Vouched(r)
    BY <1>1, <1>3, SignatureOfAKey DEF Vouched
  <2>2. step' = [step EXCEPT ![r] = "map"]
    BY <1>3 DEF Verify, ToStep
  <2> QED
    BY <1>1, <2>1, <2>2, MovedOK
<1>4. CASE ~(/\ token[r].flaw = "no" /\ token[r].alg # "none"
             /\ Signature(token[r], KeySets[jwks]))
  <2>1. token[r].flaw = "no" => ~OneKey(token[r], jwks)
    BY <1>1, <1>2, <1>4, OneKeyVerifies
  <2>2. step' = [step EXCEPT ![r] = "refused"]
    BY <1>4 DEF Verify, ToStep
  <2> QED
    BY <1>1, <2>1, <2>2, MovedOK DEF Ended
<1> QED
  BY <1>3, <1>4

\* The provider's answer vouches for who passes the tests of it.
LEMMA AskOK == \A r \in Requests : OIInv /\ Ask(r) => OIInv'
<1> SUFFICES ASSUME NEW r \in Requests, OIInv, Ask(r) PROVE OIInv'
  OBVIOUS
<1>1. /\ step[r] = "ask" /\ token[r] \in Tokens
      /\ config.method = "introspection"
      /\ UNCHANGED <<config, published, jwks, fetcher, token>>
  BY DEF Ask, OIInv, OTypeOK, PlaceOfMethod
<1>2. PICK active \in {FALSE, token[r].flaw # "expired"},
           members \in SUBSET Telling(token[r]) :
        /\ said' = [said EXCEPT ![r] = members]
        /\ step' = [step EXCEPT ![r] =
             IF active /\ Consistent(token[r], members) THEN "map" ELSE
             IF active THEN "refused" ELSE "inactive"]
  BY DEF Ask, ToStep
<1>3. said'[r] = members /\ members \subseteq Members
  BY <1>2 DEF OIInv, OTypeOK, Telling, Members
<1>4. \A q \in Requests \ {r} : step'[q] = step[q] /\ said'[q] = said[q]
  BY <1>2 DEF OIInv, OTypeOK
<1>5. /\ step'[r] \in {"map", "refused", "inactive"}
      /\ step'[r] = "map" => active /\ Consistent(token[r], members)
  BY <1>2 DEF OIInv, OTypeOK
<1>6. OTypeOK'
  <2>1. step' \in [Requests -> Ended \cup {"off", "keys", "fetch", "ask", "silent", "map"}]
    BY <1>2 DEF OIInv, OTypeOK, Ended
  <2>2. said' \in [Requests -> SUBSET Members]
    BY <1>2, <1>3 DEF OIInv, OTypeOK
  <2> QED
    BY <1>1, <1>4, <1>5, <2>1, <2>2 DEF OIInv, OTypeOK
<1>7. ValidatedIsVouched'
  <2>1. step'[r] = "map" => Vouched(r)'
    <3> SUFFICES ASSUME step'[r] = "map" PROVE Vouched(r)'
      OBVIOUS
    <3>1. active /\ Consistent(token[r], members)
      BY <1>5
    <3>2. token[r].flaw # "expired"
      BY <3>1, <1>2
    <3>3. \A m \in members : token[r].flaw # FlawOf[m]
      BY <3>1 DEF Consistent
    <3>4. config.strict => token[r].flaw # "audience"
      <4>1. FlawOf["aud"] = "audience"
        BY DEF FlawOf
      <4> QED
        BY <3>1, <4>1 DEF Consistent
    <3> QED
      BY <1>1, <1>3, <3>2, <3>3, <3>4 DEF Vouched
  <2>2. \A q \in Requests \ {r} : Vouched(q) => Vouched(q)'
    BY <1>1, <1>4 DEF Vouched, KeyFetched
  <2> QED
    BY <2>1, <2>2, <1>4, <1>5 DEF OIInv, ValidatedIsVouched
<1>8. PlaceOfMethod'
  BY <1>1, <1>4, <1>5 DEF OIInv, PlaceOfMethod
<1>9. RefusedForAReason'
  BY <1>1, <1>4 DEF OIInv, RefusedForAReason
<1> QED
  BY <1>6, <1>7, <1>8, <1>9 DEF OIInv

\* A failed exchange accepts nobody, and the plugin only who was vouched for.
LEMMA EndOK == \A r \in Requests : OIInv /\ (AskFails(r) \/ MapUser(r)) => OIInv'
<1> SUFFICES ASSUME NEW r \in Requests, OIInv, AskFails(r) \/ MapUser(r) PROVE OIInv'
  OBVIOUS
<1>1. UNCHANGED <<config, published, jwks, fetcher, token, said>>
  BY DEF AskFails, MapUser
<1>2. CASE AskFails(r)
  <2>1. step[r] = "ask" /\ step' = [step EXCEPT ![r] = "error"]
    BY <1>2 DEF AskFails, ToStep
  <2> QED
    BY <1>1, <2>1, MovedOK DEF Ended
<1>3. CASE MapUser(r)
  <2>1. step[r] = "map" /\ Vouched(r)
    BY <1>3 DEF MapUser, OIInv, ValidatedIsVouched
  <2>2. CASE step' = [step EXCEPT ![r] = "accepted"]
    BY <1>1, <2>1, <2>2, MovedOK DEF Ended
  <2>3. CASE step' = [step EXCEPT ![r] = "no user"]
    BY <1>1, <2>1, <2>3, MovedOK DEF Ended
  <2> QED
    BY <1>3, <2>2, <2>3 DEF MapUser, ToStep
<1> QED
  BY <1>2, <1>3

\* A silent provider changes nothing but where the request is.
LEMMA FallSilentOK == \A r \in Requests : OIInv /\ FallSilent(r) => OIInv'
<1> SUFFICES ASSUME NEW r \in Requests, OIInv, FallSilent(r) PROVE OIInv'
  OBVIOUS
<1>1. /\ step[r] \in {"fetch", "ask"} /\ step' = [step EXCEPT ![r] = "silent"]
      /\ UNCHANGED <<config, published, jwks, fetcher, token, said>>
  BY DEF FallSilent, ToStep
<1>2. step'[r] = "silent" /\ \A q \in Requests \ {r} : step'[q] = step[q]
  BY <1>1 DEF OIInv, OTypeOK
<1>3. OTypeOK'
  <2>1. step' \in [Requests -> Ended \cup {"off", "keys", "fetch", "ask", "silent", "map"}]
    BY <1>1 DEF OIInv, OTypeOK, Ended
  <2>2. \A q \in Requests : step'[q] = "fetch" => fetcher' = q
    BY <1>1, <1>2 DEF OIInv, OTypeOK
  <2>3. \A q \in Requests : step'[q] # "off" => token'[q] \in Tokens
    BY <1>1, <1>2 DEF OIInv, OTypeOK
  <2> QED
    BY <1>1, <2>1, <2>2, <2>3 DEF OIInv, OTypeOK
<1>4. ValidatedIsVouched'
  BY <1>1, <1>2 DEF OIInv, ValidatedIsVouched, Vouched, KeyFetched
<1>5. PlaceOfMethod' /\ RefusedForAReason'
  BY <1>1, <1>2 DEF OIInv, PlaceOfMethod, RefusedForAReason
<1> QED
  BY <1>3, <1>4, <1>5 DEF OIInv

LEMMA OStepOK == OIInv /\ [ONext]_ovars => OIInv'
<1> SUFFICES ASSUME OIInv, [ONext]_ovars PROVE OIInv'
  OBVIOUS
<1>1. CASE UNCHANGED ovars
  BY <1>1 DEF ovars, OIInv, OTypeOK, ValidatedIsVouched, Vouched, KeyFetched, PlaceOfMethod,
              RefusedForAReason
<1>2. CASE ONext
  BY <1>2, RotateOK, ArriveOK, FetchOK, VerifyOK, AskOK, FallSilentOK, EndOK DEF ONext, OStep
<1> QED
  BY <1>1, <1>2

-----------------------------------------------------------------------------

\* The inductive invariant is one.
THEOREM OInvariance == OSpec => []OIInv
<1> QED
  BY OInitOK, OStepOK, PTL DEF OSpec

\* Type correctness; the keys are fetched by one request at a time.
THEOREM OTypeCorrect == OSpec => []OTypeOK
<1>1. OIInv => OTypeOK
  BY DEF OIInv
<1> QED
  BY <1>1, OInvariance, PTL

\* Whatever keys the provider has and whenever it replaces them, a client is
\* taken for a user only by a token that a key of the provider's, the secret or
\* the provider vouches for.
THEOREM NobodyWithoutVoucher == OSpec => []AcceptedIsVouched
<1>1. OIInv => AcceptedIsVouched
  BY DEF OIInv, ValidatedIsVouched, AcceptedIsVouched
<1> QED
  BY <1>1, OInvariance, PTL

\* A token without flaw that leads to the key it was signed with is refused only
\* by a server whose keys are not those that lead to it.
THEOREM NoRefusalWithoutReason == OSpec => []RefusedForAReason
<1>1. OIInv => RefusedForAReason
  BY DEF OIInv
<1> QED
  BY <1>1, OInvariance, PTL

-----------------------------------------------------------------------------
(* Every request with a token is answered *)

\* Whoever waits for the keys waits for a request that is fetching them, or to
\* which the provider has fallen silent.
SomebodyFetches == fetcher # Nobody => step[fetcher] \in {"fetch", "silent"}

LEMMA FetcherOK == OIInv /\ SomebodyFetches /\ [ONext]_ovars => SomebodyFetches'
<1> SUFFICES ASSUME OIInv, SomebodyFetches, [ONext]_ovars PROVE SomebodyFetches'
  OBVIOUS
<1>1. CASE UNCHANGED ovars \/ Rotate
  BY <1>1 DEF ovars, Rotate, SomebodyFetches
<1>2. ASSUME NEW r \in Requests, Arrive(r) \/ OStep(r) PROVE SomebodyFetches'
  <2>1. /\ \A q \in Requests \ {r} : step'[q] = step[q]
        /\ fetcher \in Requests \cup {Nobody}
    BY <1>2 DEF Arrive, OStep, StartFetch, Fetched, FetchFails, Verify, Ask, AskFails, FallSilent,
                MapUser, ToStep, OIInv, OTypeOK
  <2>2. CASE StartFetch(r)
    BY <2>2 DEF StartFetch, ToStep, SomebodyFetches, OIInv, OTypeOK
  <2>3. CASE Fetched(r) \/ FetchFails(r)
    BY <2>3 DEF Fetched, FetchFails, GiveUpInitialising, SomebodyFetches
  <2>4. CASE Arrive(r) \/ Verify(r) \/ Ask(r) \/ AskFails(r) \/ MapUser(r)
    <3>1. step[r] \notin {"fetch", "silent"} /\ fetcher' = fetcher
      BY <2>4 DEF Arrive, Verify, Ask, AskFails, MapUser
    <3> QED
      BY <2>1, <3>1 DEF SomebodyFetches
  <2>5. CASE FallSilent(r)
    <3>1. step' = [step EXCEPT ![r] = "silent"] /\ fetcher' = fetcher
      BY <2>5 DEF FallSilent, ToStep
    <3>2. step'[r] = "silent"
      BY <3>1 DEF OIInv, OTypeOK
    <3> QED
      BY <2>1, <3>1, <3>2 DEF SomebodyFetches
  <2> QED
    BY <1>2, <2>2, <2>3, <2>4, <2>5 DEF OStep
<1> QED
  BY <1>1, <1>2 DEF ONext

\* The static is never left in initialisation: a request that waits for the
\* keys (in the first look-up of validate_using_local_validation) waits for a
\* request that fetches them, also after failed fetches: only a silent provider
\* keeps it waiting.
THEOREM WaitersAreServed == OSpec => []SomebodyFetches
<1>1. OInit => SomebodyFetches
  BY DEF OInit, SomebodyFetches
<1> QED
  BY <1>1, OInvariance, FetcherOK, PTL DEF OSpec

\* Bounds the steps that are left to a request: it tries once to fetch the
\* keys, and once there are keys, there always are.
RequestLeft(r) ==
  CASE step[r] = "off" -> 5
    [] step[r] = "keys" -> IF jwks = 0 THEN 4 ELSE 2
    [] step[r] = "fetch" -> 3
    [] step[r] = "ask" -> 2
    [] step[r] = "map" -> 1
    [] OTHER -> 0

\* RequestLeft of a request, by its place.
LEMMA LeftIs ==
  ASSUME NEW r \in Requests
  PROVE  /\ step[r] = "off" => RequestLeft(r) = 5
         /\ step[r] = "keys" /\ jwks = 0 => RequestLeft(r) = 4
         /\ step[r] = "keys" /\ jwks # 0 => RequestLeft(r) = 2
         /\ step[r] = "fetch" => RequestLeft(r) = 3
         /\ step[r] = "ask" => RequestLeft(r) = 2
         /\ step[r] = "map" => RequestLeft(r) = 1
         /\ step[r] \in Ended \cup {"silent"} => RequestLeft(r) = 0
BY DEF RequestLeft, Ended

LEMMA LeftIsNext ==
  ASSUME NEW r \in Requests
  PROVE  /\ step'[r] = "off" => RequestLeft(r)' = 5
         /\ step'[r] = "keys" /\ jwks' = 0 => RequestLeft(r)' = 4
         /\ step'[r] = "keys" /\ jwks' # 0 => RequestLeft(r)' = 2
         /\ step'[r] = "fetch" => RequestLeft(r)' = 3
         /\ step'[r] = "ask" => RequestLeft(r)' = 2
         /\ step'[r] = "map" => RequestLeft(r)' = 1
         /\ step'[r] \in Ended \cup {"silent"} => RequestLeft(r)' = 0
BY DEF RequestLeft, Ended

LEMMA RequestShortens ==
  ASSUME OIInv, NEW r \in Requests, Arrive(r) \/ OStep(r)
  PROVE  RequestLeft(r)' < RequestLeft(r)
<1>1. \A next : ToStep(r, next) => step'[r] = next
  BY DEF ToStep, OIInv, OTypeOK
<1>2. CASE Arrive(r)
  <2>1. step[r] = "off" /\ step'[r] \in {"keys", "ask", "refused"}
    BY <1>1, <1>2 DEF Arrive
  <2>2. RequestLeft(r) = 5
    BY <2>1, LeftIs
  <2>3. RequestLeft(r)' \in {4, 2, 0}
    BY <2>1, LeftIsNext DEF Ended
  <2> QED
    BY <2>2, <2>3
<1>3. CASE StartFetch(r)
  <2>1. step[r] = "keys" /\ jwks = 0 /\ step'[r] = "fetch"
    BY <1>1, <1>3 DEF StartFetch, MayInitialise
  <2> QED
    BY <2>1, LeftIs, LeftIsNext
<1>4. CASE Fetched(r)
  <2>1. step[r] = "fetch" /\ step'[r] = "keys" /\ jwks' = published
    BY <1>1, <1>4 DEF Fetched
  <2>2. published # 0
    BY VersionsAreNotZero DEF OIInv, OTypeOK
  <2> QED
    BY <2>1, <2>2, LeftIs, LeftIsNext
<1>5. CASE FetchFails(r)
  <2>1. step[r] = "fetch" /\ step'[r] \in Ended
    BY <1>1, <1>5 DEF FetchFails, Ended
  <2> QED
    BY <2>1, LeftIs, LeftIsNext
<1>6. CASE Verify(r)
  <2>1. step[r] = "keys" /\ jwks # 0 /\ step'[r] \in Ended \cup {"map"}
    BY <1>1, <1>6 DEF Verify, Ended
  <2> QED
    BY <2>1, LeftIs, LeftIsNext
<1>7. CASE Ask(r) \/ AskFails(r)
  <2>1. step[r] = "ask" /\ step'[r] \in Ended \cup {"map"}
    BY <1>1, <1>7 DEF Ask, AskFails, Ended
  <2> QED
    BY <2>1, LeftIs, LeftIsNext
<1>8. CASE MapUser(r)
  <2>1. step[r] = "map" /\ step'[r] \in Ended
    BY <1>1, <1>8 DEF MapUser, Ended
  <2> QED
    BY <2>1, LeftIs, LeftIsNext
<1>9. CASE FallSilent(r)
  <2>1. step[r] \in {"fetch", "ask"} /\ step'[r] = "silent"
    BY <1>1, <1>9 DEF FallSilent
  <2> QED
    BY <2>1, LeftIs, LeftIsNext
<1> QED
  BY <1>2, <1>3, <1>4, <1>5, <1>6, <1>7, <1>8, <1>9 DEF OStep

\* What others do leaves a request where it is, and may bring it the keys.
LEMMA OthersDoNotLengthen ==
  ASSUME OIInv, NEW r \in Requests,
         Rotate \/ \E q \in Requests \ {r} : Arrive(q) \/ OStep(q)
  PROVE  RequestLeft(r)' <= RequestLeft(r)
<1>1. step'[r] = step[r] /\ (jwks # 0 => jwks' # 0)
  <2>1. CASE Rotate
    BY <2>1 DEF Rotate
  <2>2. ASSUME NEW q \in Requests \ {r}, Arrive(q) \/ OStep(q)
        PROVE  step'[r] = step[r] /\ (jwks # 0 => jwks' # 0)
    <3>1. step'[r] = step[r]
      BY <2>2 DEF Arrive, OStep, StartFetch, Fetched, FetchFails, Verify, Ask, AskFails, FallSilent,
                  MapUser, ToStep, OIInv, OTypeOK
    <3>2. jwks' = jwks \/ jwks' = published
      BY <2>2 DEF Arrive, OStep, StartFetch, Fetched, FetchFails, Verify, Ask, AskFails, FallSilent,
                  MapUser
    <3>3. published # 0
      BY VersionsAreNotZero DEF OIInv, OTypeOK
    <3> QED
      BY <3>1, <3>2, <3>3
  <2> QED
    BY <2>1, <2>2
<1>2. step[r] \in Ended \cup {"off", "keys", "fetch", "ask", "silent", "map"}
  BY DEF OIInv, OTypeOK
<1> QED
  BY <1>1, <1>2, LeftIs, LeftIsNext

\* No request goes round: each of its steps leaves it less to do, and no step
\* of another request or of the provider leaves it more.  EveryTokenAnswered
\* needs, besides, that its steps are taken.
THEOREM RequestsAdvance ==
  OSpec => [][\A r \in Requests :
                /\ RequestLeft(r)' <= RequestLeft(r)
                /\ Arrive(r) \/ OStep(r) => RequestLeft(r)' < RequestLeft(r)]_ovars
<1>1. OIInv /\ [ONext]_ovars =>
        [\A r \in Requests :
           /\ RequestLeft(r)' <= RequestLeft(r)
           /\ Arrive(r) \/ OStep(r) => RequestLeft(r)' < RequestLeft(r)]_ovars
  <2> SUFFICES ASSUME OIInv, ONext, NEW r \in Requests
               PROVE  /\ RequestLeft(r)' <= RequestLeft(r)
                      /\ Arrive(r) \/ OStep(r) => RequestLeft(r)' < RequestLeft(r)
    OBVIOUS
  <2>1. CASE Arrive(r) \/ OStep(r)
    <3>1. RequestLeft(r)' < RequestLeft(r)
      BY <2>1, RequestShortens
    <3>2. RequestLeft(r) \in Int /\ RequestLeft(r)' \in Int
      BY DEF RequestLeft
    <3> QED
      BY <3>1, <3>2
  <2>2. CASE ~ (Arrive(r) \/ OStep(r))
    BY <2>2, OthersDoNotLengthen DEF ONext
  <2> QED
    BY <2>1, <2>2
<1> QED
  BY <1>1, OInvariance, PTL DEF OSpec
=============================================================================
