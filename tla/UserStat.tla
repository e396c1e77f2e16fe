------------------------------ MODULE UserStat ------------------------------
(***************************************************************************)
(* op_stat of the users and groups endpoint: what has a name, asked with   *)
(* one query after the other, while other clients add and remove users and *)
(* groups and change the types of users.                                   *)
(*                                                                         *)
(* A user and a group never have a name at the same time.  A bearer of the *)
(* name is known by the number of those before it, as its id.              *)
(***************************************************************************)
EXTENDS EndpointOperations, Integers

CONSTANTS
  MaxBearers,  \* Bound: the users and groups that have had the name.
  Unread       \* No type: what an empty optional does not hold.

ASSUME UserStatAssumption == MaxBearers \in Nat /\ Unread \notin STRING

UserTypes == {"rodsuser", "groupadmin", "rodsadmin"}

Bearers == [id : 1 .. MaxBearers, type : UserTypes \cup {"rodsgroup"}]

NoBearer == [id |-> 0, type |-> "none"]

VARIABLES
  bearer,   \* What has the name now.
  ids,      \* The number of bearers so far.
  statStep, \* Where the request is.
  zone,     \* It has the zone parameter.
  found,    \* The id that it found; 0: none.
  told,     \* What it answered about: a bearer, or NoBearer.
  past      \* The bearers since the request came, NoBearer among them.

statVars == <<bearer, ids, statStep, zone, found, told, past>>

StatInit ==
  /\ bearer = NoBearer
  /\ ids = 0
  /\ statStep = "idle"
  /\ zone \in BOOLEAN
  /\ found = 0
  /\ told = NoBearer
  /\ past = {}

-----------------------------------------------------------------------------
(* Other clients *)

BearerBecomes(b) ==
  /\ bearer' = b
  /\ past' = past \cup {b}
  /\ UNCHANGED <<statStep, zone, found, told>>

AddBearer ==
  /\ bearer = NoBearer
  /\ ids < MaxBearers
  /\ ids' = ids + 1
  /\ \E t \in UserTypes \cup {"rodsgroup"} : BearerBecomes([id |-> ids', type |-> t])

RemoveBearer ==
  /\ bearer # NoBearer
  /\ BearerBecomes(NoBearer)
  /\ UNCHANGED ids

SetType ==
  /\ bearer.type \in UserTypes
  /\ \E t \in UserTypes \ {bearer.type} : BearerBecomes([bearer EXCEPT !.type = t])
  /\ UNCHANGED ids

-----------------------------------------------------------------------------
(* The request *)

\* The name is missing.
RefuseStat ==
  /\ statStep = "idle"
  /\ statStep' = "refused"
  /\ UNCHANGED <<bearer, ids, zone, found, told, past>>

\* The name is there, and there is a connection.
StartStat ==
  /\ statStep = "idle"
  /\ statStep' = "user"
  /\ past' = {bearer}
  /\ UNCHANGED <<bearer, ids, zone, found, told>>

Tell(b) == statStep' = "told" /\ told' = b

\* Faulty variant: a name without a zone is that of a user, too.
GroupsHaveZones == Tell(NoBearer)

\* With a zone it is a user; without, it may be a group.
NoSuchUser ==
  IF zone THEN Tell(NoBearer) ELSE statStep' = "group" /\ UNCHANGED told

\* adm::client::id of a user, if there is one.
IsUser == bearer.type \in UserTypes

FindUser ==
  /\ statStep = "user"
  /\ IF IsUser
     THEN statStep' = "type" /\ found' = bearer.id /\ UNCHANGED told
     ELSE NoSuchUser /\ UNCHANGED found
  /\ UNCHANGED <<bearer, ids, zone, past>>

\* adm::client::type, dereferenced: of a user that is gone it is any byte.
FindType ==
  /\ statStep = "type"
  /\ Tell([id |-> found,
           type |-> IF bearer.type \in UserTypes THEN bearer.type ELSE Unread])
  /\ UNCHANGED <<bearer, ids, zone, found, past>>

\* adm::client::id of a group
FindGroup ==
  /\ statStep = "group"
  /\ Tell(IF bearer.type = "rodsgroup" THEN bearer ELSE NoBearer)
  /\ UNCHANGED <<bearer, ids, zone, found, past>>

\* A query throws: an error of iRODS with a status of 200, or a 500.
StatFails ==
  /\ statStep \in {"user", "type", "group"}
  /\ statStep' = "failed"
  /\ UNCHANGED <<bearer, ids, zone, found, told, past>>

StatNext ==
  \/ AddBearer \/ RemoveBearer \/ SetType
  \/ RefuseStat \/ StartStat \/ FindUser \/ FindType \/ FindGroup \/ StatFails

StatSpec == StatInit /\ [][StatNext]_statVars

-----------------------------------------------------------------------------
(* What the code promises *)

\* The type of every variable; only the type of a user may be unread.
StatTypeOK ==
  /\ bearer \in Bearers \cup {NoBearer}
  /\ ids \in 0 .. MaxBearers
  /\ statStep \in {"idle", "user", "type", "group", "told", "refused", "failed"}
  /\ zone \in BOOLEAN
  /\ found \in 0 .. ids
  /\ told \in Bearers \cup {NoBearer} \cup [id : 1 .. ids, type : {Unread}]
  /\ past \in SUBSET (Bearers \cup {NoBearer})

\* The answer was true at some moment of the request: nothing had the name, at
\* least no user if the zone is given, or the bearer that is told had it and
\* was of that type.  Only if the name was without a bearer in between, the
\* type may be that of a later one, or of nobody.
StatWasTrue ==
  statStep = "told" =>
    \/ told \in past
    \/ told = NoBearer /\ zone /\ \E b \in past : b.type = "rodsgroup"
    \/ told.id # 0 /\ NoBearer \in past
=============================================================================
