-------------------------- MODULE OperationsProofs --------------------------
(***************************************************************************)
(* Safety of what the endpoints' handlers do with the catalog: of          *)
(* Operations for any number of requests for any of the operations on one  *)
(* path, of TicketCreation for any parameters, of UserStat for any number  *)
(* of users and groups that have the name, one after the other, and of     *)
(* QueryPaging for any number of rows and any size of pages.               *)
(***************************************************************************)
EXTENDS MCOperations, FiniteSetTheorems, SequenceTheorems, TLAPS

(***************************************************************************)
(* The table of the operations                                             *)
(***************************************************************************)

\* What the proofs need of a row of the table: what may be wrong with the
\* parameters is one of the faults; whatever fails is answered with a refusal;
\* an entity of a kind that is not asked for is no success, unless there is
\* one; and the kind is checked by the handler or by the call.
WellFormed(o) ==
  /\ o.faults \subseteq Faults
  /\ o.refusal \in Refusals /\ o.thrown \in Refusals
  /\ o.mismatch \in Refusals \cup {Ok}
  /\ o.mismatch = Ok => "absent" \in o.needs
  /\ o.takes \subseteq o.about \/ o.needs \subseteq o.about

\* The rows of /collections.
LEMMA CollectionsWellFormed ==
  \A o \in {CollectionsList, CollectionsStat, CollectionsCreate,
           CollectionsCreateAll, CollectionsRemove, CollectionsRename,
           CollectionsSetPermission, CollectionsSetInheritance,
           CollectionsTouch} : WellFormed(o)
<1> USE DEF WellFormed, Faults, Refusals, Kinds, Entities, Ok, IrodsError, BadRequest,
            RefusedByIrods, GarbledError, NotImplemented, Basic, Administer, Checked,
            ForDataObject, Unavailable
<1>1. /\ WellFormed(CollectionsList) /\ WellFormed(CollectionsStat)
      /\ WellFormed(CollectionsCreate) /\ WellFormed(CollectionsCreateAll)
  BY DEF CollectionsList, CollectionsStat, CollectionsCreate,
         CollectionsCreateAll
<1>2. /\ WellFormed(CollectionsRemove) /\ WellFormed(CollectionsRename)
      /\ WellFormed(CollectionsSetPermission) /\ WellFormed(CollectionsSetInheritance)
  BY DEF CollectionsRemove, CollectionsRename, CollectionsSetPermission,
         CollectionsSetInheritance
<1>3. WellFormed(CollectionsTouch)
  BY DEF CollectionsTouch
<1> HIDE DEF WellFormed
<1> QED
  BY <1>1, <1>2, <1>3, Zenon

\* The rows of /data-objects.
LEMMA DataObjectsWellFormed ==
  \A o \in {DataObjectsReplicate, DataObjectsTrim, DataObjectsSetPermission,
           DataObjectsStat, DataObjectsRegister, DataObjectsRemove,
           DataObjectsRename, DataObjectsCopy, DataObjectsTouch,
           DataObjectsTouchOnly, DataObjectsTruncate,
           DataObjectsCalculateChecksum, DataObjectsVerifyChecksum,
           DataObjectsModifyReplica} : WellFormed(o)
<1> USE DEF WellFormed, Faults, Refusals, Kinds, Entities, Ok, IrodsError, BadRequest,
            RefusedByIrods, GarbledError, NotImplemented, Basic, Administer, Checked,
            ForDataObject, Unavailable
<1>1. /\ WellFormed(DataObjectsReplicate) /\ WellFormed(DataObjectsTrim)
      /\ WellFormed(DataObjectsSetPermission) /\ WellFormed(DataObjectsStat)
  BY DEF DataObjectsReplicate, DataObjectsTrim, DataObjectsSetPermission,
         DataObjectsStat
<1>2. /\ WellFormed(DataObjectsRegister) /\ WellFormed(DataObjectsRemove)
      /\ WellFormed(DataObjectsRename) /\ WellFormed(DataObjectsCopy)
  BY DEF DataObjectsRegister, DataObjectsRemove, DataObjectsRename,
         DataObjectsCopy
<1>3. /\ WellFormed(DataObjectsTouch) /\ WellFormed(DataObjectsTruncate)
      /\ WellFormed(DataObjectsCalculateChecksum) /\ WellFormed(DataObjectsVerifyChecksum)
  BY DEF DataObjectsTouch, DataObjectsTruncate, DataObjectsCalculateChecksum,
         DataObjectsVerifyChecksum
<1>4. WellFormed(DataObjectsModifyReplica) /\ WellFormed(DataObjectsTouchOnly)
  BY DEF DataObjectsModifyReplica, DataObjectsTouchOnly, DataObjectsTouch
<1> HIDE DEF WellFormed
<1> QED
  BY <1>1, <1>2, <1>3, <1>4, Zenon

\* The rows of /resources.
LEMMA ResourcesWellFormed ==
  \A o \in {ResourcesCreate, ResourcesRemove, ResourcesModify,
           ResourcesAddChild, ResourcesRemoveChild, ResourcesRebalance,
           ResourcesStat} : WellFormed(o)
<1> USE DEF WellFormed, Faults, Refusals, Kinds, Entities, Ok, IrodsError, BadRequest,
            RefusedByIrods, GarbledError, NotImplemented, Basic, Administer, Checked,
            ForDataObject, Unavailable
<1>1. /\ WellFormed(ResourcesCreate) /\ WellFormed(ResourcesRemove)
      /\ WellFormed(ResourcesModify) /\ WellFormed(ResourcesAddChild)
  BY DEF ResourcesCreate, ResourcesRemove, ResourcesModify, ResourcesAddChild
<1>2. /\ WellFormed(ResourcesRemoveChild) /\ WellFormed(ResourcesRebalance)
      /\ WellFormed(ResourcesStat)
  BY DEF ResourcesRemoveChild, ResourcesRebalance, ResourcesStat
<1> HIDE DEF WellFormed
<1> QED
  BY <1>1, <1>2, Zenon

\* The rows of /users-groups.
LEMMA UsersWellFormed ==
  \A o \in {UsersCreateUser, UsersRemoveUser, UsersSetPassword,
           UsersSetUserType, UsersAuth, UsersCreateGroup, UsersRemoveGroup,
           UsersAddToGroup, UsersRemoveFromGroup, UsersUsers, UsersGroups,
           UsersMembers, UsersIsMember} : WellFormed(o)
<1> USE DEF WellFormed, Faults, Refusals, Kinds, Entities, Ok, IrodsError, BadRequest,
            RefusedByIrods, GarbledError, NotImplemented, Basic, Administer, Checked,
            ForDataObject, Unavailable
<1>1. /\ WellFormed(UsersCreateUser) /\ WellFormed(UsersRemoveUser)
      /\ WellFormed(UsersSetPassword) /\ WellFormed(UsersSetUserType)
  BY DEF UsersCreateUser, UsersRemoveUser, UsersSetPassword, UsersSetUserType
<1>2. /\ WellFormed(UsersAuth) /\ WellFormed(UsersCreateGroup)
      /\ WellFormed(UsersRemoveGroup) /\ WellFormed(UsersAddToGroup)
  BY DEF UsersAuth, UsersCreateGroup, UsersRemoveGroup, UsersAddToGroup
<1>3. /\ WellFormed(UsersRemoveFromGroup) /\ WellFormed(UsersUsers)
      /\ WellFormed(UsersGroups) /\ WellFormed(UsersMembers)
  BY DEF UsersRemoveFromGroup, UsersUsers, UsersGroups, UsersMembers
<1>4. WellFormed(UsersIsMember)
  BY DEF UsersIsMember
<1> HIDE DEF WellFormed
<1> QED
  BY <1>1, <1>2, <1>3, <1>4, Zenon

\* The rows of /zones, /rules, /query and /tickets.
LEMMA OthersWellFormed ==
  \A o \in {ZonesAdd, ZonesRemove, ZonesModify, ZonesReport, ZonesStat,
           RulesExecute, RulesListRuleEngines, RulesRemoveDelayRule,
           QueryExecuteGenquery, QueryExecuteGenquery2,
           QueryExecuteSpecificQuery, QueryList, QueryAddSpecificQuery,
           QueryRemoveSpecificQuery, TicketsListStat, TicketsRemove} :
           WellFormed(o)
<1> USE DEF WellFormed, Faults, Refusals, Kinds, Entities, Ok, IrodsError, BadRequest,
            RefusedByIrods, GarbledError, NotImplemented, Basic, Administer, Checked,
            ForDataObject, Unavailable
<1>1. /\ WellFormed(ZonesAdd) /\ WellFormed(ZonesRemove)
      /\ WellFormed(ZonesModify) /\ WellFormed(ZonesReport)
  BY DEF ZonesAdd, ZonesRemove, ZonesModify, ZonesReport
<1>2. /\ WellFormed(ZonesStat) /\ WellFormed(RulesExecute)
      /\ WellFormed(RulesListRuleEngines) /\ WellFormed(RulesRemoveDelayRule)
  BY DEF ZonesStat, RulesExecute, RulesListRuleEngines, RulesRemoveDelayRule
<1>3. /\ WellFormed(QueryExecuteGenquery) /\ WellFormed(QueryExecuteGenquery2)
      /\ WellFormed(QueryExecuteSpecificQuery) /\ WellFormed(QueryList)
  BY DEF QueryExecuteGenquery, QueryExecuteGenquery2,
         QueryExecuteSpecificQuery, QueryList
<1>4. /\ WellFormed(QueryAddSpecificQuery) /\ WellFormed(QueryRemoveSpecificQuery)
      /\ WellFormed(TicketsListStat) /\ WellFormed(TicketsRemove)
  BY DEF QueryAddSpecificQuery, QueryRemoveSpecificQuery, TicketsListStat,
         TicketsRemove
<1> HIDE DEF WellFormed
<1> QED
  BY <1>1, <1>2, <1>3, <1>4, Zenon

\* The rows that endpoints share.
LEMMA SharedWellFormed ==
  /\ \A kind \in Entities :
       WellFormed(ModifyPermissions(kind)) /\ WellFormed(ModifyMetadata(kind))
  /\ \A name : WellFormed(ModifyMetadataOfName(name))
  /\ WellFormed(NoOp)
<1> USE DEF WellFormed, Faults, Refusals, Kinds, Entities, Ok, IrodsError, BadRequest,
            RefusedByIrods, GarbledError, NotImplemented, Basic, Administer, Checked,
            ForDataObject, Unavailable
<1>1. \A kind \in Entities :
        WellFormed(ModifyPermissions(kind)) /\ WellFormed(ModifyMetadata(kind))
  BY DEF ModifyPermissions, ModifyMetadata
<1>2. \A name : WellFormed(ModifyMetadataOfName(name))
  BY DEF ModifyMetadataOfName
<1>3. WellFormed(NoOp)
  BY DEF NoOp
<1> QED
  BY <1>1, <1>2, <1>3

\* Every operation that is requested is well-formed.
LEMMA TableWellFormed == \A o \in Ops \cup {NoOp} : WellFormed(o)
<1>1. \A o \in PathOperations : WellFormed(o)
  BY CollectionsWellFormed, DataObjectsWellFormed, SharedWellFormed DEF PathOperations
<1>2. \A o \in OtherOperations : WellFormed(o)
  BY ResourcesWellFormed, UsersWellFormed, OthersWellFormed, SharedWellFormed
  DEF OtherOperations
<1> QED
  BY <1>1, <1>2, SharedWellFormed, ConstantsAssumption

(***************************************************************************)
(* Operations                                                              *)
(***************************************************************************)

\* Where a request is being serviced, and where its entity was asked for.
Serviced == {"check", "connect", "inspect", "late", "call"}

Looked == {"late", "call"}

\* Of one request: what is at the path was seen since it came, also what its
\* handler asked for; it has neither called nor answered before its end.
RequestOK(r) ==
  /\ pc[r] \in Serviced => entity \in seen[r]
  /\ pc[r] \in Serviced \cup {"idle"} => did[r] = "nothing" /\ answer[r] = NoAnswer
  /\ pc[r] \in Looked => seen[r] \cap op[r].needs # {}
  /\ answer[r] # NoAnswer => seen[r] # {}

\* AnswersTellWhatWasDone and KindOnTheWay, of one request.
AnswerTells(r) ==
  /\ answer[r] = Ok /\ op[r].effect # "none" /\ fault[r] # "unknown" =>
       whole[r] \/ (op[r].mismatch = Ok /\ seen[r] # {"absent"})
  /\ answer[r] \in Refusals \ {op[r].refusal} => did[r] = "nothing"

KindSeen(r) == did[r] # "nothing" => seen[r] \cap op[r].about # {}

\* The inductive invariant.
IInv ==
  /\ TypeOK
  /\ \A r \in Slots : RequestOK(r) /\ AnswerTells(r) /\ KindSeen(r)

LEMMA AnswersDiffer ==
  /\ Ok \notin Refusals /\ ServerError \notin Refusals /\ NoAnswer \notin Refusals
  /\ Ok # ServerError /\ Ok # NoAnswer
  /\ NotImplemented \in Refusals /\ BadRequest \in Refusals
BY DEF Refusals, Ok, ServerError, NoAnswer, IrodsError, BadRequest, RefusedByIrods, GarbledError,
       NotImplemented

LEMMA InitOK == Init => IInv
<1> SUFFICES ASSUME Init PROVE IInv
  OBVIOUS
<1>1. TypeOK
  BY DEF Init, TypeOK, Steps, Faults
<1>2. \A r \in Slots : RequestOK(r) /\ AnswerTells(r) /\ KindSeen(r)
  BY AnswersDiffer DEF Init, RequestOK, AnswerTells, KindSeen, Serviced, Looked
<1> QED
  BY <1>1, <1>2 DEF IInv

\* What is said of the requests that a step leaves alone stays true while the
\* entity and what they have seen does.
LEMMA OthersOK ==
  ASSUME IInv, NEW r \in Slots, UNCHANGED entity,
         NEW s \in Slots, s # r,
         pc'[s] = pc[s], op'[s] = op[s], fault'[s] = fault[s], answer'[s] = answer[s],
         did'[s] = did[s], whole'[s] = whole[s], seen'[s] = seen[s]
  PROVE  RequestOK(s)' /\ AnswerTells(s)' /\ KindSeen(s)'
BY DEF IInv, RequestOK, AnswerTells, KindSeen

\* A step before the call keeps IInv if it goes on, having looked at the entity
\* on the way to the call, or ends with a true answer.
LEMMA MovedOK ==
  ASSUME IInv, NEW r \in Slots, UNCHANGED <<entity, op, fault, did, whole, seen>>,
         pc[r] \in Serviced,
         NEW next \in Serviced \cup {"done"}, NEW a \in Answers \cup {NoAnswer},
         pc' = [pc EXCEPT ![r] = next], answer' = [answer EXCEPT ![r] = a],
         next \in Serviced => a = NoAnswer,
         next = "done" => a \in Answers,
         next \in Looked => seen[r] \cap op[r].needs # {},
         a = Ok => \/ op[r].effect = "none" \/ fault[r] = "unknown"
                   \/ op[r].mismatch = Ok /\ seen[r] # {"absent"}
  PROVE  IInv'
<1>1. /\ pc'[r] = next /\ answer'[r] = a
      /\ \A s \in Slots \ {r} : pc'[s] = pc[s] /\ answer'[s] = answer[s]
  BY DEF IInv, TypeOK
<1>2. TypeOK'
  <2>1. pc' \in [Slots -> Steps] /\ answer' \in [Slots -> Answers \cup {NoAnswer}]
    BY DEF IInv, TypeOK, Steps, Serviced
  <2>2. \A s \in Slots : pc'[s] = "done" => answer'[s] \in Answers
    BY <1>1 DEF IInv, TypeOK, Serviced
  <2> QED
    BY <2>1, <2>2 DEF IInv, TypeOK
<1>3. RequestOK(r)' /\ AnswerTells(r)' /\ KindSeen(r)'
  <2>1. did[r] = "nothing" /\ entity \in seen[r]
    BY DEF IInv, RequestOK
  <2>2. RequestOK(r)'
    BY <1>1, <2>1 DEF RequestOK, Serviced, Looked
  <2>3. AnswerTells(r)' /\ KindSeen(r)'
    BY <1>1, <2>1 DEF AnswerTells, KindSeen
  <2> QED
    BY <2>2, <2>3
<1>4. \A s \in Slots \ {r} : RequestOK(s)' /\ AnswerTells(s)' /\ KindSeen(s)'
  BY <1>1, OthersOK
<1> QED
  BY <1>2, <1>3, <1>4 DEF IInv

LEMMA ReceiveOK == \A r \in Slots : IInv /\ Receive(r) => IInv'
<1> SUFFICES ASSUME NEW r \in Slots, IInv, Receive(r) PROVE IInv'
  OBVIOUS
<1>1. PICK o \in Ops, f \in Faults :
        op' = [op EXCEPT ![r] = o] /\ fault' = [fault EXCEPT ![r] = f]
  BY DEF Receive
<1>2. /\ pc[r] = "idle" /\ pc' = [pc EXCEPT ![r] = "check"]
      /\ did' = [did EXCEPT ![r] = "nothing"] /\ whole' = [whole EXCEPT ![r] = FALSE]
      /\ seen' = [seen EXCEPT ![r] = {entity}] /\ UNCHANGED <<entity, answer>>
  BY DEF Receive, Goto
<1>3. /\ pc'[r] = "check" /\ did'[r] = "nothing" /\ seen'[r] = {entity}
      /\ answer'[r] = NoAnswer
  BY <1>2 DEF IInv, TypeOK, RequestOK
<1>4. \A s \in Slots \ {r} :
        /\ pc'[s] = pc[s] /\ op'[s] = op[s] /\ fault'[s] = fault[s]
        /\ answer'[s] = answer[s] /\ did'[s] = did[s] /\ whole'[s] = whole[s]
        /\ seen'[s] = seen[s]
  BY <1>1, <1>2 DEF IInv, TypeOK
<1>5. TypeOK'
  <2>1. /\ pc' \in [Slots -> Steps] /\ op' \in [Slots -> Ops \cup {NoOp}]
        /\ fault' \in [Slots -> Faults]
    BY <1>1, <1>2 DEF IInv, TypeOK, Steps
  <2>2. /\ did' \in [Slots -> Kinds \cup {"nothing"}] /\ whole' \in [Slots -> BOOLEAN]
        /\ seen' \in [Slots -> SUBSET Kinds]
    BY <1>2 DEF IInv, TypeOK
  <2>3. \A s \in Slots : pc'[s] = "done" => answer'[s] \in Answers
    BY <1>3, <1>4 DEF IInv, TypeOK
  <2> QED
    BY <1>2, <2>1, <2>2, <2>3 DEF IInv, TypeOK
<1>6. RequestOK(r)' /\ AnswerTells(r)' /\ KindSeen(r)'
  BY <1>2, <1>3, AnswersDiffer DEF RequestOK, AnswerTells, KindSeen, Looked, Serviced
<1>7. \A s \in Slots \ {r} : RequestOK(s)' /\ AnswerTells(s)' /\ KindSeen(s)'
  BY <1>2, <1>4, OthersOK
<1> QED
  BY <1>5, <1>6, <1>7 DEF IInv

\* The steps before the call, and a call that is passed over.
LEMMA StepsOK ==
  \A r \in Slots :
    /\ IInv
    /\ \/ RefuseAtOnce(r) \/ CheckParameters(r) \/ Fails(r) \/ Connect(r) \/ Inspect(r)
       \/ CheckLate(r) \/ PassOver(r)
    => IInv'
<1> SUFFICES ASSUME NEW r \in Slots, IInv,
                    \/ RefuseAtOnce(r) \/ CheckParameters(r) \/ Fails(r) \/ Connect(r)
                    \/ Inspect(r) \/ CheckLate(r) \/ PassOver(r)
             PROVE  IInv'
  OBVIOUS
<1>1. pc[r] \in Serviced /\ UNCHANGED <<entity, op, fault, did, whole, seen>>
  BY DEF RefuseAtOnce, CheckParameters, Fails, Connect, Inspect, CheckLate, PassOver,
         Serviced
<1>2. WellFormed(op[r]) /\ answer[r] = NoAnswer /\ entity \in seen[r]
  BY <1>1, TableWellFormed DEF IInv, TypeOK, RequestOK
<1>3. ASSUME NEW next \in Serviced, Goto(r, next),
             next \in Looked => seen[r] \cap op[r].needs # {}
      PROVE  IInv'
  <2>1. answer' = [answer EXCEPT ![r] = NoAnswer]
    BY <1>2, <1>3 DEF Goto, IInv, TypeOK
  <2>2. Ok # NoAnswer
    BY AnswersDiffer
  <2>3. pc' = [pc EXCEPT ![r] = next] /\ next # "done"
    BY <1>3 DEF Goto, Serviced
  <2> QED
    BY <1>1, <1>3, <2>1, <2>2, <2>3, MovedOK
<1>4. ASSUME NEW a \in Answers, Send(r, a),
             a = Ok => \/ fault[r] = "unknown"
                       \/ op[r].mismatch = Ok /\ seen[r] # {"absent"}
      PROVE  IInv'
  <2>1. "done" \notin Serviced /\ "done" \notin Looked
    BY DEF Serviced, Looked
  <2> QED
    BY <1>1, <1>4, <2>1, MovedOK DEF Send
<1>5. CASE RefuseAtOnce(r)
  BY <1>5, <1>4, AnswersDiffer DEF RefuseAtOnce, Answers
<1>6. CASE CheckParameters(r)
  BY <1>6, <1>3, <1>4, AnswersDiffer DEF CheckParameters, Answers, Serviced, Looked
<1>7. CASE Fails(r)
  BY <1>7, <1>2, <1>4, AnswersDiffer DEF Fails, Answers, WellFormed
<1>8. CASE Connect(r)
  BY <1>8, <1>3 DEF Connect, Serviced, Looked
<1>9. CASE Inspect(r)
  <2>1. CASE Fits(r)
    <3>1. Goto(r, "late") /\ "late" \in Serviced
      BY <1>9, <2>1 DEF Inspect, Serviced
    <3>2. seen[r] \cap op[r].needs # {}
      BY <1>2, <2>1 DEF Fits
    <3> QED
      BY <3>1, <3>2, <1>3
  <2>2. CASE ~Fits(r)
    <3>1. Send(r, op[r].mismatch) /\ op[r].mismatch \in Answers
      BY <1>9, <1>2, <2>2 DEF Inspect, WellFormed, Answers
    <3>2. op[r].mismatch = Ok => seen[r] # {"absent"}
      BY <1>2, <2>2 DEF WellFormed, Fits
    <3> QED
      BY <3>1, <3>2, <1>4
  <2> QED
    BY <2>1, <2>2
<1>10. CASE CheckLate(r)
  <2>1. seen[r] \cap op[r].needs # {}
    BY <1>10 DEF CheckLate, IInv, RequestOK, Looked
  <2> QED
    BY <1>10, <2>1, <1>3, <1>4, AnswersDiffer DEF CheckLate, Answers, Serviced
<1>11. CASE PassOver(r)
  BY <1>11, <1>4 DEF PassOver, Answers
<1> QED
  BY <1>5, <1>6, <1>7, <1>8, <1>9, <1>10, <1>11

\* The call works on what is at the path, and every request sees what it leaves
\* there; its own had looked at it before, or works on the endpoint's kind only.
\* The answer is no success of a part, and no refusal but the call's.
LEMMA WorksOK ==
  ASSUME IInv, NEW r \in Slots, NEW all \in BOOLEAN, NEW e \in Kinds,
         pc[r] = "call", Works(r, all, e), UNCHANGED <<op, fault>>,
         NEW a \in Answers, Send(r, a),
         a = Ok => all, a \in Refusals => a = op[r].refusal
  PROVE  IInv'
<1>1. /\ entity \in op[r].takes /\ entity' = e
      /\ did' = [did EXCEPT ![r] = entity] /\ whole' = [whole EXCEPT ![r] = all]
      /\ seen' = [s \in Slots |-> IF pc[s] = "idle" THEN {} ELSE seen[s] \cup {e}]
  BY DEF Works
<1>2. pc' = [pc EXCEPT ![r] = "done"] /\ answer' = [answer EXCEPT ![r] = a]
  BY DEF Send
<1>3. entity \in Kinds
  BY DEF IInv, TypeOK
<1>4. /\ pc'[r] = "done" /\ answer'[r] = a /\ did'[r] = entity
      /\ whole'[r] = all /\ seen'[r] = seen[r] \cup {e}
  BY <1>1, <1>2 DEF IInv, TypeOK
<1>5. \A s \in Slots \ {r} :
        /\ pc'[s] = pc[s] /\ answer'[s] = answer[s] /\ did'[s] = did[s]
        /\ whole'[s] = whole[s]
        /\ pc[s] # "idle" => seen'[s] = seen[s] \cup {e}
  BY <1>1, <1>2 DEF IInv, TypeOK
<1>6. TypeOK'
  <2>1. pc' \in [Slots -> Steps] /\ did' \in [Slots -> Kinds \cup {"nothing"}]
    BY <1>1, <1>2, <1>3 DEF IInv, TypeOK, Steps
  <2>2. answer' \in [Slots -> Answers \cup {NoAnswer}]
    BY <1>2 DEF IInv, TypeOK, Answers
  <2>3. seen' \in [Slots -> SUBSET Kinds] /\ whole' \in [Slots -> BOOLEAN]
    BY <1>1 DEF IInv, TypeOK
  <2>4. \A s \in Slots : pc'[s] = "done" => answer'[s] \in Answers
    BY <1>4, <1>5 DEF IInv, TypeOK, Answers
  <2> QED
    BY <1>1, <1>3, <2>1, <2>2, <2>3, <2>4 DEF IInv, TypeOK
<1>7. RequestOK(r)' /\ AnswerTells(r)'
  BY <1>1, <1>3, <1>4, AnswersDiffer DEF RequestOK, AnswerTells, Serviced, Looked, Kinds
<1>8. KindSeen(r)'
  <2>1. entity \in seen[r] /\ seen[r] \cap op[r].needs # {}
    BY <1>1 DEF IInv, RequestOK, Serviced, Looked
  <2>2. op[r].takes \subseteq op[r].about \/ op[r].needs \subseteq op[r].about
    BY TableWellFormed DEF IInv, TypeOK, WellFormed
  <2>3. seen[r] \cap op[r].about # {}
    BY <1>1, <2>1, <2>2
  <2> QED
    BY <1>1, <1>4, <2>3 DEF KindSeen
<1>9. ASSUME NEW s \in Slots \ {r}
      PROVE  RequestOK(s)' /\ AnswerTells(s)' /\ KindSeen(s)'
  <2>1. RequestOK(s) /\ AnswerTells(s) /\ KindSeen(s)
    BY DEF IInv
  <2>2. CASE pc[s] = "idle"
    BY <1>5, <2>1, <2>2, AnswersDiffer
    DEF RequestOK, AnswerTells, KindSeen, Serviced, Looked
  <2>3. CASE pc[s] # "idle"
    <3>1. seen'[s] = seen[s] \cup {entity'} /\ pc'[s] = pc[s] /\ did'[s] = did[s]
          /\ answer'[s] = answer[s] /\ whole'[s] = whole[s] /\ op' = op /\ fault' = fault
      BY <1>1, <1>5, <2>3
    <3>2. RequestOK(s)'
      BY <2>1, <3>1 DEF RequestOK
    <3>3. KindSeen(s)'
      BY <2>1, <3>1 DEF KindSeen
    <3>4. AnswerTells(s)'
      <4>1. seen[s] # {"absent"} /\ seen[s] # {} => seen'[s] # {"absent"}
        BY <3>1
      <4>2. answer[s] = Ok => seen[s] # {}
        BY <2>1, AnswersDiffer DEF RequestOK
      <4> QED
        BY <2>1, <3>1, <4>1, <4>2 DEF AnswerTells
    <3> QED
      BY <3>2, <3>3, <3>4
  <2> QED
    BY <2>2, <2>3
<1> QED
  BY <1>6, <1>7, <1>8, <1>9 DEF IInv

\* A call that does all that it is for.
LEMMA CallOK == \A r \in Slots : IInv /\ Call(r) => IInv'
<1> SUFFICES ASSUME NEW r \in Slots, IInv, Call(r) PROVE IInv'
  OBVIOUS
<1>1. After(r) \in Kinds
  BY DEF IInv, TypeOK, After, Kinds
<1>2. PICK a \in {Ok, ServerError} : Send(r, a)
  BY DEF Call, Answer
<1>3. a \in Answers /\ a \notin Refusals
  BY AnswersDiffer DEF Answers
<1>4. pc[r] = "call" /\ Works(r, TRUE, After(r)) /\ UNCHANGED <<op, fault>>
  BY DEF Call
<1> QED
  BY <1>1, <1>2, <1>3, <1>4, WorksOK

\* A call that answers an error, whatever it did.
LEMMA RefuseOK == \A r \in Slots : IInv /\ Refuse(r) => IInv'
<1> SUFFICES ASSUME NEW r \in Slots, IInv, Refuse(r) PROVE IInv'
  OBVIOUS
<1>1. entity \in Kinds /\ After(r) \in Kinds
  BY DEF IInv, TypeOK, After, Kinds
<1>2. PICK a \in {op[r].refusal, ServerError} : Send(r, a)
  BY DEF Refuse, Refusal, Answer
<1>3. op[r].refusal \in Refusals
  BY TableWellFormed DEF IInv, TypeOK, WellFormed
<1>4. a \in Answers /\ a # Ok /\ (a \in Refusals => a = op[r].refusal)
  BY <1>3, AnswersDiffer DEF Answers
<1>5. pc[r] = "call" /\ UNCHANGED <<op, fault>>
  BY DEF Refuse
<1>6. CASE UNCHANGED <<entity, did, whole, seen>>
  <2>1. pc[r] \in Serviced /\ "done" \notin Serviced /\ "done" \notin Looked
    BY <1>5 DEF Serviced, Looked
  <2> QED
    BY <1>2, <1>4, <1>5, <1>6, <2>1, MovedOK DEF Send
<1>7. CASE \E e \in {entity, After(r)} : Works(r, FALSE, e)
  BY <1>1, <1>2, <1>4, <1>5, <1>7, WorksOK
<1>8. CASE Works(r, TRUE, After(r))
  BY <1>1, <1>2, <1>4, <1>5, <1>8, WorksOK
<1> QED
  BY <1>6, <1>7, <1>8 DEF Refuse

LEMMA CrashOK == \A r \in Slots : IInv /\ Crash(r) => IInv'
<1> SUFFICES ASSUME NEW r \in Slots, IInv, Crash(r) PROVE IInv'
  OBVIOUS
<1>1. pc' = [s \in Slots |-> "dead"] /\ UNCHANGED <<entity, op, fault, answer, did, whole, seen>>
  BY DEF Crash
<1>2. TypeOK'
  BY <1>1 DEF IInv, TypeOK, Steps
<1>3. \A s \in Slots : RequestOK(s)' /\ AnswerTells(s)' /\ KindSeen(s)'
  BY <1>1 DEF IInv, RequestOK, AnswerTells, KindSeen, Serviced, Looked
<1> QED
  BY <1>2, <1>3 DEF IInv

LEMMA ForgetOK == \A r \in Slots : IInv /\ Forget(r) => IInv'
<1> SUFFICES ASSUME NEW r \in Slots, IInv, Forget(r) PROVE IInv'
  OBVIOUS
<1>1. /\ pc' = [pc EXCEPT ![r] = "idle"] /\ op' = [op EXCEPT ![r] = NoOp]
      /\ fault' = [fault EXCEPT ![r] = "none"]
      /\ answer' = [answer EXCEPT ![r] = NoAnswer]
      /\ did' = [did EXCEPT ![r] = "nothing"] /\ whole' = [whole EXCEPT ![r] = FALSE]
      /\ seen' = [seen EXCEPT ![r] = {}] /\ UNCHANGED entity
  BY DEF Forget
<1>2. /\ pc'[r] = "idle" /\ did'[r] = "nothing" /\ answer'[r] = NoAnswer
      /\ \A s \in Slots \ {r} :
           /\ pc'[s] = pc[s] /\ op'[s] = op[s] /\ fault'[s] = fault[s]
           /\ answer'[s] = answer[s] /\ did'[s] = did[s] /\ whole'[s] = whole[s]
           /\ seen'[s] = seen[s]
  BY <1>1 DEF IInv, TypeOK
<1>3. TypeOK'
  <2>1. /\ pc' \in [Slots -> Steps] /\ op' \in [Slots -> Ops \cup {NoOp}]
        /\ fault' \in [Slots -> Faults]
    BY <1>1 DEF IInv, TypeOK, Steps, Faults
  <2>2. /\ answer' \in [Slots -> Answers \cup {NoAnswer}]
        /\ did' \in [Slots -> Kinds \cup {"nothing"}] /\ whole' \in [Slots -> BOOLEAN]
        /\ seen' \in [Slots -> SUBSET Kinds]
    BY <1>1 DEF IInv, TypeOK
  <2>3. \A s \in Slots : pc'[s] = "done" => answer'[s] \in Answers
    BY <1>2 DEF IInv, TypeOK
  <2> QED
    BY <1>1, <2>1, <2>2, <2>3 DEF IInv, TypeOK
<1>4. RequestOK(r)' /\ AnswerTells(r)' /\ KindSeen(r)'
  BY <1>2, AnswersDiffer DEF RequestOK, AnswerTells, KindSeen, Serviced, Looked
<1>5. \A s \in Slots \ {r} : RequestOK(s)' /\ AnswerTells(s)' /\ KindSeen(s)'
  BY <1>1, <1>2, OthersOK
<1> QED
  BY <1>3, <1>4, <1>5 DEF IInv

LEMMA StepOK == IInv /\ [Next]_vars => IInv'
<1>1. IInv /\ UNCHANGED vars => IInv'
  BY DEF vars, IInv, TypeOK, RequestOK, AnswerTells, KindSeen
<1> QED
  BY <1>1, ReceiveOK, StepsOK, CallOK, RefuseOK, CrashOK, ForgetOK DEF Next

\* The inductive invariant always holds.
THEOREM Invariance == Spec => []IInv
  BY InitOK, StepOK, PTL DEF Spec

\* The types of the requests: every answer is one that clients know.
THEOREM TypeCorrect == Spec => []TypeOK
<1>1. IInv => TypeOK
  BY DEF IInv
<1> QED
  BY <1>1, Invariance, PTL

\* For every set of operations and any number of requests, a change that is
\* answered with the status_code 0 was made, all of it, or what it asks for was
\* there, although calls may fail after a part of the change or all of it; and a
\* request that a check of its handler refuses has called nothing.
THEOREM AnswersAreTrue == Spec => []AnswersTellWhatWasDone
<1>1. IInv => AnswersTellWhatWasDone
  BY DEF IInv, AnswerTells, AnswersTellWhatWasDone
<1> QED
  BY <1>1, Invariance, PTL

\* Whatever the other requests do to the path between the look and the call, an
\* operation works on an entity of its endpoint's kind, or one that was of that
\* kind earlier in the request.
THEOREM KindsAreSeen == Spec => []KindOnTheWay
<1>1. IInv => KindOnTheWay
  BY DEF IInv, KindSeen, KindOnTheWay
<1> QED
  BY <1>1, Invariance, PTL

(***************************************************************************)
(* TicketCreation                                                          *)
(***************************************************************************)

\* The calls that were made have set their constraints, or a time that is any.
SetSoFar ==
  \A i \in 1 .. position :
    LET c == Constraints(wanted)[i]
    IN \/ c \in bounds
       \/ wanted.expires > SecondsMax /\ \E b \in bounds : c[1] = b[1]

\* The inductive invariant: an answer ends the request, and a good one comes
\* after all calls.
TIInv ==
  /\ TTypeOK
  /\ SetSoFar
  /\ ticketStep = "constrain" => made
  /\ ticketStep # "ended" => ticketReply = Unanswered
  /\ ticketReply = Ok => position = Len(Constraints(wanted))

Names ==
  {"use-count", "write-data-object-count", "write-byte-count", "expire",
   "user", "group", "host"}

Values == Numbers \cup {NotGiven, NoNumber} \cup STRING

\* A function on 1 .. n is a sequence of n elements.
LEMMA FunctionIsSeq ==
  ASSUME NEW S, NEW n \in Nat, NEW f \in [1 .. n -> S]
  PROVE  f \in Seq(S) /\ Len(f) = n
<1>1. f \in Seq(S)
  BY SeqDef
<1>2. Len(f) \in Nat /\ DOMAIN f = 1 .. Len(f)
  BY <1>1
<1>3. 1 .. n = 1 .. Len(f)
  BY <1>2
<1>4. Len(f) = n
  BY <1>2, <1>3
<1> QED
  BY <1>1, <1>4

\* The calls of a request are a sequence; only the time is called expire.
LEMMA ConstraintsAreCalls ==
  ASSUME NEW p \in Requested
  PROVE  /\ Constraints(p) \in Seq(Names \X Values)
         /\ \A i \in 1 .. Len(Constraints(p)) :
              Constraints(p)[i][1] = "expire" => Constraints(p)[i][2] = p.expires
<1>1. p \in Parameters
  BY TicketAssumption
<1> DEFINE time == IF p.expires = NotGiven THEN <<>> ELSE << <<"expire", p.expires>> >>
           IsCall(c) == c \in Names \X Values /\ (c[1] = "expire" => c[2] = p.expires)
<1>2. /\ LimitsOf(p) \in Seq(Names \X Values) /\ Len(LimitsOf(p)) = 3
      /\ \A i \in 1 .. 3 : IsCall(LimitsOf(p)[i])
  <2>1. \A i \in 1 .. 3 : p.limits[i] \in Numbers \cup {NotGiven, NoNumber}
    BY <1>1 DEF Parameters
  <2>2. 0 \in Numbers
    BY TicketAssumption DEF Numbers
  <2>3. ASSUME NEW i \in 1 .. 3 PROVE Limits[i] \in Names /\ Limits[i] # "expire"
    <3>1. Limits[1] = "use-count" /\ Limits[2] = "write-data-object-count"
          /\ Limits[3] = "write-byte-count"
      BY DEF Limits
    <3>2. i = 1 \/ i = 2 \/ i = 3
      OBVIOUS
    <3>3. CASE i = 1
      BY <3>1, <3>3 DEF Names
    <3>4. CASE i = 2
      BY <3>1, <3>4 DEF Names
    <3>5. CASE i = 3
      BY <3>1, <3>5 DEF Names
    <3> QED
      BY <3>2, <3>3, <3>4, <3>5
  <2>4. \A i \in 1 .. 3 :
          /\ LimitsOf(p)[i] \in Names \X Values
          /\ LimitsOf(p)[i][1] # "expire"
    BY <2>1, <2>2, <2>3 DEF LimitsOf, Values
  <2>5. LimitsOf(p) \in [1 .. 3 -> Names \X Values]
    BY <2>4 DEF LimitsOf
  <2>6. 3 \in Nat
    OBVIOUS
  <2>7. LimitsOf(p) \in Seq(Names \X Values) /\ Len(LimitsOf(p)) = 3
    BY <2>5, <2>6, FunctionIsSeq
  <2> QED
    BY <2>4, <2>7
<1>3. /\ time \in Seq(Names \X Values)
      /\ \A i \in 1 .. Len(time) : IsCall(time[i])
  <2>1. p.expires \in Values
    BY <1>1 DEF Parameters, Values
  <2>2. CASE p.expires = NotGiven
    BY <2>2
  <2>3. CASE p.expires # NotGiven
    <3> DEFINE call == <<"expire", p.expires>>
    <3>1. "expire" \in Names
      BY DEF Names
    <3>2. call \in Names \X Values /\ call[2] = p.expires
      BY <2>1, <3>1, Zenon
    <3>3. time = <<call>>
      BY <2>3, Zenon
    <3>4. IsCall(call)
      BY <3>2, Zenon
    <3> HIDE DEF call, time, IsCall
    <3>5. time \in Seq(Names \X Values) /\ Len(time) = 1 /\ time[1] = call
      BY <3>2, <3>3
    <3>6. \A i \in 1 .. Len(time) : i = 1
      BY <3>5
    <3> QED
      BY <3>4, <3>5, <3>6, Zenon
  <2> QED
    BY <2>2, <2>3
<1>4. /\ p.allowed \in Seq(Names \X Values)
      /\ \A i \in 1 .. Len(p.allowed) : IsCall(p.allowed[i])
  <2>1. p.allowed \in Seq({"user", "group", "host"} \X STRING)
    BY <1>1 DEF Parameters
  <2>2. {"user", "group", "host"} \X STRING \subseteq Names \X Values
    <3>1. {"user", "group", "host"} \subseteq Names
      BY DEF Names
    <3>2. STRING \subseteq Values
      BY Zenon DEF Values
    <3> QED
      BY <3>1, <3>2, Zenon
  <2>3. p.allowed \in Seq(Names \X Values)
    BY <2>1, <2>2, SeqMonotonic
  <2>4. \A i \in 1 .. Len(p.allowed) : p.allowed[i] \in {"user", "group", "host"} \X STRING
    BY <2>1
  <2>5. ASSUME NEW i \in 1 .. Len(p.allowed)
        PROVE  p.allowed[i] \in Names \X Values /\ p.allowed[i][1] # "expire"
    BY <2>2, <2>4
  <2> QED
    BY <2>3, <2>5
<1> HIDE DEF time, IsCall
<1>5. ASSUME NEW s \in Seq(Names \X Values), NEW t \in Seq(Names \X Values),
             \A i \in 1 .. Len(s) : IsCall(s[i]), \A i \in 1 .. Len(t) : IsCall(t[i])
      PROVE  /\ s \o t \in Seq(Names \X Values)
             /\ \A i \in 1 .. Len(s \o t) : IsCall((s \o t)[i])
  <2>1. /\ s \o t \in Seq(Names \X Values) /\ Len(s \o t) = Len(s) + Len(t)
        /\ \A i \in 1 .. Len(s) + Len(t) :
             (s \o t)[i] = IF i <= Len(s) THEN s[i] ELSE t[i - Len(s)]
    BY <1>5, ConcatProperties, Zenon
  <2>2. Len(s) \in Nat /\ Len(t) \in Nat
    BY <1>5
  <2>3. ASSUME NEW i \in 1 .. Len(s \o t) PROVE IsCall((s \o t)[i])
    <3>1. CASE i <= Len(s)
      BY <1>5, <2>1, <2>2, <3>1
    <3>2. CASE i > Len(s)
      <4>1. i - Len(s) \in 1 .. Len(t)
        BY <2>1, <2>2, <3>2
      <4>2. (s \o t)[i] = t[i - Len(s)]
        BY <2>1, <2>2, <3>2
      <4> QED
        BY <1>5, <4>1, <4>2
    <3> QED
      BY <2>1, <2>2, <3>1, <3>2
  <2> QED
    BY <2>1, <2>3
<1>6. /\ LimitsOf(p) \o time \in Seq(Names \X Values)
      /\ \A i \in 1 .. Len(LimitsOf(p) \o time) : IsCall((LimitsOf(p) \o time)[i])
  BY <1>2, <1>3, <1>5
<1>7. Constraints(p) = (LimitsOf(p) \o time) \o p.allowed
  BY DEF Constraints, time
<1>8. /\ Constraints(p) \in Seq(Names \X Values)
      /\ \A i \in 1 .. Len(Constraints(p)) : IsCall(Constraints(p)[i])
  BY <1>4, <1>5, <1>6, <1>7
<1> QED
  BY <1>8 DEF IsCall

LEMMA TInitOK == TInit => TIInv
<1> SUFFICES ASSUME TInit PROVE TIInv
  OBVIOUS
<1>1. Len(Constraints(wanted)) \in Nat /\ wanted \in Requested
  BY ConstraintsAreCalls DEF TInit
<1>2. TTypeOK
  <2>1. position \in 0 .. Len(Constraints(wanted))
    BY <1>1 DEF TInit
  <2>2. made \in BOOLEAN
    BY Zenon DEF TInit
  <2>3. ticketReply = Unanswered /\ Unanswered # Ok
    BY DEF TInit, Unanswered, Ok
  <2>4. ticketStep = "check"
    BY DEF TInit
  <2> QED
    BY <1>1, <2>1, <2>2, <2>3, <2>4, Zenon DEF TTypeOK
<1>3. SetSoFar
  BY DEF TInit, SetSoFar
<1> QED
  BY <1>2, <1>3 DEF TInit, TIInv, Unanswered, Ok

\* A step that sets no constraint keeps TIInv if its answer is justified.
LEMMA TMovedOK ==
  ASSUME TIInv, UNCHANGED <<wanted, position, bounds>>,
         ticketStep' \in {"create", "constrain", "ended"},
         ticketReply' \in {Unanswered, Ok, BadRequest, IrodsError, ServerError},
         made' \in BOOLEAN, made => made',
         ticketStep' = "constrain" => made',
         ticketStep' # "ended" => ticketReply' = Unanswered,
         ticketReply' = Ok => made' /\ position = Len(Constraints(wanted))
  PROVE  TIInv'
<1>1. TTypeOK'
  BY DEF TIInv, TTypeOK
<1>2. SetSoFar'
  BY DEF TIInv, SetSoFar
<1> QED
  BY <1>1, <1>2 DEF TIInv

LEMMA SetConstraintOK == TIInv /\ SetConstraint => TIInv'
<1> SUFFICES ASSUME TIInv, SetConstraint PROVE TIInv'
  OBVIOUS
<1>1. PICK b \in Told(Current) :
        /\ bounds' = bounds \cup {b} /\ position' = position + 1
        /\ UNCHANGED <<ticketStep, wanted, made, ticketReply>>
  BY DEF SetConstraint
<1>2. /\ wanted \in Requested /\ position \in Nat
      /\ position < Len(Constraints(wanted)) /\ ticketStep = "constrain"
      /\ Len(Constraints(wanted)) \in Nat
  BY ConstraintsAreCalls DEF SetConstraint, More, TIInv, TTypeOK
<1>3. position' \in 1 .. Len(Constraints(wanted))
  BY <1>1, <1>2
<1>4. ticketReply = Unanswered /\ Unanswered # Ok
  BY <1>2 DEF TIInv, Unanswered, Ok
<1>5. TTypeOK'
  BY <1>1, <1>3, <1>4 DEF TIInv, TTypeOK
<1>6. \/ Current \in bounds'
      \/ wanted.expires > SecondsMax /\ \E d \in bounds' : Current[1] = d[1]
  <2>1. CASE Current[1] = "expire" /\ Current[2] > SecondsMax
    <3>1. b[1] = Current[1]
      BY <1>1, <2>1 DEF Told
    <3>2. Current[2] = wanted.expires
      BY <1>1, <1>2, <1>3, <2>1, ConstraintsAreCalls DEF Current
    <3> QED
      BY <1>1, <2>1, <3>1, <3>2
  <2>2. CASE ~(Current[1] = "expire" /\ Current[2] > SecondsMax)
    BY <1>1, <2>2 DEF Told
  <2> QED
    BY <2>1, <2>2
<1>7. SetSoFar'
  <2> SUFFICES ASSUME NEW i \in 1 .. position'
               PROVE  LET c == Constraints(wanted)[i]
                      IN \/ c \in bounds'
                         \/ wanted.expires > SecondsMax /\ \E d \in bounds' : c[1] = d[1]
    BY <1>1 DEF SetSoFar
  <2>1. CASE i \in 1 .. position
    BY <1>1, <2>1 DEF TIInv, SetSoFar
  <2>2. CASE i = position + 1
    BY <1>6, <2>2 DEF Current
  <2> QED
    BY <1>1, <1>2, <2>1, <2>2
<1> QED
  BY <1>1, <1>2, <1>4, <1>5, <1>7 DEF TIInv

LEMMA TStepOK == TIInv /\ [TNext]_tvars => TIInv'
<1> SUFFICES ASSUME TIInv, [TNext]_tvars PROVE TIInv'
  OBVIOUS
<1>1. /\ Unanswered # Ok /\ BadRequest # Ok /\ IrodsError # Ok /\ ServerError # Ok
  BY DEF Unanswered, Ok, BadRequest, IrodsError, ServerError
<1>2. /\ made \in BOOLEAN
      /\ ticketStep # "ended" => ticketReply = Unanswered
  BY DEF TIInv, TTypeOK
<1>3. CASE CheckNames
  BY <1>1, <1>2, <1>3, TMovedOK DEF CheckNames, TSend
<1>4. CASE CreateTicket
  BY <1>1, <1>2, <1>4, TMovedOK DEF CreateTicket
<1>5. CASE CreateFails
  BY <1>1, <1>2, <1>5, TMovedOK DEF CreateFails, GiveUp, TSend
<1>6. CASE RefuseValue
  BY <1>1, <1>2, <1>6, TMovedOK DEF RefuseValue, TSend
<1>7. CASE ConstraintFails
  BY <1>1, <1>2, <1>7, TMovedOK DEF ConstraintFails, Throw, TSend
<1>8. CASE TellTicket
  <2>1. made
    BY <1>8 DEF TellTicket, TIInv
  <2> QED
    BY <1>1, <1>2, <1>8, <2>1, TMovedOK DEF TellTicket, TSend
<1>9. CASE UNCHANGED tvars
  BY <1>9 DEF tvars, TIInv, TTypeOK, SetSoFar
<1> QED
  BY <1>3, <1>4, <1>5, <1>6, <1>7, <1>8, <1>9, SetConstraintOK DEF TNext

THEOREM TInvariance == TSpec => []TIInv
  BY TInitOK, TStepOK, PTL DEF TSpec

\* Whatever parameters a request has and wherever it fails, a ticket that the
\* client is told has every constraint that was asked for.
THEOREM TicketsHaveTheirConstraints == TSpec => []TicketAsAsked
<1>1. TIInv => TicketAsAsked
  <2> SUFFICES ASSUME TIInv, ticketReply = Ok,
                      NEW i \in DOMAIN Constraints(wanted)
               PROVE  LET c == Constraints(wanted)[i]
                      IN \/ c \in bounds
                         \/ wanted.expires > SecondsMax /\ \E b \in bounds : c[1] = b[1]
    BY DEF TicketAsAsked
  <2>1. i \in 1 .. position
    BY ConstraintsAreCalls DEF TIInv, TTypeOK
  <2> QED
    BY <2>1 DEF TIInv, SetSoFar
<1> QED
  BY <1>1, TInvariance, PTL

(***************************************************************************)
(* UserStat                                                                *)
(***************************************************************************)

\* The inductive invariant: what the request saw of the bearers of the name.
\* A later bearer has a larger id, so that one with the id that was found is
\* the one that was found, and its type now is one that it had meanwhile.
SIInv ==
  /\ StatTypeOK
  /\ bearer.id <= ids
  /\ statStep \in {"user", "type", "group"} => bearer \in past
  /\ statStep = "type" =>
       /\ found # 0
       /\ NoBearer \in past \/ (bearer.id = found /\ IsUser)
  /\ statStep = "group" => NoBearer \in past \/ bearer.type = "rodsgroup"
  /\ StatWasTrue

LEMMA BearerIsTyped ==
  ASSUME NEW b \in Bearers \cup {NoBearer}
  PROVE  /\ b.id \in 0 .. MaxBearers
         /\ b = NoBearer \/ b.id # 0
         /\ b = NoBearer \/ b.type \in UserTypes \/ b.type = "rodsgroup"
         /\ NoBearer.type # "rodsgroup" /\ NoBearer.type \notin UserTypes
         /\ "rodsgroup" \notin UserTypes /\ NoBearer.id = 0
<1>1. NoBearer.type # "rodsgroup" /\ NoBearer.type \notin UserTypes
      /\ "rodsgroup" \notin UserTypes /\ NoBearer.id = 0
  BY DEF NoBearer, UserTypes
<1>2. CASE b = NoBearer
  BY <1>1, <1>2, UserStatAssumption
<1>3. CASE b \in Bearers
  BY <1>1, <1>3, UserStatAssumption DEF Bearers
<1> QED
  BY <1>2, <1>3

LEMMA SInitOK == StatInit => SIInv
<1> SUFFICES ASSUME StatInit PROVE SIInv
  OBVIOUS
<1>1. bearer = NoBearer /\ ids = 0 /\ found = 0 /\ statStep = "idle"
      /\ told = NoBearer /\ past = {}
  BY DEF StatInit
<1>2. zone \in BOOLEAN
  BY Zenon DEF StatInit
<1>3. ids \in 0 .. MaxBearers /\ found \in 0 .. ids
  BY <1>1, UserStatAssumption
<1>4. StatTypeOK
  BY <1>1, <1>2, <1>3, Zenon DEF StatTypeOK
<1>5. bearer.id <= ids
  BY <1>1 DEF NoBearer
<1>6. StatWasTrue
  BY <1>1 DEF StatWasTrue
<1> QED
  BY <1>1, <1>4, <1>5, <1>6 DEF SIInv

\* What holds when the bearer of the name is another one or another type.
LEMMA BearerChanges ==
  ASSUME SIInv, NEW b \in Bearers \cup {NoBearer}, BearerBecomes(b),
         ids' \in 0 .. MaxBearers, ids <= ids', b.id <= ids',
         \/ bearer = NoBearer
         \/ b = NoBearer
         \/ (b.id = bearer.id /\ IsUser /\ b.type \in UserTypes)
  PROVE  SIInv'
<1>1. /\ bearer' = b /\ past' = past \cup {b}
      /\ UNCHANGED <<statStep, zone, found, told>>
  BY DEF BearerBecomes
<1>2. ids \in Nat /\ ids' \in Nat /\ found \in 0 .. ids
  BY UserStatAssumption DEF SIInv, StatTypeOK
<1>3. StatTypeOK'
  <2>1. found' \in 0 .. ids'
    BY <1>1, <1>2
  <2>2. told' \in Bearers \cup {NoBearer} \cup [id : 1 .. ids', type : {Unread}]
    <3>1. 1 .. ids \subseteq 1 .. ids'
      BY <1>2
    <3>2. told \in Bearers \cup {NoBearer} \cup [id : 1 .. ids, type : {Unread}]
      BY DEF SIInv, StatTypeOK
    <3> QED
      BY <1>1, <3>1, <3>2
  <2>3. past' \in SUBSET (Bearers \cup {NoBearer})
    BY <1>1 DEF SIInv, StatTypeOK
  <2>4. /\ statStep' \in {"idle", "user", "type", "group", "told", "refused", "failed"}
        /\ bearer' \in Bearers \cup {NoBearer}
    BY <1>1 DEF SIInv, StatTypeOK
  <2>5. zone' \in BOOLEAN
    BY <1>1, Zenon DEF SIInv, StatTypeOK
  <2> QED
    BY <2>1, <2>2, <2>3, <2>4, <2>5, Zenon DEF StatTypeOK
<1>4. bearer'.id <= ids' /\ bearer' \in past'
  BY <1>1
<1>5. ASSUME statStep' \in {"type", "group"}
      PROVE  \/ NoBearer \in past'
             \/ (b.id = bearer.id /\ IsUser /\ b.type \in UserTypes)
  <2>1. bearer \in past
    BY <1>1, <1>5 DEF SIInv
  <2> QED
    BY <1>1, <2>1
<1>6. ASSUME statStep' = "type"
      PROVE  found' # 0 /\ (NoBearer \in past' \/ (bearer'.id = found' /\ IsUser'))
  <2>1. statStep = "type"
    BY <1>1, <1>6
  <2>2. found # 0 /\ (NoBearer \in past \/ bearer.id = found)
    BY <2>1 DEF SIInv
  <2>3. CASE NoBearer \in past'
    BY <1>1, <2>2, <2>3
  <2>4. CASE NoBearer \notin past'
    <3>1. bearer.id = found
      BY <1>1, <2>2, <2>4
    <3>2. b.id = bearer.id /\ b.type \in UserTypes
      BY <1>5, <1>6, <2>4
    <3>3. IsUser'
      BY <1>1, <3>2 DEF IsUser
    <3> QED
      BY <1>1, <2>2, <3>1, <3>2, <3>3
  <2> QED
    BY <2>3, <2>4
<1>7. ASSUME statStep' = "group"
      PROVE  NoBearer \in past' \/ bearer'.type = "rodsgroup"
  <2>1. statStep = "group"
    BY <1>1, <1>7
  <2>2. bearer.type = "rodsgroup" => ~IsUser
    BY BearerIsTyped DEF IsUser
  <2> QED
    BY <1>1, <1>5, <1>7, <2>1, <2>2 DEF SIInv
<1>8. StatWasTrue'
  <2>1. StatWasTrue
    BY DEF SIInv
  <2> QED
    BY <1>1, <2>1 DEF StatWasTrue
<1> QED
  BY <1>3, <1>4, <1>6, <1>7, <1>8 DEF SIInv

LEMMA BearersOK == SIInv /\ (AddBearer \/ RemoveBearer \/ SetType) => SIInv'
<1> SUFFICES ASSUME SIInv PROVE AddBearer \/ RemoveBearer \/ SetType => SIInv'
  OBVIOUS
<1>1. ids \in 0 .. MaxBearers /\ bearer.id <= ids /\ MaxBearers \in Nat
      /\ bearer \in Bearers \cup {NoBearer}
  BY UserStatAssumption DEF SIInv, StatTypeOK
<1>2. ASSUME AddBearer PROVE SIInv'
  <2>1. PICK t \in UserTypes \cup {"rodsgroup"} :
          bearer = NoBearer /\ ids < MaxBearers /\ ids' = ids + 1
          /\ BearerBecomes([id |-> ids + 1, type |-> t])
    BY <1>2 DEF AddBearer
  <2> DEFINE b == [id |-> ids + 1, type |-> t]
  <2>2. b \in Bearers \cup {NoBearer} /\ b.id <= ids' /\ ids <= ids'
        /\ ids' \in 0 .. MaxBearers
    BY <1>1, <2>1 DEF Bearers
  <2> QED
    BY <2>1, <2>2, BearerChanges
<1>3. ASSUME RemoveBearer PROVE SIInv'
  <2>1. BearerBecomes(NoBearer) /\ ids' = ids
    BY <1>3 DEF RemoveBearer
  <2>2. NoBearer.id <= ids' /\ ids <= ids' /\ ids' \in 0 .. MaxBearers
    BY <1>1, <2>1 DEF NoBearer
  <2> QED
    BY <2>1, <2>2, BearerChanges
<1>4. ASSUME SetType PROVE SIInv'
  <2>1. PICK t \in UserTypes :
          bearer.type \in UserTypes /\ BearerBecomes([bearer EXCEPT !.type = t])
          /\ ids' = ids
    BY <1>4 DEF SetType
  <2> DEFINE b == [bearer EXCEPT !.type = t]
  <2>2. bearer \in Bearers
    BY <1>1, <2>1, BearerIsTyped
  <2>3. b \in Bearers /\ b.id = bearer.id /\ b.type \in UserTypes
    BY <2>1, <2>2 DEF Bearers
  <2>4. b.id <= ids' /\ ids <= ids' /\ ids' \in 0 .. MaxBearers
    BY <1>1, <2>1, <2>3
  <2> HIDE DEF b
  <2>5. BearerBecomes(b)
    BY <2>1 DEF b
  <2> QED
    BY <2>1, <2>3, <2>4, <2>5, BearerChanges DEF IsUser
<1> QED
  BY <1>2, <1>3, <1>4

LEMMA StartStatOK == SIInv /\ StartStat => SIInv'
<1> SUFFICES ASSUME SIInv, StartStat PROVE SIInv'
  OBVIOUS
<1>1. statStep' = "user" /\ past' = {bearer} /\ UNCHANGED <<bearer, ids, zone, found, told>>
  BY DEF StartStat
<1>2. StatTypeOK'
  BY <1>1 DEF SIInv, StatTypeOK
<1>3. StatWasTrue'
  BY <1>1 DEF StatWasTrue
<1> QED
  BY <1>1, <1>2, <1>3 DEF SIInv

\* A request that ends with an error tells nothing.
LEMMA StatErrorOK == SIInv /\ (RefuseStat \/ StatFails) => SIInv'
<1> SUFFICES ASSUME SIInv, RefuseStat \/ StatFails PROVE SIInv'
  OBVIOUS
<1>1. /\ statStep' \in {"refused", "failed"}
      /\ UNCHANGED <<bearer, ids, zone, found, told, past>>
  BY DEF RefuseStat, StatFails
<1>2. StatTypeOK'
  BY <1>1 DEF SIInv, StatTypeOK
<1>3. StatWasTrue'
  BY <1>1 DEF StatWasTrue
<1> QED
  BY <1>1, <1>2, <1>3 DEF SIInv

\* A request's step that leaves the bearers alone, to another query.
LEMMA GoesOn ==
  ASSUME SIInv, UNCHANGED <<bearer, ids, zone, past, told>>, bearer \in past,
         statStep' \in {"type", "group"}, found' \in 0 .. ids,
         statStep' = "type" =>
           found' # 0 /\ (NoBearer \in past \/ (bearer.id = found' /\ IsUser)),
         statStep' = "group" => NoBearer \in past \/ bearer.type = "rodsgroup"
  PROVE  SIInv'
<1>1. StatTypeOK'
  BY DEF SIInv, StatTypeOK
<1>2. StatWasTrue'
  BY DEF StatWasTrue
<1> QED
  BY <1>1, <1>2 DEF SIInv, IsUser

\* An answer that was true.
LEMMA Tells ==
  ASSUME SIInv, UNCHANGED <<bearer, ids, zone, found, past>>, bearer \in past,
         statStep' = "told",
         told' \in Bearers \cup {NoBearer} \cup [id : 1 .. ids, type : {Unread}],
         \/ told' \in past
         \/ told' = NoBearer /\ zone /\ \E b \in past : b.type = "rodsgroup"
         \/ told'.id # 0 /\ NoBearer \in past
  PROVE  SIInv'
<1>1. StatTypeOK'
  BY DEF SIInv, StatTypeOK
<1>2. StatWasTrue'
  BY DEF StatWasTrue
<1> QED
  BY <1>1, <1>2 DEF SIInv

LEMMA StatRequestOK == SIInv /\ (FindUser \/ FindType \/ FindGroup) => SIInv'
<1> SUFFICES ASSUME SIInv PROVE FindUser \/ FindType \/ FindGroup => SIInv'
  OBVIOUS
<1>1. /\ bearer \in Bearers \cup {NoBearer}
      /\ ids \in 0 .. MaxBearers /\ MaxBearers \in Nat /\ found \in 0 .. ids
      /\ bearer.id <= ids
  BY UserStatAssumption DEF SIInv, StatTypeOK
<1>2. /\ bearer.id \in 0 .. MaxBearers
      /\ bearer = NoBearer \/ bearer.id # 0
      /\ bearer = NoBearer \/ IsUser \/ bearer.type = "rodsgroup"
      /\ NoBearer.type \notin UserTypes
  BY <1>1, BearerIsTyped DEF IsUser
<1>3. ASSUME FindUser PROVE SIInv'
  <2>1. statStep = "user" /\ UNCHANGED <<bearer, ids, zone, past>> /\ bearer \in past
    BY <1>3 DEF FindUser, SIInv
  <2>2. CASE IsUser
    <3>1. statStep' = "type" /\ found' = bearer.id /\ told' = told
      BY <1>3, <2>2 DEF FindUser
    <3>2. found' \in 0 .. ids /\ found' # 0
      BY <1>1, <1>2, <2>2, <3>1 DEF IsUser
    <3> QED
      BY <2>1, <2>2, <3>1, <3>2, GoesOn
  <2>3. CASE ~IsUser /\ zone
    <3>1. statStep' = "told" /\ told' = NoBearer /\ found' = found
      BY <1>3, <2>3 DEF FindUser, NoSuchUser, Tell
    <3>2. told' \in past \/ \E b \in past : b.type = "rodsgroup"
      BY <1>2, <2>1, <2>3, <3>1
    <3> QED
      BY <2>1, <2>3, <3>1, <3>2, Tells
  <2>4. CASE ~IsUser /\ ~zone
    <3>1. statStep' = "group" /\ told' = told /\ found' = found
      BY <1>3, <2>4 DEF FindUser, NoSuchUser
    <3>2. NoBearer \in past \/ bearer.type = "rodsgroup"
      BY <1>2, <2>1, <2>4
    <3> QED
      BY <1>1, <2>1, <3>1, <3>2, GoesOn
  <2>5. IsUser \/ ~IsUser
    OBVIOUS
  <2>6. zone \/ ~zone
    OBVIOUS
  <2> QED
    BY <2>2, <2>3, <2>4, <2>5, <2>6
<1>4. ASSUME FindType PROVE SIInv'
  <2> DEFINE type == IF bearer.type \in UserTypes THEN bearer.type ELSE Unread
  <2>1. statStep = "type" /\ UNCHANGED <<bearer, ids, zone, past, found>> /\ bearer \in past
        /\ statStep' = "told" /\ told' = [id |-> found, type |-> type]
        /\ found # 0 /\ (NoBearer \in past \/ (bearer.id = found /\ IsUser))
    BY <1>4 DEF FindType, Tell, SIInv
  <2>2. found \in 1 .. ids /\ found \in 1 .. MaxBearers /\ told'.id # 0
    BY <1>1, <2>1
  <2>3. told' \in Bearers \cup [id : 1 .. ids, type : {Unread}]
    BY <2>1, <2>2 DEF Bearers
  <2>4. told' \in past \/ NoBearer \in past
    <3>1. SUFFICES ASSUME bearer.id = found, IsUser PROVE told' \in past
      BY <2>1
    <3>2. bearer \in Bearers
      BY <1>1, <1>2, <3>1 DEF IsUser
    <3>3. told' = bearer
      BY <2>1, <3>1, <3>2 DEF IsUser, Bearers
    <3> QED
      BY <2>1, <3>3
  <2> QED
    BY <2>1, <2>2, <2>3, <2>4, Tells
<1>5. ASSUME FindGroup PROVE SIInv'
  <2>1. /\ statStep = "group" /\ UNCHANGED <<bearer, ids, zone, past, found>>
        /\ bearer \in past /\ statStep' = "told"
        /\ told' = IF bearer.type = "rodsgroup" THEN bearer ELSE NoBearer
        /\ NoBearer \in past \/ bearer.type = "rodsgroup"
    BY <1>5 DEF FindGroup, Tell, SIInv
  <2>2. told' \in Bearers \cup {NoBearer} /\ told' \in past
    BY <1>1, <2>1
  <2> QED
    BY <2>1, <2>2, Tells
<1> QED
  BY <1>3, <1>4, <1>5

LEMMA SStepOK == SIInv /\ [StatNext]_statVars => SIInv'
<1>1. SIInv /\ UNCHANGED statVars => SIInv'
  BY DEF SIInv, StatTypeOK, StatWasTrue, IsUser, statVars
<1> QED
  BY <1>1, BearersOK, StartStatOK, StatErrorOK, StatRequestOK DEF StatNext

THEOREM SInvariance == StatSpec => []SIInv
  BY SInitOK, SStepOK, PTL DEF StatSpec

\* However many users and groups have the name one after the other, the
\* answer of a stat was true at some moment of the request.
THEOREM StatsWereTrue == StatSpec => []StatWasTrue
<1>1. SIInv => StatWasTrue
  BY DEF SIInv
<1> QED
  BY <1>1, SInvariance, PTL

(***************************************************************************)
(* QueryPaging                                                             *)
(***************************************************************************)

Behind == FromZero(offset)

\* The elements of s, and those behind position m.
Elements(s) == {s[i] : i \in 1 .. Len(s)}

From(s, m) == {s[i] : i \in {k \in 1 .. Len(s) : m < k}}

Distinct(s) == \A i, j \in 1 .. Len(s) : s[i] = s[j] => i = j

\* The rows that are still to come for the client, and those of its own that are
\* not, and that it did not get, either.
Ahead == From(rows, Behind)

Missed == (first \ lost) \ (Elements(got) \cup Ahead)

RowsOK ==
  /\ Len(rows) <= came
  /\ Distinct(rows)
  /\ \A i \in 1 .. Len(rows) : rows[i] \notin lost

GotOK == Len(got) + Cardinality(Elements(got) \cap Ahead) <= Cardinality(Elements(got)) + early

MissedOK == Cardinality(Missed) <= Cardinality(lost)

ReadOK == AllRead => Cardinality((first \ lost) \ Elements(got)) <= Cardinality(lost)

\* The inductive invariant: a row that the client gets again, or will get again,
\* was moved behind the offset by one that came, and one that it will not get
\* was moved before it by one that went.
PIInv == PTypeOK /\ RowsOK /\ GotOK /\ MissedOK /\ ReadOK

-----------------------------------------------------------------------------
(* Sets and sequences *)

LEMMA OneMoreAtMost ==
  ASSUME NEW A, IsFiniteSet(A), NEW x, NEW B, B \subseteq A \cup {x}
  PROVE  /\ IsFiniteSet(B) /\ Cardinality(B) \in Nat /\ Cardinality(A) \in Nat
         /\ Cardinality(B) <= Cardinality(A) + 1
<1>1. IsFiniteSet(A \cup {x}) /\ Cardinality(A \cup {x}) <= Cardinality(A) + 1
      /\ Cardinality(A) \in Nat /\ Cardinality(A \cup {x}) \in Nat
  <2>1. IsFiniteSet(A \cup {x}) /\ Cardinality(A) \in Nat
    BY FS_AddElement, FS_CardinalityType
  <2>2. Cardinality(A \cup {x}) = IF x \in A THEN Cardinality(A) ELSE Cardinality(A) + 1
    BY FS_AddElement
  <2> QED
    BY <2>1, <2>2
<1>2. IsFiniteSet(B) /\ Cardinality(B) <= Cardinality(A \cup {x})
  BY <1>1, FS_Subset
<1>3. Cardinality(B) \in Nat
  BY <1>2, FS_CardinalityType
<1> QED
  BY <1>1, <1>2, <1>3

\* The rows B are those of a page P and others, C.
Splits(B, C, P) == B = C \cup P /\ C \cap P = {}

\* What a page P of the rows B adds to those in G, and takes from those that are
\* in both.
Counted(G, B, C, P) ==
  Cardinality(G \cup P) + Cardinality(G \cap B)
    = Cardinality(G) + Cardinality(P) + Cardinality((G \cup P) \cap C)

LEMMA PageIsCounted ==
  ASSUME NEW G, NEW P, NEW B, NEW C, IsFiniteSet(G), IsFiniteSet(P), IsFiniteSet(C),
         Splits(B, C, P)
  PROVE  Counted(G, B, C, P)
<1>1. Cardinality(G \cup P) = Cardinality(G) + Cardinality(P) - Cardinality(G \cap P)
  BY FS_Union
<1>2. IsFiniteSet(G \cap C) /\ IsFiniteSet(G \cap P)
  BY FS_Intersection
<1>3. G \cap B = (G \cap C) \cup (G \cap P) /\ (G \cap C) \cap (G \cap P) = {}
      /\ (G \cup P) \cap C = G \cap C
  BY DEF Splits
<1>4. Cardinality((G \cap C) \cup (G \cap P))
        = Cardinality(G \cap C) + Cardinality(G \cap P)
          - Cardinality((G \cap C) \cap (G \cap P))
  BY <1>2, FS_Union
<1>5. Cardinality(G \cap B) = Cardinality(G \cap C) + Cardinality(G \cap P) - Cardinality({})
  BY <1>3, <1>4, Zenon
<1>6. Cardinality({}) = 0
  BY FS_EmptySet
<1>7. /\ Cardinality(G) \in Nat /\ Cardinality(P) \in Nat
      /\ Cardinality(G \cap C) \in Nat /\ Cardinality(G \cap P) \in Nat
  BY <1>2, FS_CardinalityType
<1>8. Cardinality((G \cup P) \cap C) = Cardinality(G \cap C)
  BY <1>3, Zenon
<1> QED
  BY <1>1, <1>5, <1>6, <1>7, <1>8 DEF Counted

LEMMA DistinctAreCounted ==
  ASSUME NEW S, NEW p \in Seq(S), Distinct(p)
  PROVE  IsFiniteSet(Elements(p)) /\ Cardinality(Elements(p)) = Len(p)
<1>1. PICK n \in Nat : n = Len(p)
  OBVIOUS
<1> DEFINE f == [i \in 1 .. n |-> p[i]]
<1>2. f \in [1 .. n -> Elements(p)]
  BY <1>1 DEF Elements
<1>3. IsInjective(f)
  BY <1>1 DEF IsInjective, Distinct
<1>4. \A t \in Elements(p) : \E i \in 1 .. n : f[i] = t
  BY <1>1 DEF Elements
<1> HIDE DEF f
<1>5. f \in Bijection(1 .. n, Elements(p))
  BY <1>2, <1>3, <1>4 DEF Bijection, Injection, Surjection
<1>6. ExistsBijection(1 .. n, Elements(p))
  BY <1>5 DEF ExistsBijection
<1>7. IsFiniteSet(Elements(p))
  BY <1>6, FS_NatBijection
<1>8. Cardinality(Elements(p)) = n
  BY <1>6, FS_CountingElements
<1> QED
  BY <1>1, <1>7, <1>8

\* The elements of p are those of s behind position m.
Follows(p, s, m) == \A k \in 1 .. Len(p) : p[k] = s[m + k]

\* q has the n elements of s behind position m, which are in S.
IsPart(q, S, s, m, n) == q \in Seq(S) /\ Len(q) = n /\ Follows(q, s, m)

LEMMA SubSeqIsThere ==
  ASSUME NEW S, NEW s \in Seq(S), NEW m \in Nat, NEW n \in Nat, m + n <= Len(s),
         NEW q, q = SubSeq(s, m + 1, m + n)
  PROVE  IsPart(q, S, s, m, n)
<1>1. \A i \in m + 1 .. m + n : s[i] \in S
  OBVIOUS
<1>2. SubSeq(s, m + 1, m + n) \in Seq(S)
  BY <1>1
<1>3. Len(SubSeq(s, m + 1, m + n)) = n
  OBVIOUS
<1>4. \A k \in 1 .. n : SubSeq(s, m + 1, m + n)[k] = s[m + k]
  OBVIOUS
<1> QED
  BY <1>2, <1>3, <1>4, Zenon DEF IsPart, Follows

-----------------------------------------------------------------------------
(* A row that comes *)

\* A sequence with x as its new element i.
With(s, i, x) == SubSeq(s, 1, i - 1) \o <<x>> \o SubSeq(s, i, Len(s))

\* The elements of r are x at i, and those of s around it.
MadeRoom(r, s, i, x) ==
  /\ r[i] = x
  /\ \A k \in 1 .. Len(s) : (k < i => r[k] = s[k]) /\ (i <= k => r[k + 1] = s[k])

LEMMA WithOne ==
  ASSUME NEW S, NEW s \in Seq(S), NEW i \in 1 .. Len(s) + 1, NEW x \in S,
         NEW r, r = With(s, i, x)
  PROVE  r \in Seq(S) /\ Len(r) = Len(s) + 1 /\ MadeRoom(r, s, i, x)
<1>1. Len(s) \in Nat /\ i - 1 \in Nat /\ Len(s) - (i - 1) \in Nat /\ i \in Nat /\ 0 \in Nat
  OBVIOUS
<1> DEFINE a == SubSeq(s, 0 + 1, 0 + (i - 1))
           b == SubSeq(s, (i - 1) + 1, (i - 1) + (Len(s) - (i - 1)))
           c == a \o <<x>>
<1>2. IsPart(a, S, s, 0, i - 1)
  <2>1. 0 + (i - 1) <= Len(s)
    BY <1>1
  <2> HIDE DEF a, b, c
  <2>2. a = SubSeq(s, 0 + 1, 0 + (i - 1))
    BY DEF a
  <2> QED
    BY <1>1, <2>1, <2>2, SubSeqIsThere
<1>3. IsPart(b, S, s, i - 1, Len(s) - (i - 1))
  <2>1. (i - 1) + (Len(s) - (i - 1)) <= Len(s)
    BY <1>1
  <2> HIDE DEF a, b, c
  <2>2. b = SubSeq(s, (i - 1) + 1, (i - 1) + (Len(s) - (i - 1)))
    BY DEF b
  <2> QED
    BY <1>1, <2>1, <2>2, SubSeqIsThere
<1>4. r = c \o b
  <2>1. 0 + 1 = 1 /\ 0 + (i - 1) = i - 1 /\ (i - 1) + 1 = i
        /\ (i - 1) + (Len(s) - (i - 1)) = Len(s)
    BY <1>1
  <2> QED
    BY <2>1 DEF With
<1>5. <<x>> \in Seq(S) /\ Len(<<x>>) = 1 /\ <<x>>[1] = x
  OBVIOUS
<1> HIDE DEF a, b
<1>p. /\ a \in Seq(S) /\ Len(a) = i - 1 /\ Follows(a, s, 0)
      /\ b \in Seq(S) /\ Len(b) = Len(s) - (i - 1) /\ Follows(b, s, i - 1)
  BY <1>2, <1>3 DEF IsPart
<1>6. /\ c \in Seq(S) /\ Len(c) = i
      /\ \A k \in 1 .. i : c[k] = IF k <= i - 1 THEN a[k] ELSE x
  <2>1. /\ a \o <<x>> \in Seq(S) /\ Len(a \o <<x>>) = Len(a) + Len(<<x>>)
        /\ \A k \in 1 .. Len(a) + Len(<<x>>) :
             (a \o <<x>>)[k] = IF k <= Len(a) THEN a[k] ELSE <<x>>[k - Len(a)]
    BY <1>5, <1>p, ConcatProperties, Zenon
  <2>2. Len(a) + Len(<<x>>) = i
    BY <1>1, <1>5, <1>p
  <2>3. ASSUME NEW k \in 1 .. i PROVE c[k] = IF k <= i - 1 THEN a[k] ELSE x
    <3>1. c[k] = IF k <= i - 1 THEN a[k] ELSE <<x>>[k - (i - 1)]
      BY <1>p, <2>1, <2>2, Zenon
    <3>2. ~(k <= i - 1) => k - (i - 1) = 1
      BY <1>1
    <3> QED
      BY <1>5, <3>1, <3>2
  <2> QED
    BY <2>1, <2>2, <2>3, Zenon
<1> HIDE DEF c
<1>7. /\ r \in Seq(S) /\ Len(r) = Len(c) + Len(b)
      /\ \A k \in 1 .. Len(c) + Len(b) :
           r[k] = IF k <= Len(c) THEN c[k] ELSE b[k - Len(c)]
  <2>1. /\ c \o b \in Seq(S) /\ Len(c \o b) = Len(c) + Len(b)
        /\ \A k \in 1 .. Len(c) + Len(b) :
             (c \o b)[k] = IF k <= Len(c) THEN c[k] ELSE b[k - Len(c)]
    BY <1>6, <1>p, ConcatProperties, Zenon
  <2> QED
    BY <1>4, <2>1, Zenon
<1>8. Len(c) + Len(b) = Len(s) + 1 /\ Len(c) = i
  BY <1>1, <1>6, <1>p
<1>9. r[i] = x
  <2>1. i \in 1 .. Len(c) + Len(b) /\ i <= Len(c) /\ i \in 1 .. i /\ ~(i <= i - 1)
    BY <1>1, <1>8
  <2> QED
    BY <1>6, <1>7, <2>1
<1>10. ASSUME NEW k \in 1 .. Len(s), k < i PROVE r[k] = s[k]
  <2>1. /\ k \in 1 .. Len(c) + Len(b) /\ k <= Len(c) /\ k \in 1 .. i /\ k <= i - 1
        /\ k \in 1 .. Len(a) /\ 0 + k = k
    BY <1>1, <1>8, <1>10, <1>p
  <2>2. r[k] = a[k]
    BY <1>6, <1>7, <2>1
  <2> QED
    BY <1>p, <2>1, <2>2 DEF Follows
<1>11. ASSUME NEW k \in 1 .. Len(s), i <= k PROVE r[k + 1] = s[k]
  <2>1. /\ k + 1 \in 1 .. Len(c) + Len(b) /\ ~(k + 1 <= Len(c))
        /\ (k + 1) - Len(c) = k - (i - 1)
        /\ k - (i - 1) \in 1 .. Len(b) /\ (i - 1) + (k - (i - 1)) = k
    BY <1>1, <1>8, <1>11, <1>p
  <2>2. r[k + 1] = b[k - (i - 1)]
    <3>1. r[k + 1] = b[(k + 1) - Len(c)]
      BY <1>7, <2>1, Zenon
    <3> QED
      BY <2>1, <3>1, Zenon
  <2> QED
    BY <1>p, <2>1, <2>2 DEF Follows
<1>12. Len(r) = Len(s) + 1
  BY <1>7, <1>8, Zenon
<1> QED
  BY <1>7, <1>9, <1>10, <1>11, <1>12 DEF MadeRoom

\* Where the elements of the longer sequence come from.
LEMMA RoomIsFilled ==
  ASSUME NEW s, Len(s) \in Nat, NEW i \in 1 .. Len(s) + 1, NEW x, NEW r,
         MadeRoom(r, s, i, x), NEW k \in 1 .. Len(s) + 1
  PROVE  \/ k < i /\ k \in 1 .. Len(s) /\ r[k] = s[k]
         \/ k = i /\ r[k] = x
         \/ i < k /\ k - 1 \in 1 .. Len(s) /\ r[k] = s[k - 1]
<1>1. CASE k < i
  <2>1. k \in 1 .. Len(s)
    BY <1>1
  <2> QED
    BY <1>1, <2>1 DEF MadeRoom
<1>2. CASE k = i
  BY <1>2 DEF MadeRoom
<1>3. CASE i < k
  <2>1. k - 1 \in 1 .. Len(s) /\ i <= k - 1 /\ (k - 1) + 1 = k
    BY <1>3
  <2>2. r[(k - 1) + 1] = s[k - 1]
    BY <2>1 DEF MadeRoom
  <2> QED
    BY <1>3, <2>1, <2>2
<1> QED
  BY <1>1, <1>2, <1>3

\* A new element before m moves one more behind m; one behind m is there itself.
LEMMA RoomBehind ==
  ASSUME NEW s, Len(s) \in Nat, NEW i \in 1 .. Len(s) + 1, NEW x, NEW r,
         Len(r) = Len(s) + 1, MadeRoom(r, s, i, x), NEW m \in Nat
  PROVE  /\ From(s, m) \subseteq From(r, m)
         /\ From(r, m) \subseteq From(s, m) \cup {IF i <= m THEN s[m] ELSE x}
<1>1. ASSUME NEW k \in 1 .. Len(s), m < k PROVE s[k] \in From(r, m)
  <2>1. CASE k < i
    <3>1. k \in 1 .. Len(r) /\ r[k] = s[k]
      BY <2>1 DEF MadeRoom
    <3> QED
      BY <1>1, <3>1 DEF From
  <2>2. CASE i <= k
    <3>1. k + 1 \in 1 .. Len(r) /\ m < k + 1 /\ r[k + 1] = s[k]
      BY <1>1, <2>2 DEF MadeRoom
    <3> QED
      BY <3>1 DEF From
  <2> QED
    BY <2>1, <2>2
<1>2. ASSUME NEW k \in 1 .. Len(r), m < k
      PROVE  r[k] \in From(s, m) \cup {IF i <= m THEN s[m] ELSE x}
  <2>1. k \in 1 .. Len(s) + 1
    OBVIOUS
  <2>2. CASE k < i /\ k \in 1 .. Len(s) /\ r[k] = s[k]
    BY <1>2, <2>2 DEF From
  <2>3. CASE k = i /\ r[k] = x
    <3>1. ~(i <= m)
      BY <1>2, <2>3
    <3> QED
      BY <2>3, <3>1
  <2>4. CASE i < k /\ k - 1 \in 1 .. Len(s) /\ r[k] = s[k - 1]
    <3>1. CASE m < k - 1
      BY <2>4, <3>1 DEF From
    <3>2. CASE ~(m < k - 1)
      <4>1. k - 1 = m /\ i <= m
        BY <1>2, <2>4, <3>2
      <4> QED
        BY <2>4, <4>1
    <3> QED
      BY <3>1, <3>2
  <2> QED
    BY <2>1, <2>2, <2>3, <2>4, RoomIsFilled
<1>3. From(s, m) \subseteq From(r, m)
  BY <1>1 DEF From
<1>4. From(r, m) \subseteq From(s, m) \cup {IF i <= m THEN s[m] ELSE x}
  BY <1>2 DEF From
<1> QED
  BY <1>3, <1>4

-----------------------------------------------------------------------------
(* A row that goes *)

\* A sequence without its element i.
Without(s, i) == SubSeq(s, 1, i - 1) \o SubSeq(s, i + 1, Len(s))

\* The elements of r are those of s, from i on those that come next.
Shifted(r, s, i) ==
  \A k \in 1 .. Len(s) - 1 :
    (k < i => r[k] = s[k]) /\ (i <= k => r[k] = s[k + 1])

LEMMA WithoutOne ==
  ASSUME NEW S, NEW s \in Seq(S), NEW i \in 1 .. Len(s), NEW r, r = Without(s, i)
  PROVE  /\ r \in Seq(S) /\ Len(r) = Len(s) - 1 /\ DOMAIN r = 1 .. Len(s) - 1
         /\ Shifted(r, s, i)
<1>1. Len(s) \in Nat /\ i - 1 \in Nat /\ Len(s) - i \in Nat /\ i \in Nat /\ 0 \in Nat
      /\ \A k \in 1 .. Len(s) : s[k] \in S
  OBVIOUS
<1> DEFINE a == SubSeq(s, 0 + 1, 0 + (i - 1))
           b == SubSeq(s, i + 1, i + (Len(s) - i))
<1>2. IsPart(a, S, s, 0, i - 1)
  <2>1. 0 + (i - 1) <= Len(s)
    BY <1>1
  <2> HIDE DEF a, b
  <2>2. a = SubSeq(s, 0 + 1, 0 + (i - 1))
    BY DEF a
  <2> QED
    BY <1>1, <2>1, <2>2, SubSeqIsThere
<1>3. IsPart(b, S, s, i, Len(s) - i)
  <2>1. i + (Len(s) - i) <= Len(s)
    BY <1>1
  <2> HIDE DEF a, b
  <2>2. b = SubSeq(s, i + 1, i + (Len(s) - i))
    BY DEF b
  <2> QED
    BY <1>1, <2>1, <2>2, SubSeqIsThere
<1>4. r = a \o b
  <2>1. 0 + 1 = 1 /\ 0 + (i - 1) = i - 1 /\ i + (Len(s) - i) = Len(s)
    BY <1>1
  <2> QED
    BY <2>1 DEF Without
<1> HIDE DEF a, b
<1>p. /\ a \in Seq(S) /\ Len(a) = i - 1 /\ Follows(a, s, 0)
      /\ b \in Seq(S) /\ Len(b) = Len(s) - i /\ Follows(b, s, i)
  BY <1>2, <1>3 DEF IsPart
<1>5. /\ a \o b \in Seq(S) /\ Len(a \o b) = Len(a) + Len(b)
      /\ \A k \in 1 .. Len(a) + Len(b) :
           (a \o b)[k] = IF k <= Len(a) THEN a[k] ELSE b[k - Len(a)]
  BY <1>p, ConcatProperties, Zenon
<1>6. /\ r \in Seq(S) /\ Len(r) = Len(a) + Len(b)
      /\ \A k \in 1 .. Len(a) + Len(b) :
           r[k] = IF k <= Len(a) THEN a[k] ELSE b[k - Len(a)]
  BY <1>4, <1>5, Zenon
<1>7. Len(a) = i - 1 /\ Len(b) = Len(s) - i /\ Len(a) + Len(b) = Len(s) - 1
      /\ Len(a) \in Nat
  BY <1>1, <1>p
<1>8. Len(r) = Len(s) - 1 /\ DOMAIN r = 1 .. Len(s) - 1
  <2>1. DOMAIN r = 1 .. Len(r)
    BY <1>6
  <2>2. Len(r) = Len(s) - 1
    BY <1>6, <1>7, Zenon
  <2> QED
    BY <2>1, <2>2, Zenon
<1>9. ASSUME NEW k \in 1 .. Len(s) - 1, k < i PROVE r[k] = s[k]
  <2>1. k \in 1 .. i - 1 /\ 0 + k = k /\ k <= Len(a) /\ k \in 1 .. Len(a) + Len(b)
    BY <1>1, <1>7, <1>9
  <2>2. r[k] = a[k]
    BY <1>6, <2>1
  <2> QED
    BY <1>p, <2>1, <2>2 DEF Follows
<1>10. ASSUME NEW k \in 1 .. Len(s) - 1, i <= k PROVE r[k] = s[k + 1]
  <2>1. /\ k - (i - 1) \in 1 .. Len(s) - i /\ i + (k - (i - 1)) = k + 1
        /\ ~(k <= Len(a)) /\ k \in 1 .. Len(a) + Len(b)
    BY <1>1, <1>7, <1>10
  <2>2. r[k] = b[k - (i - 1)]
    BY <1>6, <1>7, <2>1
  <2>3. b[k - (i - 1)] = s[i + (k - (i - 1))]
    BY <1>p, <2>1 DEF Follows
  <2> QED
    BY <2>1, <2>2, <2>3
<1> QED
  BY <1>6, <1>8, <1>9, <1>10 DEF Shifted

\* The elements behind m are those that were there, but for one.
LEMMA ShiftedBehind ==
  ASSUME NEW s, Len(s) \in Nat, NEW i \in 1 .. Len(s), NEW r,
         Len(r) = Len(s) - 1, Shifted(r, s, i), NEW m \in Nat
  PROVE  /\ From(r, m) \subseteq From(s, m)
         /\ From(s, m) \subseteq From(r, m) \cup {IF i <= m THEN s[m + 1] ELSE s[i]}
<1>1. ASSUME NEW k \in 1 .. Len(r), m < k PROVE r[k] \in From(s, m)
  <2>1. k \in 1 .. Len(s) - 1 /\ k \in 1 .. Len(s) /\ k + 1 \in 1 .. Len(s) /\ m < k + 1
    BY <1>1
  <2>2. r[k] = s[k] \/ r[k] = s[k + 1]
    BY <2>1 DEF Shifted
  <2> QED
    BY <1>1, <2>1, <2>2 DEF From
<1>2. ASSUME NEW k \in 1 .. Len(s), m < k
      PROVE  s[k] \in From(r, m) \cup {IF i <= m THEN s[m + 1] ELSE s[i]}
  <2>1. CASE k < i
    <3>1. k \in 1 .. Len(r) /\ r[k] = s[k]
      BY <2>1 DEF Shifted
    <3> QED
      BY <1>2, <3>1 DEF From
  <2>2. CASE k = i
    <3>1. ~(i <= m)
      BY <1>2, <2>2
    <3> QED
      BY <2>2, <3>1
  <2>3. CASE i < k
    <3>1. k - 1 \in 1 .. Len(s) - 1 /\ i <= k - 1 /\ (k - 1) + 1 = k
      BY <2>3
    <3>2. k - 1 \in 1 .. Len(r) /\ r[k - 1] = s[(k - 1) + 1]
      BY <3>1 DEF Shifted
    <3>3. CASE m < k - 1
      BY <3>1, <3>2, <3>3 DEF From
    <3>4. CASE ~(m < k - 1)
      <4>1. k = m + 1 /\ i <= m
        BY <1>2, <2>3, <3>4
      <4> QED
        BY <4>1
    <3> QED
      BY <3>3, <3>4
  <2> QED
    BY <2>1, <2>2, <2>3
<1>3. From(r, m) \subseteq From(s, m)
  BY <1>1 DEF From
<1>4. From(s, m) \subseteq From(r, m) \cup {IF i <= m THEN s[m + 1] ELSE s[i]}
  BY <1>2 DEF From
<1> QED
  BY <1>3, <1>4

\* The elements of r are elements of s, none of them the one at i.
OthersOf(r, s, i) ==
  \A k \in 1 .. Len(r) : \E j \in 1 .. Len(s) : j # i /\ r[k] = s[j]

\* What is left is distinct, and not the one that went.
LEMMA ShiftedDistinct ==
  ASSUME NEW s, Len(s) \in Nat, NEW i \in 1 .. Len(s), NEW r,
         Len(r) = Len(s) - 1, Shifted(r, s, i), Distinct(s)
  PROVE  Distinct(r) /\ OthersOf(r, s, i)
<1> DEFINE At(k) == IF k < i THEN k ELSE k + 1
<1>1. ASSUME NEW k \in 1 .. Len(r)
      PROVE  At(k) \in 1 .. Len(s) /\ At(k) # i /\ r[k] = s[At(k)]
  <2>1. k \in 1 .. Len(s) - 1 /\ (k < i \/ i <= k)
    OBVIOUS
  <2>2. CASE k < i
    BY <2>1, <2>2 DEF Shifted
  <2>3. CASE i <= k
    BY <2>1, <2>3 DEF Shifted
  <2> QED
    BY <2>1, <2>2, <2>3
<1>2. ASSUME NEW j \in 1 .. Len(r), NEW k \in 1 .. Len(r), At(j) = At(k) PROVE j = k
  BY <1>2
<1> HIDE DEF At
<1>3. Distinct(r)
  <2> SUFFICES ASSUME NEW j \in 1 .. Len(r), NEW k \in 1 .. Len(r), r[j] = r[k] PROVE j = k
    BY DEF Distinct
  <2>1. At(j) = At(k)
    BY <1>1 DEF Distinct
  <2> QED
    BY <1>2, <2>1
<1> QED
  BY <1>1, <1>3 DEF OthersOf

-----------------------------------------------------------------------------
(* The rows and the client *)

LEMMA PagingIsTyped ==
  ASSUME PTypeOK
  PROVE  /\ came \in Nat /\ came <= MaxRows
         /\ Len(rows) \in Nat /\ \A i \in 1 .. Len(rows) : rows[i] \in 1 .. came
         /\ Len(got) \in Nat /\ DOMAIN got = 1 .. Len(got)
         /\ offset \in Int /\ Behind \in Nat /\ early \in Nat
         /\ Ahead \subseteq 1 .. came /\ Elements(got) \subseteq 1 .. came
         /\ IsFiniteSet(Ahead) /\ IsFiniteSet(Elements(got))
         /\ IsFiniteSet(first) /\ IsFiniteSet(lost) /\ IsFiniteSet(Missed)
<1>1. came \in Nat /\ came <= MaxRows
  BY PagingAssumption DEF PTypeOK
<1>2. Len(rows) \in Nat /\ \A i \in 1 .. Len(rows) : rows[i] \in 1 .. came
  BY DEF PTypeOK
<1>3. /\ Len(got) \in Nat /\ DOMAIN got = 1 .. Len(got)
      /\ \A i \in 1 .. Len(got) : got[i] \in 1 .. came
  BY DEF PTypeOK
<1>4. offset \in Int /\ Behind \in Nat
  BY PagingAssumption DEF PTypeOK, Behind, FromZero
<1>5. early \in Nat
  BY <1>1 DEF PTypeOK
<1>6. PICK N \in Nat : N = came
  BY <1>1
<1>7. 1 \in Int /\ N \in Int
  BY <1>6
<1>8. IsFiniteSet(1 .. N)
  BY <1>7, FS_Interval
<1>9. Ahead \subseteq 1 .. N /\ Elements(got) \subseteq 1 .. N
  BY <1>2, <1>3, <1>6 DEF Ahead, From, Elements
<1>10. first \subseteq 1 .. N /\ lost \subseteq 1 .. N /\ Missed \subseteq 1 .. N
  BY <1>6 DEF PTypeOK, Missed
<1>11. /\ IsFiniteSet(Ahead) /\ IsFiniteSet(Elements(got))
       /\ IsFiniteSet(first) /\ IsFiniteSet(lost) /\ IsFiniteSet(Missed)
  BY <1>8, <1>9, <1>10, FS_Subset
<1> QED
  BY <1>1, <1>2, <1>3, <1>4, <1>5, <1>6, <1>9, <1>11

LEMMA PInitOK == PInit => PIInv
<1> SUFFICES ASSUME PInit PROVE PIInv
  OBVIOUS
<1>1. PICK N \in 0 .. MaxRows : N = came
  BY DEF PInit
<1>2. N \in Nat
  BY <1>1, PagingAssumption
<1> DEFINE f == [i \in 1 .. N |-> i]
<1>3. f \in [1 .. N -> 1 .. N] /\ \A i \in 1 .. N : f[i] = i
  OBVIOUS
<1>4. rows = f
  BY <1>1 DEF PInit
<1> HIDE DEF f
<1>5. rows \in Seq(1 .. came) /\ Len(rows) = came
  BY <1>1, <1>2, <1>3, <1>4, FunctionIsSeq
<1>6. /\ offset \in 0 - 1 .. QueryIntMax + 1
      /\ first = {i \in 1 .. came : i > Behind} /\ lost = {} /\ early = 0
      /\ got = <<>> /\ page = <<>> /\ pageReply = NotAsked
      /\ NotAsked # Ok
  BY PagingAssumption DEF PInit, Behind, NotAsked, Ok
<1>7. PTypeOK
  <2>1. got \in Seq(1 .. came) /\ page \in Seq(1 .. came) /\ Len(page) <= MaxRowCount
    BY <1>6, PagingAssumption
  <2>2. early \in 0 .. came
    BY <1>1, <1>2, <1>6
  <2> QED
    BY <1>1, <1>5, <1>6, <2>1, <2>2 DEF PTypeOK
<1>8. RowsOK
  <2>1. Distinct(rows)
    BY <1>1, <1>3, <1>4, <1>5 DEF Distinct
  <2>2. Len(rows) <= came
    BY <1>1, <1>2, <1>5
  <2> QED
    BY <1>6, <2>1, <2>2 DEF RowsOK
<1>9. Elements(got) = {} /\ Len(got) = 0 /\ Cardinality({}) = 0
  BY <1>6, FS_EmptySet DEF Elements
<1>10. GotOK
  <2>1. Elements(got) \cap Ahead = {}
    BY <1>9
  <2>2. Cardinality(Elements(got) \cap Ahead) = 0 /\ Cardinality(Elements(got)) = 0
    BY <1>9, <2>1, Zenon
  <2> QED
    BY <1>6, <1>9, <2>2 DEF GotOK
<1>11. MissedOK
  <2>1. first \subseteq Ahead
    <3> SUFFICES ASSUME NEW n \in first PROVE n \in Ahead
      OBVIOUS
    <3>1. n \in 1 .. N /\ n > Behind
      BY <1>1, <1>6
    <3>2. n \in 1 .. Len(rows) /\ rows[n] = n /\ Behind < n
      <4>1. n \in 1 .. Len(rows) /\ rows[n] = n
        BY <1>1, <1>3, <1>4, <1>5, <3>1
      <4>2. Behind \in Nat /\ n \in Nat
        BY <1>7, <3>1, PagingIsTyped
      <4> QED
        BY <3>1, <4>1, <4>2
    <3> QED
      BY <3>2 DEF Ahead, From
  <2>2. Missed = {}
    BY <2>1 DEF Missed
  <2> QED
    BY <1>6, <1>9, <2>2 DEF MissedOK
<1>12. ReadOK
  BY <1>6 DEF ReadOK, AllRead
<1> QED
  BY <1>7, <1>8, <1>10, <1>11, <1>12 DEF PIInv

\* No more rows are missed than were, and the same went.
LEMMA NoMoreIsMissed ==
  ASSUME PIInv, NEW Q, Q \subseteq Missed
  PROVE  Cardinality(Q) <= Cardinality(lost)
<1>1. PICK P : P = Missed
  OBVIOUS
<1>2. PICK L : L = lost
  OBVIOUS
<1>3. /\ IsFiniteSet(P) /\ IsFiniteSet(L) /\ Cardinality(P) <= Cardinality(L)
  BY <1>1, <1>2, PagingIsTyped DEF PIInv, MissedOK
<1>4. Cardinality(P) \in Nat /\ Cardinality(L) \in Nat
  BY <1>3, FS_CardinalityType
<1>5. IsFiniteSet(Q) /\ Cardinality(Q) <= Cardinality(P)
  BY <1>1, <1>3, FS_Subset
<1>6. Cardinality(Q) \in Nat
  BY <1>5, FS_CardinalityType
<1>7. Cardinality(Q) <= Cardinality(L)
  BY <1>3, <1>4, <1>5, <1>6
<1> QED
  BY <1>2, <1>7

LEMMA RowComesOK == PIInv /\ RowComes => PIInv'
<1> SUFFICES ASSUME PIInv, RowComes PROVE PIInv'
  OBVIOUS
<1>a. PICK N \in Nat : N = came
  BY PagingIsTyped DEF PIInv
<1>b. PICK s \in Seq(1 .. N) : s = rows
  BY <1>a DEF PIInv, PTypeOK
<1>c. PICK m \in Nat : m = Behind
  BY PagingIsTyped DEF PIInv
<1>d. PICK i \in 1 .. Len(s) + 1 :
        rows' = With(s, i, N + 1) /\ early' = IF i <= offset THEN early + 1 ELSE early
  BY <1>a, <1>b DEF RowComes, With
<1>e. PICK r : r = rows'
  OBVIOUS
<1>1. /\ N = came /\ s = rows /\ m = Behind /\ N < MaxRows /\ came' = N + 1
      /\ UNCHANGED <<offset, first, lost, got, page, pageReply, Behind>>
  BY <1>a, <1>b, <1>c DEF RowComes, Behind
<1>2. /\ Len(s) \in Nat /\ Len(s) <= N /\ Distinct(s)
      /\ \A k \in 1 .. Len(s) : s[k] \in 1 .. N /\ s[k] \notin lost
  BY <1>1 DEF PIInv, RowsOK
<1>3. r \in Seq(1 .. N + 1) /\ Len(r) = Len(s) + 1 /\ MadeRoom(r, s, i, N + 1)
  <2>1. PICK S : S = 1 .. N + 1
    OBVIOUS
  <2>2. s \in Seq(S)
    BY <1>2, <2>1
  <2>3. N + 1 \in S
    BY <2>1
  <2>4. r = With(s, i, N + 1)
    BY <1>d, <1>e, Zenon
  <2>5. r \in Seq(S) /\ Len(r) = Len(s) + 1 /\ MadeRoom(r, s, i, N + 1)
    BY <2>2, <2>3, <2>4, WithOne
  <2> QED
    BY <2>1, <2>5
<1>4. /\ first \subseteq 1 .. N /\ lost \subseteq 1 .. N /\ Elements(got) \subseteq 1 .. N
      /\ N + 1 \notin first /\ N + 1 \notin lost /\ N + 1 \notin Elements(got)
  BY <1>1, PagingIsTyped DEF PIInv, PTypeOK
<1>5. early \in 0 .. N /\ early' \in 0 .. N + 1 /\ early <= early'
      /\ (i <= m => early' = early + 1)
  <2>1. early \in 0 .. N /\ offset \in Int
    BY <1>1, PagingIsTyped DEF PIInv, PTypeOK
  <2>2. i <= m => i <= offset
    BY <1>1, <2>1 DEF Behind, FromZero
  <2> QED
    BY <1>d, <2>1, <2>2
<1>6. PTypeOK'
  <2>1. got \in Seq(1 .. N + 1) /\ page \in Seq(1 .. N + 1)
    <3>1. got \in Seq(1 .. N) /\ page \in Seq(1 .. N)
      BY <1>1 DEF PIInv, PTypeOK
    <3>2. 1 .. N \subseteq 1 .. N + 1
      OBVIOUS
    <3>3. Seq(1 .. N) \subseteq Seq(1 .. N + 1)
      BY <3>2, SeqMonotonic
    <3> QED
      BY <3>1, <3>3
  <2>2. N + 1 \in 0 .. MaxRows
    BY <1>1, PagingAssumption
  <2>3. first \in SUBSET (1 .. N + 1) /\ lost \in SUBSET (1 .. N + 1)
    BY <1>4
  <2>4. /\ Len(page) <= MaxRowCount /\ offset \in 0 - 1 .. QueryIntMax + 1
        /\ pageReply \in {NotAsked, Ok, BadRequest, IrodsError}
    BY DEF PIInv, PTypeOK
  <2> QED
    BY <1>1, <1>3, <1>5, <1>e, <2>1, <2>2, <2>3, <2>4
    DEF PTypeOK, NotAsked, Ok, BadRequest, IrodsError
<1>7. RowsOK'
  <2>1. ASSUME NEW k \in 1 .. Len(r)
        PROVE  \/ k < i /\ k \in 1 .. Len(s) /\ r[k] = s[k]
               \/ k = i /\ r[k] = N + 1
               \/ i < k /\ k - 1 \in 1 .. Len(s) /\ r[k] = s[k - 1]
    <3>1. k \in 1 .. Len(s) + 1
      BY <1>3
    <3>2. Len(s) \in Nat /\ MadeRoom(r, s, i, N + 1)
      BY <1>2, <1>3
    <3> QED
      BY <3>1, <3>2, RoomIsFilled
  <2>2. Distinct(r)
    <3> SUFFICES ASSUME NEW j \in 1 .. Len(r), NEW k \in 1 .. Len(r), r[j] = r[k]
                 PROVE  j = k
      BY DEF Distinct
    <3>1. ASSUME NEW l \in 1 .. Len(r), r[l] = N + 1 PROVE l = i
      <4>1. \A q \in 1 .. Len(s) : s[q] # N + 1
        BY <1>2
      <4> QED
        BY <2>1, <3>1, <4>1
    <3>2. CASE j = i \/ k = i
      BY <1>3, <3>1, <3>2 DEF MadeRoom
    <3>3. CASE j # i /\ k # i
      <4>1. PICK u \in 1 .. Len(s) : r[j] = s[u] /\ (j < i => u = j) /\ (i < j => u = j - 1)
        BY <1>2, <2>1, <3>3
      <4>2. PICK v \in 1 .. Len(s) : r[k] = s[v] /\ (k < i => v = k) /\ (i < k => v = k - 1)
        BY <1>2, <2>1, <3>3
      <4>3. u = v
        BY <1>2, <4>1, <4>2 DEF Distinct
      <4>4. j \in Nat /\ k \in Nat /\ i \in Nat
        BY <1>2, <1>3
      <4>5. (j < i /\ j = u) \/ (i < j /\ j = u + 1)
        BY <3>3, <4>1, <4>4
      <4>6. (k < i /\ k = u) \/ (i < k /\ k = u + 1)
        BY <3>3, <4>2, <4>3, <4>4
      <4> QED
        BY <4>4, <4>5, <4>6
    <3> QED
      BY <3>2, <3>3
  <2>3. \A k \in 1 .. Len(r) : r[k] \notin lost
    BY <1>2, <1>4, <2>1
  <2>4. Len(r) <= N + 1
    BY <1>2, <1>3
  <2> QED
    BY <1>1, <1>e, <2>2, <2>3, <2>4 DEF RowsOK
\* The rows that are to come.
<1>8. PICK x : /\ Ahead \subseteq Ahead' /\ Ahead' \subseteq Ahead \cup {x}
               /\ i <= m \/ x = N + 1
  <2>1. Ahead = From(s, m) /\ Ahead' = From(r, m)
    BY <1>1, <1>e DEF Ahead
  <2>2. /\ From(s, m) \subseteq From(r, m)
        /\ From(r, m) \subseteq From(s, m) \cup {IF i <= m THEN s[m] ELSE N + 1}
    BY <1>2, <1>3, RoomBehind
  <2> QED
    BY <2>1, <2>2
<1>9. PICK G : G = Elements(got)
  OBVIOUS
<1>10. IsFiniteSet(G) /\ IsFiniteSet(Ahead) /\ G' = G /\ Elements(got)' = G
  BY <1>1, <1>9, PagingIsTyped DEF PIInv
<1>11. GotOK'
  <2>1. PICK A : A = G \cap Ahead
    OBVIOUS
  <2>2. PICK B : B = G \cap Ahead'
    OBVIOUS
  <2>3. IsFiniteSet(A) /\ B \subseteq A \cup {x}
    BY <1>8, <1>10, <2>1, <2>2, FS_Intersection
  <2>4. /\ Cardinality(B) \in Nat /\ Cardinality(A) \in Nat
        /\ Cardinality(B) <= Cardinality(A) + 1
    BY <2>3, OneMoreAtMost
  <2>5. ~(i <= m) => B = A
    BY <1>4, <1>8, <1>9, <2>1, <2>2
  <2>6. Cardinality(G) \in Nat /\ Len(got) \in Nat
        /\ Len(got) + Cardinality(A) <= Cardinality(G) + early
    BY <1>9, <1>10, <2>1, PagingIsTyped, FS_CardinalityType DEF PIInv, GotOK
  <2>7. Len(got) + Cardinality(B) <= Cardinality(G) + early'
    <3>1. CASE i <= m
      BY <1>5, <2>4, <2>6, <3>1
    <3>2. CASE ~(i <= m)
      BY <1>5, <2>4, <2>5, <2>6, <3>2
    <3> QED
      BY <3>1, <3>2
  <2> QED
    BY <1>1, <1>10, <2>2, <2>7 DEF GotOK
<1>12. MissedOK'
  <2>1. Missed' \subseteq Missed
    BY <1>1, <1>8 DEF Missed, Elements
  <2> QED
    BY <1>1, <2>1, NoMoreIsMissed DEF MissedOK
<1>13. ReadOK'
  BY <1>1 DEF PIInv, ReadOK, AllRead, Elements, Ok
<1> QED
  BY <1>6, <1>7, <1>11, <1>12, <1>13 DEF PIInv

LEMMA RowGoesOK == PIInv /\ RowGoes => PIInv'
<1> SUFFICES ASSUME PIInv, RowGoes PROVE PIInv'
  OBVIOUS
<1>a. PICK N \in Nat : N = came
  BY PagingIsTyped DEF PIInv
<1>b. PICK s \in Seq(1 .. N) : s = rows
  BY <1>a DEF PIInv, PTypeOK
<1>c. PICK m \in Nat : m = Behind
  BY PagingIsTyped DEF PIInv
<1>d. PICK i \in 1 .. Len(s) :
        /\ lost' = lost \cup {s[i]}
        /\ rows' = Without(s, i)
  <2>1. PICK k \in DOMAIN rows :
          /\ lost' = lost \cup {rows[k]}
          /\ rows' = Without(rows, k)
    BY DEF RowGoes, Without
  <2>2. k \in 1 .. Len(s)
    BY <1>b, <2>1
  <2> QED
    BY <1>b, <2>1, <2>2, Zenon
<1>e. PICK r : r = rows'
  OBVIOUS
<1>1. /\ N = came /\ s = rows /\ m = Behind /\ came' = N /\ ~AllRead
      /\ UNCHANGED <<offset, first, early, got, page, pageReply, Behind>>
  BY <1>a, <1>b, <1>c DEF RowGoes, Behind
<1>2. /\ Len(s) \in Nat /\ Len(s) <= N /\ Distinct(s)
      /\ \A k \in 1 .. Len(s) : s[k] \in 1 .. N /\ s[k] \notin lost
  BY <1>1 DEF PIInv, RowsOK
<1>3. r \in Seq(1 .. N) /\ Len(r) = Len(s) - 1 /\ Shifted(r, s, i)
  <2>1. r = Without(s, i)
    BY <1>d, <1>e, Zenon
  <2>2. PICK S : S = 1 .. N
    OBVIOUS
  <2>3. s \in Seq(S)
    BY <2>2
  <2>4. r \in Seq(S) /\ Len(r) = Len(s) - 1 /\ Shifted(r, s, i)
    BY <2>1, <2>3, WithoutOne
  <2> QED
    BY <2>2, <2>4
<1>4. PTypeOK'
  <2>1. s[i] \in 1 .. N
    BY <1>2
  <2> QED
    BY <1>1, <1>3, <1>d, <1>e, <2>1 DEF PIInv, PTypeOK
<1>5. RowsOK'
  <2>1. Distinct(r) /\ OthersOf(r, s, i)
    BY <1>2, <1>3, ShiftedDistinct
  <2>2. ASSUME NEW k \in 1 .. Len(r) PROVE r[k] \notin lost \cup {s[i]}
    BY <1>2, <2>1 DEF Distinct, OthersOf
  <2>3. Len(r) <= N
    BY <1>2, <1>3
  <2> QED
    BY <1>1, <1>d, <1>e, <2>1, <2>2, <2>3 DEF RowsOK
\* The rows that are to come.
<1>6. PICK x : Ahead' \subseteq Ahead /\ Ahead \subseteq Ahead' \cup {x}
  <2>1. Ahead = From(s, m) /\ Ahead' = From(r, m)
    BY <1>1, <1>e DEF Ahead
  <2>2. /\ From(r, m) \subseteq From(s, m)
        /\ From(s, m) \subseteq From(r, m) \cup {IF i <= m THEN s[m + 1] ELSE s[i]}
    BY <1>2, <1>3, ShiftedBehind
  <2> QED
    BY <2>1, <2>2
<1>7. PICK G : G = Elements(got)
  OBVIOUS
<1>8. IsFiniteSet(G) /\ IsFiniteSet(Ahead) /\ Elements(got)' = G
  BY <1>1, <1>7, PagingIsTyped DEF PIInv
<1>9. GotOK'
  <2>1. PICK A : A = G \cap Ahead
    OBVIOUS
  <2>2. PICK B : B = G \cap Ahead'
    OBVIOUS
  <2>3. IsFiniteSet(A) /\ B \subseteq A
    BY <1>6, <1>8, <2>1, <2>2, FS_Intersection
  <2>4. IsFiniteSet(B) /\ Cardinality(B) <= Cardinality(A)
    BY <2>3, FS_Subset
  <2>5. Cardinality(G) \in Nat /\ Cardinality(A) \in Nat /\ Cardinality(B) \in Nat
    BY <1>8, <2>3, <2>4, FS_CardinalityType
  <2>6. Len(got) \in Nat /\ early \in Nat
        /\ Len(got) + Cardinality(A) <= Cardinality(G) + early
    BY <1>7, <2>1, PagingIsTyped DEF PIInv, GotOK
  <2>7. Len(got) + Cardinality(B) <= Cardinality(G) + early
    BY <2>4, <2>5, <2>6
  <2> QED
    BY <1>1, <1>8, <2>2, <2>7 DEF GotOK
\* The row that comes next may move before the offset.
<1>10. MissedOK'
  <2>1. PICK P : P = Missed
    OBVIOUS
  <2>2. PICK L : L = lost
    OBVIOUS
  <2>3. PICK Q : Q = Missed'
    OBVIOUS
  <2>4. Q \subseteq P \cup {x}
    BY <1>1, <1>6, <1>7, <1>8, <1>d, <2>1, <2>3 DEF Missed
  <2>5. IsFiniteSet(P) /\ IsFiniteSet(L) /\ Cardinality(P) <= Cardinality(L)
    BY <2>1, <2>2, PagingIsTyped DEF PIInv, MissedOK
  <2>6. /\ Cardinality(Q) \in Nat /\ Cardinality(P) \in Nat
        /\ Cardinality(Q) <= Cardinality(P) + 1
    BY <2>4, <2>5, OneMoreAtMost
  <2>7. Cardinality(L \cup {s[i]}) = Cardinality(L) + 1 /\ Cardinality(L) \in Nat
    <3>1. s[i] \notin L
      BY <1>2, <2>2
    <3> QED
      BY <2>5, <3>1, FS_AddElement, FS_CardinalityType
  <2>8. Cardinality(Q) <= Cardinality(L \cup {s[i]})
    BY <2>5, <2>6, <2>7
  <2> QED
    BY <1>d, <2>2, <2>3, <2>8 DEF MissedOK
<1>11. ReadOK'
  BY <1>1 DEF ReadOK, AllRead, Ok
<1> QED
  BY <1>4, <1>5, <1>9, <1>10, <1>11 DEF PIInv

\* A page has the rows behind the offset, at most limit, and none only if there
\* are none.
LEMMA PageIsThere ==
  ASSUME NEW S, NEW s \in Seq(S), s = rows, NEW skip \in Nat, NEW limit \in Nat \ {0},
         NEW p, p = PageOf(skip, limit)
  PROVE  /\ p \in Seq(S) /\ Len(p) \in Nat /\ DOMAIN p = 1 .. Len(p) /\ Len(p) <= limit
         /\ Len(p) = 0 => Len(s) <= skip
         /\ Len(p) # 0 => skip + Len(p) <= Len(s)
         /\ Follows(p, s, skip)
<1>1. Len(s) \in Nat /\ \A i \in 1 .. Len(s) : s[i] \in S
  OBVIOUS
<1> DEFINE last == LastInPage(skip, limit)
<1>2. p = SubSeq(s, skip + 1, last)
  BY DEF PageOf, PassedOver
<1>3. CASE skip < Len(s)
  <2>1. last = IF skip + limit < Len(s) THEN skip + limit ELSE Len(s)
    BY DEF LastInPage, PassedOver
  <2> DEFINE n == last - skip
  <2>2. n \in Nat \ {0} /\ n <= limit /\ skip + n = last /\ last <= Len(s) /\ last \in Nat
    BY <1>1, <1>3, <2>1
  <2> HIDE DEF last, n
  <2>3. skip + n <= Len(s)
    BY <1>1, <2>2
  <2>4. n \in Nat
    BY <2>2
  <2>5. p = SubSeq(s, skip + 1, skip + n)
    <3>1. skip + n = last
      BY <2>2
    <3> QED
      BY <1>2, <3>1, Zenon
  <2>a. IsPart(p, S, s, skip, n)
    BY <2>3, <2>4, <2>5, SubSeqIsThere
  <2>6. p \in Seq(S) /\ Len(p) = n /\ Follows(p, s, skip)
    BY <2>a DEF IsPart
  <2>7. DOMAIN p = 1 .. Len(p)
    BY <2>6
  <2> QED
    BY <2>2, <2>6, <2>7
<1>4. CASE ~(skip < Len(s))
  <2>1. last = Len(s)
    BY <1>1, <1>4 DEF LastInPage, PassedOver
  <2>2. p = SubSeq(s, skip + 1, Len(s)) /\ skip + 1 > Len(s)
    BY <1>1, <1>2, <1>4, <2>1
  <2>3. p = <<>>
    BY <1>1, <2>2
  <2> QED
    BY <1>1, <1>4, <2>3 DEF Follows
<1> QED
  BY <1>3, <1>4

LEMMA AskPageOK == PIInv /\ AskPage => PIInv'
<1> SUFFICES ASSUME PIInv, AskPage PROVE PIInv'
  OBVIOUS
<1>a. PICK N \in Nat : N = came
  BY PagingIsTyped DEF PIInv
<1>b. PICK s \in Seq(1 .. N) : s = rows
  BY <1>a DEF PIInv, PTypeOK
<1>c. PICK g \in Seq(1 .. N) : g = got
  BY <1>a DEF PIInv, PTypeOK
<1>d. PICK m \in Nat : m = Behind
  BY PagingIsTyped DEF PIInv
<1>e. PICK p : p = page'
  OBVIOUS
<1>f. PICK h : h = got'
  OBVIOUS
<1>1. /\ N = came /\ s = rows /\ ~AllRead /\ came' = N /\ rows' = s /\ g = got
      /\ UNCHANGED <<first, early, lost>> /\ pageReply' = Ok /\ page' = p /\ got' = h
      /\ h = g \o p /\ offset' = m + Len(p) /\ Behind = m
  BY <1>a, <1>b, <1>c, <1>d, <1>e, <1>f DEF AskPage, Behind
<1>2. /\ p \in Seq(1 .. N) /\ Len(p) \in Nat
      /\ Len(p) <= MaxRowCount
      /\ Len(p) = 0 => Len(s) <= m
      /\ Len(p) # 0 => m + Len(p) <= Len(s)
      /\ \A k \in 1 .. Len(p) : p[k] = s[m + k]
  <2>1. PICK limit : limit = Clamp(count)
    OBVIOUS
  <2>2. limit \in Nat \ {0} /\ limit <= MaxRowCount
    <3>1. count \in Int
      BY PagingAssumption DEF AskPage, FitsInt
    <3> QED
      BY <2>1, <3>1, PagingAssumption DEF Clamp
  <2>3. p = PageOf(m, limit)
    BY <1>1, <2>1 DEF AskPage, Behind
  <2> QED
    <3>1. PICK S : S = 1 .. N
      OBVIOUS
    <3>2. s \in Seq(S)
      BY <3>1
    <3>3. /\ p \in Seq(S) /\ Len(p) \in Nat /\ DOMAIN p = 1 .. Len(p) /\ Len(p) <= limit
          /\ Len(p) = 0 => Len(s) <= m
          /\ Len(p) # 0 => m + Len(p) <= Len(s)
          /\ Follows(p, s, m)
      BY <1>1, <2>2, <2>3, <3>2, PageIsThere
    <3>4. Len(p) <= MaxRowCount
      BY <2>2, <3>3, PagingAssumption
    <3> QED
      BY <3>1, <3>3, <3>4 DEF Follows
<1>3. Len(s) \in Nat /\ Len(s) <= N /\ N <= MaxRows /\ Distinct(s)
  BY <1>1, PagingIsTyped DEF PIInv, RowsOK
<1>4. h \in Seq(1 .. N) /\ Len(h) = Len(g) + Len(p) /\ Elements(h) = Elements(g) \cup Elements(p)
  <2>1. /\ g \o p \in Seq(1 .. N) /\ Len(g \o p) = Len(g) + Len(p)
        /\ \A i \in 1 .. Len(g) + Len(p) :
             (g \o p)[i] = IF i <= Len(g) THEN g[i] ELSE p[i - Len(g)]
    BY <1>2, ConcatProperties, Zenon
  <2>2. /\ h \in Seq(1 .. N) /\ Len(h) = Len(g) + Len(p)
        /\ \A i \in 1 .. Len(g) + Len(p) :
             h[i] = IF i <= Len(g) THEN g[i] ELSE p[i - Len(g)]
    BY <1>1, <2>1, Zenon
  <2>3. Len(g) \in Nat
    OBVIOUS
  <2>4. ASSUME NEW i \in 1 .. Len(g) PROVE g[i] \in Elements(h)
    <3>1. i \in 1 .. Len(h) /\ i \in 1 .. Len(g) + Len(p) /\ i <= Len(g)
      BY <1>2, <2>2, <2>3
    <3>2. h[i] = g[i]
      BY <2>2, <3>1
    <3> QED
      BY <3>1, <3>2 DEF Elements
  <2>5. ASSUME NEW k \in 1 .. Len(p) PROVE p[k] \in Elements(h)
    <3>1. /\ Len(g) + k \in 1 .. Len(g) + Len(p) /\ ~(Len(g) + k <= Len(g))
          /\ (Len(g) + k) - Len(g) = k /\ Len(g) + k \in 1 .. Len(h)
      <4>1. Len(p) \in Nat /\ Len(h) = Len(g) + Len(p)
        BY <1>2, <2>2
      <4> QED
        BY <2>3, <4>1
    <3>2. h[Len(g) + k] = p[k]
      BY <2>2, <3>1
    <3> QED
      BY <3>1, <3>2 DEF Elements
  <2>6. ASSUME NEW i \in 1 .. Len(h) PROVE h[i] \in Elements(g) \cup Elements(p)
    <3>1. i \in 1 .. Len(g) + Len(p)
      BY <2>2
    <3>2. CASE i <= Len(g)
      <4>1. i \in 1 .. Len(g) /\ h[i] = g[i]
        BY <2>2, <2>3, <3>1, <3>2
      <4> QED
        BY <4>1 DEF Elements
    <3>3. CASE ~(i <= Len(g))
      <4>1. i - Len(g) \in 1 .. Len(p)
        BY <1>2, <2>3, <3>1, <3>3
      <4>2. h[i] = p[i - Len(g)]
        BY <2>2, <3>1, <3>3
      <4> QED
        BY <4>1, <4>2 DEF Elements
    <3> QED
      BY <3>2, <3>3
  <2>7. Elements(g) \subseteq Elements(h) /\ Elements(p) \subseteq Elements(h)
    BY <2>4, <2>5 DEF Elements
  <2>8. Elements(h) \subseteq Elements(g) \cup Elements(p)
    <3>1. PICK E : E = Elements(g) \cup Elements(p)
      OBVIOUS
    <3>2. \A i \in 1 .. Len(h) : h[i] \in E
      BY <2>6, <3>1
    <3>3. Elements(h) \subseteq E
      BY <3>2 DEF Elements
    <3> QED
      BY <3>1, <3>3
  <2> QED
    BY <2>2, <2>7, <2>8
<1>5. Behind' = m + Len(p) /\ offset' \in 0 - 1 .. QueryIntMax + 1
  <2>1. m + Len(p) \in Nat
    BY <1>2
  <2>2. m <= QueryIntMax
    <3>1. offset \in 0 - QueryIntMax - 1 .. QueryIntMax
      BY DEF AskPage, FitsInt
    <3> QED
      BY <1>1, <3>1, PagingAssumption DEF Behind, FromZero
  <2>3. m + Len(p) <= QueryIntMax
    BY <1>2, <1>3, <2>2, PagingAssumption
  <2>4. offset' \in 0 - 1 .. QueryIntMax + 1
    BY <1>1, <2>1, <2>3, PagingAssumption
  <2> QED
    BY <1>1, <2>1, <2>4 DEF Behind, FromZero
<1>6. PTypeOK'
  BY <1>1, <1>2, <1>4, <1>5 DEF PIInv, PTypeOK
<1>7. RowsOK'
  BY <1>1 DEF PIInv, RowsOK
\* The page is what was next of the rows, each of them once.
<1>8. From(s, m) = From(s, m + Len(p)) \cup Elements(p)
      /\ From(s, m + Len(p)) \cap Elements(p) = {}
  <2>1. ASSUME NEW i \in 1 .. Len(s), m < i
        PROVE  s[i] \in From(s, m + Len(p)) \cup Elements(p)
    <3>1. CASE m + Len(p) < i
      BY <3>1 DEF From
    <3>2. CASE ~(m + Len(p) < i)
      <4>1. i - m \in 1 .. Len(p) /\ m + (i - m) = i
        BY <1>2, <1>3, <2>1, <3>2
      <4>2. p[i - m] = s[m + (i - m)]
        BY <1>2, <4>1
      <4> QED
        BY <4>1, <4>2 DEF Elements
    <3> QED
      BY <3>1, <3>2
  <2>2. ASSUME NEW k \in 1 .. Len(p)
        PROVE  m + k \in 1 .. Len(s) /\ m < m + k /\ ~(m + Len(p) < m + k) /\ p[k] = s[m + k]
    <3>1. Len(p) \in Nat /\ k \in 1 .. Len(p)
      BY <1>2
    <3>2. Len(s) \in Nat /\ m + Len(p) <= Len(s)
      BY <1>2, <1>3, <3>1
    <3>3. m + k \in 1 .. Len(s) /\ m < m + k /\ ~(m + Len(p) < m + k)
      BY <3>1, <3>2
    <3>4. p[k] = s[m + k]
      BY <1>2
    <3> QED
      BY <3>3, <3>4
  <2>3. ASSUME NEW k \in 1 .. Len(p), NEW i \in 1 .. Len(s), m + Len(p) < i
        PROVE  p[k] # s[i]
    BY <1>3, <2>2, <2>3 DEF Distinct
  <2>4. From(s, m + Len(p)) \subseteq From(s, m)
    <3>1. ASSUME NEW i \in 1 .. Len(s), m + Len(p) < i PROVE m < i
      BY <1>2, <3>1
    <3> QED
      BY <3>1 DEF From
  <2>5. Elements(p) \subseteq From(s, m)
    <3>1. ASSUME NEW k \in 1 .. Len(p) PROVE p[k] \in From(s, m)
      BY <2>2 DEF From
    <3> QED
      BY <3>1 DEF Elements
  <2>6. From(s, m) \subseteq From(s, m + Len(p)) \cup Elements(p)
    <3>1. PICK E : E = From(s, m + Len(p)) \cup Elements(p)
      OBVIOUS
    <3>2. From(s, m) \subseteq E
      BY <2>1, <3>1 DEF From
    <3> QED
      BY <3>1, <3>2
  <2>7. From(s, m + Len(p)) \cap Elements(p) = {}
    BY <2>3 DEF From, Elements
  <2> QED
    BY <2>4, <2>5, <2>6, <2>7
<1>9. Distinct(p)
  <2> SUFFICES ASSUME NEW j \in 1 .. Len(p), NEW k \in 1 .. Len(p), p[j] = p[k] PROVE j = k
    BY DEF Distinct
  <2>1. ASSUME NEW l \in 1 .. Len(p) PROVE m + l \in 1 .. Len(s) /\ p[l] = s[m + l]
    <3>1. Len(p) \in Nat /\ l \in 1 .. Len(p)
      BY <1>2
    <3>2. Len(s) \in Nat /\ m + Len(p) <= Len(s)
      BY <1>2, <1>3, <3>1
    <3>3. m + l \in 1 .. Len(s)
      BY <3>1, <3>2
    <3> QED
      BY <1>2, <3>3
  <2>2. m + j = m + k
    BY <1>3, <2>1 DEF Distinct
  <2> QED
    BY <2>2
<1>10. PICK G : G = Elements(got)
  OBVIOUS
<1>11. PICK P : P = Elements(p)
  OBVIOUS
<1>12. PICK C : C = Ahead'
  OBVIOUS
<1>13. /\ IsFiniteSet(P) /\ Cardinality(P) = Len(p)
  BY <1>2, <1>9, <1>11, DistinctAreCounted
<1>14. Splits(Ahead, C, P) /\ Elements(got') = G \cup P
  BY <1>1, <1>4, <1>5, <1>8, <1>10, <1>11, <1>12 DEF Ahead, Splits
<1>15. IsFiniteSet(G) /\ IsFiniteSet(C)
  <2>1. IsFiniteSet(Ahead) /\ C \subseteq Ahead
    BY <1>14, PagingIsTyped DEF PIInv, Splits
  <2> QED
    BY <1>10, <2>1, FS_Subset, PagingIsTyped DEF PIInv
<1>16. GotOK'
  <2>1. Cardinality(G \cup P) + Cardinality(G \cap Ahead)
          = Cardinality(G) + Cardinality(P) + Cardinality((G \cup P) \cap C)
    <3>1. Counted(G, Ahead, C, P)
      BY <1>13, <1>14, <1>15, PageIsCounted
    <3> QED
      BY <3>1 DEF Counted
  <2>2. Len(g) + Cardinality(G \cap Ahead) <= Cardinality(G) + early
    BY <1>1, <1>10 DEF PIInv, GotOK
  <2>3. /\ Cardinality(G) \in Nat /\ Cardinality(P) \in Nat
        /\ Cardinality(G \cup P) \in Nat /\ Cardinality(G \cap Ahead) \in Nat
        /\ Cardinality((G \cup P) \cap C) \in Nat
    <3>1. IsFiniteSet(G \cup P) /\ IsFiniteSet(G \cap Ahead)
          /\ IsFiniteSet((G \cup P) \cap C)
      BY <1>13, <1>15, FS_Union, FS_Intersection
    <3> QED
      BY <1>13, <1>15, <3>1, FS_CardinalityType
  <2>4. early \in Nat /\ Len(g) \in Nat
    BY PagingIsTyped DEF PIInv
  <2> DEFINE a == Cardinality(G)
             b == Cardinality(P)
             c == Cardinality(G \cup P)
             d == Cardinality(G \cap Ahead)
             e == Cardinality((G \cup P) \cap C)
  <2>5. c + d = a + b + e /\ Len(g) + d <= a + early /\ b = Len(p)
        /\ a \in Nat /\ b \in Nat /\ c \in Nat /\ d \in Nat /\ e \in Nat
    BY <1>13, <2>1, <2>2, <2>3
  <2> HIDE DEF a, b, c, d, e
  <2>6. Len(g) + Len(p) + e <= c + early
    BY <2>4, <2>5
  <2>7. Len(h) + Cardinality((G \cup P) \cap C) <= Cardinality(G \cup P) + early
    BY <1>4, <2>6 DEF c, e
  <2> QED
    BY <1>1, <1>12, <1>14, <2>7 DEF GotOK
<1>17. MissedOK'
  <2>1. Missed' \subseteq Missed
    BY <1>1, <1>10, <1>12, <1>14 DEF Missed, Splits
  <2> QED
    BY <1>1, <2>1, NoMoreIsMissed DEF MissedOK
<1>18. ReadOK'
  <2> SUFFICES ASSUME AllRead'
               PROVE  Cardinality((first \ lost) \ Elements(got')) <= Cardinality(lost)
    BY <1>1 DEF ReadOK
  <2>1. Len(p) = 0
    <3>1. p = <<>>
      BY <1>1 DEF AllRead
    <3> QED
      BY <3>1
  <2>2. From(s, m + Len(p)) = {}
    <3>1. \A i \in 1 .. Len(s) : ~(m + Len(p) < i)
      BY <1>2, <1>3, <2>1
    <3> QED
      BY <3>1 DEF From
  <2>3. C = {}
    BY <1>1, <1>5, <1>12, <2>2 DEF Ahead
  <2>4. (first \ lost) \ Elements(got') \subseteq Missed
    BY <1>10, <1>14, <2>3 DEF Missed, Splits
  <2> QED
    BY <2>4, NoMoreIsMissed
<1> QED
  BY <1>6, <1>7, <1>16, <1>17, <1>18 DEF PIInv

LEMMA NoPageOK ==
  ASSUME PIInv, UNCHANGED <<rows, came, offset, count, first, early, lost, got, page>>,
         pageReply' \in {BadRequest, IrodsError} \/ pageReply' = pageReply
  PROVE  PIInv'
<1>1. AllRead' => AllRead
  BY DEF AllRead, BadRequest, IrodsError, Ok
<1>2. PTypeOK'
  BY DEF PIInv, PTypeOK
<1>3. Behind' = Behind
  BY DEF Behind
<1>4. Ahead' = Ahead /\ Elements(got)' = Elements(got)
  BY <1>3 DEF Ahead
<1>5. Missed' = Missed
  BY <1>4 DEF Missed
<1>6. RowsOK' /\ GotOK' /\ MissedOK' /\ ReadOK'
  BY <1>1, <1>4, <1>5 DEF PIInv, RowsOK, GotOK, MissedOK, ReadOK
<1> QED
  BY <1>2, <1>6 DEF PIInv

LEMMA PStepOK == PIInv /\ [PNext]_pvars => PIInv'
<1> SUFFICES ASSUME PIInv, [PNext]_pvars PROVE PIInv'
  OBVIOUS
<1>1. CASE RefusePage
  BY <1>1, NoPageOK DEF RefusePage
<1>2. CASE PageFails
  BY <1>2, NoPageOK DEF PageFails
<1>3. CASE UNCHANGED pvars
  BY <1>3, NoPageOK DEF pvars
<1> QED
  BY <1>1, <1>2, <1>3, RowComesOK, RowGoesOK, AskPageOK DEF PNext

THEOREM PInvariance == PSpec => []PIInv
  BY PInitOK, PStepOK, PTL DEF PSpec

\* However many rows come and go between however many pages, and wherever in
\* the order, rows are got again at most as often as one came before the offset,
\* and of the rows that stayed at most as many are missed as went.
THEOREM PagesMissOnlyWhatMoved == PSpec => []PagesCoverTheRows
<1>1. PIInv => PagesCoverTheRows
  <2> SUFFICES ASSUME PIInv PROVE PagesCoverTheRows
    OBVIOUS
  <2>1. {got[i] : i \in DOMAIN got} = Elements(got)
    BY PagingIsTyped DEF PIInv, Elements
  <2>2. Len(got) <= Cardinality(Elements(got)) + early
    <3>1. IsFiniteSet(Elements(got)) /\ IsFiniteSet(Elements(got) \cap Ahead)
      BY PagingIsTyped, FS_Intersection DEF PIInv
    <3>2. Cardinality(Elements(got)) \in Nat /\ Cardinality(Elements(got) \cap Ahead) \in Nat
      BY <3>1, FS_CardinalityType
    <3>3. Len(got) \in Nat /\ early \in Nat
      BY PagingIsTyped DEF PIInv
    <3> QED
      BY <3>2, <3>3 DEF PIInv, GotOK
  <2> QED
    BY <2>1, <2>2 DEF PagesCoverTheRows, PIInv, ReadOK
<1> QED
  BY <1>1, PInvariance, PTL

(***************************************************************************)
(* All of them, of which a behaviour is one                                *)
(***************************************************************************)

\* Whichever part a behaviour is of, the variables of all keep their types.
THEOREM AllTypeCorrect == MCSpec => []TypesOK
<1> DEFINE All4 == IInv /\ TIInv /\ SIInv /\ PIInv
<1>1. MCInit => All4
  BY InitOK, TInitOK, SInitOK, PInitOK DEF MCInit
<1>2. All4 /\ [MCNext]_<<part, vars, others>> => All4'
  <2>1. [MCNext]_<<part, vars, others>> =>
          [Next]_vars /\ [TNext]_tvars /\ [StatNext]_statVars /\ [PNext]_pvars
    BY DEF MCNext, others
  <2> QED
    BY <2>1, StepOK, TStepOK, SStepOK, PStepOK
<1>3. All4 => TypesOK
  BY DEF IInv, TIInv, SIInv, PIInv, TypesOK
<1>4. MCSpec => MCInit /\ [][MCNext]_<<part, vars, others>>
  BY PTL DEF MCSpec
<1> HIDE DEF All4
<1> QED
  BY <1>1, <1>2, <1>3, <1>4, PTL
=============================================================================
