------------------------ MODULE EndpointOperations ------------------------
(***************************************************************************)
(* The operations of the endpoints that call the iRODS API once: what each *)
(* checks before the call, what the call works on, and how its outcome is  *)
(* answered.  The handlers all follow the order that the module Operations *)
(* gives; what differs from handler to handler is in these records:        *)
(*                                                                         *)
(*   faults   what may be wrong with the parameters of a request:          *)
(*            "early"    refused before a connection is taken              *)
(*            "late"     refused after the entity was looked at            *)
(*            "unread"   a required one is missing and not looked for      *)
(*            "unknown"  a value that no branch handles                    *)
(*   about    the kinds of entity that the endpoint is for                 *)
(*   needs    the kinds that the handler asks the server for, first        *)
(*   mismatch the answer when the entity is of another kind                *)
(*   takes    the kinds that the call of the iRODS API works on            *)
(*   effect   what the call does to the entity at the path                 *)
(*   refusal  the answer when the call fails                               *)
(*   thrown   the answer when an irods::exception is caught                *)
(*   output   what the output of the call is made into for the answer:     *)
(*            "json" is parsed, "lines" lose the first and the last        *)
(*                                                                         *)
(* The entity is what the logical path of the request names.  Operations   *)
(* on users, resources, zones and rules do not depend on it.               *)
(***************************************************************************)

Kinds == {"absent", "data_object", "collection"}

\* An answer: its HTTP status, and the status_code in its body.
Ok             == [http |-> 200, code |-> "zero"]
IrodsError     == [http |-> 200, code |-> "negative"]
BadRequest     == [http |-> 400, code |-> "none"]
RefusedByIrods == [http |-> 400, code |-> "negative"]
ServerError    == [http |-> 500, code |-> "none"]
GarbledError   == [http |-> 500, code |-> "negative"]
NotImplemented == [http |-> 501, code |-> "none"]

Refusals == {IrodsError, BadRequest, RefusedByIrods, GarbledError, NotImplemented}

Answers == Refusals \cup {Ok, ServerError}

\* Most handlers: a parameter is required, one call, and a status of 200 for
\* whatever iRODS answers.
Basic(name) ==
  [name |-> name, faults |-> {"early"}, about |-> Kinds, needs |-> Kinds,
   mismatch |-> RefusedByIrods, takes |-> Kinds, effect |-> "none",
   refusal |-> IrodsError, thrown |-> IrodsError, output |-> "none"]

\* Of users, groups, resources, zones, rules and specific queries.
Administer(name) == [Basic(name) EXCEPT !.effect = "modify"]

\* The kind is checked by the handler.
Checked(name, kind) ==
  [Basic(name) EXCEPT !.about = {kind}, !.needs = {kind}, !.takes = {kind}]

\* The kind is checked by the API that is called.
ForDataObject(name) ==
  [Basic(name) EXCEPT !.about = {"data_object"}, !.takes = {"data_object"},
                      !.effect = "modify"]

Unavailable(name) == [Basic(name) EXCEPT !.faults = {}, !.effect = "unavailable"]

Entities == {"data_object", "collection"}

-----------------------------------------------------------------------------
(* /collections *)

CollectionsList == Checked("collections list", "collection")

CollectionsStat ==
  [Checked("collections stat", "collection") EXCEPT !.mismatch = IrodsError]

CollectionsCreate ==
  [Basic("collections create") EXCEPT
     !.about = {"absent"}, !.takes = {"absent"}, !.effect = "make_collection"]

\* With create-intermediates: what exists is answered with created = false.
CollectionsCreateAll ==
  [CollectionsCreate EXCEPT
     !.name = "collections create all", !.about = {"absent", "collection"},
     !.needs = {"absent"}, !.mismatch = Ok, !.takes = {"absent", "collection"}]

CollectionsRemove ==
  [Checked("collections remove", "collection") EXCEPT
     !.takes = Entities, !.effect = "remove"]

CollectionsRename ==
  [Checked("collections rename", "collection") EXCEPT
     !.faults = {"early", "late"}, !.takes = Entities, !.effect = "remove",
     !.refusal = RefusedByIrods]

CollectionsSetPermission ==
  [Checked("collections set_permission", "collection") EXCEPT
     !.faults = {"early", "late"}, !.takes = Entities, !.effect = "modify"]

CollectionsSetInheritance ==
  [Checked("collections set_inheritance", "collection") EXCEPT
     !.effect = "modify"]

\* no_create is always set.
CollectionsTouch ==
  [Basic("collections touch") EXCEPT
     !.about = {"absent", "collection"}, !.needs = {"absent", "collection"},
     !.effect = "modify"]

-----------------------------------------------------------------------------
(* /data-objects *)

DataObjectsReplicate == ForDataObject("data_objects replicate")

DataObjectsTrim == ForDataObject("data_objects trim")

DataObjectsSetPermission ==
  [Checked("data_objects set_permission", "data_object") EXCEPT
     !.faults = {"early", "late"}, !.takes = Entities, !.effect = "modify"]

DataObjectsStat ==
  [Checked("data_objects stat", "data_object") EXCEPT !.mismatch = IrodsError]

\* A new data object, or with as-additional-replica a replica of one.
DataObjectsRegister ==
  [Basic("data_objects register") EXCEPT
     !.about = {"absent", "data_object"}, !.takes = {"absent", "data_object"},
     !.effect = "make_data_object"]

DataObjectsRemove ==
  [ForDataObject("data_objects remove") EXCEPT !.effect = "remove"]

DataObjectsRename ==
  [Checked("data_objects rename", "data_object") EXCEPT
     !.faults = {"early", "late"}, !.takes = Entities, !.effect = "remove"]

\* The copy is at another path.  The answer to a mismatch is sent without a
\* length (prepare_payload): it ends with the connection.
DataObjectsCopy ==
  [Checked("data_objects copy", "data_object") EXCEPT !.effect = "copy"]

DataObjectsTouch ==
  [Basic("data_objects touch") EXCEPT
     !.about = {"absent", "data_object"}, !.needs = {"absent", "data_object"},
     !.effect = "touch"]

\* With no-create: what is absent stays so, by an error of iRODS or without.
DataObjectsTouchOnly ==
  [DataObjectsTouch EXCEPT !.name = "data_objects touch no-create", !.effect = "modify"]

\* A missing size is not looked for: the condition names lpath a second time.
DataObjectsTruncate ==
  [ForDataObject("data_objects truncate") EXCEPT
     !.faults = {"early", "unread"}, !.output = "json"]

DataObjectsCalculateChecksum == ForDataObject("data_objects calculate_checksum")

DataObjectsVerifyChecksum ==
  [ForDataObject("data_objects verify_checksum") EXCEPT
     !.effect = "none", !.output = "json"]

\* The connection is taken first; the parameters are looked at after it.
DataObjectsModifyReplica ==
  [ForDataObject("data_objects modify_replica") EXCEPT !.faults = {"late"}]

-----------------------------------------------------------------------------
(* Shared by endpoints *)

ModifyPermissions(kind) ==
  [Checked("modify_permissions", kind) EXCEPT
     !.takes = Entities, !.effect = "modify", !.refusal = RefusedByIrods,
     !.output = "json"]

\* The server is told the kind.
ModifyMetadata(kind) ==
  [Basic("modify_metadata") EXCEPT
     !.about = {kind}, !.takes = {kind}, !.effect = "modify",
     !.refusal = RefusedByIrods, !.output = "json"]

\* Of users and resources.
ModifyMetadataOfName(name) ==
  [Administer(name) EXCEPT
     !.refusal = RefusedByIrods, !.output = "json"]

-----------------------------------------------------------------------------
(* /resources *)

ResourcesCreate == Administer("resources create")

ResourcesRemove == Administer("resources remove")

\* A property that is none of the known ones is passed over; the value of
\* status is looked at after the connection was taken.
ResourcesModify ==
  [Administer("resources modify") EXCEPT
     !.faults = {"early", "late", "unknown"}, !.refusal = RefusedByIrods,
     !.thrown = RefusedByIrods]

ResourcesAddChild == Administer("resources add_child")

ResourcesRemoveChild == Administer("resources remove_child")

ResourcesRebalance == Administer("resources rebalance")

ResourcesStat == Basic("resources stat")

-----------------------------------------------------------------------------
(* /users-groups *)

UsersCreateUser == Administer("users_groups create_user")

UsersRemoveUser == Administer("users_groups remove_user")

UsersSetPassword == Administer("users_groups set_password")

UsersSetUserType == Administer("users_groups set_user_type")

UsersAuth == Unavailable("users_groups add_user_auth, remove_user_auth")

UsersCreateGroup == Administer("users_groups create_group")

UsersRemoveGroup == Administer("users_groups remove_group")

UsersAddToGroup == Administer("users_groups add_to_group")

UsersRemoveFromGroup == Administer("users_groups remove_from_group")

\* No parameter is required.
UsersUsers == [Basic("users_groups users") EXCEPT !.faults = {}]

UsersGroups == [Basic("users_groups groups") EXCEPT !.faults = {}]

UsersMembers == Unavailable("users_groups members")

UsersIsMember == Basic("users_groups is_member_of_group")

-----------------------------------------------------------------------------
(* /zones, /rules, /query and /tickets *)

ZonesAdd == Administer("zones add")

ZonesRemove == Administer("zones remove")

\* A property that is none of the known ones is refused.
ZonesModify == [Administer("zones modify") EXCEPT !.faults = {"early", "late"}]

ZonesReport == [Basic("zones report") EXCEPT !.faults = {}]

ZonesStat == Basic("zones stat")

RulesExecute == Administer("rules execute")

RulesListRuleEngines ==
  [Basic("rules list_rule_engines") EXCEPT !.faults = {}, !.output = "lines"]

RulesRemoveDelayRule == Administer("rules remove_delay_rule")

QueryExecuteGenquery ==
  [Basic("query execute_genquery") EXCEPT !.faults = {"early", "late"}]

\* The answer to a failure is overwritten with the output, which is null then:
\* formatting it throws.
QueryExecuteGenquery2 ==
  [Basic("query execute_genquery genquery2") EXCEPT !.refusal = GarbledError]

\* Its parameters are looked at before the task is posted.
QueryExecuteSpecificQuery == Basic("query execute_specific_query")

QueryList == Unavailable("query list_genquery_columns, list_specific_queries")

\* A missing sql is not looked for: the condition names name a second time.
QueryAddSpecificQuery ==
  [Administer("query add_specific_query") EXCEPT !.faults = {"early", "unread"}]

QueryRemoveSpecificQuery == Administer("query remove_specific_query")

TicketsListStat == Unavailable("tickets list, stat")

TicketsRemove == Administer("tickets remove")

-----------------------------------------------------------------------------

PathOperations ==
  {CollectionsList, CollectionsStat, CollectionsCreate, CollectionsCreateAll,
   CollectionsRemove, CollectionsRename, CollectionsSetPermission,
   CollectionsSetInheritance, CollectionsTouch, DataObjectsReplicate,
   DataObjectsTrim, DataObjectsSetPermission, DataObjectsStat,
   DataObjectsRegister, DataObjectsRemove, DataObjectsRename, DataObjectsCopy,
   DataObjectsTouch, DataObjectsTouchOnly, DataObjectsTruncate,
   DataObjectsCalculateChecksum, DataObjectsVerifyChecksum,
   DataObjectsModifyReplica}
  \cup {ModifyPermissions(kind) : kind \in Entities}
  \cup {ModifyMetadata(kind) : kind \in Entities}

OtherOperations ==
  {ResourcesCreate, ResourcesRemove, ResourcesModify, ResourcesAddChild,
   ResourcesRemoveChild, ResourcesRebalance, ResourcesStat, UsersCreateUser,
   UsersRemoveUser, UsersSetPassword, UsersSetUserType, UsersAuth,
   UsersCreateGroup, UsersRemoveGroup, UsersAddToGroup, UsersRemoveFromGroup,
   UsersUsers, UsersGroups, UsersMembers, UsersIsMember, ZonesAdd, ZonesRemove,
   ZonesModify, ZonesReport, ZonesStat, RulesExecute, RulesListRuleEngines,
   RulesRemoveDelayRule, QueryExecuteGenquery, QueryExecuteGenquery2,
   QueryExecuteSpecificQuery, QueryList,
   QueryAddSpecificQuery, QueryRemoveSpecificQuery, TicketsListStat,
   TicketsRemove}
  \cup {ModifyMetadataOfName(name) : name \in {"users_groups modify_metadata",
                                               "resources modify_metadata"}}
=============================================================================
