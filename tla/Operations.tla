----------------------------- MODULE Operations -----------------------------
(***************************************************************************)
(* Requests for the operations of EndpointOperations on one logical path.  *)
(*                                                                         *)
(* A handler checks its parameters, takes a connection, may ask the iRODS  *)
(* server what is at the path, checks the parameters that are left, makes  *)
(* its call and answers.  The server is asked and called in separate       *)
(* steps, and what is at the path is changed by the other requests in      *)
(* between.  A call may change several things, and fail after some; and    *)
(* what it did is unknown if the connection to the server breaks.          *)
(***************************************************************************)
EXTENDS EndpointOperations

CONSTANTS
  Slots, \* Slots for the requests being serviced.
  Ops    \* The operations that are requested.

ASSUME ConstantsAssumption == Ops \subseteq PathOperations \cup OtherOperations

VARIABLES
  entity, \* What is at the path.
  pc,     \* pc[r]: where the code of request r is.
  op,     \* op[r]: its operation.
  fault,  \* fault[r]: what is wrong with its parameters.
  answer, \* answer[r]: its answer.
  did,    \* did[r]: the kind of entity that its call worked on.
  whole,  \* whole[r]: its call did all that it is for.
  seen    \* seen[r]: the kinds that were at the path since r was received.

vars == <<entity, pc, op, fault, answer, did, whole, seen>>

NoAnswer == [http |-> 0, code |-> "none"]

NoOp == Basic("no operation")

Faults == {"none", "early", "late", "unread", "unknown"}

Steps == {"idle", "check", "connect", "inspect", "late", "call", "done", "dead"}

Init ==
  /\ entity \in Kinds
  /\ pc = [r \in Slots |-> "idle"]
  /\ op = [r \in Slots |-> NoOp]
  /\ fault = [r \in Slots |-> "none"]
  /\ answer = [r \in Slots |-> NoAnswer]
  /\ did = [r \in Slots |-> "nothing"]
  /\ whole = [r \in Slots |-> FALSE]
  /\ seen = [r \in Slots |-> {}]

Goto(r, next) == pc' = [pc EXCEPT ![r] = next] /\ UNCHANGED answer

Send(r, a) == pc' = [pc EXCEPT ![r] = "done"] /\ answer' = [answer EXCEPT ![r] = a]

-----------------------------------------------------------------------------
(* Before the call *)

Receive(r) ==
  /\ pc[r] = "idle"
  /\ \E o \in Ops, f \in Faults :
       /\ f \in o.faults \cup {"none"}
       /\ op' = [op EXCEPT ![r] = o]
       /\ fault' = [fault EXCEPT ![r] = f]
  /\ Goto(r, "check")
  /\ did' = [did EXCEPT ![r] = "nothing"]
  /\ whole' = [whole EXCEPT ![r] = FALSE]
  /\ seen' = [seen EXCEPT ![r] = {entity}]
  /\ UNCHANGED entity

RefuseAtOnce(r) ==
  /\ pc[r] = "check"
  /\ op[r].effect = "unavailable"
  /\ Send(r, NotImplemented)
  /\ UNCHANGED <<entity, op, fault, did, whole, seen>>

CheckParameters(r) ==
  /\ pc[r] = "check"
  /\ op[r].effect # "unavailable"
  /\ fault[r] # "unread"
  /\ IF fault[r] = "early" THEN Send(r, BadRequest) ELSE Goto(r, "connect")
  /\ UNCHANGED <<entity, op, fault, did, whole, seen>>

\* Connecting, the ticket or a question fails, or a value does not convert: an
\* exception is caught.
Fails(r) ==
  /\ pc[r] \in {"connect", "inspect", "late", "call"}
  /\ Send(r, op[r].thrown) \/ Send(r, ServerError)
  /\ UNCHANGED <<entity, op, fault, did, whole, seen>>

Connect(r) ==
  /\ pc[r] = "connect"
  /\ Goto(r, "inspect")
  /\ UNCHANGED <<entity, op, fault, did, whole, seen>>

\* Faulty variant: what exists is taken for what is needed.
Exists(r) == entity # "absent" \/ entity \in op[r].needs

\* is_data_object, is_collection, exists.
Fits(r) == entity \in op[r].needs

Inspect(r) ==
  /\ pc[r] = "inspect"
  /\ IF Fits(r) THEN Goto(r, "late") ELSE Send(r, op[r].mismatch)
  /\ UNCHANGED <<entity, op, fault, did, whole, seen>>

CheckLate(r) ==
  /\ pc[r] = "late"
  /\ IF fault[r] = "late" THEN Send(r, BadRequest) ELSE Goto(r, "call")
  /\ UNCHANGED <<entity, op, fault, did, whole, seen>>

-----------------------------------------------------------------------------
(* The call *)

\* What is at the path after the call.
After(r) ==
  LET e == op[r].effect
  IN IF e = "remove" THEN "absent"
     ELSE IF e = "make_collection" THEN "collection"
     ELSE IF e = "make_data_object" \/ (e = "touch" /\ entity = "absent")
     THEN "data_object" ELSE entity

\* The answer a, or the output of the call is no JSON.
Answer(r, a) == Send(r, a) \/ (op[r].output = "json" /\ Send(r, ServerError))

\* The call works on what is at the path, and leaves e there.
Works(r, all, e) ==
  /\ entity \in op[r].takes
  /\ entity' = e
  /\ did' = [did EXCEPT ![r] = entity]
  /\ whole' = [whole EXCEPT ![r] = all]
  /\ seen' = [s \in Slots |-> IF pc[s] = "idle" THEN {} ELSE seen[s] \cup {e}]

Call(r) ==
  /\ pc[r] = "call"
  /\ fault[r] # "unknown"
  /\ Works(r, TRUE, After(r))
  /\ Answer(r, Ok)
  /\ UNCHANGED <<op, fault>>

\* Faulty variant: the code that the call returns is not looked at.
CodeIgnored(r) == Ok

Refusal(r) == op[r].refusal

\* The server refuses, for the kind of the entity, for a permission or for
\* anything else; or it stops after a part, as the removal of a collection with
\* what is in it, or a rule; or it did it all, and the connection broke.
Refuse(r) ==
  /\ pc[r] = "call"
  /\ fault[r] # "unknown"
  /\ Answer(r, Refusal(r))
  /\ \/ UNCHANGED <<entity, did, whole, seen>>
     \/ \E e \in {entity, After(r)} : Works(r, FALSE, e)
     \/ Works(r, TRUE, After(r))
  /\ UNCHANGED <<op, fault>>

\* No branch handles the value: nothing is called.
PassOver(r) ==
  /\ pc[r] = "call"
  /\ fault[r] = "unknown"
  /\ Send(r, Ok)
  /\ UNCHANGED <<entity, op, fault, did, whole, seen>>

\* The process ends: a parameter that was not given is read, or a call that
\* succeeds has no lines of which the first could be erased.
Crash(r) ==
  /\ \/ pc[r] = "check" /\ fault[r] = "unread"
     \/ pc[r] = "call" /\ op[r].output = "lines"
  /\ pc' = [s \in Slots |-> "dead"]
  /\ UNCHANGED <<entity, op, fault, answer, did, whole, seen>>

\* The client has its answer; the slot serves another request.
Forget(r) ==
  /\ pc[r] = "done"
  /\ pc' = [pc EXCEPT ![r] = "idle"]
  /\ op' = [op EXCEPT ![r] = NoOp]
  /\ fault' = [fault EXCEPT ![r] = "none"]
  /\ answer' = [answer EXCEPT ![r] = NoAnswer]
  /\ did' = [did EXCEPT ![r] = "nothing"]
  /\ whole' = [whole EXCEPT ![r] = FALSE]
  /\ seen' = [seen EXCEPT ![r] = {}]
  /\ UNCHANGED entity

-----------------------------------------------------------------------------

Next ==
  \E r \in Slots :
    \/ Receive(r) \/ RefuseAtOnce(r) \/ CheckParameters(r) \/ Fails(r)
    \/ Connect(r) \/ Inspect(r) \/ CheckLate(r) \/ Call(r) \/ Refuse(r)
    \/ PassOver(r) \/ Crash(r) \/ Forget(r)

Spec == Init /\ [][Next]_vars

-----------------------------------------------------------------------------
(* What the code promises *)

\* The type of every variable: an answer has one of the forms that clients know.
TypeOK ==
  /\ entity \in Kinds
  /\ pc \in [Slots -> Steps]
  /\ op \in [Slots -> Ops \cup {NoOp}]
  /\ fault \in [Slots -> Faults]
  /\ answer \in [Slots -> Answers \cup {NoAnswer}]
  /\ \A r \in Slots : pc[r] = "done" => answer[r] \in Answers
  /\ did \in [Slots -> Kinds \cup {"nothing"}]
  /\ whole \in [Slots -> BOOLEAN]
  /\ seen \in [Slots -> SUBSET Kinds]

\* A change that is answered with the status_code 0 was made, all of it, or
\* what it asks for was there.  (Not promised for a property that
\* ResourcesModify passes over.)  A request that is refused by a check of the
\* handler has changed nothing.  Nothing is promised of one whose call failed:
\* it may have been done, or a part of it.
AnswersTellWhatWasDone ==
  \A r \in Slots :
    /\ answer[r] = Ok /\ op[r].effect # "none" /\ fault[r] # "unknown" =>
         whole[r] \/ (op[r].mismatch = Ok /\ seen[r] # {"absent"})
    /\ answer[r] \in Refusals \ {op[r].refusal} => did[r] = "nothing"

\* An operation works on an entity of its endpoint's kind, or one that was of
\* that kind earlier in the request.
KindOnTheWay ==
  \A r \in Slots : did[r] # "nothing" => seen[r] \cap op[r].about # {}
=============================================================================
