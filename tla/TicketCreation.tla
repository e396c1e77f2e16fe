--------------------------- MODULE TicketCreation ---------------------------
(***************************************************************************)
(* op_create of the tickets endpoint: the ticket is made first, and its    *)
(* constraints are set one call at a time, each after its own parameter    *)
(* was converted.  Whatever fails, the ticket stays as it is by then.      *)
(*                                                                         *)
(* An int holds up to IntMax, a long long up to LongMax, and a time on the *)
(* system clock, which counts nanoseconds, up to SecondsMax seconds.       *)
(***************************************************************************)
EXTENDS EndpointOperations, Integers, Sequences

CONSTANTS
  Requested,   \* The parameters that requests have.
  NotGiven,    \* A parameter that is not there.
  NoNumber,    \* A value that is not a number.
  IntMax, LongMax, SecondsMax

Numbers == 0 - LongMax - 1 .. LongMax + 1

Limits == <<"use-count", "write-data-object-count", "write-byte-count">>

\* The parameters: whether lpath is there and type is a type, the limits, and
\* the users, groups and hosts that may use the ticket.
Parameters ==
  [named : BOOLEAN,
   limits : [1 .. 3 -> Numbers \cup {NotGiven, NoNumber}],
   expires : Numbers \cup {NotGiven, NoNumber},
   allowed : Seq({"user", "group", "host"} \X STRING)]

ASSUME TicketAssumption ==
  /\ IntMax \in Nat /\ SecondsMax \in Nat /\ LongMax \in Nat
  /\ IntMax <= SecondsMax /\ SecondsMax <= LongMax
  /\ NotGiven \notin Numbers /\ NoNumber \notin Numbers
  /\ \A p \in Requested : p \in Parameters

VARIABLES
  ticketStep, \* Where the request is.
  wanted,     \* Its parameters.
  position,   \* The number of calls of wanted that were made.
  made,       \* The ticket exists.
  bounds,     \* The constraints it has.
  ticketReply \* The answer; a good one tells the ticket.

tvars == <<ticketStep, wanted, position, made, bounds, ticketReply>>

Unanswered == [http |-> 0, code |-> "none"]

TInit ==
  /\ ticketStep = "check"
  /\ wanted \in Requested
  /\ position = 0
  /\ made = FALSE
  /\ bounds = {}
  /\ ticketReply = Unanswered

TSend(a) == ticketStep' = "ended" /\ ticketReply' = a

\* lpath and type.
CheckNames ==
  /\ ticketStep = "check"
  /\ IF wanted.named THEN ticketStep' = "create" /\ UNCHANGED ticketReply
     ELSE TSend(BadRequest)
  /\ UNCHANGED <<wanted, position, made, bounds>>

CreateTicket ==
  /\ ticketStep = "create"
  /\ made' = TRUE
  /\ ticketStep' = "constrain"
  /\ UNCHANGED <<wanted, position, bounds, ticketReply>>

\* Faulty variant: the exception does not leave the handler's main path.
GoOnWithout == ticketStep' = "constrain" /\ UNCHANGED ticketReply

GiveUp == TSend(IrodsError)

\* No connection, or nothing at the path that a ticket can be for.
CreateFails ==
  /\ ticketStep = "create"
  /\ GiveUp
  /\ UNCHANGED <<wanted, position, made, bounds>>

-----------------------------------------------------------------------------
(* The constraints *)

\* A limit that is not given is set to zero, which is none.
LimitsOf(p) ==
  [i \in 1 .. 3 |-> <<Limits[i], IF p.limits[i] = NotGiven THEN 0 ELSE p.limits[i]>>]

\* The calls that the parameters ask for, in order.
Constraints(p) ==
  LimitsOf(p)
  \o (IF p.expires = NotGiven THEN <<>> ELSE << <<"expire", p.expires>> >>)
  \o p.allowed

IsNumeric(c) == c[1] \notin {"user", "group", "host"}

\* std::stoi for the limits, std::stoll for the time: they throw.
Converts(c) ==
  IsNumeric(c) =>
    /\ c[2] # NoNumber
    /\ IF c[1] = "expire" THEN c[2] \in 0 - LongMax - 1 .. LongMax
       ELSE c[2] \in 0 - IntMax - 1 .. IntMax

InThePast(c) == c[1] = "expire" /\ c[2] \in Numbers /\ c[2] <= 0

\* What iRODS is told: a time beyond the clock overflows, and is any.
Told(c) ==
  IF c[1] = "expire" /\ c[2] > SecondsMax THEN {c[1]} \X Numbers ELSE {c}

Current == Constraints(wanted)[position + 1]

More == ticketStep = "constrain" /\ position < Len(Constraints(wanted))

SetConstraint ==
  /\ More
  /\ Converts(Current) /\ ~InThePast(Current)
  /\ \E c \in Told(Current) : bounds' = bounds \cup {c}
  /\ position' = position + 1
  /\ UNCHANGED <<ticketStep, wanted, made, ticketReply>>

\* The value is refused, before a call; the ticket stays.
RefuseValue ==
  /\ More
  /\ ~Converts(Current) \/ InThePast(Current)
  /\ TSend(IF Converts(Current) THEN BadRequest ELSE ServerError)
  /\ UNCHANGED <<wanted, position, made, bounds>>

\* Faulty variant: the code of rcTicketAdmin is not looked at.
GoOnUnlessThrown ==
  IF Current[1] = "expire"
  THEN position' = position + 1 /\ UNCHANGED <<ticketStep, ticketReply>>
  ELSE TSend(IrodsError) /\ UNCHANGED position

\* An exception, also where the code was returned.
Throw == TSend(IrodsError) /\ UNCHANGED position

\* iRODS refuses the constraint: no such user, no permission, no connection.
ConstraintFails ==
  /\ More
  /\ Converts(Current) /\ ~InThePast(Current)
  /\ Throw
  /\ UNCHANGED <<wanted, made, bounds>>

TellTicket ==
  /\ ticketStep = "constrain"
  /\ position = Len(Constraints(wanted))
  /\ TSend(Ok)
  /\ UNCHANGED <<wanted, position, made, bounds>>

TNext ==
  \/ CheckNames \/ CreateTicket \/ CreateFails
  \/ SetConstraint \/ RefuseValue \/ ConstraintFails \/ TellTicket

TSpec == TInit /\ [][TNext]_tvars

-----------------------------------------------------------------------------
(* What the code promises *)

\* The type of every variable; a ticket is left behind without an answer that
\* tells it, but never told without being there.
TTypeOK ==
  /\ ticketStep \in {"check", "create", "constrain", "ended"}
  /\ wanted \in Requested
  /\ position \in 0 .. Len(Constraints(wanted))
  /\ made \in BOOLEAN
  /\ ticketReply \in {Unanswered, Ok, BadRequest, IrodsError, ServerError}
  /\ ticketReply = Ok => made

\* A ticket that a client is told has every constraint that was asked for:
\* whoever gets hold of it is never less restricted than the owner meant.  A
\* time beyond the clock is the exception: its ticket ends at any time.
TicketAsAsked ==
  ticketReply = Ok =>
    \A i \in DOMAIN Constraints(wanted) :
      LET c == Constraints(wanted)[i]
      IN \/ c \in bounds
         \/ wanted.expires > SecondsMax /\ \E b \in bounds : c[1] = b[1]
=============================================================================
