---------------------------- MODULE MCOperations ----------------------------
(***************************************************************************)
(* Model-checking of what the endpoints' handlers do with the catalog.     *)
(* A behaviour is of one part; they share no state:                        *)
(*                                                                         *)
(*   paths    Operations: two requests at a time for any operation, so     *)
(*            that each changes what is at the path between the steps of   *)
(*            the other.  Nothing depends on the name of an operation: one *)
(*            stands for those that differ in their names only.            *)
(*   tickets  TicketCreation: a request with one thing or another wrong.   *)
(*   users    UserStat: a request while three bearers of the name change.  *)
(*   pages    QueryPaging: a client and four rows, two to a page.          *)
(***************************************************************************)
EXTENDS Operations, TicketCreation, UserStat, QueryPaging, TLC

Nameless(o) == [o EXCEPT !.name = "any"]

\* A constant, which TLC evaluates once; Ops <- All would be evaluated often.
Different ==
  LET Operation == PathOperations \cup OtherOperations
  IN {CHOOSE o \in Operation : Nameless(o) = n :
        n \in {Nameless(o) : o \in Operation}}

All == Different

Symmetry == Permutations(Slots)

\* Tickets with any first limit and any time; and with the other limits bad,
\* or the names.
TicketRequests ==
  LET Request(u, b, e, who) ==
        [named |-> TRUE, limits |-> <<u, NotGiven, b>>, expires |-> e, allowed |-> who]
      Given == {NotGiven, NoNumber, 0 - LongMax - 1, 0, 1, IntMax, IntMax + 1}
      Times == {NotGiven, NoNumber, 0, 1, SecondsMax, SecondsMax + 1, LongMax + 1}
      Who == { <<>>, << <<"user", "alice">>, <<"user", "bob">>, <<"host", "h">> >>,
               << <<"group", "g">> >> }
  IN {Request(u, b, e, w) : u \in Given, b \in {NotGiven, IntMax + 1}, e \in Times, w \in Who}
     \cup {[Request(1, 1, 1, <<>>) EXCEPT !.named = FALSE]}

Tickets == TicketRequests

VARIABLE part

others == <<tvars, statVars, pvars>>

MCInit ==
  /\ part \in {"paths", "tickets", "users", "pages"}
  /\ Init /\ TInit /\ StatInit /\ PInit
  /\ part # "paths" => entity = "absent"
  /\ part # "tickets" => wanted = CHOOSE p \in Requested : TRUE
  /\ part # "users" => zone = FALSE
  /\ part # "pages" => came = 0 /\ offset = 0 /\ count = 1

MCNext ==
  /\ UNCHANGED part
  /\ \/ part = "paths" /\ Next /\ UNCHANGED others
     \/ part = "tickets" /\ TNext /\ UNCHANGED <<vars, statVars, pvars>>
     \/ part = "users" /\ StatNext /\ UNCHANGED <<vars, tvars, pvars>>
     \/ part = "pages" /\ PNext /\ UNCHANGED <<vars, tvars, statVars>>

MCSpec == MCInit /\ [][MCNext]_<<part, vars, others>>

\* The type of every variable of the parts.
TypesOK == TypeOK /\ TTypeOK /\ StatTypeOK /\ PTypeOK
=============================================================================
