----------------------------- MODULE MCSession -----------------------------
(***************************************************************************)
(* Model-checking of a connection: a client that sends up to three         *)
(* requests (Session), and what becomes of the arguments of one            *)
(* (RequestArguments), which share no state.  A behaviour is of one of     *)
(* them.                                                                   *)
(***************************************************************************)
EXTENDS Session, RequestArguments

\* The op, nothing, what separates pairs, and what separates parts.
SomeValues ==
  { <<"x">>, <<>>, <<" ", "+">>, <<"&", "=">>, <<"crlf", "x">>, <<":", "crlf">> }

VARIABLE part

MCInit ==
  /\ part \in {"session", "arguments"}
  /\ Init /\ AInit
  /\ part = "session" => content = "other" /\ form = <<>>

MCNext ==
  /\ UNCHANGED part
  /\ \/ part = "session" /\ Next /\ UNCHANGED avars
     \/ part = "arguments" /\ ANext /\ UNCHANGED vars

MCSpec ==
  /\ MCInit /\ [][MCNext]_<<part, vars, avars>>
  /\ part = "session" => WF_vars(TimePasses) /\ WF_vars(Server)
  /\ part = "arguments" => WF_avars(ANext)

\* The type of every variable of both.
TypesOK == TypeOK /\ ATypeOK

\* SessionEnds of Session: no client keeps a session forever (do_read_header
\* and the timeout).  Dispatched of RequestArguments: whatever is sent, the
\* parser ends and execute_operation dispatches the request or refuses it.
Ends ==
  /\ part = "session" => SessionEnds
  /\ part = "arguments" => Dispatched
=============================================================================
