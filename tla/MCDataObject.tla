---------------------------- MODULE MCDataObject ----------------------------
(***************************************************************************)
(* Model-checking of the bytes of data objects.  A behaviour is of one     *)
(* part; they share no state:                                              *)
(*                                                                         *)
(*   read    DataObjectRead: an object of up to three bytes, which changes *)
(*           at most twice, read with a buffer of two: at once, or in two  *)
(*           chunks, with and without 4.2 compatibility.                   *)
(*   write   DataObjectWrite: two writes at a time, of up to three bytes   *)
(*           in chunks of two.                                             *)
(***************************************************************************)
EXTENDS DataObjectRead, DataObjectWrite, TLC

VARIABLE part

MCInit ==
  /\ part \in {"read", "write"}
  /\ RInit /\ Init
  /\ part = "write" =>
       object = <<>> /\ ~there /\ ~allowed /\ ~compat
         /\ asked = [lpath |-> FALSE, ticket |-> FALSE, replica |-> "any",
                     offset |-> 0, count |-> Absent]

ReadStep == part = "read" /\ Read /\ UNCHANGED <<part, vars>>

MCNext ==
  \/ part = "read" /\ RNext /\ UNCHANGED <<part, vars>>
  \/ part = "write" /\ Next /\ UNCHANGED <<part, rvars>>

MCSpec ==
  MCInit /\ [][MCNext]_<<part, rvars, vars>> /\ WF_<<part, rvars, vars>>(ReadStep)

\* The type of every variable of both.
TypesOK == RTypeOK /\ TypeOK

\* ReadEnds of DataObjectRead, for the behaviours that are of a read (a
\* behaviour of writes satisfies it at once).
EveryReadEnds == <>(part = "read" => place = "done")

\* The slots of the writes may be swapped.  In the behaviours of a read, which
\* are those that EveryReadEnds is about, all of them are idle: no two states
\* are merged there.
Symmetry == Permutations(Writers)
=============================================================================
