----------------------------- MODULE MCShutdown -----------------------------
(***************************************************************************)
(* Model-checking of BackgroundIo with its Shutdown.  Nothing depends on   *)
(* the name of a request, and an arrival is never fair: the requests of a  *)
(* burst are numbered by their kinds, whatever the order in which they     *)
(* arrive.                                                                 *)
(***************************************************************************)
EXTENDS Shutdown

Rank == [none |-> 0, short |-> 1, read |-> 2, write |-> 3, stream |-> 4]

Numbered ==
  \A q, r \in {s \in Reqs : Unfinished(s)} : q < r => Rank[kind[q]] <= Rank[kind[r]]
=============================================================================
