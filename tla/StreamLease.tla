---------------------------- MODULE StreamLease ----------------------------
(***************************************************************************)
(* What parallel_write_init promises the writes that do not name a stream: *)
(* the streams of a handle are lent, each to one write at a time.  A write *)
(* gets the first that is not lent, keeps it until it has ended, and is    *)
(* turned away only if all of them are lent to others.                     *)
(***************************************************************************)
EXTENDS Integers

CONSTANTS
  Reqs,                \* Slots for the requests being serviced at one time.
  Handles,             \* The handles of parallel writes.
  MaxStreamsPerHandle, \* max_number_of_streams_per_parallel_write_handle
  NoLease              \* The lease of a request that has none.

VARIABLES
  streams, \* streams[h]: how many streams h offers, 0 before it is known.
  lease,   \* lease[r]: the stream <<h, i>> lent to r, or NoLease.
  busy     \* busy[r]: r was told that every stream is lent.

vars == <<streams, lease, busy>>

Init ==
  /\ streams = [h \in Handles |-> 0]
  /\ lease = [r \in Reqs |-> NoLease]
  /\ busy = [r \in Reqs |-> FALSE]

Free(h) == {i \in 0 .. streams[h] - 1 : \A q \in Reqs : lease[q] # <<h, i>>}

Offer(h, n) ==
  /\ streams[h] = 0
  /\ streams' = [streams EXCEPT ![h] = n]
  /\ UNCHANGED <<lease, busy>>

Take(r, h) ==
  /\ lease[r] = NoLease
  /\ \E i \in Free(h) :
       /\ \A j \in Free(h) : i <= j
       /\ lease' = [lease EXCEPT ![r] = <<h, i>>]
  /\ UNCHANGED <<streams, busy>>

Refuse(r, h) ==
  /\ lease[r] = NoLease
  /\ streams[h] > 0
  /\ Free(h) = {}
  /\ busy' = [busy EXCEPT ![r] = TRUE]
  /\ UNCHANGED <<streams, lease>>

End(r) ==
  /\ lease' = [lease EXCEPT ![r] = NoLease]
  /\ busy' = [busy EXCEPT ![r] = FALSE]
  /\ UNCHANGED streams

Next ==
  \/ \E h \in Handles, n \in 1 .. MaxStreamsPerHandle : Offer(h, n)
  \/ \E r \in Reqs, h \in Handles : Take(r, h) \/ Refuse(r, h)
  \/ \E r \in Reqs : End(r)

Spec == Init /\ [][Next]_vars
=============================================================================
